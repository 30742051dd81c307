----------------------------- MODULE NixlSteps -----------------------------
(***************************************************************************)
(* The NIXL connector in the steps of one engine (rbln_nixl's scheduler    *)
(* side, base_scheduler.py; its deferred reads, connector.py, and the      *)
(* places of execute_model and _dummy_run that issue them).                *)
(*                                                                         *)
(* A request may fetch the KV of a prefix of its prompt from a peer, may   *)
(* have a local prefix hit, prefills the rest in chunks, and may be one    *)
(* whose decode runs elsewhere: then its blocks are staged on the host     *)
(* when its prefill ends, and leased to the peer when it finishes.         *)
(* The engine is synchronous, so that a step is one action; reads end on   *)
(* their own, and requests are preempted and aborted between steps.        *)
(*                                                                         *)
(* Memory is by slot: block b has slots 1..Block, and a slot holds the K/V *)
(* of <<r, p>>, position p of request r.  vLLM's own scheduler side and    *)
(* the pairing of block lists on the read path are external.               *)
(***************************************************************************)
EXTENDS Integers, Sequences, FiniteSets, SequencesExt

CONSTANTS
    Req, BlockId,
    Configs,        \* deployments: see ConfigsAssumption
    MaxPreempt      \* bound on preemptions

VARIABLES
    config,
    status,     \* status[r]: see Unfinished
    computed,   \* num_computed_tokens
    table,      \* the request's blocks
    content,    \* device memory
    staged,     \* the host buffer, laid out like the device's blocks
    needSave,   \* _reqs_need_save
    ledger,     \* _block_ids_need_save; <<>> for no entry
    saved,      \* saved[r]: the blocks of the save that was handed to the worker
    needRecv,   \* _reqs_need_recv: fetches not yet in a step's metadata
    held,       \* _deferred_load_meta: {reqs} for a step's metadata, {} for None
    reading,    \* reads that were issued and have not ended
    arrived,    \* reads that ended and are not yet reported
    tripped,    \* the assertion of start_load_kv has failed
    preempts

mem == <<content, staged>>
saves == <<needSave, ledger, saved>>
reads == <<needRecv, held, reading, arrived, tripped>>
vars == <<config, status, computed, table, mem, saves, reads, preempts>>

ASSUME BlockIdAssumption == BlockId \subseteq Int

\* A prefix hit is of whole blocks and leaves a token to compute.
ASSUME ConfigsAssumption ==
    \A c \in Configs :
        /\ c.block \in Nat \ {0} /\ c.chunk \in Nat \ {0} /\ c.host \in BOOLEAN
        /\ \A r \in Req : LET q == c.req[r] IN
              /\ q.prompt \in Nat \ {0} /\ q.remote \in Nat /\ q.serve \in BOOLEAN
              /\ q.hit \in 0 .. q.prompt - 1 /\ q.hit % c.block = 0

Prompt(r) == config.req[r].prompt
Hit(r) == config.req[r].hit           \* tokens of the local prefix hit
Remote(r) == config.req[r].remote     \* tokens the peer holds, 0 for no peer
Serves(r) == config.req[r].serve      \* do_remote_decode

Unfinished == {r \in Req : status[r] \notin {"leased", "done"}}
CeilDiv(a, b) == (a + b - 1) \div b
BlocksFor(n) == CeilDiv(n, config.block)
Free == BlockId \ UNION {ToSet(table[r]) : r \in Req}

\* The place of block b in the list bs, 0 for none.
PlaceIn(bs, b) == IF b \in ToSet(bs) THEN CHOOSE k \in DOMAIN bs : bs[k] = b ELSE 0

\* The slots of blocks bs that hold positions from..to - 1 of the prompt.
Written(m, r, bs, from, to) ==
    [b \in BlockId |-> [s \in 1..config.block |->
        LET p == (PlaceIn(bs, b) - 1) * config.block + s - 1
        IN  IF PlaceIn(bs, b) > 0 /\ from <= p /\ p < to THEN <<r, p>> ELSE m[b][s]]]

Owns(m, r, n) == \A p \in 0..n - 1 :
    m[table[r][(p \div config.block) + 1]][(p % config.block) + 1] = <<r, p>>

None == {}    \* no metadata is held; a held one is {reqs}

Init ==
    /\ config \in Configs
    /\ status = [r \in Req |-> "waiting"] /\ computed = [r \in Req |-> 0]
    /\ table = [r \in Req |-> <<>>]
    /\ content = [b \in BlockId |-> [s \in 1..config.block |-> <<>>]] /\ staged = content
    /\ needSave = {} /\ ledger = [r \in Req |-> <<>>] /\ saved = [r \in Req |-> <<>>]
    /\ needRecv = {} /\ held = None /\ reading = {} /\ arrived = {} /\ tripped = FALSE
    /\ preempts = 0

-----------------------------------------------------------------------------
(* Admission.                                                                *)

\* Fault: the fetch is rounded to the boundary above.
RoundedUp(r) ==
    LET count == IF Remote(r) > Hit(r) THEN Remote(r) - Hit(r) ELSE 0
        resume == Hit(r) + count
        overshoot == resume % config.chunk
    IN  IF resume >= Prompt(r) \/ overshoot = 0 THEN count ELSE count + config.chunk - overshoot

\* The tokens to fetch, 0 for no match: the fetch ends on a chunk boundary
\* unless nothing is left to prefill.
get_num_new_matched_tokens(r) ==
    LET count == IF Remote(r) > Hit(r) THEN Remote(r) - Hit(r) ELSE 0
        resume == Hit(r) + count
        overshoot == resume % config.chunk
    IN  CASE resume >= Prompt(r) \/ overshoot = 0 -> count
          [] overshoot >= count -> 0
          [] OTHER -> count - overshoot

\* Any free blocks for the first n tokens, in the order of their ids.
NewBlocks(r, n) ==
    {bs \in [1 .. BlocksFor(n) - Len(table[r]) -> Free] :
        \A i, j \in DOMAIN bs : i < j => bs[i] < bs[j]}

\* update_state_after_alloc.
NeedsSave(r) == needSave \cup IF config.host /\ Serves(r) THEN {r} ELSE {}

\* An asynchronous load: the request waits for it with its blocks.
AdmitFetch(r) ==
    /\ status[r] = "waiting" /\ computed[r] = 0 /\ get_num_new_matched_tokens(r) > 0
    /\ \E bs \in NewBlocks(r, Hit(r) + get_num_new_matched_tokens(r)) :
         /\ table' = [table EXCEPT ![r] = bs]
         /\ content' = Written(content, r, bs, 0, Hit(r))
    /\ status' = [status EXCEPT ![r] = "remote"]
    /\ computed' = [computed EXCEPT ![r] = Hit(r) + get_num_new_matched_tokens(r)]
    /\ needRecv' = needRecv \cup {r} /\ needSave' = NeedsSave(r)
    /\ UNCHANGED <<config, staged, ledger, saved, held, reading, arrived, tripped, preempts>>

-----------------------------------------------------------------------------
(* The worker's part of a step.  recv is what the metadata lists.            *)

\* execute_model issues a read that is still held, then start_load_kv keeps
\* this step's; the forward pass, if there is one, issues that too.
Flushed(h) == UNION h

\* Fault: execute_model relies on the previous step's forward pass.
NoEntry(h) == h
EntryFlush(h) == None

Loads(forward) ==
    /\ tripped' = (tripped \/ EntryFlush(held) # None)
    /\ held' = IF forward THEN None ELSE {needRecv}
    /\ reading' = reading \cup (Flushed(held) \ Flushed(EntryFlush(held)))
                          \cup IF forward THEN needRecv ELSE {}
    /\ needRecv' = {}

\* get_finished: the scheduler resumes a request, or frees one aborted.
Statuses == [r \in Req |->
    IF r \notin arrived THEN status[r]
    ELSE IF status[r] = "remote" THEN "ready" ELSE "done"]
Tables == [r \in Req |->
    IF r \in arrived /\ status[r] = "aborted" THEN <<>> ELSE table[r]]

-----------------------------------------------------------------------------
(* One prefill chunk, from its schedule to update_from_output.               *)

Startable(r) ==
    \/ status[r] \in {"ready", "running", "preempted"}
    \/ status[r] = "waiting" /\ get_num_new_matched_tokens(r) = 0

Start(r) == IF status[r] = "waiting" THEN Hit(r) ELSE computed[r]
End(r) == IF Start(r) + config.chunk < Prompt(r) THEN Start(r) + config.chunk ELSE Prompt(r)

\* Fault: a resumed request's blocks are added to those collected before.
Extended(r, bs, resumed) ==
    IF bs = <<>> THEN ledger[r] ELSE IF ledger[r] = <<>> THEN bs ELSE ledger[r] \o bs
Collected(r, bs, resumed) ==
    IF bs = <<>> THEN ledger[r]
    ELSE IF resumed \/ ledger[r] = <<>> THEN bs ELSE ledger[r] \o bs

\* The request's blocks as the step's scheduler output has them: all of them
\* for a new or a resumed request, else the new ones.
_build_save_meta(r, bs) ==
    LET resumed == status[r] = "preempted"
        sent == IF status[r] = "running" THEN bs ELSE table[r] \o bs
        list == Collected(r, sent, resumed)
    IN  IF r \notin NeedsSave(r) THEN UNCHANGED saves
        ELSE IF End(r) < Prompt(r)
        THEN ledger' = [ledger EXCEPT ![r] = list] /\ needSave' = NeedsSave(r) /\ UNCHANGED saved
        ELSE /\ ledger' = [ledger EXCEPT ![r] = <<>>]
             /\ saved' = [saved EXCEPT ![r] = list]
             /\ needSave' = NeedsSave(r) \ {r}

\* wait_for_save, at the end of the step in which the prefill ends.
Copied(r, m) ==
    [b \in BlockId |-> IF End(r) >= Prompt(r) /\ r \in NeedsSave(r) /\ b \in ToSet(saved'[r])
                       THEN m[b] ELSE staged[b]]

Prefill(r) ==
    /\ Startable(r) /\ computed[r] < Prompt(r) /\ ~tripped
    /\ \E bs \in NewBlocks(r, End(r)) :
         LET all == table[r] \o bs
             hit == IF status[r] = "waiting" THEN Hit(r) ELSE 0
         IN  /\ table' = [Tables EXCEPT ![r] = all]
             /\ content' = Written(Written(content, r, all, 0, hit), r, all, Start(r), End(r))
             /\ _build_save_meta(r, bs)
    /\ staged' = Copied(r, content')
    /\ Loads(TRUE)
    /\ computed' = [computed EXCEPT ![r] = End(r)]
    /\ status' = [Statuses EXCEPT ![r] =
                    IF End(r) < Prompt(r) THEN "running" ELSE IF Serves(r) THEN "leased" ELSE "decode"]
    /\ arrived' = {}
    /\ UNCHANGED <<config, preempts>>

Idle(forward) ==
    /\ ~tripped
    /\ Loads(forward)
    /\ status' = Statuses /\ table' = Tables
    /\ arrived' = {}
    /\ UNCHANGED <<config, computed, mem, saves, preempts>>

\* A forward pass of requests whose prompt is computed.
Decodes(r) == status[r] = "decode" \/ (status[r] = "ready" /\ computed[r] >= Prompt(r))
Decode == (\E r \in Req : Decodes(r)) /\ Idle(TRUE)

\* kv_connector_no_forward: a step with nothing to run.
NoForward == Unfinished # {} /\ Idle(FALSE)

\* An idle data-parallel rank's dummy pass.
_dummy_run ==
    /\ held # None
    /\ reading' = reading \cup Flushed(held) /\ held' = None
    /\ UNCHANGED <<config, status, computed, table, mem, saves, needRecv, arrived, tripped,
                   preempts>>

-----------------------------------------------------------------------------
(* The peer, and the requests' other steps.                                  *)

\* Upstream's _apply_prefix_caching: the peer's list is longer by the blocks
\* that the reader did not ask for, and its end is taken.
PairedFrom(r) == BlocksFor(Remote(r)) - (Len(table[r]) - (Hit(r) \div config.block))

ReadEnds(r) ==
    /\ r \in reading
    /\ LET k == Hit(r) \div config.block
           dst == SubSeq(table[r], k + 1, Len(table[r]))
           from == PairedFrom(r) * config.block
       IN  content' = [b \in BlockId |-> [s \in 1..config.block |->
               LET p == from + (PlaceIn(dst, b) - 1) * config.block + s - 1
               IN  IF PlaceIn(dst, b) > 0 /\ p < Remote(r) THEN <<r, p>> ELSE content[b][s]]]
    /\ reading' = reading \ {r} /\ arrived' = arrived \cup {r}
    /\ UNCHANGED <<config, status, computed, table, staged, saves, needRecv, held, tripped,
                   preempts>>

Preempt(r) ==
    /\ status[r] = "running" /\ preempts < MaxPreempt
    /\ status' = [status EXCEPT ![r] = "preempted"]
    /\ computed' = [computed EXCEPT ![r] = 0] /\ table' = [table EXCEPT ![r] = <<>>]
    /\ preempts' = preempts + 1
    /\ UNCHANGED <<config, mem, saves, reads>>

\* request_finished of an abort.  A read in progress keeps its blocks.
Abort(r) ==
    /\ status[r] \in {"waiting", "remote", "ready", "running", "preempted", "decode"}
    /\ ledger' = [ledger EXCEPT ![r] = <<>>]
    /\ IF status[r] = "remote"
       THEN status' = [status EXCEPT ![r] = "aborted"] /\ UNCHANGED table
       ELSE status' = [status EXCEPT ![r] = "done"] /\ table' = [table EXCEPT ![r] = <<>>]
    /\ UNCHANGED <<config, computed, mem, needSave, saved, reads, preempts>>

\* The last decode step here, or the peer has read the leased blocks.
Finish(r) ==
    /\ Decodes(r) \/ status[r] = "leased"
    /\ status' = [status EXCEPT ![r] = "done"] /\ table' = [table EXCEPT ![r] = <<>>]
    /\ UNCHANGED <<config, computed, mem, saves, reads, preempts>>

Step == NoForward \/ Decode \/ \E r \in Req : Prefill(r)

Next ==
    \/ Step \/ _dummy_run
    \/ \E r \in Req : AdmitFetch(r) \/ ReadEnds(r) \/ Preempt(r) \/ Abort(r) \/ Finish(r)

Spec == Init /\ [][Next]_vars

(* The engine steps while it has unfinished requests, the ones that wait for *)
(* a read included, and a read that was issued ends.                         *)
FairSpec == Spec /\ WF_vars(Step) /\ \A r \in Req : WF_vars(ReadEnds(r))

-----------------------------------------------------------------------------
(* Properties.                                                               *)

(* Whatever the request counts as computed, fetched or prefilled, holds its  *)
(* own K/V: across trimmed fetches, prefix hits, preemptions and late reads. *)
PromptKVIsOwn ==
    \A r \in Req : status[r] \in {"ready", "running", "decode", "leased"}
        => Owns(content, r, computed[r])

(* What a request leases through the host buffer was copied there from its   *)
(* own blocks, all of them and in their order, whatever was collected before *)
(* a preemption.                                                             *)
LeasedIsStaged ==
    \A r \in Req : status[r] = "leased" /\ config.host
        => saved[r] = table[r] /\ Owns(staged, r, Prompt(r))

(* A request that waits for its KV, or was aborted while it did, does not    *)
(* wait for ever, with or without forward passes in the steps that follow:   *)
(* no held read is lost ("losing a held read strands its request"), and the  *)
(* assertion of start_load_kv does not stop the engine.                      *)
WaitsEnd == \A r \in Req : status[r] \in {"remote", "aborted"} ~> status[r] \notin {"remote", "aborted"}
=============================================================================
