----------------------------- MODULE RBLNSchedule ------------------------------
(***************************************************************************)
(* RBLNScheduler (v1/core/rbln_scheduler.py) and RBLNAsyncScheduler: which  *)
(* requests a step runs, and the block tables it hands the model runner.    *)
(*                                                                          *)
(* RBLN compiles one graph per shape, so a step is a lone prefill or a      *)
(* batch of decodes, never both.  schedule() is one uninterrupted call of   *)
(* the engine thread; here it is a sequence of actions, one per iteration   *)
(* of its two loops, over the record s of its local variables.  Between two *)
(* calls the engine processes outputs, aborts requests and learns of        *)
(* finished KV transfers.                                                   *)
(*                                                                          *)
(* The KV pool is a count of blocks.  The block that is i-th in the table   *)
(* of a request is named <<e, i>>, where e changes with every preemption:   *)
(* enough to tell whether the runner's copy of the table is the right one.  *)
(* Local prefix hits, sampled tokens and draft acceptance are open choices. *)
(* Requests with encoder inputs and LoRA are left out: the runner of this   *)
(* scheduler serves text only, and max_loras only skips requests.           *)
(***************************************************************************)
EXTENDS Integers, FiniteSets, SequencesExt, Subsequences

CONSTANTS
    Req,             \* requests
    PromptLen,       \* PromptLen[r]
    MaxLen,          \* prompt plus max_tokens
    MaxModelLen,     \* max_model_len
    Hits,            \* lengths a local prefix match may have
    BlockSize,
    MaxTokens,       \* max_num_scheduled_tokens, the prefill chunk
    Priority,        \* Priority[r]: larger is less urgent, no two equal
    Configs          \* deployments

VARIABLE config      \* the one at hand

Arrival == config.arrival      \* Req in arrival order
Remote == config.remote        \* Remote[r]: tokens a KV connector offers r, 0 for none
NumBlocks == config.blocks
MaxNumSeqs == config.seqs      \* max_num_seqs
PP == config.pp                \* pipeline_parallel_size
Threshold == config.threshold  \* long_prefill_token_threshold, 0 for none
NumSpec == config.spec         \* num_spec_tokens, which num_lookahead_tokens is too
Eagle == config.eagle          \* use_eagle: the drafter is of that kind
Async == config.async          \* async_scheduling
Fcfs == config.fcfs            \* SchedulingPolicy.FCFS, else PRIORITY

Depth == IF Async THEN 2 ELSE PP    \* batches in flight
CeilDiv(a, b) == (a + b - 1) \div b

(* The platform refuses async scheduling with drafts or with PP, and fewer   *)
(* sequences than stages; a pool too small for max_model_len is refused too. *)
ASSUME ConfigsAssumption ==
    /\ MaxTokens \in Nat \ {0, 1} /\ BlockSize \in Nat \ {0}
    /\ Hits \subseteq Nat /\ MaxModelLen \in Nat
    /\ \A r \in Req : /\ MaxLen[r] \in Nat /\ MaxLen[r] <= MaxModelLen
                      /\ PromptLen[r] \in 1..(MaxLen[r] - 1) /\ Priority[r] \in Int
    /\ \A c \in Configs :
          /\ c.pp \in Nat \ {0} /\ c.seqs \in Nat \ {0} /\ c.pp <= c.seqs
          /\ c.threshold \in Nat /\ c.spec \in Nat /\ c.blocks \in Nat
          /\ c.fcfs \in BOOLEAN /\ c.async \in BOOLEAN /\ c.eagle \in BOOLEAN
          /\ c.async => c.spec = 0 /\ c.pp = 1
          /\ \A r \in Req : c.remote[r] \in 0..PromptLen[r]
          /\ CeilDiv(MaxModelLen, BlockSize) <= c.blocks

(* The deployments that this module is about.  Nothing in the code refuses    *)
(* the others.  A threshold of 1 cuts a prefill into chunks that the workers *)
(* take for decodes and sample; with three stages a preempted request may be *)
(* resumed while a step that held it is still in flight.                     *)
ASSUME ScopeAssumption ==
    \A c \in Configs : c.threshold # 1 /\ c.pp \in {1, 2}

VARIABLES
    status,     \* "new", "waiting", "remote", "preempted", "running" or "done"
    nTok, nComp, nOut,   \* num_tokens, num_computed_tokens, num_output_placeholders
    drafts,     \* len(request.spec_token_ids)
    epoch,      \* of the table: 0 if never preempted, then 1 and 2 in turn
    nBlk,       \* blocks the KV cache manager holds for the request
    running, waiting, skipped,       \* the three queues
    loading,    \* KV transfers in progress
    received,   \* finished_recving_kv_req_ids
    pending,    \* _pending_runner_block_deltas
    steps,      \* scheduler outputs not yet processed, oldest first
    runner,     \* the block tables of the model runner (its self.requests)
    s           \* the local variables of schedule()

tokVars == <<nTok, nComp, nOut, drafts>>
queueVars == <<running, waiting, skipped>>
kvVars == <<nBlk, loading, received, pending>>
vars == <<config, status, nTok, nComp, nOut, drafts, epoch, nBlk, running,
          waiting, skipped, loading, received, pending, steps, runner, s>>

(* A queue without the requests of R.                                        *)
Without(q, R) == Kept(q, Req \ R)

MinOf(a, b) == IF a < b THEN a ELSE b
Blocks(r, from, to) == [i \in 1..(to - from) |-> <<epoch[r], from + i>>]
Table(r) == Blocks(r, 0, nBlk[r])
FreeCount == NumBlocks - SumFunction(nBlk)
is_prefill(r) == nComp[r] < nTok[r] - 1

NoStep == [at |-> "idle", idx |-> 0, sched |-> <<>>, fresh |-> {},
           num |-> [r \in Req |-> 0], spec |-> [r \in Req |-> 0],
           delta |-> [r \in Req |-> <<>>], count |-> 0, soft |-> 1, tokens |-> 0,
           retry |-> <<>>, preempted |-> FALSE, broke |-> FALSE, aside |-> <<>>]
At(place) == s.at = place
(* Between two calls of schedule().  The engine does not call it again after *)
(* a call that scheduled nothing (at = "collect") before it has waited for   *)
(* the oldest batch in flight.                                               *)
Between == At("idle") \/ At("collect")

-----------------------------------------------------------------------------
(* DecodeBatchBudget.  soft: whether the soft cap applies.                   *)

decode_batch_size == MaxNumSeqs \div PP
SoftCap ==
    LET demand == Cardinality({r \in Range(running) : ~is_prefill(r)})
                  + Cardinality(received)
    IN  IF demand = 0 THEN 1 ELSE CeilDiv(demand, PP)

(* Fault: the compiled batch is taken to be max_num_seqs.                    *)
CanAdmitUnsplit(count, soft) == count < MaxNumSeqs /\ (soft => count < s.soft)

CanAdmit(count, soft) == count < decode_batch_size /\ (soft => count < s.soft)

-----------------------------------------------------------------------------
(* The running loop.                                                         *)

RawNew(r) == nTok[r] + drafts[r] + nOut[r] - nComp[r]

(* Fault: drafts held count as an anchor token.                              *)
should_defer_spec_stepDrafts(r) == NumSpec > 0 /\ RawNew(r) < 0

should_defer_spec_step(r) ==
    /\ NumSpec > 0
    /\ IF drafts[r] > 0 THEN RawNew(r) - drafts[r] <= 0 ELSE RawNew(r) < 0

(* Async scheduling never runs past max_tokens.                              *)
ReachesMax(r) == nOut[r] > 0 /\ nComp[r] + 2 - nOut[r] >= MaxLen[r]
Limited(n) == IF Threshold > 0 THEN MinOf(n, Threshold) ELSE n
NumNew(r) == MinOf(MinOf(Limited(RawNew(r)), s.tokens), MaxModelLen - 1 - nComp[r])
Skippable(r) == ReachesMax(r) \/ should_defer_spec_step(r) \/ NumNew(r) = 0

(* allocate_slots: the blocks for n tokens and a look-ahead for the drafts.  *)
Reach(n, ahead) == MinOf(n + ahead, MaxModelLen)
Slots(n, ahead) == CeilDiv(Reach(n, ahead), BlockSize)
Needed(r, n) ==
    LET more == Slots(nComp[r] + n, NumSpec) - nBlk[r] IN IF more > 0 THEN more ELSE 0

(* s.retry is <<request, num_new_tokens>> while allocate_slots is repeated    *)
(* for a request: what was decided about it is not decided again.            *)
Retrying == s.retry # <<>>
InRunningLoop ==
    /\ At("running") /\ ~s.broke
    /\ Retrying \/ (s.idx <= Len(running) /\ s.tokens > 0)
Current == IF Retrying THEN s.retry[1] ELSE running[s.idx]
CurrentNew == IF Retrying THEN s.retry[2] ELSE NumNew(Current)
Allocates == InRunningLoop /\ (Retrying \/ ~Skippable(Current))

(* Guard (A): a trailing prefill is scheduled alone.                         *)
FirstIndex ==
    IF running # <<>> /\ is_prefill(Last(running)) THEN Len(running) ELSE 1

StartStep ==
    /\ At("idle")
    /\ Len(steps) < Depth
    /\ \E r \in Req : status[r] \notin {"new", "done"}
    /\ s' = [NoStep EXCEPT !.at = "running", !.idx = FirstIndex, !.soft = SoftCap,
                           !.tokens = MaxTokens]
    /\ UNCHANGED <<status, tokVars, epoch, queueVars, kvVars, steps, runner>>

SkipRunning ==
    /\ InRunningLoop /\ ~Retrying /\ Skippable(Current)
    /\ s' = [s EXCEPT !.idx = @ + 1]
    /\ UNCHANGED <<status, tokVars, epoch, queueVars, kvVars, steps, runner>>

ScheduleRunning ==
    /\ Allocates
    /\ LET r == Current
           n == CurrentNew
           spec == n + nComp[r] - nTok[r] - nOut[r]
       IN
       /\ Needed(r, n) <= FreeCount
       /\ nBlk' = [nBlk EXCEPT ![r] = @ + Needed(r, n)]
       /\ drafts' = [drafts EXCEPT ![r] = 0]
       /\ s' = [s EXCEPT !.sched = Append(@, r), !.count = @ + 1, !.idx = @ + 1,
                         !.retry = <<>>, !.tokens = @ - n, !.num[r] = n,
                         !.spec[r] = IF drafts[r] > 0 /\ spec > 0 THEN spec ELSE 0,
                         !.delta[r] = Blocks(r, nBlk[r], nBlk[r] + Needed(r, n)),
                         !.broke = ~CanAdmit(s.count + 1, TRUE)]
    /\ UNCHANGED <<status, nTok, nComp, nOut, epoch, queueVars, loading,
                   received, pending, steps, runner>>

(* Fault: the override is missing.                                           *)
PendingAfterLeavingKept(r) == pending

(* The override of _preempt_request drops the undelivered blocks.            *)
PendingAfterLeaving(r) == [pending EXCEPT ![r] = <<>>]

Victim ==
    IF Fcfs THEN Last(running)
    ELSE CHOOSE v \in Range(running) :
            \A q \in Range(running) : Priority[q] <= Priority[v]

(* The victim of a PRIORITY preemption may already be in this step.          *)
Unscheduled(v) ==
    IF v \in Range(s.sched)
    THEN [s EXCEPT !.sched = Without(@, {v}), !.count = @ - 1, !.idx = @ - 1,
                   !.tokens = @ + s.num[v], !.num[v] = 0, !.spec[v] = 0,
                   !.delta[v] = <<>>]
    ELSE s

(* allocate_slots failed: a victim is preempted and, unless it was the       *)
(* request itself, the allocation is tried again.                            *)
PreemptForRunning ==
    /\ Allocates
    /\ Needed(Current, CurrentNew) > FreeCount
    /\ LET v == Victim IN
       /\ s' = [Unscheduled(v) EXCEPT !.preempted = TRUE, !.broke = (v = Current),
                                   !.retry = <<Current, CurrentNew>>]
       /\ status' = [status EXCEPT ![v] = "preempted"]
       /\ nComp' = [nComp EXCEPT ![v] = 0]
       /\ drafts' = [drafts EXCEPT ![v] = 0]
       /\ epoch' = [epoch EXCEPT ![v] = IF @ = 1 THEN 2 ELSE 1]
       /\ nBlk' = [nBlk EXCEPT ![v] = 0]
       /\ running' = Without(running, {v})
       /\ waiting' = <<v>> \o waiting
       /\ pending' = PendingAfterLeaving(v)
    /\ UNCHANGED <<nTok, nOut, skipped, loading, received, steps, runner>>

(* Guard (B): a scheduled prefill skips the waiting loop.                    *)
EntersWaitingLoop ==
    ~s.preempted /\ ~(s.sched # <<>> /\ is_prefill(Head(s.sched)))

EndRunningLoop ==
    /\ At("running") /\ ~InRunningLoop
    /\ s' = [s EXCEPT !.at = IF EntersWaitingLoop THEN "waiting" ELSE "output"]
    /\ UNCHANGED <<status, tokVars, epoch, queueVars, kvVars, steps, runner>>

-----------------------------------------------------------------------------
(* The waiting loop.                                                         *)

Queued == skipped \o waiting
Candidate ==
    IF Fcfs THEN Head(Queued)
    ELSE CHOOSE r \in Range(Queued) :
            \A q \in Range(Queued) : Priority[r] <= Priority[q]
Popped(r) == waiting' = Without(waiting, {r}) /\ skipped' = Without(skipped, {r})

WaitingOpen ==
    /\ At("waiting") /\ Queued # <<>> /\ s.tokens > 0
    /\ Len(running) < MaxNumSeqs
    /\ CanAdmit(s.count, status[Candidate] = "remote")

(* A transfer still in progress: the request is set aside for this step.     *)
SetAside ==
    /\ WaitingOpen
    /\ status[Candidate] = "remote" /\ Candidate \notin received
    /\ Popped(Candidate)
    /\ s' = [s EXCEPT !.aside = <<Candidate>> \o @]
    /\ UNCHANGED <<status, tokVars, epoch, running, kvVars, steps, runner>>

(* _try_promote_blocked_waiting_request: a full match leaves one token.      *)
Promote ==
    /\ WaitingOpen
    /\ status[Candidate] = "remote" /\ Candidate \in received
    /\ LET r == Candidate IN
       /\ status' = [status EXCEPT ![r] = IF epoch[r] > 0 THEN "preempted" ELSE "waiting"]
       /\ nComp' = [nComp EXCEPT ![r] = IF @ = nTok[r] THEN @ - 1 ELSE @]
       /\ received' = received \ {r}
    /\ UNCHANGED <<nTok, nOut, drafts, epoch, queueVars, nBlk, loading, pending,
                   steps, runner, s>>

Considered(r) == WaitingOpen /\ Candidate = r /\ status[r] # "remote"
(* The connector offers a request its remote tokens once: a waiting request  *)
(* that holds blocks has had its transfer.                                   *)
Offered(r) == nComp[r] = 0 /\ status[r] = "waiting" /\ nBlk[r] = 0 /\ Remote[r] > 0
LocalHits(r) == {h \in Hits : h < nTok[r]}
(* What r is taken to have computed when it is scheduled, not loaded.  A     *)
(* local match that covers as much as the connector's wins.                  *)
Computed(r) ==
    IF nComp[r] > 0 THEN {nComp[r]}
    ELSE {h \in LocalHits(r) : Offered(r) => h >= Remote[r]}

(* full_sequence_must_fit                                                    *)
SequenceFits(r) == CeilDiv(nTok[r], BlockSize) - nBlk[r] <= FreeCount
Fits(r, b) == SequenceFits(r) /\ b - nBlk[r] <= FreeCount
RemoteSlots(r) == Slots(Remote[r], IF Eagle THEN 0 ELSE NumSpec)
Chunk(r, c) == MinOf(Limited(nTok[r] - c), MaxTokens)
AdmitSlots(r, c) == Slots(c + Chunk(r, c), NumSpec)

(* load_kv_async: blocks for the remote tokens, and nothing scheduled.       *)
LoadRemote ==
    /\ WaitingOpen
    /\ LET r == Candidate IN
       /\ Considered(r) /\ Offered(r)
       /\ \E h \in LocalHits(r) : h < Remote[r]
       /\ Fits(r, RemoteSlots(r))
       /\ Popped(r)
       /\ status' = [status EXCEPT ![r] = "remote"]
       /\ nComp' = [nComp EXCEPT ![r] = Remote[r]]
       /\ nBlk' = [nBlk EXCEPT ![r] = RemoteSlots(r)]
       /\ loading' = loading \cup {r}
       /\ s' = [s EXCEPT !.aside = <<r>> \o @]
    /\ UNCHANGED <<nTok, nOut, drafts, epoch, running, received, pending, steps,
                   runner>>

(* Fault: guard (C) is missing.                                              *)
MustDeferNever(r) == FALSE

(* Guard (C): a prefill does not join requests admitted in this step.        *)
MustDefer(r) == is_prefill(r) /\ s.fresh # {}

(* Guard (D): the decodes give way; what they were allocated stays theirs    *)
(* and is handed to the runner when they run again.                          *)
EvictedPending ==
    [r \in Req |-> IF r \in Range(s.sched) THEN pending[r] \o s.delta[r] ELSE pending[r]]
EvictedDrafts ==
    [r \in Req |-> IF r \in Range(s.sched) THEN s.spec[r] ELSE drafts[r]]

WithPrefill(r, n, table) ==
    [s EXCEPT !.at = "output", !.fresh = @ \cup {r}, !.sched = <<>>, !.count = 0,
              !.tokens = MaxTokens,
              !.num = [q \in Req |-> IF q = r THEN n
                                     ELSE IF q \in Range(s.sched) THEN 0 ELSE @[q]],
              !.spec = [q \in Req |-> IF q \in Range(s.sched) THEN 0 ELSE @[q]],
              !.delta = [q \in Req |-> IF q = r THEN table
                                       ELSE IF q \in Range(s.sched) THEN <<>> ELSE @[q]]]

AdmitWaiting ==
    /\ WaitingOpen
    /\ LET r == Candidate IN
       /\ Considered(r)
       /\ ~MustDefer(r)
       /\ \E c \in Computed(r) :
          LET n == Chunk(r, c)
              table == Blocks(r, 0, AdmitSlots(r, c))
          IN
          /\ Fits(r, AdmitSlots(r, c))
          /\ Popped(r)
          /\ running' = Append(running, r)
          /\ status' = [status EXCEPT ![r] = "running"]
          /\ nComp' = [nComp EXCEPT ![r] = c]
          /\ nBlk' = [nBlk EXCEPT ![r] = Len(table)]
          /\ IF c < nTok[r] - 1
             THEN /\ s' = WithPrefill(r, n, table)
                  /\ pending' = EvictedPending
                  /\ drafts' = EvictedDrafts
             ELSE /\ s' = [s EXCEPT !.fresh = @ \cup {r}, !.num[r] = n, !.count = @ + 1,
                                    !.tokens = @ - n, !.delta[r] = table]
                  /\ UNCHANGED <<pending, drafts>>
    /\ UNCHANGED <<nTok, nOut, epoch, loading, received, steps, runner>>

(* allocate_slots returns None for a request that would be loaded or run.    *)
AllocationFails(r) ==
    \/ \E c \in Computed(r) : ~Fits(r, AdmitSlots(r, c))
    \/ Offered(r) /\ (\E h \in LocalHits(r) : h < Remote[r]) /\ ~Fits(r, RemoteSlots(r))

(* Every way out of the loop that admits nothing.                            *)
EndWaitingLoop ==
    /\ At("waiting")
    /\ \/ ~WaitingOpen
       \/ /\ WaitingOpen /\ Considered(Candidate)
          /\ \/ AllocationFails(Candidate)
             \/ MustDefer(Candidate) /\ Computed(Candidate) # {}
    /\ s' = [s EXCEPT !.at = "output"]
    /\ UNCHANGED <<status, tokVars, epoch, queueVars, kvVars, steps, runner>>

-----------------------------------------------------------------------------
(* The scheduler's output and the engine around it.                          *)

Scheduled == Range(s.sched) \cup s.fresh

(* What the runner's _update_states makes of the output: new and resumed     *)
(* requests come with a whole table, the others with what they gained,       *)
(* pending blocks first (_drain_pending_runner_block_deltas).                *)
Delivered(r) ==
    IF r \in s.fresh THEN s.delta[r]
    ELSE IF r \in Range(s.sched) THEN runner[r] \o pending[r] \o s.delta[r] ELSE runner[r]

(* A step that samples: it computes the request's last token.                *)
Emits(r) == nComp[r] + s.num[r] - s.spec[r] >= nTok[r] + nOut[r]

(* Fault: the requests set aside are dropped.                                *)
RequeuedLost == skipped

(* prepend_requests: ahead of the older ones, in the order they were met.    *)
Requeued == Reverse(s.aside) \o skipped

(* The end of schedule(), and the outputs reaching the workers in order.     *)
Output ==
    /\ At("output")
    /\ steps' = IF Scheduled = {} THEN steps
                ELSE Append(steps, [num |-> Restrict(s.num, Scheduled),
                                    spec |-> Restrict(s.spec, Scheduled),
                                    emit |-> {r \in Scheduled : Emits(r)},
                                    prefill |-> {r \in Scheduled : is_prefill(r)}])
    /\ nComp' = [r \in Req |-> IF r \in Scheduled THEN nComp[r] + s.num[r] ELSE nComp[r]]
    /\ nOut' = [r \in Req |-> IF Async /\ r \in Scheduled /\ Emits(r)
                              THEN nOut[r] + 1 ELSE nOut[r]]
    /\ pending' = [r \in Req |-> IF r \in Range(s.sched) THEN <<>> ELSE pending[r]]
    /\ runner' = [r \in Req |-> Delivered(r)]
    /\ skipped' = Requeued
    /\ s' = [NoStep EXCEPT !.at = IF Scheduled = {} /\ steps # <<>> THEN "collect" ELSE "idle"]
    /\ UNCHANGED <<status, nTok, drafts, epoch, running, waiting, nBlk, loading,
                   received>>

(* finish_requests and the overridden _free_request, for the requests of R.  *)
Finished(R) ==
    /\ status' = [r \in Req |-> IF r \in R THEN "done" ELSE status[r]]
    /\ running' = Without(running, R)
    /\ waiting' = Without(waiting, R)
    /\ skipped' = Without(skipped, R)
    \* A transfer in progress keeps its blocks until it ends.
    /\ nBlk' = [r \in Req |-> IF r \in R \ loading THEN 0 ELSE nBlk[r]]
    /\ received' = received \ R
    /\ pending' = [r \in Req |-> IF r \in R THEN <<>> ELSE pending[r]]

(* update_from_output (vLLM's) on the oldest step, then the drafts the       *)
(* workers made for the newest one (EngineCore.post_step).                   *)
UpdateFromOutput ==
    /\ Between /\ steps # <<>>
    /\ LET step == Head(steps)
           out == {r \in step.emit : status[r] # "done"}
           newest == {r \in Last(steps).emit : status[r] = "running"}
       IN
       \E acc \in [out -> 0..NumSpec] :
         LET nt == [r \in Req |-> IF r \in out THEN nTok[r] + 1 + acc[r] ELSE nTok[r]]
             rejected(r) == IF r \in out /\ nComp[r] > 0 THEN step.spec[r] - acc[r] ELSE 0
             full == {r \in out : nt[r] >= MaxLen[r]}
         IN
         /\ \A r \in out : acc[r] <= step.spec[r] /\ nt[r] <= MaxLen[r]
         /\ nTok' = nt
         /\ nComp' = [r \in Req |-> nComp[r] - rejected(r)]
         /\ nOut' = [r \in Req |-> IF Async /\ r \in out THEN nOut[r] - 1 ELSE nOut[r]]
         /\ \E stop \in SUBSET out : Finished(full \cup stop)
         /\ \E d \in [newest -> 0..NumSpec] :
              drafts' = [r \in Req |->
                  IF r \in newest /\ status'[r] = "running"
                  THEN d[r] ELSE drafts[r]]
    /\ steps' = Tail(steps)
    /\ s' = NoStep
    /\ UNCHANGED <<epoch, loading, runner>>

(* add_request: the next request arrives.                                    *)
AddRequest(r) ==
    /\ At("idle") /\ status[r] = "new"
    /\ r = SelectSeq(Arrival, LAMBDA q : status[q] = "new")[1]
    /\ status' = [status EXCEPT ![r] = "waiting"]
    /\ waiting' = Append(waiting, r)
    /\ UNCHANGED <<tokVars, epoch, running, skipped, kvVars, steps, runner, s>>

(* A client's abort, handled between two calls of schedule().                *)
Abort(r) ==
    /\ At("idle") /\ status[r] \notin {"new", "done"}
    /\ Finished({r})
    /\ UNCHANGED <<tokVars, epoch, loading, steps, runner, s>>

(* The worker reports a finished transfer.                                   *)
FinishRecving(r) ==
    /\ At("idle") /\ r \in loading
    /\ loading' = loading \ {r}
    /\ IF status[r] = "done"
       THEN nBlk' = [nBlk EXCEPT ![r] = 0] /\ UNCHANGED received
       ELSE received' = received \cup {r} /\ UNCHANGED nBlk
    /\ UNCHANGED <<status, tokVars, epoch, queueVars, pending, steps, runner, s>>

(* Nothing is left to do.                                                    *)
AllDone ==
    /\ At("idle") /\ steps = <<>> /\ loading = {} /\ \A r \in Req : status[r] = "done"
    /\ UNCHANGED vars

Init ==
    /\ config \in Configs
    /\ status = [r \in Req |-> "new"]
    /\ nTok = PromptLen
    /\ nComp = [r \in Req |-> 0]
    /\ nOut = [r \in Req |-> 0]
    /\ drafts = [r \in Req |-> 0]
    /\ epoch = [r \in Req |-> 0]
    /\ nBlk = [r \in Req |-> 0]
    /\ running = <<>> /\ waiting = <<>> /\ skipped = <<>>
    /\ loading = {} /\ received = {}
    /\ pending = [r \in Req |-> <<>>]
    /\ steps = <<>>
    /\ runner = [r \in Req |-> <<>>]
    /\ s = NoStep

Schedule ==
    /\ UNCHANGED config
    /\ \/ StartStep
       \/ SkipRunning \/ ScheduleRunning \/ PreemptForRunning \/ EndRunningLoop
       \/ SetAside \/ Promote \/ LoadRemote \/ AdmitWaiting \/ EndWaitingLoop
       \/ Output

Engine ==
    /\ UNCHANGED config
    /\ UpdateFromOutput

Received(r) ==
    /\ UNCHANGED config
    /\ FinishRecving(r)

Client(r) ==
    /\ UNCHANGED config
    /\ AddRequest(r) \/ Abort(r)

Next ==
    \/ Schedule
    \/ Engine
    \/ \E r \in Req : Client(r) \/ Received(r)
    \/ AllDone

Spec == Init /\ [][Next]_vars

(* The engine keeps calling schedule(), waits for the oldest batch when      *)
(* there is nothing to schedule or the pipeline is full, and polls the       *)
(* connector in every step.                                                  *)
Fairness ==
    /\ WF_vars(Schedule)
    /\ SF_vars(Engine)
    /\ SF_vars(\E r \in Req : Received(r))
FairSpec == Spec /\ Fairness

-----------------------------------------------------------------------------
(* The phase as the workers see it.                                          *)

(* Fault: draft tokens count as prompt tokens.                               *)
step_is_prefillDrafts(step) == \E r \in DOMAIN step.num : step.num[r] > 1

step_is_prefill(step) == \E r \in DOMAIN step.num : step.num[r] - step.spec[r] > 1

-----------------------------------------------------------------------------
(* Properties.                                                               *)

(* Types, with two bounds that take the whole scheduler: the KV of the last  *)
(* token of a request is never computed, and blocks are never overdrawn.     *)
TypeOK ==
    /\ status \in [Req -> {"new", "waiting", "remote", "preempted", "running", "done"}]
    /\ \A r \in Req : /\ nTok[r] \in PromptLen[r]..MaxLen[r]
                      /\ nComp[r] \in 0..(MaxLen[r] + NumSpec - 1) /\ nComp[r] < MaxModelLen
                      /\ nOut[r] \in 0..Depth /\ drafts[r] \in 0..NumSpec
                      /\ epoch[r] \in 0..2 /\ nBlk[r] \in 0..NumBlocks
    /\ loading \cup received \subseteq Req /\ loading \cap received = {}
    /\ FreeCount >= 0 /\ Len(steps) <= Depth
    /\ s.count >= 0 /\ s.tokens \in 0..MaxTokens

(* No mixed batching: a step is all decodes, or one prefill and nothing      *)
(* else, whatever mixture of preemptions, promotions and drafts led to it.   *)
(* Guard (A) looks only at the last running request, which is enough only if *)
(* no other one is still prefilling.                                         *)
NeverMixed ==
    /\ Between => \A i \in 1..(Len(running) - 1) : ~is_prefill(running[i])
    /\ \A i \in 1..Len(steps) :
         steps[i].prefill # {} => Cardinality(DOMAIN steps[i].num) = 1

(* The phase every pipeline rank reads off the output (step_is_prefill) is   *)
(* the one the scheduler decided on, for the thresholds of ScopeAssumption:  *)
(* apart from a threshold of 1, nothing cuts a chunk of a prefill to a token.*)
PhaseAgrees == \A i \in 1..Len(steps) : step_is_prefill(steps[i]) <=> steps[i].prefill # {}

(* A step that verifies drafts also computes the token they were drawn from: *)
(* the rejection sampler indexes the logits at that anchor.                  *)
Anchored ==
    \A i \in 1..Len(steps) : \A r \in DOMAIN steps[i].num :
        steps[i].num[r] - steps[i].spec[r] >= 1

(* A decode batch never exceeds the compiled batch of a pipeline stage, and  *)
(* the admission count is the size of the batch.                             *)
FitsCompiledBatch ==
    /\ \A i \in 1..Len(steps) : Cardinality(DOMAIN steps[i].num) <= decode_batch_size
    /\ At("waiting") => s.count = Len(s.sched) + Cardinality(s.fresh)

(* schedule() only makes steps that a graph was compiled for: one prefill or *)
(* decodes alone, and no more of them than the compiled batch holds.         *)
StepFitsGraph == NeverMixed /\ FitsCompiledBatch

(* Between two calls the runner's table of every running request, plus what  *)
(* is pending for it, is the manager's table: no block id is lost, doubled   *)
(* or left over from before a preemption.  And the runner can address every  *)
(* position the newest step computes, and the ones after it that the drafter *)
(* writes: pending blocks are handed over with the step that needs them, not *)
(* after it.                                                                 *)
RunnerTableExact ==
    Between => \A r \in Req : status[r] = "running" =>
        /\ runner[r] \o pending[r] = Table(r)
        /\ steps # <<>> /\ r \in DOMAIN Last(steps).num =>
              Len(runner[r]) * BlockSize >= Reach(nComp[r], NumSpec)

(* Nobody starves: every request finishes, whatever is preempted, evicted or *)
(* waited for on the way.                                                    *)
EveryoneFinishes == \A r \in Req : status[r] = "waiting" ~> status[r] = "done"
=============================================================================
