---------------------------- MODULE OptimumCache ----------------------------
(***************************************************************************)
(* The optimum path of vllm-rbln: the scheduler that gives every prefill a *)
(* step of its own (v1/core/optimum_scheduler.py), the two-level prefix    *)
(* cache underneath it (v1/core/prefix_cache_manager), and what the model  *)
(* runner does with the step it is handed                                  *)
(* (v1/worker/optimum_model_runner.py).                                    *)
(*                                                                         *)
(* vLLM allocates and hashes INNER blocks; the device only knows OUTER     *)
(* blocks, each holding Ratio inner ones.  A prefix hit is found on inner  *)
(* blocks, translated to outer blocks, and the K/V of those outer blocks   *)
(* is copied into the new request's own outer blocks.                      *)
(*                                                                         *)
(* kv is the device memory: the content of a slot of an outer block is the *)
(* prefix of text whose last token's K/V it holds.                         *)
(***************************************************************************)
EXTENDS Integers, Sequences, FiniteSets, SequencesExt, FiniteSetsExt

CONSTANTS
    Req,         \* requests
    Text,        \* a request's prompt followed by the tokens it will generate
    PromptLen,   \* how much of Text is the prompt
    IB,          \* tokens in an inner block (ib_size)
    Ratio,       \* inner blocks in an outer block (block_ratio)
    MaxReqs,     \* max_num_seqs
    MaxBlocks,   \* max_model_len / ob_size
    Configs,     \* deployments: how many inner blocks the pool has (the null
                 \* block left out), and whether the policy is FCFS or PRIORITY
    Prio,        \* a request's priority, the lower the more urgent
    CopyMayFail  \* may the device copy of cached K/V fail?

ASSUME OptimumAssumption ==
    /\ IB \in Nat \ {0, 1} /\ Ratio \in Nat \ {0}
    /\ MaxReqs \in Nat \ {0} /\ MaxBlocks \in Nat \ {0}
    /\ Configs \subseteq [inner : Nat, fcfs : BOOLEAN]
    /\ CopyMayFail \in BOOLEAN
    /\ \A r \in Req : /\ PromptLen[r] \in 1 .. Len(Text[r]) - 1
                      /\ Len(Text[r]) =< MaxBlocks * Ratio * IB
                      /\ \A c \in Configs : Len(Text[r]) =< c.inner * IB
    /\ \A r, s \in Req : r # s => Prio[r] # Prio[s]

OB == IB * Ratio

None == -1
Unset == <<>>

CeilDiv(a, b) == (a + b - 1) \div b
Chunk(s, k, n) == SubSeq(s, (k - 1) * n + 1, IF k * n < Len(s) THEN k * n ELSE Len(s))
Upto(n) == [k \in 1 .. n |-> k]

VARIABLES
    waiting,    \* Scheduler.waiting, in the order requests leave it
    running,    \* Scheduler.running
    nTok,       \* request.num_tokens
    nComp,      \* request.num_computed_tokens
    slot,       \* _cache_slot_ids
    pool,       \* vLLM's inner blocks: see PoolInit
    ob,         \* the outer blocks: see OuterInit
    kv,         \* device memory
    pc,         \* where the engine's step is
    idx,        \* req_index of the RUNNING loop
    out,        \* the scheduler output the runner is about to execute
    config      \* the deployment, chosen once

vars == <<waiting, running, nTok, nComp, slot, pool, ob, kv, pc, idx, out, config>>

Fcfs == config.fcfs
NumInner == config.inner

\* The outer blocks: as many as are needed to hold every inner block.  When
\* they are not enough for MaxReqs sequences of full length, one more is kept
\* for padding.
NumOuter == (NumInner + Ratio - 1) \div Ratio
Inner == 1 .. NumInner
Outer == 0 .. NumOuter - 1

is_full_block_available == NumOuter >= MaxReqs * MaxBlocks

-----------------------------------------------------------------------------
(***************************************************************************)
(* vLLM's inner blocks (external): a free queue, the block table of each   *)
(* request, the hash of each block, and the hashed blocks in the order     *)
(* they were hashed.                                                       *)
(***************************************************************************)
PoolInit == [free |-> Upto(NumInner), table |-> [r \in Req |-> <<>>],
             hash |-> [i \in Inner |-> Unset], hashed |-> <<>>]

\* Blocks are handed out from the head of the queue and lose their hash.
TakeInner(p, r, n) ==
    LET new == SubSeq(p.free, 1, n) IN
    [free   |-> SubSeq(p.free, n + 1, Len(p.free)),
     table  |-> [p.table EXCEPT ![r] = @ \o new],
     hash   |-> [i \in Inner |-> IF i \in Range(new) THEN Unset ELSE p.hash[i]],
     hashed |-> SelectSeq(p.hashed, LAMBDA i : i \notin Range(new))]

\* The first full blocks of a request are hashed by the text up to their end.
CacheBlocks(p, r, tokens) ==
    LET full == tokens \div IB
        new == SubSeq(p.table[r], 1, full)
    IN  [p EXCEPT !.hash = [i \in Inner |->
                     IF \E b \in 1 .. full : new[b] = i
                       THEN SubSeq(Text[r], 1, IB * CHOOSE b \in 1 .. full : new[b] = i)
                       ELSE @[i]],
                  !.hashed = @ \o new]

\* Freed blocks return in reverse: the unhashed ones to the head of the queue,
\* where they are reused first, the hashed ones to its tail.
FreeInner(p, r) ==
    LET back == Reverse(p.table[r]) IN
    [p EXCEPT !.free = SelectSeq(back, LAMBDA i : p.hash[i] = Unset) \o @
                         \o SelectSeq(back, LAMBDA i : p.hash[i] # Unset),
              !.table[r] = <<>>]

\* Fault: the last block with the hash.
LastBlock(p, h) ==
    LET same == SelectSeq(p.hashed, LAMBDA i : p.hash[i] = h) IN
    IF same = <<>> THEN None ELSE Last(same)

\* RBLNBlockHashToBlockMap: of the blocks with a hash the last one is the
\* request's own, because allocation comes before look-up; the one before it
\* is the hit.
get_one_block(p, h) ==
    LET same == SelectSeq(p.hashed, LAMBDA i : p.hash[i] = h) IN
    IF Len(same) < 2 THEN None ELSE same[Len(same) - 1]

\* The longest run of hits from the start of the text; at least one token is
\* left to compute.
get_computed_blocks(p, r) ==
    LET limit == (nTok[r] - 1) \div IB
        hit(b) == get_one_block(p, SubSeq(Text[r], 1, b * IB))
        n == CHOOSE n \in 0 .. limit :
                /\ \A b \in 1 .. n : hit(b) # None
                /\ n < limit => hit(n + 1) = None
    IN  [b \in 1 .. n |-> hit(b)]

-----------------------------------------------------------------------------
(***************************************************************************)
(* The outer blocks: the allocator's free deque, the inner blocks and the  *)
(* state of each mapping, the FIFO order of eviction, the reverse index    *)
(* from inner to outer blocks, and the outer blocks of each request.       *)
(***************************************************************************)
OuterInit == [free |-> [k \in 1 .. NumOuter |-> k - 1],
              list |-> [o \in Outer |-> <<>>],
              state |-> [o \in Outer |-> "unmapped"],
              order |-> <<>>,
              i2o |-> [i \in Inner |-> None],
              owned |-> [r \in Req |-> <<>>]]

\* _evict_block: the reverse index loses every inner block on the mapping's
\* list, whatever outer block it points to.
_evict_block(b, o) ==
    [b EXCEPT !.free = Append(@, o),
              !.list[o] = <<>>, !.state[o] = "unmapped",
              !.order = SelectSeq(@, LAMBDA q : q # o),
              !.i2o = [i \in Inner |-> IF i \in Range(b.list[o]) THEN None ELSE @[i]]]

EvictAll(b, os) == FoldLeft(_evict_block, b, os)

\* FIFOEvictionPolicy: the oldest mappings no request uses.
select_blocks_for_eviction(b, count) ==
    LET evictable == SelectSeq(b.order, LAMBDA o : b.state[o] = "inactive") IN
    IF Len(evictable) < count THEN <<>> ELSE SubSeq(evictable, 1, count)

\* Fault: counting the token about to be written as allocated.
ComputeOffByOne(newInner, tokens) ==
    IF newInner = 0 THEN 0
    ELSE IF tokens = 0 THEN CeilDiv(newInner, Ratio)
    ELSE IF ((tokens \div IB) + 1) % Ratio = 0 THEN 1 ELSE 0

_compute_num_blocks_to_allocate(newInner, tokens) ==
    IF newInner = 0 THEN 0
    ELSE IF tokens = 0 THEN CeilDiv(newInner, Ratio)
    ELSE IF (tokens \div IB) % Ratio = 0 THEN 1 ELSE 0

\* Fault: without eviction.
CanAllocateFree(b, newInner, tokens) ==
    [ok |-> _compute_num_blocks_to_allocate(newInner, tokens) =< Len(b.free), ob |-> b]

\* Asking evicts: the answer comes with the state it leaves behind.
can_allocate(b, newInner, tokens) ==
    LET short == _compute_num_blocks_to_allocate(newInner, tokens) - Len(b.free)
        victims == select_blocks_for_eviction(b, short)
    IN  IF short =< 0 THEN [ok |-> TRUE, ob |-> b]
        ELSE [ok |-> Len(victims) >= short, ob |-> EvictAll(b, victims)]

\* Fault: without _detach_inner_from_stale_outer.
AddNotDetached(b, o, inner) ==
    [b EXCEPT !.i2o = [i \in Inner |-> IF i \in Range(inner) THEN o ELSE @[i]]]

\* add_new_inner_to_outer: an inner block that vLLM hands out again leaves the
\* list of the outer block that held its previous content.
add_new_inner_to_outer(b, o, inner) ==
    [b EXCEPT !.list = [q \in Outer |->
                  IF q = o THEN @[q]
                  ELSE SelectSeq(@[q], LAMBDA i : ~(i \in Range(inner) /\ b.i2o[i] = q))],
              !.i2o = [i \in Inner |-> IF i \in Range(inner) THEN o ELSE @[i]]]

create_mapping(b, r, o, inner) ==
    add_new_inner_to_outer(
        [b EXCEPT !.list[o] = inner, !.state[o] = "active",
                  !.owned[r] = Append(@, o)], o, inner)

_allocate_new_blocks(b, r, n, inner) ==
    FoldLeft(LAMBDA c, k : [create_mapping(c, r, Head(c.free), Chunk(inner, k, Ratio))
                              EXCEPT !.free = Tail(@),
                                     !.order = Append(@, Head(c.free))],
             b, Upto(n))

_append_to_existing_block(b, o, inner) ==
    add_new_inner_to_outer([b EXCEPT !.list[o] = @ \o inner], o, inner)

allocate_blocks(b, r, tokens, inner) ==
    LET n == _compute_num_blocks_to_allocate(Len(inner), tokens) IN
    IF inner = <<>> THEN b
    ELSE IF b.owned[r] = <<>> \/ n > 0 THEN _allocate_new_blocks(b, r, n, inner)
    ELSE _append_to_existing_block(b, Last(b.owned[r]), inner)

\* A finished request leaves its blocks mapped for reuse; a preempted one has
\* them evicted.
free_request(b, r, preemption) ==
    LET mine == b.owned[r]
        gone == [b EXCEPT !.owned[r] = <<>>]
    IN  IF preemption THEN EvictAll(gone, mine)
        ELSE [gone EXCEPT !.state = [o \in Outer |->
                  IF o \in Range(mine) THEN "inactive" ELSE @[o]]]

\* Fault: the first inner block decides for the whole segment.
MatchedByFirst(b, seg) ==
    LET o == b.i2o[seg[1]]
    IN  IF o = None THEN [ob |-> None, n |-> 0] ELSE [ob |-> o, n |-> Len(seg)]

\* The outer block of a segment's first inner block, and how many of the
\* segment's inner blocks it holds in order.
get_longest_matched_block(b, seg) ==
    LET o == b.i2o[seg[1]]
        same(n) == n =< Len(b.list[o]) /\ \A k \in 1 .. n : b.list[o][k] = seg[k]
    IN  IF o = None THEN [ob |-> None, n |-> 0]
        ELSE [ob |-> o, n |-> CHOOSE n \in 0 .. Len(seg) :
                                 same(n) /\ (n < Len(seg) => ~same(n + 1))]

\* _try_match_request: segment by segment until one has no match at all.
_try_match_request(b, hits) ==
    LET match(k) == get_longest_matched_block(b, Chunk(hits, k, Ratio))
        segments == CeilDiv(Len(hits), Ratio)
        n == CHOOSE n \in 0 .. segments :
                /\ \A k \in 1 .. n : match(k).n > 0
                /\ n < segments => match(n + 1).n = 0
    IN  [blocks |-> [k \in 1 .. n |-> match(k).ob],
         lengths |-> [k \in 1 .. n |-> IB * match(k).n]]

-----------------------------------------------------------------------------
(***************************************************************************)
(* Device memory.                                                          *)
(***************************************************************************)
\* Where token p of a request lives, and what belongs there.
At(b, r, p) == <<b.owned[r][((p - 1) \div OB) + 1], ((p - 1) % OB) + 1>>
Own(r, p) == SubSeq(Text[r], 1, p)

\* copy_cached_kv_blocks, then the prefill of the tokens after the first
\* sum(lengths).  A slot that neither reaches keeps what it held, which is
\* recorded as Unset.
PrefillKV(r, hit) ==
    LET total == FoldLeft(LAMBDA s, x : s + x, 0, hit.lengths)
        content(p) ==
            LET seg == ((p - 1) \div OB) + 1
                at == ((p - 1) % OB) + 1
            IN  IF p > total THEN Own(r, p)
                ELSE IF seg =< Len(hit.blocks) /\ at =< hit.lengths[seg]
                       THEN kv[hit.blocks[seg]][at] ELSE Unset
    IN  [o \in Outer |-> [k \in 1 .. OB |->
            IF \E p \in 1 .. nTok[r] : At(ob, r, p) = <<o, k>>
              THEN content(CHOOSE p \in 1 .. nTok[r] : At(ob, r, p) = <<o, k>>)
              ELSE kv[o][k]]]

\* A decode step writes the last token of every scheduled request, and the
\* padding rows write the first slot of the dummy block.
DecodeKV(rs, dummy) ==
    [o \in Outer |-> [k \in 1 .. OB |->
        IF \E r \in rs : At(ob, r, nTok[r]) = <<o, k>>
          THEN LET r == CHOOSE r \in rs : At(ob, r, nTok[r]) = <<o, k>> IN Own(r, nTok[r])
          ELSE IF o = dummy /\ k = 1 THEN Unset ELSE kv[o][k]]]

-----------------------------------------------------------------------------
NoOut == [kind |-> "none"]

Init ==
    /\ config \in Configs
    /\ waiting = <<>> /\ running = <<>>
    /\ nTok = PromptLen
    /\ nComp = [r \in Req |-> 0]
    /\ slot = [r \in Req |-> None]
    /\ pool = PoolInit /\ ob = OuterInit
    /\ kv = [o \in Outer |-> [k \in 1 .. OB |-> Unset]]
    /\ pc = "idle" /\ idx = 1 /\ out = NoOut

Unfinished(r) == nTok[r] < Len(Text[r])
Queued(r) == r \in Range(waiting) \cup Range(running)

\* The waiting queue with a request put at its head (FCFS) or at the place its
\* priority gives it.
Requeue(r) ==
    IF Fcfs THEN <<r>> \o waiting
    ELSE SortSeq(Append(waiting, r), LAMBDA a, b : Prio[a] < Prio[b])

\* A request arrives.
AddRequest(r) ==
    /\ pc = "idle" /\ Unfinished(r) /\ ~Queued(r) /\ nTok[r] = PromptLen[r]
    /\ waiting' = IF Fcfs THEN Append(waiting, r) ELSE Requeue(r)
    /\ UNCHANGED <<running, nTok, nComp, slot, pool, ob, kv, pc, idx, out>>

\* allocate_slots, as far as it can fail: enough inner blocks, then enough
\* outer ones.
Needed(r) == CeilDiv(nTok[r], IB) - Len(pool.table[r])
Room(r) == can_allocate(ob, Needed(r), nComp[r])
CanSlot(r) == Needed(r) =< Len(pool.free) /\ Room(r).ok

\* allocate_slots, when it succeeds: inner blocks, outer blocks, hashes.
SlotPool(r, tokens) == CacheBlocks(TakeInner(pool, r, Needed(r)), r, tokens)
SlotOuter(r) ==
    allocate_blocks(Room(r).ob, r, nComp[r], SubSeq(pool.free, 1, Needed(r)))

CanAdmit == waiting # <<>> /\ Len(running) < MaxReqs /\ CanSlot(Head(waiting))

\* The lowest cache slot no request holds.
FreeSlot == Min((0 .. MaxReqs - 1) \ {slot[q] : q \in Req})

\* schedule, WAITING loop: one request is admitted, and has the step to itself.
\* Its blocks are allocated before the cache is searched.
SchedulePrefill ==
    /\ pc = "idle" /\ CanAdmit
    /\ LET r == Head(waiting)
           p == SlotPool(r, nTok[r])
           b == SlotOuter(r)
       IN  /\ pool' = p /\ ob' = b
           /\ out' = [kind |-> "prefill", req |-> r,
                      hit |-> _try_match_request(b, get_computed_blocks(p, r))]
           /\ waiting' = Tail(waiting) /\ running' = Append(running, r)
           /\ slot' = [slot EXCEPT ![r] = FreeSlot]
           /\ pc' = "execute"
    /\ UNCHANGED <<nTok, nComp, kv, idx>>

\* schedule, RUNNING loop, only when nothing was admitted.
StartDecode ==
    /\ pc = "idle" /\ ~CanAdmit /\ running # <<>>
    /\ pc' = "decode" /\ idx' = 1
    /\ UNCHANGED <<waiting, running, nTok, nComp, slot, pool, ob, kv, out>>

ScheduleDecode ==
    /\ pc = "decode" /\ idx =< Len(running) /\ CanSlot(running[idx])
    /\ pool' = SlotPool(running[idx], 1)
    /\ ob' = SlotOuter(running[idx])
    /\ idx' = idx + 1
    /\ UNCHANGED <<waiting, running, nTok, nComp, slot, kv, pc, out>>

\* The victim: the last to be admitted, or the least urgent.
Victim == IF Fcfs THEN Last(running)
          ELSE CHOOSE v \in Range(running) : \A q \in Range(running) : Prio[q] =< Prio[v]

\* _preempt_request: blocks, progress and cache slot are given up.  When the
\* victim is the request being scheduled, the loop ends with the ones before it.
Preempt ==
    /\ pc = "decode" /\ idx =< Len(running) /\ ~CanSlot(running[idx])
    /\ LET v == Victim
           at == CHOOSE k \in 1 .. Len(running) : running[k] = v
       IN  /\ running' = RemoveAt(running, at)
           /\ waiting' = Requeue(v)
           /\ nComp' = [nComp EXCEPT ![v] = 0]
           /\ slot' = [slot EXCEPT ![v] = None]
           /\ ob' = free_request(ob, v, TRUE)
           /\ pool' = FreeInner(pool, v)
           /\ idx' = IF at < idx THEN idx - 1 ELSE idx
           /\ pc' = IF at = idx THEN "close" ELSE "decode"
    /\ UNCHANGED <<nTok, kv, out>>

\* Fault: the last block of the pool for the one beside it.
DummyInPool == [block |-> NumOuter - 1, ok |-> TRUE, ob |-> ob]

\* get_dummy_block: the block beside the pool, or, in a full-size cache, a free
\* block, which may first have to be evicted.
get_dummy_block ==
    IF ~is_full_block_available THEN [block |-> NumOuter, ok |-> TRUE, ob |-> ob]
    ELSE LET room == can_allocate(ob, 1, 0) IN
         [block |-> IF room.ok THEN Head(room.ob.free) ELSE None,
          ok |-> room.ok, ob |-> room.ob]

\* The end of schedule: the dummy block, when the decode batch has padding
\* rows, and the output.  Nothing scheduled means nothing to execute.
FinishSchedule ==
    /\ pc = "close" \/ (pc = "decode" /\ idx > Len(running))
    /\ LET rs == SubSeq(running, 1, idx - 1)
           dummy == get_dummy_block
       IN  /\ IF Len(rs) \in 1 .. MaxReqs - 1
                THEN ob' = dummy.ob /\ out' = [kind |-> "decode", reqs |-> rs,
                                               dummy |-> dummy.block]
                ELSE ob' = ob /\ out' = [kind |-> "decode", reqs |-> rs, dummy |-> NumOuter]
           /\ pc' = IF rs = <<>> THEN "idle" ELSE "execute"
    /\ UNCHANGED <<waiting, running, nTok, nComp, slot, pool, kv, idx>>

\* update_from_output: every scheduled request gets its token; the ones that
\* are now complete leave, their outer blocks staying mapped.
Complete(rs) ==
    LET tok == [r \in Req |-> IF r \in Range(rs) THEN nTok[r] + 1 ELSE nTok[r]]
        done == SelectSeq(rs, LAMBDA r : tok[r] = Len(Text[r]))
    IN  /\ nTok' = tok
        /\ nComp' = [r \in Req |-> IF r \in Range(done) THEN 0
                                   ELSE IF r \in Range(rs) THEN nTok[r] ELSE nComp[r]]
        /\ running' = SelectSeq(running, LAMBDA r : r \notin Range(done))
        /\ slot' = [r \in Req |-> IF r \in Range(done) THEN None ELSE slot[r]]
        /\ ob' = FoldLeft(LAMBDA b, r : free_request(b, r, FALSE), ob, done)
        /\ pool' = FoldLeft(FreeInner, pool, done)

\* execute_model of a prefill; a failed copy falls back to computing the whole
\* prompt.
ExecutePrefill ==
    /\ pc = "execute" /\ out.kind = "prefill"
    /\ \/ kv' = PrefillKV(out.req, out.hit)
       \/ CopyMayFail /\ out.hit.blocks # <<>>
            /\ kv' = PrefillKV(out.req, [blocks |-> <<>>, lengths |-> <<>>])
    /\ Complete(<<out.req>>)
    /\ pc' = "idle" /\ out' = NoOut
    /\ UNCHANGED <<waiting, idx>>

ExecuteDecode ==
    /\ pc = "execute" /\ out.kind = "decode"
    /\ kv' = DecodeKV(Range(out.reqs), out.dummy)
    /\ Complete(out.reqs)
    /\ pc' = "idle" /\ out' = NoOut
    /\ UNCHANGED <<waiting, idx>>

\* A client gives up on a request.
Abort(r) ==
    /\ pc = "idle" /\ Queued(r)
    /\ waiting' = SelectSeq(waiting, LAMBDA q : q # r)
    /\ running' = SelectSeq(running, LAMBDA q : q # r)
    /\ nTok' = [nTok EXCEPT ![r] = Len(Text[r])]
    /\ nComp' = [nComp EXCEPT ![r] = 0]
    /\ slot' = [slot EXCEPT ![r] = None]
    /\ ob' = free_request(ob, r, FALSE)
    /\ pool' = FreeInner(pool, r)
    /\ UNCHANGED <<kv, pc, idx, out>>

EngineStep == SchedulePrefill \/ StartDecode \/ ScheduleDecode \/ Preempt
                \/ FinishSchedule \/ ExecutePrefill \/ ExecuteDecode

Next == /\ EngineStep \/ \E r \in Req : AddRequest(r) \/ Abort(r)
        /\ UNCHANGED config

Spec == Init /\ [][Next]_vars

\* The engine core's loop runs a step as long as it has requests to run: weak
\* fairness of EngineStep, with its ENABLED written out.
EngineBusy == pc # "idle" \/ CanAdmit \/ running # <<>>
FairSpec == Spec /\ ([]<>~EngineBusy \/ []<><<EngineStep>>_vars)

-----------------------------------------------------------------------------
(***************************************************************************)
(* What makes it correct.                                                  *)
(***************************************************************************)
Mapped(b) == {o \in Outer : b.state[o] # "unmapped"}

\* Types, and nothing is lost: an inner block is free or in one table, an outer
\* block is free or mapped, and the eviction order lists the mapped ones.
TypeOK ==
    /\ IsInjective(waiting \o running) /\ Range(waiting \o running) \subseteq Req
    /\ \A r \in Req : nTok[r] \in PromptLen[r] .. Len(Text[r]) /\ nComp[r] \in 0 .. nTok[r]
    /\ \A i \in Inner : Cardinality({r \in Req : i \in Range(pool.table[r])})
                          = IF i \in Range(pool.free) THEN 0 ELSE 1
    /\ IsInjective(pool.free) /\ IsInjective(pool.hashed)
    /\ IsInjective(ob.free) /\ Range(ob.free) = Outer \ Mapped(ob)
    /\ IsInjective(ob.order) /\ Range(ob.order) = Mapped(ob)
    /\ pc \in {"idle", "decode", "close", "execute"}

\* Reuse never mixes texts: every slot up to num_computed_tokens of a running
\* request holds the K/V of its own text, or a slot the prefill left alone;
\* never that of another text, whatever was evicted, reassigned or preempted.
KVIsOwn ==
    \A r \in Range(running) : \A p \in 1 .. nComp[r] :
        /\ p =< Len(ob.owned[r]) * OB
        /\ kv[At(ob, r, p)[1]][At(ob, r, p)[2]] \in {Own(r, p), Unset}

\* A prefix hit is a prefix: the prefill starts at sum(cached_length), so every
\* slot before it must have been copied (_try_match_request: "we only support
\* exact match of the inner blocks").
NoHole ==
    \A r \in Range(running) : \A p \in 1 .. nComp[r] :
        kv[At(ob, r, p)[1]][At(ob, r, p)[2]] # Unset

\* _detach_inner_from_stale_outer: the forward and the reverse index agree, so
\* evicting an outer block never erases the entry of a live inner block.
MapsAgree ==
    \A i \in Inner, o \in Outer : i \in Range(ob.list[o]) <=> ob.i2o[i] = o

\* The two levels agree: a running request's outer blocks list exactly the
\* inner blocks of its vLLM table, in order and Ratio to a block.
TablesAgree ==
    \A r \in Range(running) :
        /\ \A o \in Range(ob.owned[r]) : ob.state[o] = "active"
        /\ FoldLeft(LAMBDA s, o : s \o ob.list[o], <<>>, ob.owned[r]) = pool.table[r]
        /\ Len(ob.owned[r]) = CeilDiv(Len(pool.table[r]), Ratio)

\* get_matched_outer_blocks asserts that the cached blocks are not the
\* request's own: a copy never reads what the same step writes.  The look-up
\* rests on the request's own blocks being the last ones hashed.
HitIsAnothers ==
    (pc = "execute" /\ out.kind = "prefill") =>
        /\ Range(out.hit.blocks) \cap Range(ob.owned[out.req]) = {}
        /\ \A k \in 1 .. nTok[out.req] \div IB :
              LET h == SubSeq(Text[out.req], 1, k * IB)
              IN  Last(SelectSeq(pool.hashed, LAMBDA i : pool.hash[i] = h))
                    = pool.table[out.req][k]

\* get_dummy_block always finds a block, and no mapping, running or cached,
\* has it: the padding rows overwrite nothing.
DummyIsIdle ==
    (pc = "execute" /\ out.kind = "decode") => out.dummy \in {NumOuter} \cup Range(ob.free)

\* Beside its own blocks a step copies only from other requests' blocks
\* (get_matched_outer_blocks) and pads only into an idle one (get_dummy_block).
OthersUntouched == HitIsAnothers /\ DummyIsIdle

\* Every request finishes: preempting and starting over cannot go on for ever.
EveryoneFinishes == \A r \in Req : Queued(r) ~> ~Queued(r)
=============================================================================
