----------------------------- MODULE SubBlockCache -----------------------------
(***************************************************************************)
(* Sub-block prefix caching, end to end: RBLNKVCacheManager                 *)
(* (v1/core/rbln_kv_cache_manager.py), the calls RBLNScheduler makes to it  *)
(* (schedule, _preempt_request, _free_request, update_from_output), vLLM's  *)
(* block pool underneath, and the worker that runs the copy operations and  *)
(* the forward pass of each step.                                           *)
(*                                                                          *)
(* A request is a fixed token stream: its prompt, then what the model would *)
(* generate.  The KV entry of position p depends on the whole prefix, so it *)
(* is represented by that prefix (Prefix(r, p)); the chained hash of a full *)
(* block or sub-block is the prefix it ends, hashing being collision free.  *)
(* Draft tokens the model will reject leave Junk in the cache.              *)
(*                                                                          *)
(* The engine thread's actions are atomic except that a waiting request's   *)
(* admission is two of them (lookup, then allocation), with the match       *)
(* handle in between; the worker's Execute interleaves with all of them.    *)
(* One KV cache group is modelled.                                          *)
(***************************************************************************)
EXTENDS Integers, FiniteSets, SequencesExt

CONSTANTS
    Req,         \* requests
    Block,       \* physical KV cache blocks, the null block excluded
    Configs      \* deployments and the requests made of them

VARIABLE config  \* the one at hand

Tokens == config.tokens     \* Tokens[r]: the prompt and the output r is allowed at most
PromptLen == config.prompt  \* PromptLen[r]
SubSize == config.sub       \* sub_block_size
PerBlock == config.per      \* sub_blocks_per_block
ChunkMax == config.chunk    \* max_num_batched_tokens: the longest prefill chunk
MaxSpec == config.spec      \* num_spec_tokens: drafts a decode step may carry
Depth == config.depth       \* batches in flight: 1, or 2 under async scheduling

BlockSize == SubSize * PerBlock
Async == Depth > 1

ASSUME ConfigsAssumption ==
    \A c \in Configs :
        /\ c.tokens \in [Req -> Seq(Nat)] /\ c.prompt \in [Req -> Nat]
        /\ c.sub \in Nat \ {0} /\ c.per \in Nat \ {0, 1}
        /\ c.chunk \in c.sub..(c.sub * c.per)
        /\ c.spec \in 0..(c.sub * c.per - 1)
        /\ c.depth \in {1, 2} /\ (c.depth = 2 => c.spec = 0)
        /\ \A r \in Req : c.prompt[r] \in 1..(Len(c.tokens[r]) - 1)

VARIABLES
    status,    \* "waiting" (also after a preemption), "running" or "done"
    nTok,      \* request.num_tokens
    nComp,     \* request.num_computed_tokens
    nOut,      \* request.num_output_placeholders
    blocks,    \* the request's block table in the coordinator
    refCnt,    \* KVCacheBlock.ref_cnt
    hash,      \* KVCacheBlock.block_hash
    lists,     \* SubBlockIndex._block_hashes (the buckets are its inverse)
    note,      \* _pending_indexing: full blocks before, or NoNote
    match,     \* the SubBlockMatch being arbitrated, with the full-block hits
    steps,     \* scheduler outputs not yet processed, oldest first
    kv         \* contents of the device's KV cache

reqVars == <<status, nTok, nComp, nOut>>
poolVars == <<refCnt, hash, lists>>
vars == <<config, status, nTok, nComp, nOut, blocks, refCnt, hash, lists, note,
          match, steps, kv>>

Junk == <<>>
NoHash == <<"none", <<>>>>
NoNote == -1
NoBlock == "no block"
NoMatch == [req |-> "no request"]

ASSUME NamesAssumption == IsFiniteSet(Req) /\ NoBlock \notin Block

Prefix(r, p) == SubSeq(Tokens[r], 1, p)
MinOf(a, b) == IF a < b THEN a ELSE b
CeilDiv(a, b) == (a + b - 1) \div b
BlockOf(p) == (p - 1) \div BlockSize + 1   \* position p's place in a block table
SlotOf(p) == ((p - 1) % BlockSize) + 1

Running == {r \in Req : status[r] = "running"}
InFlight(r) == \E i \in 1..Len(steps) : r \in DOMAIN steps[i].work
is_prefill(r) == nComp[r] < nTok[r] - 1
FreeBlocks == {b \in Block : refCnt[b] = 0}
CanSchedule == match = NoMatch /\ Len(steps) < Depth

-----------------------------------------------------------------------------
(* vLLM's block pool (external).  Which free block is handed out, and which  *)
(* of several cached blocks answers a hit, is left open.                     *)

Picks(n, avoid) == Injection(1..n, FreeBlocks \ avoid)

(* get_new_blocks with the eviction hook: evict_with_index_cleanup pops the  *)
(* index only when the block had a hash to lose.                             *)
EvictedLists(new) ==
    [b \in Block |-> IF b \in new /\ hash[b] # NoHash THEN <<>> ELSE lists[b]]
EvictedHash(new) == [b \in Block |-> IF b \in new THEN NoHash ELSE hash[b]]

(* The full blocks among the first n[r] tokens of table[r], for each r in R. *)
FullPlaces(R, table, n) ==
    {w \in UNION {{r} \X (1..Len(table[r])) : r \in R} : w[2] * BlockSize <= n[w[1]]}

(* cache_blocks(r, n[r]) for the requests of R.                              *)
Cached(hs, R, table, n) ==
    [b \in Block |->
        LET places == {w \in FullPlaces(R, table, n) : table[w[1]][w[2]] = b} IN
        IF hs[b] = NoHash /\ places # {}
        THEN LET w == CHOOSE w \in places : TRUE
             IN  <<"full", Prefix(w[1], w[2] * BlockSize)>>
        ELSE hs[b]]

(* free_blocks on the tables of R.                                           *)
Released(rc, R) ==
    [b \in Block |-> rc[b] - Cardinality({r \in R : b \in Range(blocks[r])})]

-----------------------------------------------------------------------------
(* Sub-block hashes and the index.                                           *)

(* Hashes n sub-blocks into block j, of those _get_or_compute_sub_hashes has *)
(* for a request of nt tokens.                                               *)
SubHashes(r, j, n, nt) ==
    LET first == (j - 1) * PerBlock
        last == MinOf(first + n, nt \div SubSize)
    IN  [i \in 1..(IF last > first THEN last - first ELSE 0) |->
            Prefix(r, (first + i) * SubSize)]

(* SubBlockIndex.update on several blocks, each with its list.               *)
Longest(T) == CHOOSE s \in T : \A t \in T : Len(t) <= Len(s)

Indexed(ls, targets) ==
    [b \in Block |->
        LET T == {t[2] : t \in {u \in targets : u[1] = b}} IN
        IF T = {} THEN ls[b]
        ELSE LET new == Longest(T) IN
             IF Len(new) > Len(ls[b])
             THEN ls[b] \o SubSeq(new, Len(ls[b]) + 1, Len(new))
             ELSE ls[b]]

(* _index_newly_cached_blocks and _on_block_cached                           *)
FullTargets(r, hs, nt, before) ==
    {<<blocks[r][j], SubHashes(r, j, PerBlock, nt)>> :
        j \in {k \in (before + 1)..Len(blocks[r]) : hs[blocks[r][k]] # NoHash}}

(* _index_partial_block: the last, partly computed block                     *)
PartialTargets(r, nc, nt) ==
    LET j == nc \div BlockSize + 1
        hs == SubHashes(r, j, (nc % BlockSize) \div SubSize, nt)
    IN  IF j <= Len(blocks[r]) /\ Len(hs) > 0 THEN {<<blocks[r][j], hs>>} ELSE {}

PendingTargets(r, hs, nt) ==
    IF note[r] = NoNote THEN {} ELSE FullTargets(r, hs, nt, note[r])

(* _finalize_sub_block_state: what free() and pop_blocks_for_free() index,   *)
(* and the synthetic hash that keeps the partial block in the LRU.           *)
FinalTargets(r, hs, nc, nt) ==
    PendingTargets(r, hs, nt) \cup PartialTargets(r, nc, nt)

(* Fault: the partial block gets no synthetic hash.                          *)
MarkedNever(hs, R, nc, nt) == hs

Marked(hs, R, nc, nt) ==
    LET T == UNION {PartialTargets(r, nc[r], nt[r]) : r \in R}
    IN  [b \in Block |->
            IF \E t \in T : t[1] = b
            THEN <<"partial", Last((CHOOSE t \in T : t[1] = b)[2])>>
            ELSE hs[b]]

(* get_computed_blocks: full-block hits, never covering the last token.      *)
HitBlocks(r, j) == {b \in Block : hash[b] = <<"full", Prefix(r, j * BlockSize)>>}
NumHits(r) ==
    LET N == {n \in 0..((nTok[r] - 1) \div BlockSize) :
                \A j \in 1..n : HitBlocks(r, j) # {}}
    IN  Max(N)

Holders(h) == {b \in Block : h \in Range(lists[b])}

(* Fault: the source is a block of the first bucket, not of the deepest.     *)
SourcesShallow(query, d) == Holders(query[1])

(* longest_match takes any block of the last non-empty bucket.               *)
Sources(query, d) == Holders(query[d])

(* SubBlockIndex.longest_match on the hashes after k full blocks; the depth  *)
(* is cut so that the last token is still computed.                          *)
SubMatches(r, k) ==
    LET query == SubHashes(r, k + 1, PerBlock - 1, nTok[r])
        depths == {d \in 1..Len(query) : \A i \in 1..d : Holders(query[i]) # {}}
        allowed == (nTok[r] - 1 - k * BlockSize) \div SubSize
    IN  IF depths = {} \/ allowed = 0 THEN {}
        ELSE Sources(query, Max(depths)) \X {MinOf(Max(depths), allowed)}

-----------------------------------------------------------------------------
TypeOK ==
    /\ status \in [Req -> {"waiting", "running", "done"}]
    /\ \A r \in Req : /\ nTok[r] \in PromptLen[r]..Len(Tokens[r])
                      /\ nComp[r] \in 0..Len(Tokens[r])
                      /\ nOut[r] \in 0..Depth
                      /\ note[r] \in {NoNote} \cup 0..Len(blocks[r])
                      /\ Range(blocks[r]) \subseteq Block
                      /\ IsInjective(blocks[r])
    /\ refCnt \in [Block -> Nat]
    /\ DOMAIN hash = Block /\ DOMAIN lists = Block
    /\ \A b \in Block : Len(lists[b]) <= PerBlock
    /\ Len(steps) <= Depth

Init ==
    /\ config \in Configs
    /\ status = [r \in Req |-> "waiting"]
    /\ nTok = PromptLen
    /\ nComp = [r \in Req |-> 0]
    /\ nOut = [r \in Req |-> 0]
    /\ blocks = [r \in Req |-> <<>>]
    /\ refCnt = [b \in Block |-> 0]
    /\ hash = [b \in Block |-> NoHash]
    /\ lists = [b \in Block |-> <<>>]
    /\ note = [r \in Req |-> NoNote]
    /\ match = NoMatch
    /\ steps = <<>>
    /\ kv = [b \in Block |-> [s \in 1..BlockSize |-> Junk]]

(* The waiting loop looks a request up: get_computed_blocks, then            *)
(* _try_sub_block_match, which takes a reference on the source block.        *)
TryMatch(r) ==
    /\ CanSchedule
    /\ status[r] = "waiting" /\ ~InFlight(r)
    /\ \A q \in Running : ~is_prefill(q)
    /\ LET k == NumHits(r) IN
       \E hits \in {f \in [1..k -> Block] : \A j \in 1..k : f[j] \in HitBlocks(r, j)} :
         \/ /\ SubMatches(r, k) = {}
            /\ match' = [req |-> r, hits |-> hits, src |-> NoBlock, num |-> 0]
            /\ UNCHANGED refCnt
         \/ \E m \in SubMatches(r, k) :
            /\ match' = [req |-> r, hits |-> hits, src |-> m[1], num |-> m[2]]
            /\ refCnt' = [refCnt EXCEPT ![m[1]] = @ + 1]
    /\ UNCHANGED <<reqVars, blocks, hash, lists, note, steps, kv>>

Fits(r, hits) ==
    Cardinality(FreeBlocks \ Range(hits)) >= CeilDiv(nTok[r], BlockSize) - Len(hits)

(* Fault: the handle is dropped without release_sub_block_match.             *)
ReleaseMatchForgotten ==
    /\ match # NoMatch
    /\ ~Fits(match.req, match.hits)
    /\ match' = NoMatch
    /\ UNCHANGED <<reqVars, blocks, refCnt, hash, lists, note, steps, kv>>

(* allocate_slots found no room for the whole sequence: the handle is given  *)
(* back by release_sub_block_match.                                          *)
ReleaseMatch ==
    /\ match # NoMatch
    /\ ~Fits(match.req, match.hits)
    /\ refCnt' = [b \in Block |-> IF b = match.src THEN refCnt[b] - 1 ELSE refCnt[b]]
    /\ match' = NoMatch
    /\ UNCHANGED <<reqVars, blocks, hash, lists, note, steps, kv>>

(* One scheduled request of a step, and the rest of schedule() for it:       *)
(* cache_blocks, schedule_sub_block_indexing, _update_after_schedule.        *)
Work(r, from, num, spec, table) ==
    [from |-> from, num |-> num, spec |-> spec, table |-> table,
     emit |-> from + num - spec >= nTok[r] + nOut[r]]

(* Fault: the count of full blocks is rounded up.                            *)
ScheduleNoteCeil(r, nc) == IF note[r] = NoNote THEN CeilDiv(nc, BlockSize) ELSE note[r]

ScheduleNote(r, nc) == IF note[r] = NoNote THEN nc \div BlockSize ELSE note[r]

(* allocate_slots succeeded: apply_sub_block_match turns the handle into a   *)
(* copy operation, which keeps its reference, and the request runs alone.    *)
Admit ==
    /\ match # NoMatch
    /\ LET r == match.req
           hits == match.hits
           from == Len(hits) * BlockSize + match.num * SubSize
           num == MinOf(nTok[r] - from, ChunkMax)
       IN
       /\ Fits(r, hits)
       /\ \E new \in Picks(CeilDiv(from + num, BlockSize) - Len(hits), Range(hits)) :
          LET table == hits \o new
              w == Work(r, from, num, 0, table)
              copies == IF match.src = NoBlock THEN {}
                        ELSE {[src |-> match.src, dst |-> table[Len(hits) + 1],
                               num |-> match.num * SubSize]}
          IN
          /\ blocks' = [blocks EXCEPT ![r] = table]
          /\ refCnt' = [b \in Block |-> IF b \in Range(table) THEN refCnt[b] + 1 ELSE refCnt[b]]
          /\ lists' = EvictedLists(Range(new))
          /\ hash' = Cached(EvictedHash(Range(new)), {r}, blocks', [q \in {r} |-> from + num])
          /\ note' = [note EXCEPT ![r] = ScheduleNote(r, from)]
          /\ nComp' = [nComp EXCEPT ![r] = from + num]
          /\ nOut' = [nOut EXCEPT ![r] = IF Async /\ w.emit THEN @ + 1 ELSE @]
          /\ status' = [status EXCEPT ![r] = "running"]
          /\ steps' = Append(steps, [work |-> [q \in {r} |-> w], copies |-> copies,
                                     ran |-> FALSE, acc |-> [q \in {r} |-> 0]])
    /\ match' = NoMatch
    /\ UNCHANGED <<nTok, kv>>

(* Tokens the running loop would schedule for r, drafts aside.               *)
NumNew(r) == nTok[r] + nOut[r] - nComp[r]
Exhausted(r) == nOut[r] > 0 /\ nComp[r] + 2 - nOut[r] >= Len(Tokens[r])
Schedulable(r) == r \in Running /\ NumNew(r) > 0 /\ ~Exhausted(r)

(* The trailing prefill goes alone; otherwise every request is a decode.     *)
Batches ==
    LET pre == {r \in Running : is_prefill(r)}
        dec == {r \in Running : Schedulable(r)}
    IN  IF pre # {} THEN {{r} : r \in pre} ELSE SUBSET dec \ {{}}

Needed(r, num) ==
    LET short == CeilDiv(nComp[r] + num, BlockSize) - Len(blocks[r])
    IN  IF short > 0 THEN short ELSE 0

(* Fault: drafts are cached like verified tokens.                            *)
CacheableDrafts(r, n) == n

(* allocate_slots caches the blocks of verified tokens only.                 *)
Cacheable(r, n) == MinOf(n, nTok[r])

(* The running loop schedules the requests of R, r with num[r] tokens of     *)
(* which spec[r] are drafts.                                                 *)
ScheduleRunning ==
    /\ CanSchedule
    /\ \E R \in Batches : \E spec \in [R -> 0..MaxSpec] :
       LET num == [r \in R |-> IF is_prefill(r) THEN MinOf(NumNew(r), ChunkMax)
                               ELSE NumNew(r) + spec[r]]
           growing == {r \in R : Needed(r, num[r]) > 0}
       IN
       /\ \A r \in R : /\ is_prefill(r) => spec[r] = 0
                       /\ nComp[r] + num[r] <= Len(Tokens[r])
                       /\ Needed(r, num[r]) <= 1
       /\ \E new \in Injection(growing, FreeBlocks) :
          LET table == [r \in Req |-> IF r \in growing THEN Append(blocks[r], new[r])
                                      ELSE blocks[r]]
              work == [r \in R |-> Work(r, nComp[r], num[r], spec[r], table[r])]
          IN
          /\ blocks' = table
          /\ refCnt' = [b \in Block |-> IF b \in Range(new) THEN 1 ELSE refCnt[b]]
          /\ lists' = EvictedLists(Range(new))
          /\ hash' = Cached(EvictedHash(Range(new)), R, table,
                            [r \in R |-> Cacheable(r, nComp[r] + num[r])])
          /\ note' = [r \in Req |-> IF r \in R THEN ScheduleNote(r, nComp[r]) ELSE note[r]]
          /\ nComp' = [r \in Req |-> IF r \in R THEN nComp[r] + num[r] ELSE nComp[r]]
          /\ nOut' = [r \in Req |-> IF Async /\ r \in R /\ work[r].emit
                                    THEN nOut[r] + 1 ELSE nOut[r]]
          /\ steps' = Append(steps, [work |-> work, copies |-> {}, ran |-> FALSE,
                                     acc |-> [r \in R |-> 0]])
    /\ UNCHANGED <<status, nTok, match, kv>>

(* kv_cache_manager.free(r), as the last thing that happens to the table     *)
FreeRequest(r) ==
    /\ hash' = Marked(hash, {r}, nComp, nTok)
    /\ lists' = Indexed(lists, FinalTargets(r, hash, nComp[r], nTok[r]))
    /\ refCnt' = Released(refCnt, {r})
    /\ blocks' = [blocks EXCEPT ![r] = <<>>]
    /\ note' = [note EXCEPT ![r] = NoNote]

(* allocate_slots failed in the running loop: _preempt_request.  The victim  *)
(* is any running request (FCFS takes the last, PRIORITY the lowest).        *)
Preempt(r) ==
    /\ CanSchedule
    /\ r \in Running
    /\ FreeBlocks = {}
    /\ \E R \in Batches : \E q \in R :
          Needed(q, IF is_prefill(q) THEN MinOf(NumNew(q), ChunkMax) ELSE NumNew(q)) > 0
    /\ FreeRequest(r)
    /\ status' = [status EXCEPT ![r] = "waiting"]
    /\ nComp' = [nComp EXCEPT ![r] = 0]
    /\ UNCHANGED <<nTok, nOut, match, steps, kv>>

(* The client's abort, handled between two steps or, under Depth 1, after    *)
(* the model ran and before its output is processed.                         *)
Abort(r) ==
    /\ match = NoMatch
    /\ status[r] # "done"
    /\ Async \/ \A i \in 1..Len(steps) : steps[i].ran
    /\ FreeRequest(r)
    /\ status' = [status EXCEPT ![r] = "done"]
    /\ UNCHANGED <<nTok, nComp, nOut, match, steps, kv>>

(* The slots of b that the step's copy operations fill.                      *)
CopiedSlots(step, b) ==
    {w \in {o \in step.copies : o.dst = b} \X (1..BlockSize) : w[2] <= w[1].num}

(* RBLNModelRunner.execute_model: the copy operations, then the forward      *)
(* pass.  Drafts past the accepted ones are wrong tokens.                    *)
Copied(c, step) ==
    [b \in Block |-> [s \in 1..BlockSize |->
        IF \E w \in CopiedSlots(step, b) : w[2] = s
        THEN c[(CHOOSE w \in CopiedSlots(step, b) : w[2] = s)[1].src][s]
        ELSE c[b][s]]]
Forwarded(c, step, acc) ==
    LET writes == UNION {{<<r, p>> : p \in (step.work[r].from + 1)
                                          ..(step.work[r].from + step.work[r].num)} :
                           r \in DOMAIN step.work}
        at(w, b, s) == step.work[w[1]].table[BlockOf(w[2])] = b /\ SlotOf(w[2]) = s
        value(w) == LET e == step.work[w[1]] IN
                    IF w[2] <= e.from + e.num - e.spec + acc[w[1]]
                    THEN Prefix(w[1], w[2]) ELSE Junk
    IN  [b \in Block |-> [s \in 1..BlockSize |->
            IF \E w \in writes : at(w, b, s)
            THEN value(CHOOSE w \in writes : at(w, b, s))
            ELSE c[b][s]]]

Execute ==
    /\ \E i \in 1..Len(steps) :
       /\ ~steps[i].ran
       /\ \A j \in 1..(i - 1) : steps[j].ran
       /\ \E acc \in [DOMAIN steps[i].work -> 0..MaxSpec] :
          /\ \A r \in DOMAIN acc :
               /\ acc[r] <= steps[i].work[r].spec
               /\ acc[r] > 0 => nTok[r] + acc[r] < Len(Tokens[r])
          /\ kv' = Forwarded(Copied(kv, steps[i]), steps[i], acc)
          /\ steps' = [steps EXCEPT ![i].ran = TRUE, ![i].acc = acc]
    /\ UNCHANGED <<reqVars, blocks, poolVars, note, match>>

(* update_from_output: vLLM's part (sampled tokens appended, rejected drafts *)
(* taken back, finished requests freed), then do_pending_indexing and        *)
(* release_copy_ops.  stop: the requests that end here.                      *)
UpdateFromOutput ==
    /\ match = NoMatch
    /\ Len(steps) > 0 /\ Head(steps).ran
    /\ LET step == Head(steps)
           live == {r \in DOMAIN step.work : status[r] # "done"}
           out == {r \in live : step.work[r].emit}
           nt == [r \in Req |-> IF r \in out THEN nTok[r] + 1 + step.acc[r] ELSE nTok[r]]
           rejected(r) == IF r \in live /\ nComp[r] > 0
                          THEN step.work[r].spec - step.acc[r] ELSE 0
           nc == [r \in Req |-> nComp[r] - rejected(r)]
           no == [r \in Req |-> IF Async /\ r \in out THEN nOut[r] - 1 ELSE nOut[r]]
           full == {r \in out : nt[r] >= Len(Tokens[r])}
       IN
       \E stop \in {S \in SUBSET out : full \subseteq S} :
         LET ended == stop \cap Running
             \* AsyncScheduler._update_request_with_output caches the new tokens.
             hs == IF Async THEN Cached(hash, out \cap Running, blocks,
                                        [r \in Req |-> nc[r] - no[r]])
                   ELSE hash
             noted == {r \in Req \ ended : note[r] # NoNote}
         IN
         /\ nTok' = nt
         /\ nComp' = nc
         /\ nOut' = no
         /\ status' = [r \in Req |-> IF r \in stop THEN "done" ELSE status[r]]
         /\ hash' = Marked(hs, ended, nc, nt)
         /\ lists' = Indexed(lists,
                UNION {FinalTargets(r, hs, nc[r], nt[r]) : r \in ended \cup noted})
         /\ refCnt' = [b \in Block |->
                Released(refCnt, ended)[b] - Cardinality({op \in step.copies : op.src = b})]
         /\ blocks' = [r \in Req |-> IF r \in ended THEN <<>> ELSE blocks[r]]
    /\ note' = [r \in Req |-> NoNote]
    /\ steps' = Tail(steps)
    /\ UNCHANGED <<match, kv>>

(* reset_prefix_cache: refused while a block is in use.                      *)
ResetPrefixCache ==
    /\ CanSchedule
    /\ \A b \in Block : refCnt[b] = 0
    /\ hash' = [b \in Block |-> NoHash]
    /\ lists' = [b \in Block |-> <<>>]
    /\ note' = [r \in Req |-> NoNote]
    /\ UNCHANGED <<reqVars, blocks, refCnt, match, steps, kv>>

Next ==
    /\ UNCHANGED config
    /\ \/ \E r \in Req : TryMatch(r) \/ Preempt(r) \/ Abort(r)
       \/ ReleaseMatch
       \/ Admit
       \/ ScheduleRunning
       \/ Execute
       \/ UpdateFromOutput
       \/ ResetPrefixCache

Spec == Init /\ [][Next]_vars

-----------------------------------------------------------------------------
(* Properties.                                                               *)

(* The cache as it will be when the worker has run the steps in flight.      *)
Settled ==
    LET after[i \in 0..Len(steps)] ==
            IF i = 0 THEN kv
            ELSE IF steps[i].ran THEN after[i - 1]
            ELSE Forwarded(Copied(after[i - 1], steps[i]), steps[i], steps[i].acc)
    IN  after[Len(steps)]

Holds(c, b, i, h) ==
    \A t \in 1..SubSize :
        c[b][(i - 1) * SubSize + t] = SubSeq(h, 1, Len(h) - SubSize + t)

(* Every reference on a block has an owner: a block table, the match handle  *)
(* being arbitrated, or a copy operation whose step is not yet processed.    *)
(* One too many leaks the block, one too few lets it be evicted in use.      *)
RefCountsOwned ==
    \A b \in Block :
        refCnt[b] = Cardinality({r \in Req : b \in Range(blocks[r])})
                    + (IF match # NoMatch /\ match.src = b THEN 1 ELSE 0)
                    + Cardinality({i \in 1..Len(steps) :
                                     \E op \in steps[i].copies : op.src = b})

(* One step at a time and no drafts.  Otherwise a request may end while the  *)
(* step that completes its partial block is on its way: see ComputedIsOwn.   *)
Plain == ~Async /\ MaxSpec = 0

(* A block indexed under a hash at depth k holds the k-th sub-block of that  *)
(* prefix (docs: "Each hash at depth k maps to the set of physical blocks    *)
(* whose first k sub-blocks match"), in the cache already and still when the *)
(* steps in flight have run: indexing waits for the forward pass, and an     *)
(* entry goes when its block is written again.                               *)
IndexSound ==
    Plain => \A b \in Block : \A i \in 1..Len(lists[b]) :
        /\ (Len(lists[b][i]) \div SubSize - 1) % PerBlock = i - 1
        /\ Holds(kv, b, i, lists[b][i])
        /\ Holds(Settled, b, i, lists[b][i])

(* A cached full block holds the KV of the prefix its hash stands for.       *)
HashSound ==
    \A b \in Block : hash[b][1] = "full" =>
        \A s \in 1..BlockSize :
            Settled[b][s] = SubSeq(hash[b][2], 1, Len(hash[b][2]) - BlockSize + s)

(* What prefix caching must never change: every verified position a running  *)
(* request counts as computed holds the KV of that request's own prefix,     *)
(* whether it was computed, shared from a full block or copied.              *)
ComputedIsOwn ==
    \A r \in Running : \A p \in 1..MinOf(nComp[r], nTok[r]) :
        Settled[blocks[r][BlockOf(p)]][SlotOf(p)] = Prefix(r, p)

(* With one step at a time and no drafts reuse is right: no cached block and *)
(* no computed position ever holds another prefix's KV.                      *)
ReuseSound == Plain => HashSound /\ ComputedIsOwn

(* set_block_hash is never asked to overwrite a hash: should the request be  *)
(* freed now, its partial block is not already a cached full block.          *)
PartialIsUnhashed ==
    \A r \in Running : \A t \in PartialTargets(r, nComp[r], nTok[r]) :
        hash[t[1]] = NoHash

(* Nothing is lost from the index: with one step at a time, no drafts and no *)
(* indexing pending, every block cached as full is indexed to its last       *)
(* sub-block, so the KV events offer a router all that get_computed_blocks   *)
(* would hit.                                                                *)
CachedIsIndexed ==
    (Plain /\ \A r \in Req : note[r] = NoNote) =>
        \A b \in Block : hash[b][1] = "full" => Len(lists[b]) = PerBlock

(* Full-block hashes and the index agree (do_pending_indexing and free): a   *)
(* cached full block is indexed whole, a partial block to be freed unhashed. *)
HashesMatchIndex == PartialIsUnhashed /\ CachedIsIndexed

=============================================================================
