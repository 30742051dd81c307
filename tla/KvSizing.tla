------------------------------ MODULE KvSizing ------------------------------
(***************************************************************************)
(* Sizing of the KV cache from the compiled programs, at start-up          *)
(* (v1/worker/dynamic_kv_sizer.py, kv_placement.py, the estimate of        *)
(* v1/worker/utils.py and the engine's patches/dynamic_kv.py).             *)
(*                                                                         *)
(* The engine leads its workers through remote calls: estimate the memory, *)
(* allocate a small cache, compile and warm up, measure how many blocks    *)
(* fit, and reallocate at the least of the answers; the scheduler's pool   *)
(* takes that count.  Within a call the ranks run on their own.            *)
(*                                                                         *)
(* Memory is per chiplet, in KiB.  A tensor is the sequence of its shards  *)
(* [unit, per], per block of the cache.  An input of a program is such a   *)
(* tensor as the compiler reports it: its shape, the name of its symbol    *)
(* and its shards, with no tensor identity.  0 blocks stand for None.      *)
(* What the device really reserves is AllocatorReserved of the tensors:    *)
(* the runtime's allocator is the one that kv_placement.py replays.        *)
(***************************************************************************)
EXTENDS Integers, Sequences, FiniteSets, SequencesExt, FiniteSetsExt

CONSTANTS
    Rank, Unit,         \* workers of the engine; chiplets of a worker
    Boots,              \* the start-ups: see BootsAssumption
    Hint,               \* COMPILE_KV_CACHE_NUM_BLOCKS
    MinBlock, SmallMax, SmallBlock, MediumMax, MediumBlock, LargeRound,
    AllocatorReserve, CopyStreamReserve

VARIABLES
    boot,      \* the configuration, the devices and the compiled programs
    engine,    \* [pc, why, pool]: the call in progress and the pool's blocks
    done,      \* the ranks that have answered the call
    est,       \* est[r]: the bytes that the rank reported as available
    answer,    \* answer[r]: the count that the rank computed
    kv         \* kv[r]: the rank's cache; see Unsized

vars == <<boot, engine, done, est, answer, kv>>

-----------------------------------------------------------------------------
(* The configuration.                                                        *)

Mode == CASE ~boot.flag          -> "disabled"
          [] boot.skip           -> "inert"
          [] boot.dry            -> "dry_run"
          [] boot.override # 0   -> "pinned"
          [] OTHER               -> "active"

R(r) == boot.rank[r]
Sum(s) == FoldLeft(LAMBDA a, b : a + b, 0, s)
CeilDiv(a, b) == -((-a) \div b)

ASSUME BootsAssumption ==
    /\ Hint \in Nat \ {0} /\ SmallMax < MediumMax
    /\ \A b \in Boots :
         /\ b.util \in 1..100 /\ b.one > 0 /\ b.batch > 0 /\ b.override \in Nat
         /\ b.rsd > 0 /\ b.heads > 0
         /\ \A r \in Rank : b.rank[r].page > 0 /\ b.rank[r].tensors # <<>>

-----------------------------------------------------------------------------
(* kv_placement.py: what the caching allocator reserves.                     *)

allocation_size(n) ==
    CASE n <= SmallMax  -> SmallBlock
      [] n <= MediumMax -> MediumBlock
      [] OTHER          -> CeilDiv(n, LargeRound) * LargeRound

\* One request: the smallest free block that holds it, or a new segment.
Serve(st, bytes) ==
    LET size == CeilDiv(bytes, MinBlock) * MinBlock
        small == size <= SmallMax
        hit == {i \in DOMAIN st.free[small] : st.free[small][i] >= size}
        i == CHOOSE k \in hit : \A j \in hit : st.free[small][k] <= st.free[small][j]
        block == IF hit = {} THEN allocation_size(size) ELSE st.free[small][i]
        left == IF hit = {} THEN st.free[small] ELSE RemoveAt(st.free[small], i)
        rest == block - size
        splits == IF small THEN rest >= MinBlock ELSE rest > SmallMax
    IN  [free |-> [st.free EXCEPT ![small] = IF splits THEN Append(left, rest) ELSE left],
         reserved |-> st.reserved + IF hit = {} THEN block ELSE 0]

allocator_reserved(requests) ==
    FoldLeft(Serve, [free |-> [b \in BOOLEAN |-> <<>>], reserved |-> 0],
             SelectSeq(requests, LAMBDA n : n > 0)).reserved

\* Per-block sizes of the shards that the inputs have on a unit, in order.
ShardsOn(specs, u) ==
    LET on == SelectSeq(FlattenSeq([i \in DOMAIN specs |-> specs[i].shards]),
                        LAMBDA s : s.unit = u)
    IN  [i \in DOMAIN on |-> on[i].per]

per_block(specs, u) == Sum(ShardsOn(specs, u))

allocated_at(specs, u, n) ==
    allocator_reserved([i \in DOMAIN ShardsOn(specs, u) |-> n * ShardsOn(specs, u)[i]])

Growing(specs) == {u \in Unit : per_block(specs, u) > 0}

-----------------------------------------------------------------------------
(* The device.  k is the state of the rank's cache.                          *)

Unsized == [cfg |-> 0,            \* num_blocks of the runner's kv_cache_config
            size |-> 0,           \* the bytes its tensors have there
            bound |-> 0,          \* blocks of the tensors that exist
            before |-> 0,         \* kv_blocks_before_shrink
            latched |-> 0,        \* the count in the runtimes' adaptive buffers
            loaded |-> FALSE,     \* warm-up has loaded the programs
            captured |-> FALSE,   \* and recorded them
            released |-> FALSE]   \* the compile-time cache was dropped

Own(r, k, u) ==
    allocated_at(R(r).tensors, u, k.bound)
    + (IF k.released THEN R(r).kept[u] ELSE 0) + IF k.loaded THEN R(r).weights[u] ELSE 0
Used(r, k, u) == Own(r, k, u) + R(r).tenants[u] + IF k.loaded THEN R(r).direct[u] ELSE 0
Exhausted(r, k) == ~boot.dummy /\ \E u \in Unit : Used(r, k, u) > R(r).total

\* memory_snapshot: the driver's view, or this process's allocator plus the
\* other tenants' share of the card and a reserve for direct allocations.
SnapshotFails(r, k) == ~boot.driver /\ (~boot.props \/ ~(k.loaded \/ R(r).context))
ForeignShare(r) == MapThenSumSet(LAMBDA u : R(r).tenants[u], Unit) \div Cardinality(Unit)
memory_snapshot(r, k, u) ==
    IF boot.driver THEN Used(r, k, u) ELSE Own(r, k, u) + ForeignShare(r) + AllocatorReserve

Budget(r) == (R(r).total * boot.util) \div 100

-----------------------------------------------------------------------------
(* The engine's calls.                                                       *)

Fail(why) == engine' = [engine EXCEPT !.pc = "failed", !.why = why]
Answered(r) == done' = done \cup {r}
Calls(pc) == engine.pc = pc /\ done = Rank
Enter(pc) == engine' = [engine EXCEPT !.pc = pc] /\ done' = {}

Init ==
    /\ boot \in Boots
    /\ engine = [pc |-> "estimate", why |-> "", pool |-> 0]
    /\ done = {} /\ est = [r \in Rank |-> 0] /\ answer = [r \in Rank |-> 0]
    /\ kv = [r \in Rank |-> Unsized]

-----------------------------------------------------------------------------
(* determine_available_memory.                                               *)

\* rsd is the number of chiplets that the estimate is written for.
Replicated(n, exact) ==
    IF exact THEN (n * boot.heads) \div (boot.rsd * CeilDiv(boot.heads, boot.rsd))
             ELSE n \div Max({1, boot.rsd \div boot.heads})

\* Without a snapshot the card has its built-in capacity: the driver's is asked
\* for in the active mode only, and a dummy device does not tell it.
estimate_available_memory(r, snapshot, exact) ==
    LET card == IF snapshot
                THEN boot.rsd * Min({Budget(r) - memory_snapshot(r, kv[r], u) : u \in Unit})
                ELSE (R(r).dram * boot.util) \div 100
    IN  Replicated(card - R(r).kernel, exact)

Snapshots == Mode # "disabled" /\ ~boot.dummy

Floored(r) ==
    LET e == estimate_available_memory(r, Snapshots /\ Mode # "dry_run", Mode = "active")
    IN  IF Mode = "active" /\ e < boot.one * R(r).page THEN boot.one * R(r).page ELSE e

EstimateRaises(r) ==
    CASE Snapshots /\ SnapshotFails(r, kv[r]) -> "snapshot"
      [] Snapshots /\ boot.rsd # Cardinality(Unit) -> "chiplets"
      [] Snapshots /\ Mode = "dry_run" /\ estimate_available_memory(r, TRUE, TRUE) <= 0
           -> "measured"
      [] estimate_available_memory(r, Snapshots /\ Mode # "dry_run", Mode = "active") <= 0
           -> "memory"
      [] OTHER -> ""

pre_compile_estimate(r) ==
    /\ engine.pc = "estimate" /\ r \notin done
    /\ IF EstimateRaises(r) # ""
       THEN Fail(EstimateRaises(r)) /\ UNCHANGED <<done, est>>
       ELSE est' = [est EXCEPT ![r] = Floored(r)] /\ Answered(r) /\ UNCHANGED engine
    /\ UNCHANGED <<boot, answer, kv>>

\* vLLM: refuse a pool below one request, take the least count of the ranks.
Plan ==
    /\ Calls("estimate")
    /\ LET n == IF boot.override # 0 THEN boot.override
                ELSE Min({est[r] \div R(r).page : r \in Rank})
       IN  IF \E r \in Rank : est[r] < boot.one * R(r).page
           THEN Fail("upstream") /\ UNCHANGED done
           ELSE /\ engine' = [engine EXCEPT !.pc = "initialize", !.pool = n]
                /\ done' = {}
    /\ UNCHANGED <<boot, est, answer, kv>>

-----------------------------------------------------------------------------
(* initialize_from_config and compile_or_warm_up_model.                      *)

rescale(size, old, new) == (size * new) \div old

ShrinkRaises ==
    CASE Mode \in {"pinned", "active"} /\ ~boot.layout -> "layout"
      [] Mode = "active" /\ Hint >= engine.pool        -> "hint"
      [] OTHER -> ""

shrink_for_compile(r) ==
    LET n == IF Mode = "active" THEN Hint ELSE engine.pool
        full == engine.pool * R(r).page
    IN  [Unsized EXCEPT !.cfg = n, !.bound = n, !.size = rescale(full, engine.pool, n),
                        !.before = IF Mode = "active" THEN engine.pool ELSE 0]

initialize_from_config(r) ==
    /\ engine.pc = "initialize" /\ r \notin done
    /\ IF ShrinkRaises # ""
       THEN Fail(ShrinkRaises) /\ UNCHANGED <<done, kv>>
       ELSE kv' = [kv EXCEPT ![r] = shrink_for_compile(r)] /\ Answered(r) /\ UNCHANGED engine
    /\ UNCHANGED <<boot, est, answer>>

StartWarmUp == Calls("initialize") /\ Enter("warm_up") /\ UNCHANGED <<boot, est, answer, kv>>

Warmed(r) == [kv[r] EXCEPT !.loaded = TRUE, !.latched = kv[r].cfg,
                           !.captured = Mode # "disabled" /\ boot.capture]

compile_or_warm_up_model(r) ==
    /\ engine.pc = "warm_up" /\ r \notin done
    /\ CASE boot.skip -> Answered(r) /\ UNCHANGED <<engine, kv>>
         [] ~boot.skip /\ Mode \in {"pinned", "active"} /\ ~boot.capture ->
              Fail("capture") /\ UNCHANGED <<done, kv>>
         [] OTHER -> IF Exhausted(r, Warmed(r))
                     THEN Fail("compile") /\ UNCHANGED <<done, kv>>
                     ELSE /\ kv' = [kv EXCEPT ![r] = Warmed(r)]
                          /\ Answered(r) /\ UNCHANGED engine
    /\ UNCHANGED <<boot, est, answer>>

\* The patched _initialize_kv_caches, once the original has returned.
AfterWarmUp ==
    /\ Calls("warm_up")
    /\ Enter(IF Mode = "disabled" \/ (boot.override # 0 /\ ~boot.dry)
             THEN "serving" ELSE "compute")
    /\ UNCHANGED <<boot, est, answer, kv>>

-----------------------------------------------------------------------------
(* compute_dynamic_kv_num_blocks.                                            *)

Fingerprint(s) == <<s.shape, s.sym>>
InputKey(s) == <<s.shape, s.sym, ToBag(s.shards)>>
KeyOf(p) == ToBag([i \in DOMAIN p |-> InputKey(p[i])])
PrintOf(p) == ToBag([i \in DOMAIN p |-> Fingerprint(p[i])])

Binding(r) == SelectSeq(R(r).programs, LAMBDA p : p # <<>>)

Disagree(ps) == \E i, j \in DOMAIN ps : PrintOf(ps[i]) = PrintOf(ps[j]) /\ KeyOf(ps[i]) # KeyOf(ps[j])

select_kv_input_groups(ps) ==
    LET first == {i \in DOMAIN ps : \A j \in 1..i - 1 : KeyOf(ps[j]) # KeyOf(ps[i])}
        at == SetToSortSeq(first, <)
    IN  [i \in DOMAIN at |-> ps[at[i]]]

\* Fault: the inputs of all programs are summed.
CoverAll(groups, n) == FlattenSeq(groups)
_specs_covering_tensors(groups, n) ==
    CASE Len(FlattenSeq(groups)) = n              -> FlattenSeq(groups)
      [] \A i \in DOMAIN groups : Len(groups[i]) = n -> groups[1]
      [] OTHER                                    -> <<>>

Specs(r) == _specs_covering_tensors(select_kv_input_groups(Binding(r)), Len(R(r).tensors))

PlacementRaises(r) ==
    Binding(r) = <<>> \/ Disagree(Binding(r)) \/ Specs(r) = <<>> \/ ~R(r).linear

Streams == IF boot.streams THEN CopyStreamReserve ELSE 0
\* Fault: what the copy streams upload once requests flow is not set aside.
RoomNow(r, k, u) == Budget(r) - memory_snapshot(r, k, u)
Room(r, k, u) == Budget(r) - (memory_snapshot(r, k, u) + Streams)

linear(r, k) ==
    Max({0, Min({Room(r, k, u) \div per_block(Specs(r), u) : u \in Growing(Specs(r))})})

max_num_blocks(r, k) ==
    Max({0} \cup {n \in 1..linear(r, k) : \A u \in Growing(Specs(r)) :
                     allocated_at(Specs(r), u, n) <= Room(r, k, u)})

Released(k) == [k EXCEPT !.bound = 0, !.released = TRUE]

\* Whether the rank measures and resizes; a dry run only logs what it finds.
Measures(r) == Mode = "active" /\ kv[r].before # 0 /\ ~boot.dummy

SizingRaises(r) ==
    CASE PlacementRaises(r)                     -> "placement"
      [] SnapshotFails(r, kv[r])                -> "snapshot"
      [] max_num_blocks(r, Released(kv[r])) = 0 -> "no fit"
      [] OTHER                                  -> ""

compute_num_blocks(r) ==
    /\ engine.pc = "compute" /\ r \notin done
    /\ IF ~Measures(r) THEN Answered(r) /\ UNCHANGED <<engine, answer, kv>>
       ELSE IF SizingRaises(r) # ""
       THEN Fail(SizingRaises(r)) /\ UNCHANGED <<done, answer, kv>>
       ELSE /\ kv' = [kv EXCEPT ![r] = Released(@)]
            /\ answer' = [answer EXCEPT ![r] = max_num_blocks(r, Released(kv[r]))]
            /\ Answered(r) /\ UNCHANGED engine
    /\ UNCHANGED <<boot, est>>

-----------------------------------------------------------------------------
(* apply_dynamic_kv_num_blocks.                                              *)

resolve_rank_num_blocks == Min({answer[r] : r \in Rank})
Mixed == \E r, s \in Rank : answer[r] = 0 /\ answer[s] # 0

Resolve ==
    /\ Calls("compute")
    /\ IF Mixed THEN Fail("mixed") /\ UNCHANGED done
       ELSE Enter(IF boot.override # 0 THEN "serving" ELSE "apply")
    /\ UNCHANGED <<boot, est, answer, kv>>

reallocate(r, n) ==
    [kv[r] EXCEPT !.cfg = n, !.size = rescale(kv[r].size, kv[r].cfg, n), !.bound = n,
                  !.before = 0, !.released = TRUE, !.latched = 0]

\* Fault: a count equal to the configured one needs no tensors.
KeepsCount(r, n) == n = kv[r].cfg
Keeps(r, n) == n = kv[r].cfg /\ kv[r].bound # 0

\* materialize runs one decode step, which latches the buffers.
apply_num_blocks(r) ==
    /\ engine.pc = "apply" /\ r \notin done
    /\ LET n == resolve_rank_num_blocks
           target == IF n = 0 THEN kv[r].before ELSE n
           new == reallocate(r, target)
       IN  CASE target = 0 \/ Keeps(r, target) \/ (n = 0 /\ boot.dummy) ->
                  kv' = [kv EXCEPT ![r].before = 0] /\ Answered(r) /\ UNCHANGED engine
             [] OTHER ->
                  CASE Exhausted(r, new) -> Fail("oom") /\ UNCHANGED <<done, kv>>
                    [] ~Exhausted(r, new) /\ new.latched \notin {0, target} ->
                         Fail("variable dim") /\ UNCHANGED <<done, kv>>
                    [] OTHER -> /\ kv' = [kv EXCEPT ![r] = [new EXCEPT !.latched = target]]
                                /\ Answered(r) /\ UNCHANGED engine
    /\ UNCHANGED <<boot, est, answer>>

minimum_kv_blocks == 1 + Max({boot.one, boot.batch})

Finish ==
    /\ Calls("apply")
    /\ LET n == resolve_rank_num_blocks IN
       IF n = 0 THEN Enter("serving")
       ELSE /\ engine' = [engine EXCEPT
                !.pc = IF n >= minimum_kv_blocks THEN "serving" ELSE "failed",
                !.why = IF n >= minimum_kv_blocks THEN "" ELSE "minimum",
                !.pool = n]
            /\ done' = {}
    /\ UNCHANGED <<boot, est, answer, kv>>

\* The start-up is over.
Over == engine.pc \in {"serving", "failed"} /\ UNCHANGED vars

Next ==
    \/ \E r \in Rank :
         \/ pre_compile_estimate(r) \/ initialize_from_config(r)
         \/ compile_or_warm_up_model(r) \/ compute_num_blocks(r) \/ apply_num_blocks(r)
    \/ Plan \/ StartWarmUp \/ AfterWarmUp \/ Resolve \/ Finish \/ Over

Spec == Init /\ [][Next]_vars

-----------------------------------------------------------------------------
(* Properties.                                                               *)

Serving == engine.pc = "serving"

(* The scheduler hands out exactly the blocks that exist: once the engine    *)
(* serves, every rank's tensors, its config and the counts its runtimes      *)
(* expect are those of the pool, through shrink, release and reallocation.   *)
(* A compile-only run keeps the compile cache and serves nothing.            *)
PoolIsWhatRanksHold ==
    Serving /\ ~(boot.dummy /\ Mode = "active") => \A r \in Rank :
        /\ kv[r].cfg = engine.pool /\ kv[r].bound = engine.pool
        /\ kv[r].size = engine.pool * R(r).page
        /\ kv[r].latched = IF boot.skip THEN 0 ELSE engine.pool

(* At the least of the ranks' answers, every chiplet of every rank is within *)
(* gpu_memory_utilization, the copy streams' reserve included.  The code does *)
(* not promise it and it does not hold: a rank that answered more may lose    *)
(* its fit at the smaller count (KvSizingMin.cfg).                            *)
WithinBudget ==
    Serving /\ answer # [r \in Rank |-> 0] => \A r \in Rank, u \in Unit :
        Used(r, kv[r], u) + Streams <= Budget(r)

(* What a rank answers leaves each of its chiplets within the utilisation,   *)
(* the copy streams' reserve included, and nothing larger would: at every    *)
(* larger count some chiplet of the rank is over its budget, although the    *)
(* fit is not monotone in the count (max_num_blocks over the groups that     *)
(* select_kv_input_groups keeps).  Measured against the tensors that the     *)
(* rank allocates, not the placements that it reads.                         *)
AnswerIsLargest ==
    \A r \in Rank : answer[r] # 0 =>
        LET k(n) == [Released(kv[r]) EXCEPT !.bound = n]
            over(n) == \E u \in Unit : Used(r, k(n), u) + Streams > Budget(r)
        IN  /\ ~over(answer[r])
            /\ boot.driver => \A n \in answer[r] + 1 .. 2 * answer[r] + 2 : over(n)

(* So the rank with the least answer is served the largest count that it has *)
(* room for, and no larger one would fit every rank.                          *)
LargestThatFits ==
    /\ AnswerIsLargest
    /\ Serving /\ answer # [r \in Rank |-> 0] => \E r \in Rank :
          /\ answer[r] = engine.pool
          /\ \A u \in Unit : Used(r, kv[r], u) + Streams <= Budget(r)


(* "A dry run refuses nothing": it fails only where the flag off fails too.  *)
DryRunRefusesNothing ==
    Mode = "dry_run" => engine.why \in {"", "memory", "upstream", "compile"}
=============================================================================
