-------------------------- MODULE RBLNSchedule_proofs --------------------------
(***************************************************************************)
(* Proofs about RBLNScheduler: a step is one prefill or decodes alone and  *)
(* fits the compiled batch, the workers read its phase off the output, a   *)
(* step that verifies drafts computes their anchor, and the runner's block *)
(* tables are the manager's, for any requests, pool, chunk, number of      *)
(* drafts and policy.  ScopeAssumption limits the deployments to a prefill *)
(* threshold other than 1 and one or two pipeline stages: the platform     *)
(* accepts others, and of them nothing here is claimed.                    *)
(*                                                                         *)
(* Guard (A) looks at the last running request only.  That is enough       *)
(* because a request in the middle of running never becomes a prefill      *)
(* again: when the output of a step arrives, the request has computed what *)
(* the step sampled (Flight), and a request that was preempted in flight   *)
(* is not resumed before that output (Unsettled).                          *)
(***************************************************************************)
EXTENDS RBLNSchedule, SeqLemmas

(* Where a request can be.                                                   *)
Statuses == {"new", "waiting", "remote", "preempted", "running", "done"}
(* A block of a table: the epoch of its owner and its place (Table).         *)
BlockId == Int \X Int
(* No element of q is in it twice.                                           *)
Distinct(q) == \A i, j \in 1..Len(q) : q[i] = q[j] => i = j
(* How far the scheduler runs ahead of the tokens it knows.                  *)
Lag == IF Async THEN 1 ELSE 0

(* The shape of the state.                                                   *)
Types ==
    /\ config \in Configs
    /\ status \in [Req -> Statuses]
    /\ nComp \in [Req -> Int] /\ nOut \in [Req -> Int] /\ drafts \in [Req -> Int]
    /\ \A r \in Req : nTok[r] \in Int
    /\ epoch \in [Req -> Int] /\ nBlk \in [Req -> Nat]
    /\ running \in Seq(Req) /\ waiting \in Seq(Req) /\ skipped \in Seq(Req)
    /\ pending \in [Req -> Seq(BlockId)] /\ runner \in [Req -> Seq(BlockId)]

(* The shape of schedule()'s local variables.                                *)
Locals ==
    /\ DOMAIN s = {"at", "idx", "sched", "fresh", "num", "spec", "delta", "count", "soft",
                   "tokens", "retry", "preempted", "broke", "aside"}
    /\ s.at \in {"idle", "collect", "running", "waiting", "output"}
    /\ s.idx \in Nat /\ s.count \in Int /\ s.tokens \in Int
    /\ s.sched \in Seq(Req) /\ s.aside \in Seq(Req) /\ s.fresh \in SUBSET Req
    /\ s.num \in [Req -> Int] /\ s.spec \in [Req -> Int] /\ s.delta \in [Req -> Seq(BlockId)]
    /\ s.preempted \in BOOLEAN /\ s.broke \in BOOLEAN

(* A step in flight: a lone prefill or decodes, no more than compiled for,   *)
(* with the token of every request before its drafts.                        *)
StepOK(step) ==
    /\ DOMAIN step.num \subseteq Req /\ IsFiniteSet(DOMAIN step.num)
    /\ step.emit \subseteq DOMAIN step.num /\ step.prefill \subseteq DOMAIN step.num
    /\ Cardinality(DOMAIN step.num) <= decode_batch_size
    /\ step.prefill # {} => Cardinality(DOMAIN step.num) = 1
    /\ \A r \in DOMAIN step.num :
          /\ step.num[r] \in Int /\ step.spec[r] \in 0..NumSpec
          /\ step.num[r] - step.spec[r] >= 1
          /\ step.num[r] - step.spec[r] > 1 <=> r \in step.prefill

(* What schedule() tells the workers about a step.                           *)
Counts == UNION {[D -> Int] : D \in SUBSET Req}
StepRec == [num : Counts, spec : Counts, emit : SUBSET Req, prefill : SUBSET Req]

(* What is in flight.  schedule() is called with a free place in the line.   *)
Line ==
    /\ steps \in Seq(StepRec)
    /\ Len(steps) <= 2
    /\ ~At("idle") => Len(steps) < Depth
    /\ At("collect") => steps # <<>>
    /\ \A i \in 1..Len(steps) : StepOK(steps[i])

(* A request is in one queue at most; only the last running one prefills.    *)
Queues ==
    /\ Distinct(running)
    /\ \A r \in Range(running) : status[r] = "running"
    /\ \A r \in Range(waiting) \cup Range(skipped) \cup Range(s.aside) :
          status[r] \in {"waiting", "remote", "preempted"}
    /\ Range(s.aside) \cap (Range(waiting) \cup Range(skipped)) = {}
    /\ \A r \in Range(running) : is_prefill(r) => r = Last(running)

(* A request's token counts.                                                 *)
Token(r) ==
    /\ PromptLen[r] <= nTok[r] /\ (status[r] # "done" => nTok[r] < MaxLen[r])
    /\ nComp[r] < MaxModelLen
    /\ drafts[r] \in 0..NumSpec
    /\ status[r] \in {"new", "waiting", "preempted"} => nComp[r] < nTok[r]
    /\ status[r] = "remote" => nComp[r] <= nTok[r]
    /\ status[r] = "running" /\ NumSpec = 0 => nComp[r] <= nTok[r] + nOut[r]

(* Requests that were preempted in flight are not in the way: no request is  *)
(* admitted before the step that held them has come back.                    *)
Unsettled ==
    \/ s.at \in {"running", "output"} /\ s.preempted
    \/ At("collect")
    \/ At("idle") /\ Len(steps) = 2

(* The placeholder that the step at place i of the line stands for.          *)
Sent(r, i) == IF i <= Len(steps) /\ r \in steps[i].emit THEN 1 ELSE 0

(* A request and the steps in flight: placeholders are counted, a request    *)
(* that does not run is in no step but the oldest, and one that does has     *)
(* computed all that a step samples for it.                                  *)
Flight(r) ==
    /\ status[r] # "done" => nOut[r] = IF Lag = 1 THEN Sent(r, 1) + Sent(r, 2) ELSE 0
    /\ status[r] \notin {"running", "done"} =>
          \A i \in 1..Len(steps) : r \in DOMAIN steps[i].num => i = 1 /\ Unsettled
    /\ status[r] = "running" => \A i \in 1..Len(steps) : r \in steps[i].emit =>
          /\ nComp[r] - steps[i].spec[r] >= nTok[r] + nOut[r] - Lag
          /\ Lag = 0 => \A j \in 1..Len(steps) : r \in steps[j].emit => j = i

(* What was decided about a scheduled request.                               *)
Picked(r) ==
    /\ r \in Scheduled =>
          /\ s.num[r] >= 1 /\ s.spec[r] \in 0..NumSpec /\ nComp[r] + s.num[r] < MaxModelLen
          /\ s.num[r] - s.spec[r] >= 1
          /\ s.num[r] - s.spec[r] <= nTok[r] + nOut[r] - nComp[r]
          /\ s.num[r] - s.spec[r] > 1 <=> is_prefill(r)
          /\ Reach(nComp[r] + s.num[r], NumSpec) <= nBlk[r] * BlockSize
    /\ r \notin Range(s.sched) => s.spec[r] = 0

(* The runner's table, what is kept back for it and what this step adds are  *)
(* the manager's table; the newest step finds its blocks there.              *)
Tabled(r) ==
    /\ status[r] # "running" \/ r \in s.fresh => pending[r] = <<>>
    /\ r \in s.fresh => s.delta[r] = Table(r) /\ r \notin Range(s.sched)
    /\ status[r] = "running" /\ r \notin s.fresh =>
          /\ Table(r) = IF r \in Range(s.sched) THEN runner[r] \o pending[r] \o s.delta[r]
                        ELSE runner[r] \o pending[r]
          /\ steps # <<>> /\ r \in DOMAIN Last(steps).num =>
                Reach(nComp[r], NumSpec) <= Len(runner[r]) * BlockSize

(* num_new_tokens of a running request that is not skipped.                  *)
NewOK(r, n) ==
    /\ n \in Int /\ n >= 1 /\ nComp[r] + n < MaxModelLen
    /\ n <= nTok[r] + drafts[r] + nOut[r] - nComp[r]
    /\ nTok[r] + nOut[r] - nComp[r] >= 1
    /\ is_prefill(r) => n >= 2

(* The running loop schedules requests it has passed, none of them twice; a  *)
(* trailing prefill is the only one it schedules.                            *)
RunningLoop ==
    /\ Distinct(s.sched) /\ s.count = Len(s.sched)
    /\ s.count <= decode_batch_size /\ (~s.broke => s.count < decode_batch_size)
    /\ \A k \in 1..Len(running) : running[k] \in Range(s.sched) => k < s.idx
    /\ Retrying /\ ~s.broke =>
          /\ Current \in Range(running) \ Range(s.sched)
          /\ \A k \in 1..Len(running) : running[k] = Current => k <= s.idx
          /\ NewOK(Current, CurrentNew)
    /\ running # <<>> /\ is_prefill(Last(running)) =>
          /\ Range(s.sched) \subseteq {Last(running)}
          /\ Retrying /\ ~s.broke => Current = Last(running)
          /\ s.sched = <<>> =>
                /\ ~s.broke
                /\ Retrying <=> s.preempted
                /\ ~Retrying => s.idx = Len(running) /\ s.tokens = MaxTokens

(* Where schedule() stands.                                                  *)
Loops ==
    /\ Between => s.sched = <<>> /\ s.fresh = {} /\ s.aside = <<>>
    /\ Scheduled \subseteq Range(running) /\ IsFiniteSet(s.fresh)
    /\ At("running") => s.fresh = {} /\ s.idx >= 1 /\ RunningLoop
    /\ At("waiting") =>
          /\ s.count = Len(s.sched) + Cardinality(s.fresh) /\ s.count <= decode_batch_size
          /\ ~s.preempted /\ \A r \in Range(running) : ~is_prefill(r)
    /\ At("output") =>
          /\ Cardinality(Scheduled) <= decode_batch_size
          /\ \A r \in Scheduled : is_prefill(r) => Cardinality(Scheduled) = 1

(* The inductive invariant.                                                  *)
Requests == \A r \in Req : Token(r) /\ Flight(r) /\ Picked(r) /\ Tabled(r)
IInv == Types /\ Locals /\ Line /\ Queues /\ Requests /\ Loops
-----------------------------------------------------------------------------
(* Queues.                                                                   *)

(* The elements of a sequence of n are at most n, and n if they differ.      *)
LEMMA RangeCardinality ==
    ASSUME NEW S, NEW q \in Seq(S)
    PROVE  /\ IsFiniteSet(Range(q)) /\ Cardinality(Range(q)) <= Len(q)
           /\ Cardinality(Range(q)) \in Nat
           /\ Distinct(q) => Cardinality(Range(q)) = Len(q)
<1>1. q \in [1..Len(q) -> Range(q)] /\ DOMAIN q = 1..Len(q) /\ Len(q) \in Nat
  <2>1. q \in [1..Len(q) -> S] /\ DOMAIN q = 1..Len(q) /\ Len(q) \in Nat
    OBVIOUS
  <2> QED
    BY <2>1 DEF Range
<1>2. \A x \in Range(q) : \E i \in 1..Len(q) : q[i] = x
  BY <1>1 DEF Range
<1>3. q \in Surjection(1..Len(q), Range(q))
  BY <1>1, <1>2 DEF Surjection
<1>4. Distinct(q) => q \in Injection(1..Len(q), Range(q))
  BY <1>1 DEF Injection, IsInjective, Distinct
<1>5. IsFiniteSet(1..Len(q)) /\ Cardinality(1..Len(q)) = Len(q)
  BY <1>1, IntervalCardinality
<1>6. /\ IsFiniteSet(Range(q)) /\ Cardinality(Range(q)) <= Len(q)
      /\ Distinct(q) => Cardinality(Range(q)) = Len(q)
  BY <1>3, <1>4, <1>5, FS_Surjection
<1> QED
  BY <1>6, FS_CardinalityType

(* What is left of a queue when the requests of R leave it.                  *)
LEMMA WithoutFacts ==
    ASSUME NEW q \in Seq(Req), NEW R
    PROVE  /\ Without(q, R) \in Seq(Req) /\ Range(Without(q, R)) = Range(q) \ R
           /\ Distinct(q) => Distinct(Without(q, R))
           /\ q # <<>> /\ Last(q) \notin R => Without(q, R) # <<>> /\ Last(Without(q, R)) = Last(q)
<1> DEFINE t == Without(q, R)
<1>1. PICK e : Enumerates(e, t, q, Req \ R)
  BY KeptFacts DEF Without
<1>2. t \in Seq(Req)
  BY KeptFacts DEF Without
<1> HIDE DEF t
<1>3. /\ e \in [1..Len(t) -> 1..Len(q)]
      /\ \A j, k \in 1..Len(t) : j < k => e[j] < e[k]
      /\ \A k \in 1..Len(t) : t[k] = q[e[k]] /\ q[e[k]] \in Req \ R
      /\ \A i \in 1..Len(q) : q[i] \in Req \ R => \E k \in 1..Len(t) : e[k] = i
  BY <1>1 DEF Enumerates
<1>4. /\ DOMAIN q = 1..Len(q) /\ DOMAIN t = 1..Len(t) /\ Len(q) \in Nat /\ Len(t) \in Nat
      /\ \A i \in 1..Len(q) : q[i] \in Req
  BY <1>2
<1>5. Range(t) \subseteq Range(q) \ R
  BY <1>3, <1>4 DEF Range
<1>6. Range(q) \ R \subseteq Range(t)
  <2> SUFFICES ASSUME NEW i \in 1..Len(q), q[i] \notin R PROVE q[i] \in Range(t)
    BY <1>4 DEF Range
  <2>1. PICK k \in 1..Len(t) : e[k] = i
    BY <1>3, <1>4
  <2> QED
    BY <1>3, <1>4, <2>1 DEF Range
<1>7. ASSUME Distinct(q) PROVE Distinct(t)
  <2> SUFFICES ASSUME NEW j \in 1..Len(t), NEW k \in 1..Len(t), t[j] = t[k] PROVE j = k
    BY DEF Distinct
  <2>1. e[j] = e[k]
    BY <1>3, <1>7 DEF Distinct
  <2> QED
    BY <1>3, <1>4, <2>1
<1>8. ASSUME q # <<>>, Last(q) \notin R
      PROVE  t # <<>> /\ Last(t) = Last(q)
  <2>1. Len(q) \in 1..Len(q) /\ q[Len(q)] \in Req \ R
    BY <1>4, <1>8 DEF Last
  <2>2. PICK k \in 1..Len(t) : e[k] = Len(q)
    BY <1>3, <2>1
  <2>3. Len(t) \in 1..Len(t)
    BY <1>4, <2>2
  <2>4. k = Len(t)
    <3>1. e[Len(t)] \in 1..Len(q)
      BY <1>3, <2>3
    <3>2. k < Len(t) => e[k] < e[Len(t)]
      BY <1>3, <2>3
    <3>3. ~(Len(q) < e[Len(t)])
      BY <1>4, <3>1
    <3>4. ~(k < Len(t))
      BY <2>2, <3>2, <3>3
    <3>5. k \in Int /\ k <= Len(t) /\ Len(t) \in Int
      BY <1>4
    <3> QED
      BY ONLY <3>4, <3>5
  <2>5. t[k] = q[Len(q)]
    BY <1>3, <2>2
  <2> QED
    BY <2>3, <2>4, <2>5 DEF Last
<1> QED
  BY <1>2, <1>5, <1>6, <1>7, <1>8 DEF t

(* One request leaves: those behind it move up by one.                       *)
LEMMA DropOne ==
    ASSUME NEW q \in Seq(Req), Distinct(q), NEW p \in 1..Len(q)
    PROVE  /\ Len(Without(q, {q[p]})) = Len(q) - 1
           /\ \A k \in 1..Len(Without(q, {q[p]})) : \E i \in 1..Len(q) :
                 /\ q[i] = Without(q, {q[p]})[k] /\ k <= i /\ (i > p => k + 1 <= i)
<1> DEFINE t == Without(q, {q[p]})
<1>1. PICK e : Enumerates(e, t, q, Req \ {q[p]})
  BY KeptFacts DEF Without
<1>2. t \in Seq(Req) /\ Range(t) = Range(q) \ {q[p]} /\ Distinct(t)
  BY WithoutFacts
<1> HIDE DEF t
<1>3. /\ e \in [1..Len(t) -> 1..Len(q)]
      /\ \A j, k \in 1..Len(t) : j < k => e[j] < e[k]
      /\ \A k \in 1..Len(t) : t[k] = q[e[k]] /\ q[e[k]] \in Req \ {q[p]}
  BY <1>1 DEF Enumerates
<1>4. Len(q) \in Nat /\ Len(t) \in Nat /\ DOMAIN q = 1..Len(q)
  BY <1>2
<1>5. \A k \in 1..Len(t) : e[k] # p /\ e[k] \in Int
  BY <1>3, <1>4
<1> DEFINE T == {n \in Nat : n \in 1..Len(t) => n <= e[n] /\ (e[n] > p => n + 1 <= e[n])}
<1>6. Nat \subseteq T
  <2>1. 0 \in T
    OBVIOUS
  <2>2. ASSUME NEW n \in Nat, n \in T PROVE n + 1 \in T
    <3> SUFFICES ASSUME n + 1 \in 1..Len(t)
                 PROVE  n + 1 <= e[n + 1] /\ (e[n + 1] > p => n + 2 <= e[n + 1])
      OBVIOUS
    <3>1. e[n + 1] \in 1..Len(q) /\ e[n + 1] # p
      BY <1>3, <1>5
    <3>2. CASE n = 0
      BY <3>1, <3>2
    <3>3. CASE n # 0
      <4>1. n \in 1..Len(t) /\ n < n + 1
        BY <3>3, <1>4
      <4>2. e[n] < e[n + 1] /\ e[n] # p /\ e[n] \in Int
        BY <1>3, <1>5, <4>1
      <4>3. n <= e[n] /\ (e[n] > p => n + 1 <= e[n])
        BY <2>2, <4>1
      <4> QED
        BY <3>1, <4>2, <4>3
    <3> QED
      BY <3>2, <3>3
  <2> HIDE DEF T
  <2> QED
    BY <2>1, <2>2, NatSetInduction
<1>7. \A k \in 1..Len(t) : k <= e[k] /\ (e[k] > p => k + 1 <= e[k])
  BY <1>4, <1>6
<1>8. Len(t) = Len(q) - 1
  <2>1. q[p] \in Range(q)
    BY <1>4 DEF Range
  <2>2. Cardinality(Range(t)) = Len(t) /\ Cardinality(Range(q)) = Len(q) /\ IsFiniteSet(Range(q))
    BY <1>2, RangeCardinality
  <2> QED
    BY <1>2, <2>1, <2>2, FS_RemoveElement
<1>9. ASSUME NEW k \in 1..Len(t)
      PROVE  \E i \in 1..Len(q) : q[i] = t[k] /\ k <= i /\ (i > p => k + 1 <= i)
  BY <1>3, <1>7
<1> QED
  BY <1>8, <1>9 DEF t

(* A queue that is not empty has a least and a most urgent request.          *)
LEMMA Extremes ==
    ASSUME NEW q \in Seq(Req), q # <<>>
    PROVE  /\ \E v \in Range(q) : \A x \in Range(q) : Priority[x] <= Priority[v]
           /\ \E v \in Range(q) : \A x \in Range(q) : Priority[v] <= Priority[x]
<1>1. Len(q) \in Nat \ {0} /\ DOMAIN q = 1..Len(q) /\ \A i \in 1..Len(q) : Priority[q[i]] \in Int
  <2>1. Len(q) \in Nat \ {0} /\ DOMAIN q = 1..Len(q) /\ \A i \in 1..Len(q) : q[i] \in Req
    OBVIOUS
  <2> QED
    BY <2>1, ConfigsAssumption
<1> DEFINE pr(i) == Priority[q[i]]
           T == {n \in Nat : n + 1 <= Len(q) =>
                   \E a, b \in 1..(n + 1) : \A i \in 1..(n + 1) : pr(i) <= pr(a) /\ pr(b) <= pr(i)}
<1>2. Nat \subseteq T
  <2>1. \A i \in 1..Len(q) : pr(i) \in Int
    BY <1>1
  <2> HIDE DEF pr
  <2>2. 0 \in T
    BY <1>1, <2>1
  <2>3. ASSUME NEW n \in Nat, n \in T PROVE n + 1 \in T
    <3> SUFFICES ASSUME n + 2 <= Len(q)
                 PROVE  \E a, b \in 1..(n + 2) : \A i \in 1..(n + 2) : pr(i) <= pr(a) /\ pr(b) <= pr(i)
      OBVIOUS
    <3>1. PICK a, b \in 1..(n + 1) : \A i \in 1..(n + 1) : pr(i) <= pr(a) /\ pr(b) <= pr(i)
      BY <2>3, <1>1
    <3>2. \A i \in 1..(n + 2) : pr(i) \in Int
      BY <1>1, <2>1
    <3>3. \A i \in 1..(n + 2) : i \in 1..(n + 1) \/ i = n + 2
      OBVIOUS
    <3>4. a \in 1..(n + 2) /\ b \in 1..(n + 2) /\ n + 2 \in 1..(n + 2)
      OBVIOUS
    <3>5. PICK c \in 1..(n + 2) : pr(a) <= pr(c) /\ pr(n + 2) <= pr(c)
      BY <3>2, <3>4
    <3>6. PICK d \in 1..(n + 2) : pr(d) <= pr(b) /\ pr(d) <= pr(n + 2)
      BY <3>2, <3>4
    <3>7. \A i \in 1..(n + 2) : pr(i) <= pr(c) /\ pr(d) <= pr(i)
      BY <3>1, <3>2, <3>3, <3>4, <3>5, <3>6
    <3> QED
      BY <3>7
  <2> HIDE DEF T
  <2> QED
    BY <2>2, <2>3, NatSetInduction
<1>3. PICK a, b \in 1..Len(q) : \A i \in 1..Len(q) : pr(i) <= pr(a) /\ pr(b) <= pr(i)
  <2>1. Len(q) - 1 \in Nat /\ (Len(q) - 1) + 1 = Len(q)
    BY <1>1
  <2>2. Len(q) - 1 \in T
    <3> HIDE DEF T
    <3> QED
      BY <1>2, <2>1
  <2> HIDE DEF pr
  <2> QED
    BY <2>1, <2>2, <1>1
<1>4. q[a] \in Range(q) /\ q[b] \in Range(q)
  BY <1>1 DEF Range
<1>5. \A x \in Range(q) : Priority[x] <= Priority[q[a]] /\ Priority[q[b]] <= Priority[x]
  BY <1>1, <1>3 DEF Range
<1> QED
  BY <1>4, <1>5

-----------------------------------------------------------------------------
(* Arithmetic.                                                               *)

(* The numbers of a deployment.                                              *)
LEMMA ConfigFacts ==
    ASSUME Types
    PROVE  /\ NumSpec \in Nat /\ Depth \in {1, 2} /\ Threshold \in Nat \ {1}
           /\ Lag \in {0, 1} /\ (Lag = 1 => NumSpec = 0) /\ (Async <=> Lag = 1)
           /\ decode_batch_size \in Nat \ {0}
           /\ \A r \in Req : Remote[r] \in 0..PromptLen[r]
<1>1. config \in Configs
  BY DEF Types
<1>2. /\ config.pp \in {1, 2} /\ config.seqs \in Nat \ {0} /\ config.pp <= config.seqs
      /\ config.threshold \in Nat \ {1} /\ config.spec \in Nat
      /\ config.async => config.spec = 0
      /\ \A r \in Req : config.remote[r] \in 0..PromptLen[r]
  BY <1>1, ConfigsAssumption, ScopeAssumption, Zenon
<1>3. NumSpec \in Nat /\ Threshold \in Nat \ {1} /\ \A r \in Req : Remote[r] \in 0..PromptLen[r]
  BY <1>2 DEF NumSpec, Threshold, Remote
<1>4. Depth \in {1, 2}
  BY <1>2 DEF Depth, PP
<1>5. Lag \in {0, 1} /\ (Async <=> Lag = 1)
  BY DEF Lag
<1>6. Lag = 1 => NumSpec = 0
  BY <1>2, <1>5 DEF Async, NumSpec
<1>7. decode_batch_size \in Nat \ {0}
  <2>1. PP \in {1, 2} /\ MaxNumSeqs \in Nat \ {0} /\ PP <= MaxNumSeqs
    BY <1>2 DEF PP, MaxNumSeqs
  <2>2. PP \in Nat \ {0} /\ MaxNumSeqs \in Int /\ 1 * PP <= MaxNumSeqs
    BY <2>1
  <2>3. 1 <= MaxNumSeqs \div PP /\ MaxNumSeqs \div PP \in Int
    BY <2>2, DivBounds, DivFacts
  <2> QED
    BY <2>3 DEF decode_batch_size
<1> QED
  BY <1>3, <1>4, <1>5, <1>6, <1>7

(* A deployment does not change.                                             *)
LEMMA ConfigStays ==
    ASSUME UNCHANGED config
    PROVE  /\ NumSpec' = NumSpec /\ Depth' = Depth /\ Lag' = Lag
           /\ decode_batch_size' = decode_batch_size
  BY DEF NumSpec, Depth, Lag, decode_batch_size, Async, PP, MaxNumSeqs

(* The lengths of a request.                                                 *)
LEMMA RequestFacts ==
    ASSUME NEW r \in Req
    PROVE  /\ PromptLen[r] \in Int /\ 1 <= PromptLen[r] /\ PromptLen[r] < MaxLen[r]
           /\ MaxLen[r] \in Int /\ MaxLen[r] <= MaxModelLen /\ MaxModelLen \in Nat
           /\ MaxTokens \in Int /\ MaxTokens >= 2 /\ BlockSize \in Nat \ {0}
  BY ConfigsAssumption

(* Division that rounds up.                                                  *)
LEMMA CeilDivFacts ==
    ASSUME NEW a \in Int, NEW b \in Nat \ {0}
    PROVE  /\ CeilDiv(a, b) \in Int /\ a <= CeilDiv(a, b) * b
           /\ a >= 0 => CeilDiv(a, b) >= 0
<1> DEFINE x == a + b - 1
<1>1. x \in Int
  OBVIOUS
<1>2. /\ x \div b \in Int /\ x < (x \div b) * b + b
      /\ 0 * b <= x => 0 <= x \div b
  <2> HIDE DEF x
  <2> QED
    BY <1>1, DivFacts, DivBounds
<1>3. CeilDiv(a, b) = x \div b
  BY DEF CeilDiv
<1>4. (x \div b) * b \in Int
  BY <1>2
<1>5. a <= (x \div b) * b
  BY <1>2, <1>4
<1>6. a >= 0 => x \div b >= 0
  BY <1>2
<1> QED
  BY <1>2, <1>3, <1>5, <1>6

(* The positions for which allocate_slots finds blocks: the tokens and the   *)
(* look-ahead, cut at max_model_len.                                         *)
LEMMA ReachFacts ==
    ASSUME NEW n \in Int, NEW ahead \in Nat, NEW m \in Int, MaxModelLen \in Nat
    PROVE  /\ Reach(n, ahead) \in Int /\ (n >= 0 => Reach(n, ahead) >= 0)
           /\ m <= n => Reach(m, ahead) <= Reach(n, ahead)
  BY DEF Reach, MinOf

(* The blocks it finds hold them.                                            *)
LEMMA SlotsFacts ==
    ASSUME NEW n \in Int, NEW ahead \in Nat, MaxModelLen \in Nat, BlockSize \in Nat \ {0}
    PROVE  /\ Slots(n, ahead) \in Int /\ (n >= 0 => Slots(n, ahead) >= 0)
           /\ Reach(n, ahead) <= Slots(n, ahead) * BlockSize
<1>1. Reach(n, ahead) \in Int /\ (n >= 0 => Reach(n, ahead) >= 0)
  BY ReachFacts
<1>2. Slots(n, ahead) = CeilDiv(Reach(n, ahead), BlockSize)
  BY DEF Slots
<1> QED
  BY <1>1, <1>2, CeilDivFacts

(* Consecutive pieces of a table.                                            *)
LEMMA BlocksFacts ==
    ASSUME NEW r \in Req, epoch \in [Req -> Int], NEW a \in Nat, NEW b \in Nat, a <= b
    PROVE  /\ Blocks(r, a, b) \in Seq(BlockId) /\ Len(Blocks(r, a, b)) = b - a
           /\ Blocks(r, 0, a) \o Blocks(r, a, b) = Blocks(r, 0, b)
<1>1. ASSUME NEW c \in Nat, NEW d \in Nat, c <= d
      PROVE  /\ Blocks(r, c, d) \in Seq(BlockId) /\ Len(Blocks(r, c, d)) = d - c
             /\ \A i \in 1..(d - c) : Blocks(r, c, d)[i] = <<epoch[r], c + i>>
  <2>1. d - c \in Nat /\ \A i \in 1..(d - c) : <<epoch[r], c + i>> \in BlockId
    BY <1>1 DEF BlockId
  <2> QED
    BY <2>1 DEF Blocks
<1> DEFINE u == Blocks(r, 0, a)
           v == Blocks(r, a, b)
           w == Blocks(r, 0, b)
           id(i) == <<epoch[r], i>>
<1>2. u \in Seq(BlockId) /\ Len(u) = a /\ \A i \in 1..a : u[i] = id(i)
  BY <1>1
<1>3. w \in Seq(BlockId) /\ Len(w) = b /\ \A i \in 1..b : w[i] = id(i)
  BY <1>1
<1>4. v \in Seq(BlockId) /\ Len(v) = b - a /\ \A i \in 1..(b - a) : v[i] = id(a + i)
  BY <1>1
<1> HIDE DEF u, v, w, id
<1>5. Len(w) = Len(u) + Len(v) /\ \A i \in 1..Len(u) : w[i] = u[i]
  BY <1>2, <1>3, <1>4
<1>6. \A i \in 1..Len(v) : w[Len(u) + i] = v[i]
  BY <1>2, <1>3, <1>4
<1>7. u \o v = w
  BY <1>2, <1>3, <1>4, <1>5, <1>6, ConcatIs
<1> QED
  BY <1>4, <1>7 DEF u, v, w

-----------------------------------------------------------------------------
(* Token counts.                                                             *)

(* A running request that decodes has one token to compute.                  *)
LEMMA OneToDecode ==
    ASSUME Types, Line, NEW r \in Req, Flight(r), status[r] = "running"
    PROVE  /\ nOut[r] >= 0
           /\ ~is_prefill(r) => nTok[r] + nOut[r] - nComp[r] <= 1
<1>1. nTok[r] \in Int /\ nComp[r] \in Int /\ nOut[r] \in Int /\ Lag \in {0, 1}
  BY ConfigFacts DEF Types
<1>2. nOut[r] = IF Lag = 1 THEN Sent(r, 1) + Sent(r, 2) ELSE 0
  BY DEF Flight
<1>3. Sent(r, 1) \in {0, 1} /\ Sent(r, 2) \in {0, 1}
  BY DEF Sent
<1>4. ASSUME NEW i \in {1, 2}, Sent(r, i) = 1
      PROVE  nComp[r] >= nTok[r] + nOut[r] - Lag
  <2>1. i \in 1..Len(steps) /\ r \in steps[i].emit
    <3>1. i <= Len(steps) /\ r \in steps[i].emit
      BY <1>4 DEF Sent
    <3>2. Len(steps) \in Nat
      BY DEF Line
    <3> QED
      BY <3>1, <3>2
  <2>2. nComp[r] - steps[i].spec[r] >= nTok[r] + nOut[r] - Lag
    BY <2>1 DEF Flight
  <2>3. steps[i].spec[r] \in 0..NumSpec /\ NumSpec \in Nat
    BY <2>1, ConfigFacts DEF Line, StepOK
  <2> QED
    BY <1>1, <2>2, <2>3
<1>5. ~is_prefill(r) => nComp[r] >= nTok[r] - 1
  BY <1>1 DEF is_prefill
<1>6. nOut[r] = 0 \/ (Lag = 1 /\ (Sent(r, 1) = 1 \/ Sent(r, 2) = 1))
  BY <1>2, <1>3, <1>1
<1>7. nOut[r] >= 0
  BY <1>2, <1>3
<1>8. CASE nOut[r] = 0
  BY <1>1, <1>5, <1>7, <1>8
<1>9. CASE Lag = 1 /\ (Sent(r, 1) = 1 \/ Sent(r, 2) = 1)
  <2>1. nComp[r] >= nTok[r] + nOut[r] - 1
    BY <1>4, <1>9
  <2> QED
    BY <1>1, <1>7, <2>1
<1> QED
  BY <1>6, <1>8, <1>9

(* num_new_tokens is positive, reaches no further than the drafts, starts at *)
(* the anchor and is more than one token of a prefill.                       *)
LEMMA NumNewOK ==
    ASSUME Types, Locals, Line, NEW r \in Req, Token(r), Flight(r), status[r] = "running",
           s.tokens > 0, ~Skippable(r), is_prefill(r) => s.tokens = MaxTokens
    PROVE  NewOK(r, NumNew(r))
<1> DEFINE k == nTok[r]
           c == nComp[r]
           o == nOut[r]
           d == drafts[r]
           m == MaxModelLen - 1 - c
           raw == k + d + o - c
           n == NumNew(r)
<1>1. /\ k \in Int /\ c \in Int /\ o \in Int /\ d \in Int /\ s.tokens \in Int
      /\ NumSpec \in Nat /\ Threshold \in Nat \ {1}
  BY ConfigFacts DEF Types, Locals
<1>2. /\ k < MaxModelLen /\ c < MaxModelLen /\ MaxModelLen \in Int /\ MaxTokens \in Int /\ MaxTokens >= 2
      /\ d >= 0 /\ d <= NumSpec /\ o >= 0 /\ (NumSpec = 0 => c <= k + o)
  <2>1. k < MaxLen[r] /\ c < MaxModelLen /\ d \in 0..NumSpec /\ (NumSpec = 0 => c <= k + o)
    BY DEF Token
  <2> QED
    BY <1>1, <2>1, RequestFacts, OneToDecode
<1>3. /\ NumSpec > 0 /\ d > 0 => k + o - c > 0
      /\ NumSpec > 0 /\ d = 0 => raw >= 0
  BY <1>1, <1>2 DEF Skippable, should_defer_spec_step, RawNew
<1>4. n = MinOf(MinOf(Limited(raw), s.tokens), m) /\ n # 0
  BY DEF Skippable, NumNew, RawNew
<1>5. is_prefill(r) <=> c < k - 1
  BY DEF is_prefill
<1>6. k + o - c >= 0
  BY <1>1, <1>2, <1>3
<1> HIDE DEF k, c, o, d, n
<1>7. Limited(raw) = IF Threshold > 0 THEN MinOf(raw, Threshold) ELSE raw
  BY DEF Limited
<1>8. raw >= 0 /\ raw \in Int /\ m >= 0 /\ m \in Int
  BY <1>1, <1>2, <1>6
<1>9. n \in Int /\ n >= 1 /\ n <= raw /\ n <= m
  BY <1>1, <1>4, <1>7, <1>8 DEF MinOf
<1>10. k + o - c >= 1
  BY <1>1, <1>2, <1>3, <1>6, <1>9
<1>11. c < k - 1 => n >= 2
  <2> SUFFICES ASSUME c < k - 1 PROVE n >= 2
    OBVIOUS
  <2>1. raw >= 2 /\ m >= 1 /\ s.tokens = MaxTokens
    BY <1>1, <1>2, <1>5
  <2>2. m >= 2
    <3>1. k < MaxLen[r] /\ MaxLen[r] <= MaxModelLen /\ MaxLen[r] \in Int
      BY RequestFacts DEF Token, k
    <3> QED
      BY <1>1, <1>2, <3>1
  <2> QED
    BY <1>1, <1>2, <1>4, <1>7, <1>8, <2>1, <2>2 DEF MinOf
<1> QED
  BY <1>1, <1>5, <1>9, <1>10, <1>11, <1>2 DEF NewOK, k, c, o, d, n

(* A prefill that is looked at is scheduled.                                 *)
LEMMA PrefillNotSkipped ==
    ASSUME Types, Locals, Line, NEW r \in Req, Token(r), Flight(r), status[r] = "running",
           s.tokens = MaxTokens, is_prefill(r)
    PROVE  ~Skippable(r)
<1> DEFINE k == nTok[r]
           c == nComp[r]
           o == nOut[r]
           d == drafts[r]
<1>1. /\ k \in Int /\ c \in Int /\ o \in Int /\ d \in Int
      /\ NumSpec \in Nat /\ Threshold \in Nat \ {1}
  BY ConfigFacts DEF Types
<1>2. /\ k < MaxLen[r] /\ MaxLen[r] \in Int /\ MaxLen[r] <= MaxModelLen /\ MaxModelLen \in Int
      /\ MaxTokens \in Int /\ MaxTokens >= 2 /\ d >= 0 /\ o >= 0 /\ c < k - 1
  BY <1>1, RequestFacts, OneToDecode DEF Token, is_prefill
<1>3. ~ReachesMax(r)
  BY <1>1, <1>2 DEF ReachesMax
<1>4. ~should_defer_spec_step(r)
  BY <1>1, <1>2 DEF should_defer_spec_step, RawNew
<1>5. NumNew(r) # 0
  <2>1. NumNew(r) = MinOf(MinOf(Limited(k + d + o - c), MaxTokens), MaxModelLen - 1 - c)
    BY DEF NumNew, RawNew
  <2>2. \A x : Limited(x) = IF Threshold > 0 THEN MinOf(x, Threshold) ELSE x
    BY DEF Limited
  <2> HIDE DEF k, c, o, d
  <2> QED
    BY <1>1, <1>2, <2>1, <2>2 DEF MinOf
<1> QED
  BY <1>3, <1>4, <1>5 DEF Skippable

-----------------------------------------------------------------------------
(* Steps.                                                                    *)

(* What is in an empty queue.                                                *)
LEMMA EmptyRange == Range(<<>>) = {}
  BY DEF Range

(* A queue's members and places.                                             *)
LEMMA InRange ==
    ASSUME NEW q \in Seq(Req)
    PROVE  /\ \A x \in Range(q) : x \in Req /\ \E k \in 1..Len(q) : q[k] = x
           /\ \A k \in 1..Len(q) : q[k] \in Range(q)
           /\ q # <<>> => Last(q) \in Range(q) /\ q[1] \in Range(q) /\ Len(q) \in 1..Len(q)
           /\ Range(q) = {} => q = <<>>
<1>1. DOMAIN q = 1..Len(q) /\ Len(q) \in Nat /\ \A k \in 1..Len(q) : q[k] \in Req
  OBVIOUS
<1>2. q # <<>> => 1 \in 1..Len(q) /\ Len(q) \in 1..Len(q)
  BY <1>1
<1> QED
  BY <1>1, <1>2 DEF Range, Last

(* A request at the head of a queue.                                         *)
LEMMA PushFront ==
    ASSUME NEW v \in Req, NEW q \in Seq(Req)
    PROVE  <<v>> \o q \in Seq(Req) /\ Range(<<v>> \o q) = {v} \cup Range(q)
<1>1. PICK w : w = <<v>>
  OBVIOUS
<1>2. w \in Seq(Req) /\ DOMAIN w = {1} /\ w[1] = v
  BY <1>1
<1>3. Range(w) = {v}
  BY <1>2 DEF Range
<1>4. w \o q \in Seq(Req) /\ Range(w \o q) = Range(w) \cup Range(q)
  BY <1>2, ConcatRange
<1> QED
  BY <1>1, <1>3, <1>4

(* A request at the end of a queue.                                          *)
LEMMA PushBack ==
    ASSUME NEW v \in Req, NEW q \in Seq(Req)
    PROVE  /\ Append(q, v) \in Seq(Req) /\ Range(Append(q, v)) = Range(q) \cup {v}
           /\ Last(Append(q, v)) = v /\ Append(q, v) # <<>>
           /\ Distinct(q) /\ v \notin Range(q) => Distinct(Append(q, v))
<1>1. PICK t : t = Append(q, v)
  OBVIOUS
<1>2. /\ t \in Seq(Req) /\ Len(t) = Len(q) + 1 /\ Len(q) \in Nat /\ t[Len(q) + 1] = v
      /\ \A i \in 1..Len(q) : t[i] = q[i]
  BY <1>1, AppendFacts
<1>3. DOMAIN q = 1..Len(q) /\ DOMAIN t = 1..(Len(q) + 1)
  BY <1>2
<1>4. \A i \in 1..(Len(q) + 1) : i \in 1..Len(q) \/ i = Len(q) + 1
  BY <1>2
<1>5. Range(t) = Range(q) \cup {v}
  BY <1>2, <1>3, <1>4 DEF Range
<1>6. Last(t) = v /\ t # <<>>
  BY <1>2 DEF Last
<1>7. ASSUME Distinct(q), v \notin Range(q) PROVE Distinct(t)
  <2>1. \A k \in 1..Len(q) : t[k] # v
    BY <1>2, <1>3, <1>7 DEF Range
  <2>2. \A i, j \in 1..Len(q) : t[i] = t[j] => i = j
    BY <1>2, <1>7 DEF Distinct
  <2>3. \A i, j \in 1..(Len(q) + 1) : t[i] = t[j] => i = j
    BY <1>2, <1>4, <2>1, <2>2
  <2> QED
    BY <1>2, <2>3 DEF Distinct
<1> QED
  BY <1>1, <1>2, <1>5, <1>6, <1>7

(* Concatenation is associative.                                             *)
LEMMA ConcatAssoc ==
    ASSUME NEW S, NEW a \in Seq(S), NEW b \in Seq(S), NEW c \in Seq(S)
    PROVE  (a \o b) \o c = a \o (b \o c)
<1>1. PICK u, w, x : u = a \o b /\ w = b \o c /\ x = u \o c
  OBVIOUS
<1>2. /\ u \in Seq(S) /\ Len(u) = Len(a) + Len(b)
      /\ \A i \in 1..Len(a) : u[i] = a[i]
      /\ \A i \in 1..Len(b) : u[Len(a) + i] = b[i]
  BY <1>1
<1>3. /\ w \in Seq(S) /\ Len(w) = Len(b) + Len(c)
      /\ \A i \in 1..Len(b) : w[i] = b[i]
      /\ \A i \in 1..Len(c) : w[Len(b) + i] = c[i]
  BY <1>1
<1>4. /\ x \in Seq(S) /\ Len(x) = Len(u) + Len(c)
      /\ \A i \in 1..Len(u) : x[i] = u[i]
      /\ \A i \in 1..Len(c) : x[Len(u) + i] = c[i]
  BY <1>1, <1>2
<1>5. Len(a) \in Nat /\ Len(b) \in Nat /\ Len(c) \in Nat
  OBVIOUS
<1>6. Len(x) = Len(a) + Len(w)
  BY <1>2, <1>3, <1>4, <1>5
<1>7. \A i \in 1..Len(a) : x[i] = a[i]
  BY <1>2, <1>4, <1>5
<1>8. ASSUME NEW i \in 1..Len(w) PROVE x[Len(a) + i] = w[i]
  <2>1. CASE i \in 1..Len(b)
    <3>1. Len(a) + i \in 1..Len(u)
      BY <1>2, <1>5, <2>1
    <3> QED
      BY <1>2, <1>3, <1>4, <2>1, <3>1
  <2>2. CASE i \notin 1..Len(b)
    <3>1. PICK j \in 1..Len(c) : i = Len(b) + j
      <4>1. i - Len(b) \in 1..Len(c) /\ i = Len(b) + (i - Len(b))
        BY <1>3, <1>5, <2>2
      <4> QED
        BY <4>1
    <3>2. Len(a) + i = Len(u) + j
      BY <1>2, <1>5, <3>1
    <3> QED
      BY <1>3, <1>4, <3>1, <3>2
  <2> QED
    BY <2>1, <2>2
<1>9. a \o w = x
  BY <1>3, <1>4, <1>6, <1>7, <1>8, ConcatIs
<1> QED
  BY <1>1, <1>9

(* What follows when only the local variables change.                        *)
LEMMA Untouched ==
    ASSUME UNCHANGED <<config, status, nTok, nComp, nOut, drafts>>
    PROVE  \A r : (is_prefill(r)' <=> is_prefill(r)) /\ (Token(r)' <=> Token(r))
<1>1. NumSpec' = NumSpec
  BY ConfigStays
<1> QED
  BY <1>1 DEF is_prefill, Token

(* A block table depends on the epoch and the number of blocks alone.        *)
LEMMA TableStays ==
    ASSUME UNCHANGED <<epoch, nBlk>>
    PROVE  \A r : Table(r)' = Table(r)
  BY DEF Table, Blocks

(* A call of schedule() begins.                                              *)
LEMMA StartStepKeeps ==
    ASSUME IInv, StartStep, UNCHANGED config
    PROVE  IInv'
<1> USE DEF IInv
<1>1. /\ At("idle") /\ Len(steps) < Depth
      /\ UNCHANGED <<status, nTok, nComp, nOut, drafts, epoch, running, waiting, skipped,
                     nBlk, loading, received, pending, steps, runner>>
  BY DEF StartStep, tokVars, queueVars, kvVars
<1>2. /\ DOMAIN s' = {"at", "idx", "sched", "fresh", "num", "spec", "delta", "count", "soft",
                      "tokens", "retry", "preempted", "broke", "aside"}
      /\ s'.at = "running" /\ s'.idx = FirstIndex /\ s'.sched = <<>> /\ s'.fresh = {}
      /\ s'.num = [r \in Req |-> 0] /\ s'.spec = [r \in Req |-> 0] /\ s'.delta = [r \in Req |-> <<>>]
      /\ s'.count = 0 /\ s'.tokens = MaxTokens /\ s'.retry = <<>> /\ s'.aside = <<>>
      /\ s'.preempted = FALSE /\ s'.broke = FALSE
  BY DEF StartStep, NoStep
<1>3. NumSpec' = NumSpec /\ Depth' = Depth /\ Lag' = Lag /\ decode_batch_size' = decode_batch_size
  BY ConfigStays
<1>4. \A r : (is_prefill(r)' <=> is_prefill(r)) /\ (Token(r)' <=> Token(r)) /\ Table(r)' = Table(r)
  BY <1>1, Untouched, TableStays
<1>5. /\ s.sched = <<>> /\ s.fresh = {} /\ Scheduled' = {} /\ Range(s.sched) = {}
      /\ Range(s.sched)' = {} /\ ~Unsettled
  <2>1. s.sched = <<>> /\ s.fresh = {}
    BY <1>1 DEF Loops, Between
  <2>2. Len(steps) # 2
    <3>1. Depth \in {1, 2}
      BY ConfigFacts
    <3>2. Len(steps) \in Nat /\ Len(steps) < Depth
      BY <1>1 DEF Line
    <3> QED
      BY ONLY <3>1, <3>2
  <2>3. ~Unsettled
    BY <1>1, <2>2 DEF Unsettled, At
  <2> QED
    BY <1>2, <2>1, <2>3, EmptyRange DEF Scheduled
<1>6. FirstIndex \in Nat /\ FirstIndex >= 1
  BY DEF FirstIndex, Types
<1>7. Types'
  BY <1>1 DEF Types
<1>8. Locals'
  <2>1. MaxTokens \in Int
    BY ConfigsAssumption
  <2>2. \A S : <<>> \in Seq(S)
    OBVIOUS
  <2>3. s'.num \in [Req -> Int] /\ s'.spec \in [Req -> Int] /\ s'.delta \in [Req -> Seq(BlockId)]
    BY <1>2, <2>2
  <2>4. /\ s'.at \in {"idle", "collect", "running", "waiting", "output"}
        /\ s'.idx \in Nat /\ s'.count \in Int /\ s'.tokens \in Int /\ s'.fresh \in SUBSET Req
    BY <1>2, <1>6, <2>1
  <2>5. s'.sched \in Seq(Req) /\ s'.aside \in Seq(Req)
    BY <1>2, <2>2
  <2>6. s'.preempted \in BOOLEAN /\ s'.broke \in BOOLEAN
    BY <1>2
  <2> QED
    BY <1>2, <2>3, <2>4, <2>5, <2>6 DEF Locals
<1>9. Line'
  BY <1>1, <1>2, <1>3 DEF Line, At, StepOK
<1>10. Queues'
  BY <1>1, <1>2, <1>4, EmptyRange DEF Queues
<1>11. ASSUME NEW r \in Req PROVE Token(r)' /\ Flight(r)' /\ Picked(r)' /\ Tabled(r)'
  <2>1. Token(r) /\ Flight(r) /\ Tabled(r)
    BY DEF Requests
  <2>2. Flight(r)'
    BY <1>1, <1>3, <1>5, <2>1 DEF Flight, Sent
  <2>3. Picked(r)'
    BY <1>2, <1>5 DEF Picked
  <2>4. Tabled(r)'
    BY <1>1, <1>2, <1>4, <1>5, <2>1, ConfigStays DEF Tabled
  <2> QED
    BY <1>4, <2>1, <2>2, <2>3, <2>4
<1>12. Loops'
  <2>1. RunningLoop'
    <3>1. 0 < decode_batch_size /\ 0 <= decode_batch_size
      BY ConfigFacts
    <3>2. ~Retrying'
      BY <1>2 DEF Retrying
    <3>3. Distinct(s.sched)' /\ Len(s.sched)' = 0
      BY <1>2 DEF Distinct
    <3>4. running # <<>> /\ is_prefill(Last(running)) => FirstIndex = Len(running)
      BY DEF FirstIndex
    <3> QED
      BY <1>1, <1>2, <1>3, <1>4, <1>5, <3>1, <3>2, <3>3, <3>4 DEF RunningLoop
  <2> QED
    BY <1>2, <1>5, <1>6, <2>1, FS_EmptySet DEF Loops, Between, At
<1> QED
  BY <1>7, <1>8, <1>9, <1>10, <1>11, <1>12 DEF Requests

(* A running request is passed over.                                         *)
LEMMA SkipRunningKeeps ==
    ASSUME IInv, SkipRunning, UNCHANGED config
    PROVE  IInv'
<1> USE DEF IInv
<1>1. /\ At("running") /\ ~s.broke /\ ~Retrying /\ s.idx <= Len(running) /\ s.tokens > 0
      /\ Skippable(running[s.idx])
      /\ UNCHANGED <<status, nTok, nComp, nOut, drafts, epoch, running, waiting, skipped,
                     nBlk, loading, received, pending, steps, runner>>
      /\ s' = [s EXCEPT !.idx = s.idx + 1]
  BY DEF SkipRunning, tokVars, queueVars, kvVars, InRunningLoop, Current
<1>2. /\ DOMAIN s' = DOMAIN s /\ s'.idx = s.idx + 1
      /\ s'.at = s.at /\ s'.sched = s.sched /\ s'.fresh = s.fresh /\ s'.num = s.num
      /\ s'.spec = s.spec /\ s'.delta = s.delta /\ s'.count = s.count /\ s'.tokens = s.tokens
      /\ s'.retry = s.retry /\ s'.aside = s.aside /\ s'.preempted = s.preempted /\ s'.broke = s.broke
  BY <1>1 DEF Locals
<1>3. NumSpec' = NumSpec /\ Depth' = Depth /\ Lag' = Lag /\ decode_batch_size' = decode_batch_size
  BY ConfigStays
<1>4. \A r : (is_prefill(r)' <=> is_prefill(r)) /\ (Token(r)' <=> Token(r)) /\ Table(r)' = Table(r)
  BY <1>1, Untouched, TableStays
<1>5. /\ Scheduled' = Scheduled /\ (Unsettled' <=> Unsettled) /\ (Retrying' <=> Retrying)
      /\ \A x : At(x)' <=> At(x)
  BY <1>1, <1>2 DEF Scheduled, Unsettled, Retrying, At
<1>7. Types'
  BY <1>1 DEF Types
<1>8. Locals'
  BY <1>2 DEF Locals
<1>9. Line'
  BY <1>1, <1>3, <1>5 DEF Line, StepOK
<1>10. Queues'
  BY <1>1, <1>2, <1>4 DEF Queues
<1>11. ASSUME NEW r \in Req PROVE Token(r)' /\ Flight(r)' /\ Picked(r)' /\ Tabled(r)'
  <2>1. Token(r) /\ Flight(r) /\ Tabled(r) /\ Picked(r)
    BY DEF Requests
  <2>2. Flight(r)'
    BY <1>1, <1>3, <1>5, <2>1 DEF Flight, Sent
  <2>3. Picked(r)'
    BY <1>1, <1>2, <1>3, <1>4, <1>5, <2>1 DEF Picked
  <2>4. Tabled(r)'
    BY <1>1, <1>2, <1>4, <1>5, <2>1, ConfigStays DEF Tabled
  <2> QED
    BY <1>4, <2>1, <2>2, <2>3, <2>4
<1>12. Loops'
  <2>0. RunningLoop /\ s.idx \in Nat /\ s.idx >= 1 /\ s.fresh = {}
    BY <1>1 DEF Loops, Locals
  <2>1. ~(running # <<>> /\ is_prefill(Last(running)))
    <3> SUFFICES ASSUME running # <<>>, is_prefill(Last(running)) PROVE FALSE
      OBVIOUS
    <3> DEFINE r == Last(running)
    <3>1. Len(running) \in 1..Len(running) /\ r = running[Len(running)] /\ r \in Req /\ r \in Range(running)
      BY SMTT(40) DEF Types, Last, Range
    <3>2. s.sched = <<>>
      <4> SUFFICES ASSUME s.sched # <<>> PROVE FALSE
        OBVIOUS
      <4>1. Range(s.sched) \subseteq {r}
        BY <2>0 DEF RunningLoop
      <4>2. s.sched[1] \in Range(s.sched)
        BY DEF Range, Locals
      <4>3. running[Len(running)] \in Range(s.sched)
        BY <3>1, <4>1, <4>2
      <4>4. Len(running) < s.idx
        BY <2>0, <3>1, <4>3 DEF RunningLoop
      <4> QED
        BY <1>1, <2>0, <3>1, <4>4
    <3>3. s.idx = Len(running) /\ s.tokens = MaxTokens
      BY <1>1, <2>0, <3>2 DEF RunningLoop
    <3>4. Skippable(r) /\ status[r] = "running" /\ Token(r) /\ Flight(r) /\ is_prefill(r)
      BY <1>1, <3>1, <3>3 DEF Queues, Requests
    <3> HIDE DEF r
    <3> QED
      BY <3>1, <3>3, <3>4, PrefillNotSkipped
  <2>2. RunningLoop'
    <3>1. \A k \in 1..Len(running) : running[k] \in Range(s.sched) => k < s.idx + 1
      <4>1. \A k \in 1..Len(running) : running[k] \in Range(s.sched) => k < s.idx
        BY <2>0 DEF RunningLoop
      <4> QED
        BY <2>0, <4>1
    <3> QED
      BY <1>1, <1>2, <1>3, <1>4, <1>5, <2>0, <2>1, <3>1 DEF RunningLoop
  <2>3. At("running")' /\ ~Between' /\ ~At("waiting")' /\ ~At("output")'
    BY <1>1, <1>5 DEF Between, At
  <2>4. Scheduled \subseteq Range(running) /\ IsFiniteSet(s.fresh)
    BY DEF Loops
  <2>5. s'.idx >= 1
    BY <1>2, <2>0
  <2> QED
    BY <1>1, <1>2, <1>5, <2>0, <2>2, <2>3, <2>4, <2>5 DEF Loops
<1> QED
  BY <1>7, <1>8, <1>9, <1>10, <1>11, <1>12 DEF Requests

(* The request that allocate_slots is called for.                            *)
LEMMA CurrentFacts ==
    ASSUME IInv, Allocates
    PROVE  /\ Current \in Req /\ Current \in Range(running) /\ Current \notin Range(s.sched)
           /\ status[Current] = "running" /\ NewOK(Current, CurrentNew)
           /\ \A k \in 1..Len(running) : running[k] = Current => k <= s.idx
           /\ running # <<>> /\ s.fresh = {} /\ RunningLoop /\ s.count < decode_batch_size
           /\ is_prefill(Last(running)) => Current = Last(running) /\ s.sched = <<>>
<1> USE DEF IInv
<1> DEFINE r == Current
           L == Len(running)
<1>1. /\ At("running") /\ ~s.broke /\ (Retrying \/ (s.idx <= L /\ s.tokens > 0 /\ ~Skippable(r)))
      /\ s.fresh = {} /\ s.idx \in Nat /\ s.idx >= 1 /\ RunningLoop /\ s.count < decode_batch_size
  <2>1. At("running") /\ ~s.broke /\ (Retrying \/ (s.idx <= L /\ s.tokens > 0 /\ ~Skippable(r)))
    BY DEF Allocates, InRunningLoop
  <2>2. s.fresh = {} /\ s.idx \in Nat /\ s.idx >= 1 /\ RunningLoop
    BY <2>1 DEF Loops, Locals
  <2> QED
    BY <2>1, <2>2 DEF RunningLoop
<1>2. L \in Nat /\ DOMAIN running = 1..L /\ \A k \in 1..L : running[k] \in Req
  BY DEF Types
<1>3. r \in Range(running) \ Range(s.sched) /\ \A k \in 1..L : running[k] = r => k <= s.idx
  <2>1. CASE Retrying
    BY <1>1, <2>1 DEF RunningLoop
  <2>2. CASE ~Retrying
    <3>1. s.idx \in 1..L /\ r = running[s.idx]
      BY <1>1, <1>2, <2>2 DEF Current
    <3>2. r \in Range(running)
      BY <1>2, <3>1 DEF Range
    <3>3. r \notin Range(s.sched)
      BY <1>1, <3>1 DEF RunningLoop
    <3>4. \A k \in 1..L : running[k] = r => k = s.idx
      BY <3>1 DEF Queues, Distinct
    <3> QED
      BY <1>1, <3>2, <3>3, <3>4
  <2> QED
    BY <2>1, <2>2
<1>4. r \in Req /\ status[r] = "running" /\ running # <<>>
  <2>1. PICK k \in 1..L : r = running[k]
    BY <1>2, <1>3 DEF Range
  <2>2. running # <<>>
    BY <2>1, <1>2
  <2> QED
    BY <1>2, <1>3, <2>1, <2>2 DEF Queues
<1>5. ASSUME is_prefill(Last(running))
      PROVE  r = Last(running) /\ s.sched = <<>> /\ (~Retrying => s.tokens = MaxTokens)
  <2>1. L \in 1..L /\ Last(running) = running[L]
    BY <1>2, <1>4 DEF Last
  <2>2. Range(s.sched) \subseteq {Last(running)}
    BY <1>1, <1>4, <1>5 DEF RunningLoop
  <2>3. s.sched = <<>>
    <3> SUFFICES ASSUME s.sched # <<>> PROVE FALSE
      OBVIOUS
    <3>1. s.sched[1] \in Range(s.sched)
      BY DEF Range, Locals
    <3>2. Last(running) \in Range(s.sched)
      BY <2>2, <3>1
    <3>3. L < s.idx
      BY <1>1, <2>1, <3>2 DEF RunningLoop
    <3>4. ~Retrying
      BY <1>1, <1>3, <1>4, <1>5, <3>2 DEF RunningLoop
    <3> QED
      BY <1>1, <1>2, <3>3, <3>4
  <2>4. CASE Retrying
    BY <1>1, <1>4, <1>5, <2>3, <2>4 DEF RunningLoop
  <2>5. CASE ~Retrying
    <3>1. s.idx = L /\ s.tokens = MaxTokens
      BY <1>1, <1>4, <1>5, <2>3, <2>5 DEF RunningLoop
    <3> QED
      BY <2>1, <2>3, <2>5, <3>1 DEF Current
  <2> QED
    BY <2>4, <2>5
<1>6. NewOK(r, CurrentNew)
  <2>1. CASE Retrying
    BY <1>1, <2>1 DEF RunningLoop
  <2>2. CASE ~Retrying
    <3>1. is_prefill(r) => s.tokens = MaxTokens
      BY <1>3, <1>5, <2>2 DEF Queues
    <3>2. Token(r) /\ Flight(r)
      BY <1>4 DEF Requests
    <3>3. CurrentNew = NumNew(r) /\ s.tokens > 0 /\ ~Skippable(r)
      BY <1>1, <2>2 DEF CurrentNew
    <3> HIDE DEF r
    <3> QED
      BY <1>4, <3>1, <3>2, <3>3, NumNewOK
  <2> QED
    BY <2>1, <2>2
<1> QED
  BY <1>1, <1>3, <1>4, <1>5, <1>6

(* allocate_slots for a running request succeeds.                            *)
LEMMA ScheduleRunningKeeps ==
    ASSUME IInv, ScheduleRunning, UNCHANGED config
    PROVE  IInv'
<1> USE DEF IInv
<1>r. PICK r, n : r = Current /\ n = CurrentNew
  OBVIOUS
<1>m. PICK more : more = Needed(r, n)
  OBVIOUS
<1>d. PICK dl : dl = Blocks(r, nBlk[r], nBlk[r] + more)
  OBVIOUS
<1>s. PICK sp : sp = IF drafts[r] > 0 /\ n + nComp[r] - nTok[r] - nOut[r] > 0
                     THEN n + nComp[r] - nTok[r] - nOut[r] ELSE 0
  OBVIOUS
<1>1. /\ Allocates
      /\ UNCHANGED <<status, nTok, nComp, nOut, epoch, running, waiting, skipped,
                     loading, received, pending, steps, runner>>
      /\ nBlk' = [nBlk EXCEPT ![r] = nBlk[r] + more]
      /\ drafts' = [drafts EXCEPT ![r] = 0]
      /\ s' = [s EXCEPT !.sched = Append(s.sched, r), !.count = s.count + 1, !.idx = s.idx + 1,
                         !.retry = <<>>, !.tokens = s.tokens - n, !.num = [s.num EXCEPT ![r] = n],
                         !.spec = [s.spec EXCEPT ![r] = sp], !.delta = [s.delta EXCEPT ![r] = dl],
                         !.broke = ~CanAdmit(s.count + 1, TRUE)]
  BY <1>r, <1>m, <1>d, <1>s DEF ScheduleRunning, queueVars
<1>2. /\ r \in Req /\ r \in Range(running) /\ r \notin Range(s.sched)
      /\ status[r] = "running" /\ NewOK(r, n)
      /\ \A k \in 1..Len(running) : running[k] = r => k <= s.idx
      /\ running # <<>> /\ s.fresh = {} /\ RunningLoop /\ s.count < decode_batch_size
      /\ is_prefill(Last(running)) => r = Last(running) /\ s.sched = <<>>
  BY <1>1, <1>r, CurrentFacts
<1>a. Token(r) /\ Flight(r) /\ Tabled(r)
  BY <1>2 DEF Requests
<1>3. /\ n \in Int /\ nTok[r] \in Int /\ nComp[r] \in Int /\ nOut[r] \in Int /\ drafts[r] \in Int
      /\ nBlk[r] \in Nat /\ NumSpec \in Nat /\ BlockSize \in Nat \ {0} /\ MaxModelLen \in Nat
  BY <1>2, ConfigFacts, RequestFacts DEF NewOK, Types
<1>4. more \in Nat /\ Reach(nComp[r] + n, NumSpec) <= (nBlk[r] + more) * BlockSize
  <2> DEFINE c == Slots(nComp[r] + n, NumSpec)
             top == Reach(nComp[r] + n, NumSpec)
  <2>1. nComp[r] + n \in Int
    BY <1>3
  <2>2. c \in Int /\ top <= c * BlockSize /\ top \in Int
    BY <1>3, <2>1, SlotsFacts, ReachFacts
  <2>3. more = IF c - nBlk[r] > 0 THEN c - nBlk[r] ELSE 0
    BY <1>m DEF Needed
  <2> HIDE DEF c, top
  <2>4. more \in Nat /\ c <= nBlk[r] + more
    BY <1>3, <2>2, <2>3
  <2>5. c * BlockSize <= (nBlk[r] + more) * BlockSize
    BY <1>3, <2>2, <2>4, MulFacts
  <2>6. c * BlockSize \in Int /\ (nBlk[r] + more) * BlockSize \in Int
    BY <1>3, <2>2, <2>4
  <2> QED
    BY <2>2, <2>4, <2>5, <2>6 DEF top
<1>5. /\ sp \in 0..NumSpec /\ n - sp >= 1 /\ n - sp <= nTok[r] + nOut[r] - nComp[r]
      /\ n - sp > 1 <=> is_prefill(r)
  <2>1. /\ n >= 1 /\ n <= nTok[r] + drafts[r] + nOut[r] - nComp[r]
        /\ nTok[r] + nOut[r] - nComp[r] >= 1 /\ (is_prefill(r) => n >= 2)
    BY <1>2 DEF NewOK
  <2>2. drafts[r] \in 0..NumSpec
    BY <1>a DEF Token
  <2>3. nOut[r] >= 0 /\ (~is_prefill(r) => nTok[r] + nOut[r] - nComp[r] <= 1)
    BY <1>2, <1>a, OneToDecode
  <2>4. is_prefill(r) <=> nComp[r] < nTok[r] - 1
    BY DEF is_prefill
  <2>5. sp \in 0..NumSpec /\ n - sp >= 1 /\ n - sp <= nTok[r] + nOut[r] - nComp[r]
    BY <1>3, <1>s, <2>1, <2>2
  <2>6. is_prefill(r) => n - sp > 1
    BY <1>3, <1>s, <2>1, <2>2, <2>3, <2>4
  <2>7. ~is_prefill(r) => ~(n - sp > 1)
    BY <1>3, <2>3, <2>5
  <2> QED
    BY <2>5, <2>6, <2>7
<1>6. /\ dl \in Seq(BlockId) /\ Blocks(r, 0, nBlk[r] + more) = Table(r) \o dl
  <2>0. nBlk[r] \in Nat /\ more \in Nat
    BY <1>3, <1>4
  <2>1. nBlk[r] + more \in Nat /\ nBlk[r] <= nBlk[r] + more
    BY ONLY <2>0
  <2>3. epoch \in [Req -> Int]
    BY DEF Types
  <2>2. /\ dl \in Seq(BlockId)
        /\ Blocks(r, 0, nBlk[r]) \o dl = Blocks(r, 0, nBlk[r] + more)
    BY <1>2, <1>3, <1>d, <2>1, <2>3, BlocksFacts
  <2> QED
    BY <2>2 DEF Table
<1>7. /\ DOMAIN s' = DOMAIN s /\ s'.idx = s.idx + 1
      /\ s'.at = s.at /\ s'.sched = Append(s.sched, r) /\ s'.fresh = s.fresh
      /\ s'.num = [s.num EXCEPT ![r] = n] /\ s'.spec = [s.spec EXCEPT ![r] = sp]
      /\ s'.delta = [s.delta EXCEPT ![r] = dl] /\ s'.count = s.count + 1 /\ s'.tokens = s.tokens - n
      /\ s'.retry = <<>> /\ s'.aside = s.aside /\ s'.preempted = s.preempted
      /\ s'.broke = ~CanAdmit(s.count + 1, TRUE)
  BY <1>1 DEF Locals
<1>8. NumSpec' = NumSpec /\ Depth' = Depth /\ Lag' = Lag /\ decode_batch_size' = decode_batch_size
  BY ConfigStays
<1>9. /\ Range(s'.sched) = Range(s.sched) \cup {r} /\ Scheduled' = Scheduled \cup {r}
      /\ s'.sched \in Seq(Req) /\ Len(s'.sched) = Len(s.sched) + 1 /\ Len(s.sched) \in Nat
      /\ s'.sched[Len(s.sched) + 1] = r /\ \A i \in 1..Len(s.sched) : s'.sched[i] = s.sched[i]
  <2>1. s.sched \in Seq(Req)
    BY DEF Locals
  <2>2. DOMAIN s.sched = 1..Len(s.sched) /\ DOMAIN s'.sched = 1..(Len(s.sched) + 1) /\ Len(s.sched) \in Nat
    BY <1>2, <1>7, <2>1, AppendFacts
  <2>3. /\ s'.sched \in Seq(Req) /\ Len(s'.sched) = Len(s.sched) + 1
        /\ s'.sched[Len(s.sched) + 1] = r /\ \A i \in 1..Len(s.sched) : s'.sched[i] = s.sched[i]
    BY <1>2, <1>7, <2>1, AppendFacts
  <2>4. Range(s'.sched) = Range(s.sched) \cup {r}
    BY <2>2, <2>3 DEF Range
  <2> QED
    BY <1>7, <2>2, <2>3, <2>4 DEF Scheduled
<1>10. \A x : is_prefill(x)' <=> is_prefill(x)
  BY <1>1 DEF is_prefill
<1>11. (Unsettled' <=> Unsettled) /\ ~Retrying' /\ \A x : At(x)' <=> At(x)
  BY <1>1, <1>7 DEF Unsettled, Retrying, At
<1>12. Types'
  <2>1. nBlk[r] + more \in Nat
    <3>1. nBlk[r] \in Nat /\ more \in Nat
      BY <1>3, <1>4
    <3> QED
      BY ONLY <3>1
  <2>2. nBlk \in [Req -> Nat] /\ drafts \in [Req -> Int] /\ 0 \in Int
    BY DEF Types
  <2>3. nBlk' \in [Req -> Nat]
    BY <1>1, <2>1, <2>2
  <2>4. drafts' \in [Req -> Int]
    BY <1>1, <2>2
  <2> QED
    BY <1>1, <2>3, <2>4 DEF Types
<1>13. Locals'
  <2>0. n \in Int /\ sp \in Int /\ dl \in Seq(BlockId)
    BY <1>3, <1>5, <1>6
  <2>1. s'.num \in [Req -> Int] /\ s'.spec \in [Req -> Int] /\ s'.delta \in [Req -> Seq(BlockId)]
    BY <1>2, <1>7, <2>0, SMTT(40) DEF Locals
  <2>2. s'.idx \in Nat /\ s'.count \in Int /\ s'.tokens \in Int
    BY <1>3, <1>7, SMTT(40) DEF Locals
  <2>3. s'.broke \in BOOLEAN
    BY <1>7
  <2> QED
    BY <1>7, <1>9, <2>1, <2>2, <2>3 DEF Locals
<1>14. Line'
  BY <1>1, <1>8, <1>11 DEF Line, StepOK
<1>15. Queues'
  BY <1>1, <1>7, <1>10 DEF Queues
<1>16. ASSUME NEW x \in Req PROVE Token(x)' /\ Flight(x)' /\ Picked(x)' /\ Tabled(x)'
  <2>1. Token(x) /\ Flight(x) /\ Tabled(x) /\ Picked(x)
    BY DEF Requests
  <2>2. Flight(x)'
    BY <1>1, <1>8, <1>11, <2>1 DEF Flight, Sent
  <2>3. Token(x)'
    <3>1. drafts'[x] \in 0..NumSpec
      BY <1>1, <1>2, <1>3, <2>1 DEF Token, Types
    <3> QED
      BY <1>1, <1>8, <2>1, <3>1 DEF Token
  <2>4. CASE x = r
    <3>1. /\ s'.num[r] = n /\ s'.spec[r] = sp /\ s'.delta[r] = dl /\ nBlk'[r] = nBlk[r] + more
          /\ r \in Range(s'.sched) /\ r \notin s'.fresh
      BY <1>1, <1>2, <1>7, <1>9, ZenonT(40) DEF Locals, Types
    <3>2. nComp[r] + n < MaxModelLen /\ n >= 1
      BY <1>2 DEF NewOK
    <3>3. Picked(r)'
      BY <1>1, <1>4, <1>5, <1>8, <1>10, <3>1, <3>2 DEF Picked
    <3>4. Table(r)' = runner[r] \o pending[r] \o dl
      <4>1. Table(r) = runner[r] \o pending[r]
        BY <1>2, <1>a DEF Tabled
      <4>2. Table(r)' = Blocks(r, 0, nBlk[r] + more)
        BY <1>1, <3>1 DEF Table, Blocks
      <4> QED
        BY <1>6, <4>1, <4>2
    <3>5. Tabled(r)'
      BY <1>1, <1>2, <1>a, <3>1, <3>4, ConfigStays DEF Tabled
    <3> QED
      BY <2>2, <2>3, <2>4, <3>3, <3>5
  <2>5. CASE x # r
    <3>1. /\ s'.num[x] = s.num[x] /\ s'.spec[x] = s.spec[x] /\ s'.delta[x] = s.delta[x]
          /\ nBlk'[x] = nBlk[x] /\ (x \in Range(s'.sched) <=> x \in Range(s.sched))
          /\ (x \in Scheduled' <=> x \in Scheduled)
      BY <1>1, <1>2, <1>7, <1>9, <2>5, ZenonT(40) DEF Locals, Types
    <3>2. Table(x)' = Table(x)
      BY <1>1, <3>1 DEF Table, Blocks
    <3>3. Picked(x)'
      BY <1>1, <1>8, <1>10, <2>1, <3>1 DEF Picked
    <3>4. Tabled(x)'
      BY <1>1, <1>7, <2>1, <3>1, <3>2, ConfigStays DEF Tabled
    <3> QED
      BY <2>2, <2>3, <3>3, <3>4
  <2> QED
    BY <2>4, <2>5
<1>17. Loops'
  <2>0. At("running") /\ s.idx \in Nat /\ s.idx >= 1 /\ s.count = Len(s.sched)
    BY <1>1, <1>2 DEF Allocates, InRunningLoop, Loops, Locals, RunningLoop
  <2>1. RunningLoop'
    <3>1. Distinct(s'.sched)
      <4>1. \A i \in 1..Len(s.sched) : s.sched[i] \in Range(s.sched)
        BY DEF Range, Locals
      <4>2. \A i, j \in 1..Len(s.sched) : s.sched[i] = s.sched[j] => i = j
        BY <1>2 DEF RunningLoop, Distinct
      <4>3. \A i \in 1..Len(s'.sched) : i \in 1..Len(s.sched) \/ i = Len(s.sched) + 1
        BY <1>9
      <4> SUFFICES ASSUME NEW i \in 1..Len(s'.sched), NEW j \in 1..Len(s'.sched),
                          s'.sched[i] = s'.sched[j]
                   PROVE  i = j
        BY DEF Distinct
      <4>4. CASE i \in 1..Len(s.sched) /\ j \in 1..Len(s.sched)
        BY <1>9, <4>2, <4>4
      <4>5. CASE i = Len(s.sched) + 1 \/ j = Len(s.sched) + 1
        <5>1. \A k \in 1..Len(s.sched) : s'.sched[k] # r
          BY <1>2, <1>9, <4>1
        <5> QED
          BY <1>9, <4>3, <4>5, <5>1
      <4> QED
        BY <4>3, <4>4, <4>5
    <3>2. s'.count = Len(s'.sched) /\ s'.count <= decode_batch_size
      BY <1>2, <1>7, <1>9, <2>0, ConfigFacts
    <3>3. ~s'.broke => s'.count < decode_batch_size
      BY <1>7 DEF CanAdmit
    <3>4. \A k \in 1..Len(running) : running[k] \in Range(s'.sched) => k < s'.idx
      <4>1. \A k \in 1..Len(running) : running[k] \in Range(s.sched) => k < s.idx
        BY <1>2 DEF RunningLoop
      <4>2. \A k \in 1..Len(running) : running[k] = r => k <= s.idx
        BY <1>2
      <4> QED
        BY <1>7, <1>9, <2>0, <4>1, <4>2
    <3>5. is_prefill(Last(running)) => Range(s'.sched) \subseteq {Last(running)}
      BY <1>2, <1>9, EmptyRange
    <3>6. s'.sched # <<>>
      BY <1>9
    <3> QED
      BY <1>1, <1>8, <1>10, <1>11, <3>1, <3>2, <3>3, <3>4, <3>5, <3>6 DEF RunningLoop
  <2>2. At("running")' /\ ~Between' /\ ~At("waiting")' /\ ~At("output")'
    BY <1>11, <2>0 DEF Between, At
  <2>3. Scheduled' \subseteq Range(running) /\ IsFiniteSet(s'.fresh)
    BY <1>2, <1>7, <1>9 DEF Loops
  <2>4. s'.idx >= 1
    BY <1>7, <2>0
  <2> QED
    BY <1>1, <1>2, <1>7, <2>1, <2>2, <2>3, <2>4 DEF Loops
<1> QED
  BY <1>12, <1>13, <1>14, <1>15, <1>16, <1>17 DEF Requests

(* The victim is a running request.                                          *)
LEMMA VictimRuns ==
    ASSUME running \in Seq(Req), running # <<>>
    PROVE  Victim \in Range(running)
<1>1. Last(running) \in Range(running)
  BY DEF Last, Range
<1>2. \E v \in Range(running) : \A q \in Range(running) : Priority[q] <= Priority[v]
  BY Extremes
<1> QED
  BY <1>1, <1>2 DEF Victim

(* What is left of the step when the victim leaves it.                       *)
LEMMA UnscheduledFacts ==
    ASSUME Locals, RunningLoop, NEW v \in Req, Picked(v), s.idx >= 1,
           NEW p \in 1..Len(running), running[p] = v
    PROVE  LET u == Unscheduled(v)
           IN  /\ DOMAIN u = DOMAIN s /\ u.at = s.at /\ u.fresh = s.fresh /\ u.aside = s.aside
               /\ u.sched \in Seq(Req) /\ Range(u.sched) = Range(s.sched) \ {v} /\ Distinct(u.sched)
               /\ u.num \in [Req -> Int] /\ u.spec \in [Req -> Int] /\ u.delta \in [Req -> Seq(BlockId)]
               /\ u.spec[v] = 0
               /\ \A x \in Req : x # v => /\ u.num[x] = s.num[x] /\ u.spec[x] = s.spec[x]
                                          /\ u.delta[x] = s.delta[x]
               /\ u.count = Len(u.sched) /\ u.count <= s.count /\ u.tokens \in Int
               /\ u.idx \in Nat /\ u.idx >= 1
               /\ u.idx = s.idx \/ (p < s.idx /\ u.idx = s.idx - 1)
<1> DEFINE u == Unscheduled(v)
<1>0. /\ s.sched \in Seq(Req) /\ Distinct(s.sched) /\ s.count = Len(s.sched) /\ s.count \in Int
      /\ s.idx \in Nat /\ s.tokens \in Int /\ s.num[v] \in Int
      /\ s.num \in [Req -> Int] /\ s.spec \in [Req -> Int] /\ s.delta \in [Req -> Seq(BlockId)]
  BY DEF Locals, RunningLoop
<1>1. CASE v \notin Range(s.sched)
  <2>1. u = s
    BY <1>1 DEF Unscheduled
  <2>2. s.spec[v] = 0
    BY <1>1 DEF Picked
  <2>3. Range(s.sched) = Range(s.sched) \ {v}
    BY <1>1
  <2>4. s.count <= s.count
    BY <1>0
  <2> HIDE DEF u
  <2>5. /\ DOMAIN u = DOMAIN s /\ u.at = s.at /\ u.fresh = s.fresh /\ u.aside = s.aside
        /\ u.sched \in Seq(Req) /\ Range(u.sched) = Range(s.sched) \ {v} /\ Distinct(u.sched)
        /\ u.num \in [Req -> Int] /\ u.spec \in [Req -> Int] /\ u.delta \in [Req -> Seq(BlockId)]
        /\ u.spec[v] = 0
        /\ \A x \in Req : x # v => /\ u.num[x] = s.num[x] /\ u.spec[x] = s.spec[x]
                                   /\ u.delta[x] = s.delta[x]
        /\ u.count = Len(u.sched) /\ u.count <= s.count /\ u.tokens \in Int
        /\ u.idx \in Nat /\ u.idx >= 1 /\ u.idx = s.idx
    BY <1>0, <2>1, <2>2, <2>3, <2>4
  <2> QED
    BY <2>5 DEF u
<1>2. CASE v \in Range(s.sched)
  <2>1. u = [s EXCEPT !.sched = Without(s.sched, {v}), !.count = s.count - 1, !.idx = s.idx - 1,
                      !.tokens = s.tokens + s.num[v], !.num = [s.num EXCEPT ![v] = 0],
                      !.spec = [s.spec EXCEPT ![v] = 0], !.delta = [s.delta EXCEPT ![v] = <<>>]]
    BY <1>2 DEF Unscheduled
  <2> HIDE DEF u
  <2>2. /\ DOMAIN u = DOMAIN s /\ u.at = s.at /\ u.fresh = s.fresh /\ u.aside = s.aside
        /\ u.sched = Without(s.sched, {v}) /\ u.count = s.count - 1 /\ u.idx = s.idx - 1
        /\ u.tokens = s.tokens + s.num[v] /\ u.num = [s.num EXCEPT ![v] = 0]
        /\ u.spec = [s.spec EXCEPT ![v] = 0] /\ u.delta = [s.delta EXCEPT ![v] = <<>>]
    BY <2>1 DEF Locals
  <2>3. p < s.idx
    BY <1>2 DEF RunningLoop
  <2>4. u.sched \in Seq(Req) /\ Range(u.sched) = Range(s.sched) \ {v} /\ Distinct(u.sched)
    BY <1>0, <2>2, WithoutFacts
  <2>5. Len(u.sched) = Len(s.sched) - 1
    <3>1. PICK j \in 1..Len(s.sched) : s.sched[j] = v
      BY <1>0, <1>2, InRange
    <3>2. Len(Without(s.sched, {s.sched[j]})) = Len(s.sched) - 1
      BY <1>0, DropOne
    <3> QED
      BY <2>2, <3>1, <3>2
  <2>6. <<>> \in Seq(BlockId) /\ 0 \in Int
    OBVIOUS
  <2>7. u.num \in [Req -> Int] /\ u.spec \in [Req -> Int] /\ u.delta \in [Req -> Seq(BlockId)]
    BY <1>0, <2>2, <2>6
  <2>8. /\ u.spec[v] = 0
        /\ \A x \in Req : x # v => /\ u.num[x] = s.num[x] /\ u.spec[x] = s.spec[x]
                                   /\ u.delta[x] = s.delta[x]
    BY <1>0, <2>2
  <2>9. u.count = Len(u.sched) /\ u.count <= s.count /\ u.tokens \in Int
    BY <1>0, <2>2, <2>5, SMTT(40)
  <2>10. p >= 1 /\ p \in Int
    OBVIOUS
  <2>11. u.idx \in Nat /\ u.idx >= 1 /\ u.idx = s.idx - 1
    BY <1>0, <2>2, <2>3, <2>10
  <2> QED
    BY <2>2, <2>3, <2>4, <2>7, <2>8, <2>9, <2>11 DEF u
<1> QED
  BY <1>1, <1>2

(* allocate_slots fails, and a victim gives way.                             *)
LEMMA PreemptKeeps ==
    ASSUME IInv, PreemptForRunning, UNCHANGED config
    PROVE  IInv'
<1> USE DEF IInv
<1>r. PICK r, n, v, u : r = Current /\ n = CurrentNew /\ v = Victim /\ u = Unscheduled(v)
  OBVIOUS
<1>1. /\ Allocates
      /\ s' = [u EXCEPT !.preempted = TRUE, !.broke = (v = r), !.retry = <<r, n>>]
      /\ status' = [status EXCEPT ![v] = "preempted"]
      /\ nComp' = [nComp EXCEPT ![v] = 0]
      /\ drafts' = [drafts EXCEPT ![v] = 0]
      /\ epoch' = [epoch EXCEPT ![v] = IF epoch[v] = 1 THEN 2 ELSE 1]
      /\ nBlk' = [nBlk EXCEPT ![v] = 0]
      /\ running' = Without(running, {v})
      /\ waiting' = <<v>> \o waiting
      /\ pending' = [pending EXCEPT ![v] = <<>>]
      /\ UNCHANGED <<nTok, nOut, skipped, loading, received, steps, runner>>
  BY <1>r DEF PreemptForRunning, PendingAfterLeaving
<1>2. /\ r \in Req /\ r \in Range(running) /\ r \notin Range(s.sched)
      /\ status[r] = "running" /\ NewOK(r, n)
      /\ \A k \in 1..Len(running) : running[k] = r => k <= s.idx
      /\ running # <<>> /\ s.fresh = {} /\ RunningLoop /\ s.count < decode_batch_size
      /\ is_prefill(Last(running)) => r = Last(running) /\ s.sched = <<>>
  BY <1>1, <1>r, CurrentFacts
<1>3. At("running") /\ s.idx \in Nat /\ s.idx >= 1
  BY <1>1 DEF Allocates, InRunningLoop, Loops, Locals
<1>4. v \in Range(running) /\ v \in Req /\ status[v] = "running"
  <2>1. v \in Range(running)
    BY <1>2, <1>r, VictimRuns DEF Types
  <2>2. running \in Seq(Req)
    BY DEF Types
  <2> QED
    BY <2>1, <2>2 DEF Queues, Range
<1>5. PICK p \in 1..Len(running) : running[p] = v
  <2>1. DOMAIN running = 1..Len(running)
    BY DEF Types
  <2> QED
    BY <1>4, <2>1 DEF Range
<1>6. /\ DOMAIN u = DOMAIN s /\ u.at = s.at /\ u.fresh = s.fresh /\ u.aside = s.aside
      /\ u.sched \in Seq(Req) /\ Range(u.sched) = Range(s.sched) \ {v} /\ Distinct(u.sched)
      /\ u.num \in [Req -> Int] /\ u.spec \in [Req -> Int] /\ u.delta \in [Req -> Seq(BlockId)]
      /\ u.spec[v] = 0
      /\ \A x \in Req : x # v => /\ u.num[x] = s.num[x] /\ u.spec[x] = s.spec[x]
                                 /\ u.delta[x] = s.delta[x]
      /\ u.count = Len(u.sched) /\ u.count <= s.count /\ u.tokens \in Int
      /\ u.idx \in Nat /\ u.idx >= 1
      /\ u.idx = s.idx \/ (p < s.idx /\ u.idx = s.idx - 1)
  <2>1. Picked(v)
    BY <1>4 DEF Requests
  <2> QED
    BY <1>r, <1>2, <1>3, <1>4, <1>5, <2>1, UnscheduledFacts, SMTT(40)
<1>7. /\ DOMAIN s' = DOMAIN s /\ s'.at = "running" /\ s'.fresh = {} /\ s'.aside = s.aside
      /\ s'.sched = u.sched /\ s'.num = u.num /\ s'.spec = u.spec /\ s'.delta = u.delta
      /\ s'.count = u.count /\ s'.tokens = u.tokens /\ s'.idx = u.idx
      /\ s'.preempted = TRUE /\ s'.broke = (v = r) /\ s'.retry = <<r, n>>
  BY <1>1, <1>2, <1>3, <1>6 DEF Locals, At
<1>8. NumSpec' = NumSpec /\ Depth' = Depth /\ Lag' = Lag /\ decode_batch_size' = decode_batch_size
  BY ConfigStays
<1>9. /\ running' \in Seq(Req) /\ Range(running') = Range(running) \ {v} /\ Distinct(running')
      /\ Last(running) # v => running' # <<>> /\ Last(running') = Last(running)
  BY <1>1, <1>2, WithoutFacts DEF Types, Queues
<1>10. waiting' \in Seq(Req) /\ Range(waiting') = {v} \cup Range(waiting)
  BY <1>1, <1>4, PushFront DEF Types
<1>11. /\ status'[v] = "preempted" /\ nComp'[v] = 0 /\ drafts'[v] = 0 /\ nBlk'[v] = 0
       /\ pending'[v] = <<>>
       /\ \A x \in Req : x # v =>
            /\ status'[x] = status[x] /\ nComp'[x] = nComp[x] /\ drafts'[x] = drafts[x]
            /\ nBlk'[x] = nBlk[x] /\ pending'[x] = pending[x] /\ epoch'[x] = epoch[x]
            /\ (is_prefill(x)' <=> is_prefill(x)) /\ Table(x)' = Table(x)
  <2>1. /\ status'[v] = "preempted" /\ nComp'[v] = 0 /\ drafts'[v] = 0 /\ nBlk'[v] = 0
        /\ pending'[v] = <<>>
    BY <1>1, <1>4 DEF Types
  <2>2. ASSUME NEW x \in Req, x # v
        PROVE  /\ status'[x] = status[x] /\ nComp'[x] = nComp[x] /\ drafts'[x] = drafts[x]
               /\ nBlk'[x] = nBlk[x] /\ pending'[x] = pending[x] /\ epoch'[x] = epoch[x]
    BY <1>1, <2>2 DEF Types
  <2>3. \A x \in Req : x # v => (is_prefill(x)' <=> is_prefill(x)) /\ Table(x)' = Table(x)
    BY <1>1, <2>2 DEF is_prefill, Table, Blocks
  <2> QED
    BY <2>1, <2>2, <2>3
<1>12. Types'
  <2>0. /\ status \in [Req -> Statuses] /\ nComp \in [Req -> Int] /\ drafts \in [Req -> Int]
        /\ epoch \in [Req -> Int] /\ nBlk \in [Req -> Nat]
    BY DEF Types
  <2>1. "preempted" \in Statuses
    BY DEF Statuses
  <2>a. status' \in [Req -> Statuses]
    BY <1>1, <2>0, <2>1
  <2>2. \A f \in [Req -> Int], k \in Int : [f EXCEPT ![v] = k] \in [Req -> Int]
    OBVIOUS
  <2>4. PICK e : e = IF epoch[v] = 1 THEN 2 ELSE 1
    OBVIOUS
  <2>5. 0 \in Int /\ e \in Int
    BY <2>4
  <2>b. nComp' \in [Req -> Int] /\ drafts' \in [Req -> Int]
    BY <1>1, <2>0, <2>2, <2>5
  <2>c. epoch' \in [Req -> Int]
    BY <1>1, <2>0, <2>2, <2>4, <2>5
  <2>d. nBlk' \in [Req -> Nat]
    BY <1>1, <2>0
  <2>3. pending' \in [Req -> Seq(BlockId)]
    <3>1. <<>> \in Seq(BlockId) /\ pending \in [Req -> Seq(BlockId)]
      BY DEF Types
    <3> QED
      BY <1>1, <3>1
  <2> QED
    BY <1>1, <1>9, <1>10, <2>a, <2>b, <2>c, <2>d, <2>3 DEF Types
<1>13. Locals'
  <2>1. s'.preempted \in BOOLEAN /\ s'.broke \in BOOLEAN
    BY <1>7
  <2>2. s'.count \in Int
    BY <1>6, <1>7
  <2>3. s'.fresh \in SUBSET Req /\ s'.aside \in Seq(Req)
    BY <1>7 DEF Locals
  <2> QED
    BY <1>6, <1>7, <2>1, <2>2, <2>3 DEF Locals
<1>14. Line' /\ Len(steps) < 2
  <2>1. Depth \in {1, 2} /\ Len(steps) < Depth /\ Len(steps) \in Nat
    BY <1>3, ConfigFacts DEF Line, At
  <2>2. Len(steps) < 2
    BY ONLY <2>1
  <2>3. Line'
    BY <1>1, <1>7, <1>8, <2>1 DEF Line, StepOK, At
  <2> QED
    BY <2>2, <2>3
<1>15. Queues'
  <2>1. \A x \in Range(running') : x \in Req /\ x # v /\ x \in Range(running)
    BY <1>9, InRange
  <2>2. \A x \in Range(running') : status'[x] = "running"
    BY <1>11, <2>1 DEF Queues
  <2>3. \A x \in Range(waiting') \cup Range(skipped) \cup Range(s.aside) :
           status'[x] \in {"waiting", "remote", "preempted"}
    <3> TAKE x \in Range(waiting') \cup Range(skipped) \cup Range(s.aside)
    <3>1. CASE x = v
      BY <1>11, <3>1
    <3>2. CASE x # v
      <4>1. x \in Range(waiting) \cup Range(skipped) \cup Range(s.aside)
        BY <1>10, <3>2
      <4>2. x \in Req
        BY <4>1, InRange DEF Types, Locals
      <4> QED
        BY <1>11, <3>2, <4>1, <4>2 DEF Queues
    <3> QED
      BY <3>1, <3>2
  <2>4. \A x \in Range(running') : is_prefill(x)' => x = Last(running')
    BY <1>9, <1>11, <2>1 DEF Queues
  <2>5. Range(s.aside) \cap (Range(waiting') \cup Range(skipped)) = {}
    BY <1>4, <1>10 DEF Queues
  <2> QED
    BY <1>1, <1>7, <1>9, <2>2, <2>3, <2>4, <2>5 DEF Queues
<1>16. ASSUME NEW x \in Req PROVE Token(x)' /\ Flight(x)' /\ Picked(x)' /\ Tabled(x)'
  <2>1. Token(x) /\ Flight(x) /\ Tabled(x) /\ Picked(x)
    BY DEF Requests
  <2>2. Unsettled' /\ \A i : Sent(x, i)' = Sent(x, i)
    BY <1>1, <1>7 DEF Unsettled, Sent
  <2>3. CASE x = v
    <3>1. Token(v)'
      <4>0. NumSpec \in Nat
        BY ConfigFacts
      <4>1. /\ PromptLen[v] <= nTok[v] /\ nTok[v] < MaxLen[v] /\ nTok[v] \in Int
            /\ 0 \in 0..NumSpec
        BY <1>4, <2>1, <2>3, <4>0 DEF Token, Types
      <4>2. 0 < MaxModelLen /\ 0 < nTok[v]
        BY <1>4, <4>1, RequestFacts
      <4> QED
        BY <1>1, <1>8, <1>11, <4>1, <4>2 DEF Token
    <3>2. Flight(v)'
      <4>1. nOut[v] = IF Lag = 1 THEN Sent(v, 1) + Sent(v, 2) ELSE 0
        BY <1>4, <2>1, <2>3 DEF Flight
      <4>2. \A i \in 1..Len(steps) : i = 1
        BY <1>14 DEF Line
      <4> QED
        BY <1>1, <1>8, <1>11, <2>2, <2>3, <4>1, <4>2 DEF Flight
    <3>3. v \notin Scheduled' /\ v \notin Range(s'.sched) /\ v \notin s'.fresh /\ s'.spec[v] = 0
      BY <1>6, <1>7 DEF Scheduled
    <3>4. Picked(v)' /\ Tabled(v)'
      BY <1>11, <3>3 DEF Picked, Tabled
    <3> QED
      BY <2>3, <3>1, <3>2, <3>4
  <2>4. CASE x # v
    <3>1. Token(x)'
      BY <1>1, <1>8, <1>11, <2>1, <2>4 DEF Token
    <3>2. Flight(x)'
      BY <1>1, <1>8, <1>11, <2>1, <2>2, <2>4 DEF Flight
    <3>3. /\ x \in Range(s'.sched) <=> x \in Range(s.sched)
          /\ x \in Scheduled' <=> x \in Scheduled
          /\ s'.num[x] = s.num[x] /\ s'.spec[x] = s.spec[x] /\ s'.delta[x] = s.delta[x]
      BY <1>2, <1>6, <1>7, <2>4, ZenonT(40) DEF Scheduled
    <3>4. Picked(x)'
      BY <1>1, <1>8, <1>11, <2>1, <2>4, <3>3 DEF Picked
    <3>5. Tabled(x)'
      BY <1>1, <1>2, <1>7, <1>11, <2>1, <2>4, <3>3, ConfigStays, ZenonT(40) DEF Tabled
    <3> QED
      BY <3>1, <3>2, <3>4, <3>5
  <2> QED
    BY <2>3, <2>4
<1>17. Loops'
  <2>1. RunningLoop'
    <3>1. s'.count <= decode_batch_size /\ s'.count < decode_batch_size
      <4>1. u.count \in Int /\ s.count \in Int /\ decode_batch_size \in Int
        BY <1>6, ConfigFacts DEF Locals
      <4> QED
        BY <1>2, <1>6, <1>7, <4>1, SMTT(40)
    <3>2. ASSUME NEW k \in 1..Len(running')
          PROVE  /\ running'[k] \in Range(s'.sched) => k < s'.idx
                 /\ running'[k] = r => k <= s'.idx
      <4>1. PICK i \in 1..Len(running) :
               running[i] = running'[k] /\ k <= i /\ (i > p => k + 1 <= i)
        BY <1>1, <1>5, DropOne DEF Types, Queues
      <4>2. running'[k] # v
        <5>1. running'[k] \in Range(running')
          BY <1>9 DEF Range
        <5> QED
          BY <1>9, <5>1
      <4>3. i # p
        BY <1>5, <4>1, <4>2
      <4>4. running[i] \in Range(s.sched) => i < s.idx
        BY <1>2 DEF RunningLoop
      <4>5. running[i] = r => i <= s.idx
        BY <1>2
      <4>6. running'[k] \in Range(s'.sched) => i < s.idx
        BY <1>6, <1>7, <4>1, <4>4
      <4>7. running'[k] = r => i <= s.idx
        BY <4>1, <4>5
      <4>8. i \in Int /\ p \in Int /\ k \in Int /\ (i < p \/ i > p)
        BY <4>3, <1>9 DEF Types
      <4>9. s'.idx = s.idx \/ (p < s.idx /\ s'.idx = s.idx - 1)
        BY <1>6, <1>7
      <4> QED
        BY <1>3, <4>1, <4>6, <4>7, <4>8, <4>9
    <3>3. Retrying' /\ Current' = r /\ CurrentNew' = n
      BY <1>7 DEF Retrying, Current, CurrentNew
    <3>4. v # r => NewOK(r, n)'
      BY <1>1, <1>2, <1>11 DEF NewOK
    <3>5. v # r => r \in Range(running') \ Range(s'.sched)
      BY <1>2, <1>6, <1>7, <1>9
    <3>6. ASSUME running' # <<>>, is_prefill(Last(running))'
          PROVE  /\ v # r /\ r = Last(running') /\ s'.sched = <<>> /\ Range(s'.sched) = {}
      <4>1. Last(running') \in Range(running') /\ Last(running') \in Req
        BY <1>9, <3>6 DEF Last, Range
      <4>2. Last(running') # v /\ is_prefill(Last(running'))
        BY <1>9, <1>11, <3>6, <4>1
      <4>3. Last(running') = Last(running)
        BY <1>9, <4>1, <4>2 DEF Queues
      <4>4. r = Last(running) /\ s.sched = <<>>
        BY <1>2, <4>2, <4>3
      <4>5. Range(s'.sched) = {}
        BY <1>6, <1>7, <4>4, EmptyRange
      <4>6. s'.sched = <<>>
        BY <1>6, <1>7, <4>5, InRange
      <4> QED
        BY <4>2, <4>3, <4>4, <4>5, <4>6
    <3> QED
      BY <1>6, <1>7, <1>8, <3>1, <3>2, <3>3, <3>4, <3>5, <3>6 DEF RunningLoop
  <2>2. At("running")' /\ ~Between' /\ ~At("waiting")' /\ ~At("output")'
    BY <1>7 DEF Between, At
  <2>3. Scheduled' \subseteq Range(running')
    BY <1>2, <1>6, <1>7, <1>9 DEF Loops, Scheduled
  <2> QED
    BY <1>6, <1>7, <2>1, <2>2, <2>3, FS_EmptySet DEF Loops
<1> QED
  BY <1>12, <1>13, <1>14, <1>15, <1>16, <1>17 DEF Requests

(* The end of a loop: only the place in schedule() changes.                  *)
LEMMA LoopEnds ==
    ASSUME IInv, UNCHANGED config, NEW place \in {"waiting", "output"},
           s.at \in {"running", "waiting"}, s' = [s EXCEPT !.at = place],
           Unsettled' <=> Unsettled,
           UNCHANGED <<status, nTok, nComp, nOut, drafts, epoch, running, waiting, skipped,
                       nBlk, loading, received, pending, steps, runner>>,
           place = "waiting" => 
              /\ s.count = Len(s.sched) + Cardinality(s.fresh) /\ s.count <= decode_batch_size
              /\ ~s.preempted /\ \A r \in Range(running) : ~is_prefill(r),
           place = "output" =>
              /\ Cardinality(Scheduled) <= decode_batch_size
              /\ \A r \in Scheduled : is_prefill(r) => Cardinality(Scheduled) = 1
    PROVE  IInv'
<1> USE DEF IInv
<1>2. /\ DOMAIN s' = DOMAIN s /\ s'.idx = s.idx
      /\ s'.at = place /\ s'.sched = s.sched /\ s'.fresh = s.fresh /\ s'.num = s.num
      /\ s'.spec = s.spec /\ s'.delta = s.delta /\ s'.count = s.count /\ s'.tokens = s.tokens
      /\ s'.retry = s.retry /\ s'.aside = s.aside /\ s'.preempted = s.preempted /\ s'.broke = s.broke
  BY DEF Locals
<1>3. NumSpec' = NumSpec /\ Depth' = Depth /\ Lag' = Lag /\ decode_batch_size' = decode_batch_size
  BY ConfigStays
<1>4. \A r : (is_prefill(r)' <=> is_prefill(r)) /\ (Token(r)' <=> Token(r)) /\ Table(r)' = Table(r)
  BY Untouched, TableStays
<1>5. Scheduled' = Scheduled /\ ~Between' /\ ~At("idle") /\ ~At("collect")' /\ ~At("running")'
  BY <1>2 DEF Scheduled, Between, At
<1>7. Types'
  BY DEF Types
<1>8. Locals'
  BY <1>2 DEF Locals
<1>9. Line'
  BY <1>3, <1>5 DEF Line, StepOK
<1>10. Queues'
  BY <1>2, <1>4 DEF Queues
<1>11. ASSUME NEW r \in Req PROVE Token(r)' /\ Flight(r)' /\ Picked(r)' /\ Tabled(r)'
  <2>1. Token(r) /\ Flight(r) /\ Tabled(r) /\ Picked(r)
    BY DEF Requests
  <2>2. Flight(r)'
    BY <1>3, <2>1 DEF Flight, Sent
  <2>3. Picked(r)'
    BY <1>2, <1>3, <1>4, <1>5, <2>1 DEF Picked
  <2>4. Tabled(r)'
    BY <1>2, <1>4, <1>5, <2>1, ConfigStays DEF Tabled
  <2> QED
    BY <1>4, <2>1, <2>2, <2>3, <2>4
<1>12. Loops'
  <2>1. Scheduled \subseteq Range(running) /\ IsFiniteSet(s.fresh)
    BY DEF Loops
  <2>2. At("waiting")' => place = "waiting"
    BY <1>2 DEF At
  <2>3. At("output")' => place = "output"
    BY <1>2 DEF At
  <2> QED
    BY <1>2, <1>3, <1>4, <1>5, <2>1, <2>2, <2>3 DEF Loops
<1> QED
  BY <1>7, <1>8, <1>9, <1>10, <1>11, <1>12 DEF Requests

(* The running loop is over.                                                 *)
LEMMA EndRunningLoopKeeps ==
    ASSUME IInv, EndRunningLoop, UNCHANGED config
    PROVE  IInv'
<1> USE DEF IInv
<1>1. PICK place : place = IF EntersWaitingLoop THEN "waiting" ELSE "output"
  OBVIOUS
<1>2. /\ At("running") /\ ~InRunningLoop /\ s' = [s EXCEPT !.at = place]
      /\ UNCHANGED <<status, nTok, nComp, nOut, drafts, epoch, running, waiting, skipped,
                     nBlk, loading, received, pending, steps, runner>>
  BY <1>1 DEF EndRunningLoop, tokVars, queueVars, kvVars
<1>3. /\ s.fresh = {} /\ RunningLoop /\ Scheduled = Range(s.sched) /\ Scheduled \subseteq Range(running)
      /\ s.sched \in Seq(Req) /\ running \in Seq(Req)
  BY <1>2 DEF Loops, Scheduled, Locals, Types
<1>4. Cardinality(Range(s.sched)) = Len(s.sched) /\ s.count = Len(s.sched) /\ s.count <= decode_batch_size
  BY <1>3, RangeCardinality DEF RunningLoop
<1>5. ASSUME NEW r \in Range(running), is_prefill(r)
      PROVE  r = Last(running) /\ running # <<>> /\ Range(s.sched) \subseteq {r}
  <2>1. r = Last(running) /\ running # <<>>
    BY <1>5, EmptyRange DEF Queues
  <2> QED
    BY <1>3, <1>5, <2>1 DEF RunningLoop
<1>6. ASSUME place = "waiting", NEW r \in Range(running), is_prefill(r) PROVE FALSE
  <2>1. ~s.preempted /\ ~(s.sched # <<>> /\ is_prefill(Head(s.sched)))
    BY <1>1, <1>6 DEF EntersWaitingLoop
  <2>2. s.sched = <<>>
    <3> SUFFICES ASSUME s.sched # <<>> PROVE FALSE
      OBVIOUS
    <3>1. s.sched[1] \in Range(s.sched) /\ Head(s.sched) = s.sched[1]
      BY <1>3, InRange
    <3> QED
      BY <1>5, <1>6, <2>1, <3>1
  <2>3. ~s.broke /\ ~Retrying /\ s.idx = Len(running) /\ s.tokens = MaxTokens
    BY <1>3, <1>5, <1>6, <2>1, <2>2 DEF RunningLoop
  <2>4. s.idx <= Len(running) /\ s.tokens > 0
    BY <1>3, <2>3, ConfigsAssumption
  <2> QED
    BY <1>2, <2>3, <2>4 DEF InRunningLoop
<1>7. Unsettled' <=> Unsettled
  <2>1. s'.at = place /\ s'.preempted = s.preempted /\ s.at = "running"
    BY <1>2 DEF Locals, At
  <2>2. place = "waiting" => ~s.preempted
    BY <1>1 DEF EntersWaitingLoop
  <2> QED
    BY <1>1, <2>1, <2>2 DEF Unsettled, At
<1>8. ASSUME NEW r \in Scheduled, is_prefill(r) PROVE Cardinality(Scheduled) = 1
  <2>1. Scheduled = {r}
    BY <1>3, <1>5, <1>8
  <2> QED
    BY <2>1, FS_Singleton
<1>9. s.count = Len(s.sched) + Cardinality(s.fresh)
  <2>1. Cardinality(s.fresh) = 0 /\ Len(s.sched) \in Nat
    BY <1>3, FS_EmptySet
  <2> QED
    BY <1>4, <2>1
<1>10. place = "waiting" => ~s.preempted
  BY <1>1 DEF EntersWaitingLoop
<1>11. s.at \in {"running", "waiting"} /\ place \in {"waiting", "output"}
  BY <1>1, <1>2 DEF At
<1> QED
  BY <1>2, <1>3, <1>4, <1>6, <1>7, <1>8, <1>9, <1>10, <1>11, LoopEnds

(* The waiting loop is over.                                                 *)
LEMMA EndWaitingLoopKeeps ==
    ASSUME IInv, EndWaitingLoop, UNCHANGED config
    PROVE  IInv'
<1> USE DEF IInv
<1>1. PICK place : place = "output"
  OBVIOUS
<1>2. /\ At("waiting") /\ s' = [s EXCEPT !.at = place]
      /\ UNCHANGED <<status, nTok, nComp, nOut, drafts, epoch, running, waiting, skipped,
                     nBlk, loading, received, pending, steps, runner>>
  BY <1>1 DEF EndWaitingLoop, tokVars, queueVars, kvVars
<1>3. /\ s.count = Len(s.sched) + Cardinality(s.fresh) /\ s.count <= decode_batch_size
      /\ ~s.preempted /\ \A r \in Range(running) : ~is_prefill(r)
      /\ Scheduled \subseteq Range(running) /\ IsFiniteSet(s.fresh) /\ s.sched \in Seq(Req)
  BY <1>2 DEF Loops, Locals
<1>4. Unsettled' <=> Unsettled
  <2>1. s'.at = "output" /\ s'.preempted = s.preempted /\ s.at = "waiting"
    BY <1>1, <1>2 DEF Locals, At
  <2> QED
    BY <1>3, <2>1 DEF Unsettled, At
<1>5. Cardinality(Scheduled) <= decode_batch_size
  <2>1. /\ IsFiniteSet(Range(s.sched)) /\ Cardinality(Range(s.sched)) <= Len(s.sched)
        /\ Cardinality(Range(s.sched)) \in Nat /\ Cardinality(s.fresh) \in Nat /\ Len(s.sched) \in Nat
    BY <1>3, RangeCardinality, FS_CardinalityType
  <2>2. Cardinality(Scheduled) <= Cardinality(Range(s.sched)) + Cardinality(s.fresh)
    <3>1. /\ IsFiniteSet(Range(s.sched) \cap s.fresh)
          /\ Cardinality(Scheduled) = Cardinality(Range(s.sched)) + Cardinality(s.fresh)
                                      - Cardinality(Range(s.sched) \cap s.fresh)
      BY <1>3, <2>1, FS_Union, FS_Intersection DEF Scheduled
    <3>2. Cardinality(Range(s.sched) \cap s.fresh) \in Nat
      BY <3>1, FS_CardinalityType
    <3> QED
      BY <2>1, <3>1, <3>2
  <2>3. IsFiniteSet(Scheduled)
    BY <1>3, <2>1, FS_Union DEF Scheduled
  <2>4. Cardinality(Scheduled) \in Nat /\ decode_batch_size \in Nat
    BY <2>3, FS_CardinalityType, ConfigFacts
  <2> QED
    BY <1>3, <2>1, <2>2, <2>4
<1>6. s.at \in {"running", "waiting"} /\ place \in {"waiting", "output"} /\ place # "waiting"
  BY <1>1, <1>2 DEF At
<1>7. \A r \in Scheduled : is_prefill(r) => Cardinality(Scheduled) = 1
  BY <1>3
<1> QED
  BY <1>2, <1>4, <1>5, <1>6, <1>7, LoopEnds

(* The request at hand in the waiting loop is queued.                        *)
LEMMA CandidateFacts ==
    ASSUME IInv, WaitingOpen
    PROVE  /\ Candidate \in Req /\ Candidate \in Range(waiting) \cup Range(skipped)
           /\ status[Candidate] \in {"waiting", "remote", "preempted"}
           /\ Candidate \notin Range(running) /\ Candidate \notin Scheduled
<1> USE DEF IInv
<1>1. waiting \in Seq(Req) /\ skipped \in Seq(Req) /\ running \in Seq(Req)
  BY DEF Types
<1>2. PICK q : q = Queued
  OBVIOUS
<1>3. q \in Seq(Req) /\ Range(q) = Range(skipped) \cup Range(waiting) /\ q # <<>>
  BY <1>1, <1>2, ConcatRange DEF Queued, WaitingOpen
<1>4. Candidate \in Range(q)
  <2>1. Head(q) \in Range(q)
    <3>1. Head(q) = q[1] /\ q[1] \in Range(q)
      BY <1>3, InRange
    <3> QED
      BY <3>1
  <2>2. \E v \in Range(q) : \A x \in Range(q) : Priority[v] <= Priority[x]
    BY <1>3, Extremes
  <2>3. Candidate = IF Fcfs THEN Head(q) ELSE CHOOSE r \in Range(q) :
                                              \A x \in Range(q) : Priority[r] <= Priority[x]
    BY <1>2 DEF Candidate
  <2> QED
    BY <2>1, <2>2, <2>3
<1>5. Candidate \in Req
  BY <1>3, <1>4, InRange
<1>6. status[Candidate] \in {"waiting", "remote", "preempted"}
  BY <1>3, <1>4 DEF Queues
<1>7. Candidate \notin Range(running) /\ Candidate \notin Scheduled
  BY <1>6 DEF Queues, Loops
<1> QED
  BY <1>3, <1>4, <1>5, <1>6, <1>7

(* A queued request changes without being scheduled.                         *)
LEMMA QueuedChange ==
    ASSUME IInv, Types', UNCHANGED config, NEW r \in Req, At("waiting"),
           status[r] \in {"waiting", "remote", "preempted"},
           status'[r] \in {"waiting", "remote", "preempted"}, Token(r)',
           UNCHANGED <<nTok, nOut, drafts, epoch, running, pending, steps, runner>>,
           \A x \in Req : x # r => /\ status'[x] = status[x] /\ nComp'[x] = nComp[x]
                                   /\ nBlk'[x] = nBlk[x],
           Range(waiting') \subseteq Range(waiting), Range(skipped') \subseteq Range(skipped),
           DOMAIN s' = DOMAIN s, s'.at = s.at, s'.idx = s.idx, s'.sched = s.sched,
           s'.fresh = s.fresh, s'.num = s.num, s'.spec = s.spec, s'.delta = s.delta,
           s'.count = s.count, s'.tokens = s.tokens, s'.preempted = s.preempted,
           s'.broke = s.broke, s'.aside \in Seq(Req),
           Range(s'.aside) \subseteq {r} \cup Range(s.aside),
           Range(s'.aside) \cap (Range(waiting') \cup Range(skipped')) = {}
    PROVE  IInv'
<1> USE DEF IInv
<1>1. NumSpec' = NumSpec /\ Depth' = Depth /\ Lag' = Lag /\ decode_batch_size' = decode_batch_size
  BY ConfigStays
<1>2. \A x \in Req : x # r => (is_prefill(x)' <=> is_prefill(x)) /\ Table(x)' = Table(x)
  BY DEF is_prefill, Table, Blocks
<1>3. /\ Scheduled' = Scheduled /\ (Unsettled' <=> Unsettled) /\ \A p : At(p)' <=> At(p)
  BY DEF Scheduled, Unsettled, At
<1>4. r \notin Range(running) /\ r \notin Scheduled /\ r \notin Range(s.sched) /\ r \notin s.fresh
  BY DEF Queues, Loops, Scheduled
<1>5. \A x \in Range(running) : x \in Req /\ x # r
  BY <1>4, InRange DEF Types
<1>6. Locals'
  BY DEF Locals
<1>7. Line'
  BY <1>1, <1>3 DEF Line, StepOK
<1>8. Queues'
  <2>1. \A x \in Range(waiting') \cup Range(skipped') \cup Range(s'.aside) :
           status'[x] \in {"waiting", "remote", "preempted"}
    <3> TAKE x \in Range(waiting') \cup Range(skipped') \cup Range(s'.aside)
    <3>1. CASE x = r
      BY <3>1
    <3>2. CASE x # r
      <4>1. x \in Range(waiting) \cup Range(skipped) \cup Range(s.aside)
        BY <3>2
      <4>2. x \in Req
        BY <4>1, InRange DEF Types, Locals
      <4> QED
        BY <3>2, <4>1, <4>2 DEF Queues
    <3> QED
      BY <3>1, <3>2
  <2>2. \A x \in Range(running) : status'[x] = "running"
    BY <1>5 DEF Queues
  <2>3. \A x \in Range(running) : is_prefill(x)' => x = Last(running)
    BY <1>2, <1>5 DEF Queues
  <2> QED
    BY <2>1, <2>2, <2>3 DEF Queues
<1>9. ASSUME NEW x \in Req PROVE Token(x)' /\ Flight(x)' /\ Picked(x)' /\ Tabled(x)'
  <2>1. Token(x) /\ Flight(x) /\ Tabled(x) /\ Picked(x)
    BY DEF Requests
  <2>2. \A i : Sent(x, i)' = Sent(x, i)
    BY DEF Sent
  <2>3. CASE x = r
    <3>1. Flight(r)'
      BY <1>1, <1>3, <2>1, <2>2, <2>3 DEF Flight
    <3>2. Picked(r)'
      BY <1>3, <1>4, <2>1, <2>3 DEF Picked
    <3>3. Tabled(r)'
      BY <1>3, <1>4, <2>1, <2>3 DEF Tabled
    <3> QED
      BY <2>3, <3>1, <3>2, <3>3
  <2>4. CASE x # r
    <3>1. Token(x)'
      BY <1>1, <2>1, <2>4 DEF Token
    <3>2. Flight(x)'
      BY <1>1, <1>3, <2>1, <2>2, <2>4 DEF Flight
    <3>3. Picked(x)'
      BY <1>1, <1>2, <1>3, <2>1, <2>4 DEF Picked
    <3>4. Tabled(x)'
      BY <1>2, <2>1, <2>4, ConfigStays DEF Tabled
    <3> QED
      BY <3>1, <3>2, <3>3, <3>4
  <2> QED
    BY <2>3, <2>4
<1>10. Loops'
  <2>1. /\ ~Between' /\ ~At("running")' /\ ~At("output")'
    BY DEF Between, At
  <2>2. /\ s.count = Len(s.sched) + Cardinality(s.fresh) /\ s.count <= decode_batch_size
        /\ ~s.preempted /\ \A x \in Range(running) : ~is_prefill(x)
        /\ Scheduled \subseteq Range(running) /\ IsFiniteSet(s.fresh)
    BY DEF Loops
  <2>3. \A x \in Range(running) : ~is_prefill(x)'
    BY <1>2, <1>5, <2>2
  <2> QED
    BY <1>1, <1>3, <2>1, <2>2, <2>3 DEF Loops
<1> QED
  BY <1>6, <1>7, <1>8, <1>9, <1>10 DEF Requests

(* A request whose transfer is in progress is set aside.                     *)
LEMMA SetAsideKeeps ==
    ASSUME IInv, SetAside, UNCHANGED config
    PROVE  IInv'
<1> USE DEF IInv
<1>0. PICK r : r = Candidate
  OBVIOUS
<1>1. /\ WaitingOpen /\ At("waiting")
      /\ waiting' = Without(waiting, {r}) /\ skipped' = Without(skipped, {r})
      /\ s' = [s EXCEPT !.aside = <<r>> \o s.aside]
      /\ UNCHANGED <<status, nTok, nComp, nOut, drafts, epoch, running, nBlk, loading, received,
                     pending, steps, runner>>
  BY <1>0 DEF SetAside, Popped, tokVars, kvVars, WaitingOpen
<1>2. r \in Req /\ status[r] \in {"waiting", "remote", "preempted"}
  BY <1>0, <1>1, CandidateFacts
<1>3. PICK q : q = <<r>> \o s.aside
  OBVIOUS
<1>4. q \in Seq(Req) /\ Range(q) = {r} \cup Range(s.aside)
  BY <1>2, <1>3, PushFront DEF Locals
<1>5. /\ DOMAIN s' = DOMAIN s /\ s'.at = s.at /\ s'.idx = s.idx /\ s'.sched = s.sched
      /\ s'.fresh = s.fresh /\ s'.num = s.num /\ s'.spec = s.spec /\ s'.delta = s.delta
      /\ s'.count = s.count /\ s'.tokens = s.tokens /\ s'.preempted = s.preempted
      /\ s'.broke = s.broke /\ s'.aside = q
  BY <1>1, <1>3 DEF Locals
<1>6. /\ waiting' \in Seq(Req) /\ Range(waiting') = Range(waiting) \ {r}
      /\ skipped' \in Seq(Req) /\ Range(skipped') = Range(skipped) \ {r}
  BY <1>1, WithoutFacts DEF Types
<1>7. Types'
  BY <1>1, <1>6 DEF Types
<1>8. Token(r)'
  BY <1>1, <1>2, Untouched DEF Requests
<1>9. Range(s'.aside) \cap (Range(waiting') \cup Range(skipped')) = {}
  BY <1>4, <1>5, <1>6 DEF Queues
<1> QED
  BY <1>1, <1>2, <1>4, <1>5, <1>6, <1>7, <1>8, <1>9, QueuedChange

(* A finished transfer makes its request an ordinary one.                    *)
LEMMA PromoteKeeps ==
    ASSUME IInv, Promote, UNCHANGED config
    PROVE  IInv'
<1> USE DEF IInv
<1>0. PICK r, st, c : /\ r = Candidate /\ st = (IF epoch[r] > 0 THEN "preempted" ELSE "waiting")
                      /\ c = IF nComp[r] = nTok[r] THEN nComp[r] - 1 ELSE nComp[r]
  OBVIOUS
<1>1. /\ WaitingOpen /\ At("waiting") /\ status[r] = "remote"
      /\ status' = [status EXCEPT ![r] = st]
      /\ nComp' = [nComp EXCEPT ![r] = c]
      /\ UNCHANGED <<nTok, nOut, drafts, epoch, running, waiting, skipped, nBlk, loading, pending,
                     steps, runner, s>>
  BY <1>0 DEF Promote, WaitingOpen, queueVars
<1>2. r \in Req /\ Token(r)
  BY <1>0, <1>1, CandidateFacts DEF Requests
<1>3. nComp[r] \in Int /\ nTok[r] \in Int /\ nComp[r] <= nTok[r] /\ nComp[r] < MaxModelLen
  BY <1>1, <1>2 DEF Types, Token
<1>4. c \in Int /\ c < nTok[r] /\ c <= nComp[r]
  BY <1>0, <1>3
<1>5. st \in {"waiting", "preempted"}
  BY <1>0
<1>6. status \in [Req -> Statuses] /\ nComp \in [Req -> Int] /\ st \in Statuses
  BY <1>5 DEF Types, Statuses
<1>7. status' \in [Req -> Statuses] /\ status'[r] = st
      /\ \A x \in Req : x # r => status'[x] = status[x]
  BY <1>1, <1>2, <1>6
<1>8. nComp' \in [Req -> Int] /\ nComp'[r] = c /\ \A x \in Req : x # r => nComp'[x] = nComp[x]
  BY <1>1, <1>2, <1>4, <1>6
<1>9. Types'
  BY <1>1, <1>7, <1>8 DEF Types
<1>10. Token(r)'
  <2>1. c < MaxModelLen
    BY <1>3, <1>4, RequestFacts, <1>2
  <2>2. NumSpec' = NumSpec
    BY ConfigStays
  <2> QED
    BY <1>1, <1>2, <1>4, <1>5, <1>7, <1>8, <2>1, <2>2 DEF Token
<1>11. s'.aside \in Seq(Req) /\ Range(s'.aside) \cap (Range(waiting') \cup Range(skipped')) = {}
  BY <1>1 DEF Locals, Queues
<1> QED
  BY <1>1, <1>2, <1>5, <1>7, <1>8, <1>9, <1>10, <1>11, QueuedChange

(* A request is given blocks for a transfer.                                 *)
LEMMA LoadRemoteKeeps ==
    ASSUME IInv, LoadRemote, UNCHANGED config
    PROVE  IInv'
<1> USE DEF IInv
<1>0. PICK r, k, b, q : /\ r = Candidate /\ k = Remote[r] /\ b = RemoteSlots(r)
                        /\ q = <<r>> \o s.aside
  OBVIOUS
<1>1. /\ WaitingOpen /\ At("waiting")
      /\ waiting' = Without(waiting, {r}) /\ skipped' = Without(skipped, {r})
      /\ status' = [status EXCEPT ![r] = "remote"]
      /\ nComp' = [nComp EXCEPT ![r] = k]
      /\ nBlk' = [nBlk EXCEPT ![r] = b]
      /\ s' = [s EXCEPT !.aside = q]
      /\ UNCHANGED <<nTok, nOut, drafts, epoch, running, received, pending, steps, runner>>
  BY <1>0 DEF LoadRemote, Popped, WaitingOpen
<1>2. r \in Req /\ status[r] \in {"waiting", "remote", "preempted"} /\ Token(r)
  BY <1>0, <1>1, CandidateFacts DEF Requests
<1>3. q \in Seq(Req) /\ Range(q) = {r} \cup Range(s.aside)
  BY <1>0, <1>2, PushFront DEF Locals
<1>4. /\ DOMAIN s' = DOMAIN s /\ s'.at = s.at /\ s'.idx = s.idx /\ s'.sched = s.sched
      /\ s'.fresh = s.fresh /\ s'.num = s.num /\ s'.spec = s.spec /\ s'.delta = s.delta
      /\ s'.count = s.count /\ s'.tokens = s.tokens /\ s'.preempted = s.preempted
      /\ s'.broke = s.broke /\ s'.aside = q
  BY <1>1 DEF Locals
<1>5. /\ waiting' \in Seq(Req) /\ Range(waiting') = Range(waiting) \ {r}
      /\ skipped' \in Seq(Req) /\ Range(skipped') = Range(skipped) \ {r}
  BY <1>1, WithoutFacts DEF Types
<1>6. /\ nTok[r] \in Int /\ PromptLen[r] <= nTok[r] /\ k \in Nat /\ k <= nTok[r]
      /\ k < MaxModelLen
  <2>1. k \in 0..PromptLen[r]
    BY <1>0, <1>2, ConfigFacts
  <2>2. nTok[r] \in Int /\ PromptLen[r] <= nTok[r]
    BY <1>2 DEF Types, Token
  <2> QED
    BY <1>2, <2>1, <2>2, RequestFacts
<1>7. b \in Nat
  <2>1. k \in Int /\ k >= 0 /\ BlockSize \in Nat \ {0} /\ MaxModelLen \in Nat
    BY <1>2, <1>6, RequestFacts
  <2>2. PICK ahead \in Nat : b = Slots(k, ahead)
    BY <1>0, ConfigFacts DEF RemoteSlots
  <2>3. b \in Int /\ b >= 0
    BY <2>1, <2>2, SlotsFacts
  <2> QED
    BY <2>3
<1>8. status \in [Req -> Statuses] /\ nComp \in [Req -> Int] /\ nBlk \in [Req -> Nat] /\ k \in Int
  BY <1>6 DEF Types
<1>9. "remote" \in Statuses
  BY DEF Statuses
<1>10. status' \in [Req -> Statuses] /\ status'[r] = "remote"
       /\ \A x \in Req : x # r => status'[x] = status[x]
  BY <1>1, <1>2, <1>8, <1>9
<1>11. nComp' \in [Req -> Int] /\ nComp'[r] = k /\ \A x \in Req : x # r => nComp'[x] = nComp[x]
  BY <1>1, <1>2, <1>8
<1>12. nBlk' \in [Req -> Nat] /\ \A x \in Req : x # r => nBlk'[x] = nBlk[x]
  BY <1>1, <1>2, <1>7, <1>8
<1>13. Types'
  BY <1>1, <1>5, <1>10, <1>11, <1>12 DEF Types
<1>14. Token(r)'
  <2>1. NumSpec' = NumSpec
    BY ConfigStays
  <2>2. nTok[r] < MaxLen[r]
    BY <1>2 DEF Token
  <2> QED
    BY <1>1, <1>2, <1>6, <1>10, <1>11, <2>1, <2>2 DEF Token
<1>15. Range(s'.aside) \cap (Range(waiting') \cup Range(skipped')) = {}
  BY <1>3, <1>4, <1>5 DEF Queues
<1> QED
  BY <1>1, <1>2, <1>3, <1>4, <1>5, <1>10, <1>11, <1>12, <1>13, <1>14, <1>15, QueuedChange, ZenonT(40)

(* A request that is queued when requests are admitted is in no step.        *)
LEMMA QueuedNotInFlight ==
    ASSUME IInv, NEW r \in Req, status[r] \notin {"running", "done"}, ~Unsettled
    PROVE  /\ nOut[r] = 0
           /\ \A i \in 1..Len(steps) : r \notin DOMAIN steps[i].num /\ r \notin steps[i].emit
<1> USE DEF IInv
<1>1. Flight(r)
  BY DEF Requests
<1>2. \A i \in 1..Len(steps) : r \notin DOMAIN steps[i].num
  BY <1>1 DEF Flight
<1>3. \A i \in 1..Len(steps) : r \notin steps[i].emit
  BY <1>2 DEF Line, StepOK
<1>4. Sent(r, 1) = 0 /\ Sent(r, 2) = 0
  <2>1. Len(steps) \in Nat
    BY DEF Line
  <2>2. \A i \in {1, 2} : i <= Len(steps) => i \in 1..Len(steps)
    BY <2>1
  <2> QED
    BY <1>3, <2>2 DEF Sent
<1>5. nOut[r] = 0
  BY <1>1, <1>4 DEF Flight
<1> QED
  BY <1>2, <1>3, <1>5

(* What an admitted request is given to compute.                             *)
LEMMA AdmittedFacts ==
    ASSUME IInv, NEW r \in Req, status[r] \in {"waiting", "preempted"}, NEW c \in Computed(r),
           NEW n, n = Chunk(r, c), NEW b, b = AdmitSlots(r, c)
    PROVE  /\ nTok[r] \in Int /\ nTok[r] < MaxLen[r] /\ c \in Nat /\ n \in Nat /\ b \in Nat
           /\ c < nTok[r] /\ nComp[r] <= c /\ c < MaxModelLen /\ c + n < MaxModelLen
           /\ n >= 1 /\ n <= nTok[r] - c /\ (n > 1 <=> c < nTok[r] - 1)
           /\ Reach(c + n, NumSpec) <= b * BlockSize
<1> USE DEF IInv
<1>1. nTok[r] \in Int /\ nComp[r] \in Int /\ nComp[r] < nTok[r] /\ nTok[r] < MaxLen[r]
  BY DEF Requests, Types, Token
<1>2. c \in Nat /\ c < nTok[r] /\ nComp[r] <= c
  <2>1. CASE nComp[r] > 0
    BY <1>1, <2>1 DEF Computed
  <2>2. CASE ~(nComp[r] > 0)
    <3>1. c \in Hits /\ c < nTok[r]
      BY <2>2 DEF Computed, LocalHits
    <3>2. c \in Nat
      BY <3>1, ConfigsAssumption
    <3> QED
      BY <1>1, <2>2, <3>1, <3>2
  <2> QED
    BY <2>1, <2>2
<1>3. Threshold \in Nat \ {1}
  BY ConfigFacts
<1>4. MaxTokens \in Int /\ MaxTokens >= 2 /\ MaxLen[r] <= MaxModelLen /\ MaxLen[r] \in Int
      /\ MaxModelLen \in Nat /\ BlockSize \in Nat \ {0}
  BY RequestFacts
<1>5. PICK d : d = nTok[r] - c
  OBVIOUS
<1>6. d \in Nat /\ d >= 1 /\ (d > 1 <=> c < nTok[r] - 1)
  BY <1>1, <1>2, <1>5
<1>7. n = MinOf(IF Threshold > 0 THEN MinOf(d, Threshold) ELSE d, MaxTokens)
  BY <1>5 DEF Chunk, Limited
<1>8. n \in Nat /\ n >= 1 /\ n <= d /\ (n > 1 <=> d > 1)
  BY <1>3, <1>4, <1>6, <1>7 DEF MinOf
<1>9. c + n \in Int /\ c + n >= 0 /\ c + n < MaxModelLen /\ c < MaxModelLen
  BY <1>1, <1>2, <1>4, <1>5, <1>8
<1>10. b \in Int /\ b >= 0 /\ Reach(c + n, NumSpec) <= b * BlockSize
  <2>1. b = Slots(c + n, NumSpec) /\ NumSpec \in Nat
    BY ConfigFacts DEF AdmitSlots
  <2> QED
    BY <1>4, <1>9, <2>1, SlotsFacts
<1>11. b \in Nat
  BY <1>10
<1> QED
  BY <1>1, <1>2, <1>5, <1>6, <1>8, <1>9, <1>10, <1>11

(* A queued request is admitted: what does not depend on its phase.          *)
LEMMA Admission ==
    ASSUME IInv, UNCHANGED config, At("waiting"), NEW r \in Req,
           status[r] \in {"waiting", "preempted"}, r \in Range(waiting) \cup Range(skipped),
           NEW c \in Nat, NEW b \in Nat,
           waiting' = Without(waiting, {r}), skipped' = Without(skipped, {r}),
           running' = Append(running, r), status' = [status EXCEPT ![r] = "running"],
           nComp' = [nComp EXCEPT ![r] = c], nBlk' = [nBlk EXCEPT ![r] = b],
           UNCHANGED <<nTok, nOut, epoch, steps, runner>>,
           drafts' \in [Req -> Int], pending' \in [Req -> Seq(BlockId)],
           nTok[r] < MaxLen[r], c < nTok[r], c < MaxModelLen,
           \A x \in Req : drafts'[x] \in 0..NumSpec,
           s'.at \in {"waiting", "output"}, s'.preempted = FALSE, s'.aside = s.aside
    PROVE  /\ Types' /\ Line' /\ Queues'
           /\ \A x \in Req : Token(x)' /\ Flight(x)'
           /\ status'[r] = "running" /\ nComp'[r] = c /\ nBlk'[r] = b /\ nOut[r] = 0
           /\ \A x \in Req : x # r =>
                 /\ status'[x] = status[x] /\ nComp'[x] = nComp[x] /\ nBlk'[x] = nBlk[x]
                 /\ (is_prefill(x)' <=> is_prefill(x)) /\ Table(x)' = Table(x)
           /\ Range(running') = Range(running) \cup {r}
           /\ \A x \in Range(running) : x \in Req /\ x # r /\ ~is_prefill(x)
           /\ Table(r)' = Blocks(r, 0, b)
<1> USE DEF IInv
<1>1. NumSpec' = NumSpec /\ Depth' = Depth /\ Lag' = Lag /\ decode_batch_size' = decode_batch_size
  BY ConfigStays
<1>2. r \notin Range(running) /\ r \notin Range(s.aside)
  BY DEF Queues
<1>3. \A x \in Range(running) : x \in Req /\ x # r /\ ~is_prefill(x)
  BY <1>2, InRange DEF Types, Loops
<1>4. /\ running' \in Seq(Req) /\ Range(running') = Range(running) \cup {r}
      /\ Last(running') = r /\ Distinct(running')
  BY <1>2, PushBack DEF Types, Queues
<1>5. /\ waiting' \in Seq(Req) /\ Range(waiting') = Range(waiting) \ {r}
      /\ skipped' \in Seq(Req) /\ Range(skipped') = Range(skipped) \ {r}
  BY WithoutFacts DEF Types
<1>6. /\ status \in [Req -> Statuses] /\ nComp \in [Req -> Int] /\ nBlk \in [Req -> Nat]
  BY DEF Types
<1>7. "running" \in Statuses /\ c \in Int
  BY DEF Statuses
<1>8. /\ status' \in [Req -> Statuses] /\ status'[r] = "running"
      /\ \A x \in Req : x # r => status'[x] = status[x]
  BY <1>6, <1>7
<1>9. nComp' \in [Req -> Int] /\ nComp'[r] = c /\ \A x \in Req : x # r => nComp'[x] = nComp[x]
  BY <1>6, <1>7
<1>10. nBlk' \in [Req -> Nat] /\ nBlk'[r] = b /\ \A x \in Req : x # r => nBlk'[x] = nBlk[x]
  BY <1>6
<1>11. Types'
  BY <1>4, <1>5, <1>8, <1>9, <1>10 DEF Types
<1>12. ~Unsettled /\ ~Unsettled' /\ ~At("idle") /\ ~At("idle")' /\ ~At("collect")'
  BY DEF Unsettled, At
<1>13. Line'
  BY <1>1, <1>12 DEF Line, StepOK
<1>14. \A x \in Req : x # r => (is_prefill(x)' <=> is_prefill(x)) /\ Table(x)' = Table(x)
  BY <1>9, <1>10 DEF is_prefill, Table, Blocks
<1>15. Queues'
  <2>1. \A x \in Range(waiting') \cup Range(skipped') \cup Range(s'.aside) :
           status'[x] \in {"waiting", "remote", "preempted"}
    <3> TAKE x \in Range(waiting') \cup Range(skipped') \cup Range(s'.aside)
    <3>1. x # r /\ x \in Range(waiting) \cup Range(skipped) \cup Range(s.aside)
      BY <1>2, <1>5
    <3>2. x \in Req
      BY <3>1, InRange DEF Types, Locals
    <3> QED
      BY <1>8, <3>1, <3>2 DEF Queues
  <2>2. \A x \in Range(running') : status'[x] = "running"
    BY <1>3, <1>4, <1>8 DEF Queues
  <2>3. \A x \in Range(running') : is_prefill(x)' => x = Last(running')
    BY <1>3, <1>4, <1>14
  <2>4. Range(s'.aside) \cap (Range(waiting') \cup Range(skipped')) = {}
    BY <1>5 DEF Queues
  <2> QED
    BY <1>4, <2>1, <2>2, <2>3, <2>4 DEF Queues
<1>16. nOut[r] = 0 /\ \A i \in 1..Len(steps) : r \notin steps[i].emit
  BY <1>12, QueuedNotInFlight
<1>17. ASSUME NEW x \in Req PROVE Token(x)' /\ Flight(x)'
  <2>1. Token(x) /\ Flight(x)
    BY DEF Requests
  <2>2. \A i : Sent(x, i)' = Sent(x, i)
    BY DEF Sent
  <2>3. CASE x = r
    <3>1. Token(r)'
      <4>1. nTok[r] \in Int /\ c <= nTok[r] + nOut[r]
        <5>1. nTok[r] \in Int
          BY DEF Types
        <5> QED
          BY <1>16, <5>1
      <4> QED
        BY <1>1, <1>8, <1>9, <2>1, <2>3, <4>1 DEF Token
    <3>2. Flight(r)'
      <4>1. nOut[r] = IF Lag = 1 THEN Sent(r, 1) + Sent(r, 2) ELSE 0
        BY <2>1, <2>3 DEF Flight
      <4> QED
        BY <1>1, <1>8, <1>16, <2>2, <2>3, <4>1 DEF Flight
    <3> QED
      BY <2>3, <3>1, <3>2
  <2>4. CASE x # r
    <3>1. Token(x)'
      BY <1>1, <1>8, <1>9, <2>1, <2>4 DEF Token
    <3>2. Flight(x)'
      BY <1>1, <1>8, <1>9, <1>12, <2>1, <2>2, <2>4 DEF Flight
    <3> QED
      BY <3>1, <3>2
  <2> QED
    BY <2>3, <2>4
<1>18. Table(r)' = Blocks(r, 0, b)
  BY <1>10 DEF Table, Blocks
<1> QED
  BY <1>3, <1>4, <1>8, <1>9, <1>10, <1>11, <1>13, <1>14, <1>15, <1>16, <1>17, <1>18

(* Guards (C) and (D): an admitted prefill is the only request of the step.  *)
(* The decodes keep the blocks and drafts they were scheduled with.          *)
LEMMA AdmitWaitingKeeps ==
    ASSUME IInv, AdmitWaiting, UNCHANGED config
    PROVE  IInv'
<1> USE DEF IInv
<1>0. PICK r : r = Candidate
  OBVIOUS
<1>a. PICK c \in Computed(r) :
        LET n == Chunk(r, c)
            table == Blocks(r, 0, AdmitSlots(r, c))
        IN  /\ Popped(r)
            /\ running' = Append(running, r)
            /\ status' = [status EXCEPT ![r] = "running"]
            /\ nComp' = [nComp EXCEPT ![r] = c]
            /\ nBlk' = [nBlk EXCEPT ![r] = Len(table)]
            /\ IF c < nTok[r] - 1
               THEN /\ s' = WithPrefill(r, n, table)
                    /\ pending' = EvictedPending
                    /\ drafts' = EvictedDrafts
               ELSE /\ s' = [s EXCEPT !.fresh = @ \cup {r}, !.num[r] = n, !.count = @ + 1,
                                      !.tokens = @ - n, !.delta[r] = table]
                    /\ UNCHANGED <<pending, drafts>>
  BY <1>0, Zenon DEF AdmitWaiting
<1>b. PICK n, b, table : /\ n = Chunk(r, c) /\ b = AdmitSlots(r, c)
                         /\ table = Blocks(r, 0, b)
  OBVIOUS
<1>1. /\ waiting' = Without(waiting, {r}) /\ skipped' = Without(skipped, {r})
      /\ running' = Append(running, r)
      /\ status' = [status EXCEPT ![r] = "running"]
      /\ nComp' = [nComp EXCEPT ![r] = c]
      /\ nBlk' = [nBlk EXCEPT ![r] = Len(table)]
      /\ c < nTok[r] - 1 => /\ s' = WithPrefill(r, n, table)
                            /\ pending' = EvictedPending
                            /\ drafts' = EvictedDrafts
      /\ ~(c < nTok[r] - 1) =>
            /\ s' = [s EXCEPT !.fresh = s.fresh \cup {r}, !.num = [s.num EXCEPT ![r] = n],
                              !.count = s.count + 1, !.tokens = s.tokens - n,
                              !.delta = [s.delta EXCEPT ![r] = table]]
            /\ UNCHANGED <<pending, drafts>>
  BY <1>a, <1>b DEF Popped
<1>2. /\ WaitingOpen /\ At("waiting") /\ status[r] # "remote" /\ ~MustDefer(r)
      /\ UNCHANGED <<nTok, nOut, epoch, loading, received, steps, runner>>
  BY <1>0 DEF AdmitWaiting, Considered, WaitingOpen
<1>3. /\ r \in Req /\ r \in Range(waiting) \cup Range(skipped)
      /\ status[r] \in {"waiting", "preempted"} /\ r \notin Range(running) /\ r \notin Scheduled
  BY <1>0, <1>2, CandidateFacts
<1>4. /\ nTok[r] \in Int /\ nTok[r] < MaxLen[r] /\ c \in Nat /\ n \in Nat /\ b \in Nat
      /\ c < nTok[r] /\ nComp[r] <= c /\ c < MaxModelLen /\ c + n < MaxModelLen
      /\ n >= 1 /\ n <= nTok[r] - c /\ (n > 1 <=> c < nTok[r] - 1)
      /\ Reach(c + n, NumSpec) <= b * BlockSize
  BY <1>b, <1>3, AdmittedFacts
<1>5. table \in Seq(BlockId) /\ Len(table) = b
  <2>1. epoch \in [Req -> Int] /\ 0 \in Nat /\ 0 <= b /\ b - 0 = b
    BY <1>4 DEF Types
  <2> QED
    BY <1>b, <1>3, <1>4, <2>1, BlocksFacts
<1>6. nBlk' = [nBlk EXCEPT ![r] = b]
  BY <1>1, <1>5
<1>7. /\ s.count = Len(s.sched) + Cardinality(s.fresh) /\ s.count < decode_batch_size
      /\ s.preempted = FALSE /\ Scheduled \subseteq Range(running) /\ IsFiniteSet(s.fresh)
      /\ s.sched \in Seq(Req) /\ s.fresh \in SUBSET Req
  BY <1>2 DEF Loops, WaitingOpen, CanAdmit, Locals
<1>8. r \notin Range(s.sched) /\ r \notin s.fresh
  BY <1>3 DEF Scheduled
<1>9. NumSpec' = NumSpec /\ decode_batch_size' = decode_batch_size /\ NumSpec \in Nat
  BY ConfigStays, ConfigFacts
<1>10. \A x \in Req : Token(x) /\ Picked(x) /\ Tabled(x)
  BY DEF Requests
<1>11. /\ s.num \in [Req -> Int] /\ s.spec \in [Req -> Int] /\ s.delta \in [Req -> Seq(BlockId)]
       /\ pending \in [Req -> Seq(BlockId)] /\ drafts \in [Req -> Int] /\ runner \in [Req -> Seq(BlockId)]
  BY DEF Locals, Types
<1>12. CASE ~(c < nTok[r] - 1)
  <2>1. /\ DOMAIN s' = DOMAIN s /\ s'.at = "waiting" /\ s'.idx = s.idx /\ s'.sched = s.sched
        /\ s'.fresh = s.fresh \cup {r} /\ s'.num = [s.num EXCEPT ![r] = n] /\ s'.spec = s.spec
        /\ s'.delta = [s.delta EXCEPT ![r] = table] /\ s'.count = s.count + 1
        /\ s'.tokens = s.tokens - n /\ s'.preempted = s.preempted
        /\ s'.broke = s.broke /\ s'.aside = s.aside
    <3>1. s' = [s EXCEPT !.fresh = s.fresh \cup {r}, !.num = [s.num EXCEPT ![r] = n],
                         !.count = s.count + 1, !.tokens = s.tokens - n,
                         !.delta = [s.delta EXCEPT ![r] = table]]
      BY <1>1, <1>12
    <3> QED
      BY <1>2, <3>1 DEF Locals, At
  <2>2. UNCHANGED <<pending, drafts>>
    BY <1>1, <1>12
  <2>3. \A x \in Req : drafts'[x] \in 0..NumSpec
    BY <1>10, <2>2 DEF Token
  <2>4. drafts' \in [Req -> Int] /\ pending' \in [Req -> Seq(BlockId)]
    BY <1>11, <2>2
  <2>5. /\ Types' /\ Line' /\ Queues'
        /\ \A x \in Req : Token(x)' /\ Flight(x)'
        /\ status'[r] = "running" /\ nComp'[r] = c /\ nBlk'[r] = b /\ nOut[r] = 0
        /\ \A x \in Req : x # r =>
              /\ status'[x] = status[x] /\ nComp'[x] = nComp[x] /\ nBlk'[x] = nBlk[x]
              /\ (is_prefill(x)' <=> is_prefill(x)) /\ Table(x)' = Table(x)
        /\ Range(running') = Range(running) \cup {r}
        /\ \A x \in Range(running) : x \in Req /\ x # r /\ ~is_prefill(x)
        /\ Table(r)' = Blocks(r, 0, b)
    <3>1. s'.at \in {"waiting", "output"} /\ s'.preempted = FALSE /\ s'.aside = s.aside
      BY <1>7, <2>1
    <3> QED
      BY <1>1, <1>2, <1>3, <1>4, <1>6, <2>3, <2>4, <3>1, Admission
  <2>6. Locals'
    <3>1. s'.count \in Int /\ s'.tokens \in Int
      BY <1>4, <2>1 DEF Locals
    <3>0. n \in Int
      BY <1>4
    <3>2. s'.num \in [Req -> Int] /\ s'.delta \in [Req -> Seq(BlockId)]
      BY <1>5, <1>11, <2>1, <3>0
    <3>3. s'.fresh \in SUBSET Req
      BY <1>3, <1>7, <2>1
    <3> QED
      BY <2>1, <3>1, <3>2, <3>3 DEF Locals
  <2>7. Scheduled' = Scheduled \cup {r}
    BY <2>1 DEF Scheduled
  <2>8. ~is_prefill(r)'
    BY <1>2, <1>12, <2>5 DEF is_prefill
  <2>9. ASSUME NEW x \in Req PROVE Picked(x)' /\ Tabled(x)'
    <3>1. CASE x = r
      <4>1. s'.num[r] = n /\ s'.spec[r] = 0 /\ s'.delta[r] = table /\ pending[r] = <<>>
        BY <1>3, <1>8, <1>10, <1>11, <2>1 DEF Picked, Tabled
      <4>2. /\ n - 0 >= 1 /\ n - 0 <= nTok[r] + nOut[r] - c /\ ~(n - 0 > 1) /\ 0 \in 0..NumSpec
        BY <1>4, <1>9, <1>12, <2>5
      <4>3. Picked(r)'
        BY <1>2, <1>4, <1>9, <2>5, <2>8, <4>1, <4>2 DEF Picked
      <4>4. Tabled(r)'
        BY <1>b, <1>8, <2>1, <2>2, <2>5, <4>1 DEF Tabled
      <4> QED
        BY <3>1, <4>3, <4>4
    <3>2. CASE x # r
      <4>1. /\ s'.num[x] = s.num[x] /\ s'.spec[x] = s.spec[x] /\ s'.delta[x] = s.delta[x]
            /\ (x \in s'.fresh <=> x \in s.fresh) /\ (x \in Scheduled' <=> x \in Scheduled)
            /\ pending'[x] = pending[x]
        BY <1>11, <2>1, <2>2, <2>7, <3>2
      <4>2. Picked(x)'
        BY <1>2, <1>9, <1>10, <2>1, <2>5, <3>2, <4>1 DEF Picked
      <4>3. Tabled(x)'
        BY <1>2, <1>10, <2>1, <2>5, <3>2, <4>1, ConfigStays DEF Tabled
      <4> QED
        BY <4>2, <4>3
    <3> QED
      BY <3>1, <3>2
  <2>10. Loops'
    <3>1. ~Between' /\ ~At("running")' /\ ~At("output")'
      BY <2>1 DEF Between, At
    <3>2. /\ IsFiniteSet(s'.fresh) /\ Cardinality(s'.fresh) = Cardinality(s.fresh) + 1
          /\ Cardinality(s.fresh) \in Nat /\ Len(s.sched) \in Nat
      BY <1>7, <1>8, <2>1, FS_AddElement, FS_CardinalityType
    <3>3. decode_batch_size \in Nat
      BY ConfigFacts
    <3>4. s'.count = Len(s'.sched) + Cardinality(s'.fresh) /\ s'.count <= decode_batch_size
      BY <1>7, <2>1, <3>2, <3>3
    <3>5. \A x \in Range(running') : ~is_prefill(x)'
      BY <2>5, <2>8
    <3> QED
      BY <1>7, <1>9, <2>1, <2>5, <2>7, <3>1, <3>2, <3>4, <3>5 DEF Loops
  <2> QED
    BY <2>5, <2>6, <2>9, <2>10 DEF Requests
<1>13. CASE c < nTok[r] - 1
  <2>0. s.fresh = {}
    <3>1. is_prefill(r)
      <4>1. nComp[r] \in Int
        BY <1>3 DEF Types
      <4> QED
        BY <1>4, <1>13, <4>1 DEF is_prefill
    <3> QED
      BY <1>2, <3>1 DEF MustDefer
  <2>a. PICK nm, sp, dl :
          /\ nm = [q \in Req |-> IF q = r THEN n ELSE IF q \in Range(s.sched) THEN 0 ELSE s.num[q]]
          /\ sp = [q \in Req |-> IF q \in Range(s.sched) THEN 0 ELSE s.spec[q]]
          /\ dl = [q \in Req |-> IF q = r THEN table
                                 ELSE IF q \in Range(s.sched) THEN <<>> ELSE s.delta[q]]
    OBVIOUS
  <2>b. s' = [s EXCEPT !.at = "output", !.fresh = s.fresh \cup {r}, !.sched = <<>>, !.count = 0,
                       !.tokens = MaxTokens, !.num = nm, !.spec = sp, !.delta = dl]
    BY <1>1, <1>13, <2>a DEF WithPrefill
  <2>1. /\ DOMAIN s' = DOMAIN s /\ s'.at = "output" /\ s'.idx = s.idx /\ s'.sched = <<>>
        /\ s'.fresh = {r} /\ s'.num = nm /\ s'.spec = sp /\ s'.delta = dl /\ s'.count = 0
        /\ s'.tokens = MaxTokens /\ s'.preempted = s.preempted
        /\ s'.broke = s.broke /\ s'.aside = s.aside
    BY <2>0, <2>b DEF Locals
  <2>c. Range(s.sched) \subseteq Req /\ Range(s.sched) \subseteq Scheduled
    BY <1>7, InRange DEF Scheduled
  <2>2. /\ \A x \in Req : pending'[x] = IF x \in Range(s.sched) THEN pending[x] \o s.delta[x]
                                        ELSE pending[x]
        /\ \A x \in Req : pending'[x] \in Seq(BlockId)
        /\ pending' \in [Req -> Seq(BlockId)]
    <3>1. pending' = [x \in Req |-> IF x \in Range(s.sched) THEN pending[x] \o s.delta[x]
                                    ELSE pending[x]]
      BY <1>1, <1>13 DEF EvictedPending
    <3>2. \A x \in Req : pending[x] \in Seq(BlockId) /\ s.delta[x] \in Seq(BlockId)
      BY <1>11
    <3>3. \A x \in Req : pending[x] \o s.delta[x] \in Seq(BlockId)
      BY <3>2
    <3> QED
      BY <3>1, <3>2, <3>3
  <2>3. /\ drafts' \in [Req -> Int] /\ \A x \in Req : drafts'[x] \in 0..NumSpec
    <3>1. drafts' = [x \in Req |-> IF x \in Range(s.sched) THEN s.spec[x] ELSE drafts[x]]
      BY <1>1, <1>13 DEF EvictedDrafts
    <3>2. \A x \in Req : x \in Range(s.sched) => s.spec[x] \in 0..NumSpec
      BY <1>10, <2>c DEF Picked
    <3>3. \A x \in Req : drafts[x] \in 0..NumSpec
      BY <1>10 DEF Token
    <3>4. \A x \in Req : drafts'[x] \in 0..NumSpec
      BY <3>1, <3>2, <3>3
    <3>5. \A x \in Req : drafts[x] \in Int /\ s.spec[x] \in Int
      BY <1>11
    <3>6. drafts' \in [Req -> Int]
      BY <3>1, <3>5
    <3> QED
      BY <3>4, <3>6
  <2>5. /\ Types' /\ Line' /\ Queues'
        /\ \A x \in Req : Token(x)' /\ Flight(x)'
        /\ status'[r] = "running" /\ nComp'[r] = c /\ nBlk'[r] = b /\ nOut[r] = 0
        /\ \A x \in Req : x # r =>
              /\ status'[x] = status[x] /\ nComp'[x] = nComp[x] /\ nBlk'[x] = nBlk[x]
              /\ (is_prefill(x)' <=> is_prefill(x)) /\ Table(x)' = Table(x)
        /\ Range(running') = Range(running) \cup {r}
        /\ \A x \in Range(running) : x \in Req /\ x # r /\ ~is_prefill(x)
        /\ Table(r)' = Blocks(r, 0, b)
    <3>1. s'.at \in {"waiting", "output"} /\ s'.preempted = FALSE /\ s'.aside = s.aside
      BY <1>7, <2>1
    <3> QED
      BY <1>1, <1>2, <1>3, <1>4, <1>6, <2>2, <2>3, <3>1, Admission
  <2>6. Locals'
    <3>1. MaxTokens \in Int /\ <<>> \in Seq(Req) /\ <<>> \in Seq(BlockId) /\ 0 \in Int /\ n \in Int
      BY <1>4, ConfigsAssumption
    <3>2. nm \in [Req -> Int] 
      BY <1>11, <2>a, <3>1
    <3>3. sp \in [Req -> Int]
      BY <1>11, <2>a, <3>1
    <3>4. dl \in [Req -> Seq(BlockId)]
      BY <1>5, <1>11, <2>a, <3>1
    <3>5. s'.fresh \in SUBSET Req
      BY <1>3, <2>1
    <3> QED
      BY <2>1, <3>1, <3>2, <3>3, <3>4, <3>5 DEF Locals
  <2>7. Scheduled' = {r} /\ Range(s'.sched) = {}
    BY <2>1, EmptyRange DEF Scheduled
  <2>8. is_prefill(r)'
    BY <1>2, <1>13, <2>5 DEF is_prefill
  <2>9. ASSUME NEW x \in Req PROVE Picked(x)' /\ Tabled(x)'
    <3>1. CASE x = r
      <4>1. s'.num[r] = n /\ s'.spec[r] = 0 /\ s'.delta[r] = table /\ pending'[r] = <<>>
        <5>1. s'.num[r] = n /\ s'.delta[r] = table /\ s'.spec[r] = s.spec[r] /\ pending'[r] = pending[r]
          BY <1>3, <1>8, <2>1, <2>2, <2>a, ZenonT(40)
        <5>2. s.spec[r] = 0 /\ pending[r] = <<>>
          BY <1>3, <1>8, <1>10 DEF Picked, Tabled
        <5> QED
          BY <5>1, <5>2
      <4>2. /\ n - 0 >= 1 /\ n - 0 <= nTok[r] + nOut[r] - c /\ n - 0 > 1 /\ 0 \in 0..NumSpec
        BY <1>4, <1>9, <1>13, <2>5
      <4>3. Picked(r)'
        BY <1>2, <1>4, <1>9, <2>5, <2>8, <4>1, <4>2 DEF Picked
      <4>4. Tabled(r)'
        BY <1>b, <2>1, <2>5, <2>7, <4>1 DEF Tabled
      <4> QED
        BY <3>1, <4>3, <4>4
    <3>2. CASE x # r
      <4>1. x \notin Scheduled' /\ x \notin Range(s'.sched) /\ x \notin s'.fresh
        BY <2>1, <2>7, <3>2
      <4>2. s'.spec[x] = 0
        BY <1>10, <2>1, <2>a DEF Picked
      <4>3. Picked(x)'
        BY <4>1, <4>2 DEF Picked
      <4>4. status[x] # "running" => pending'[x] = <<>>
        <5>1. x \in Range(s.sched) => status[x] = "running"
          BY <1>7, <2>c DEF Queues
        <5> QED
          BY <1>10, <2>2, <5>1 DEF Tabled
      <4>5. ASSUME status[x] = "running" PROVE Table(x) = runner[x] \o pending'[x]
        <5>1. Table(x) = IF x \in Range(s.sched) THEN runner[x] \o pending[x] \o s.delta[x]
                         ELSE runner[x] \o pending[x]
          BY <1>10, <2>0, <4>5 DEF Tabled
        <5>2. (runner[x] \o pending[x]) \o s.delta[x] = runner[x] \o (pending[x] \o s.delta[x])
          <6>1. runner[x] \in Seq(BlockId) /\ pending[x] \in Seq(BlockId) /\ s.delta[x] \in Seq(BlockId)
            BY <1>11
          <6>2. \A u, v, w \in Seq(BlockId) : (u \o v) \o w = u \o (v \o w)
            BY ConcatAssoc
          <6> QED
            BY <6>1, <6>2
        <5> QED
          BY <2>2, <5>1, <5>2
      <4>6. status[x] = "running" /\ steps # <<>> /\ x \in DOMAIN Last(steps).num =>
                Reach(nComp[x], NumSpec) <= Len(runner[x]) * BlockSize
        BY <1>10, <2>0 DEF Tabled
      <4>7. Tabled(x)'
        BY <1>2, <2>5, <3>2, <4>1, <4>4, <4>5, <4>6, ConfigStays DEF Tabled
      <4> QED
        BY <4>3, <4>7
    <3> QED
      BY <3>1, <3>2
  <2>10. Loops'
    <3>1. ~Between' /\ ~At("running")' /\ ~At("waiting")'
      BY <2>1 DEF Between, At
    <3>2. Cardinality(Scheduled') = 1 /\ IsFiniteSet(s'.fresh)
      BY <2>1, <2>7, FS_Singleton
    <3>3. 1 <= decode_batch_size
      BY ConfigFacts
    <3> QED
      BY <1>9, <2>5, <2>7, <3>1, <3>2, <3>3 DEF Loops
  <2> QED
    BY <2>5, <2>6, <2>9, <2>10 DEF Requests
<1> QED
  BY <1>12, <1>13

(* A queue in reverse.                                                       *)
LEMMA ReverseFacts ==
    ASSUME NEW q \in Seq(Req)
    PROVE  Reverse(q) \in Seq(Req) /\ Range(Reverse(q)) = Range(q)
<1>1. Len(q) \in Nat /\ DOMAIN q = 1..Len(q) /\ \A i \in 1..Len(q) : q[i] \in Req
  OBVIOUS
<1>2. PICK t : t = [i \in 1..Len(q) |-> q[(Len(q) - i) + 1]]
  OBVIOUS
<1>3. \A i \in 1..Len(q) : (Len(q) - i) + 1 \in 1..Len(q) /\ (Len(q) - ((Len(q) - i) + 1)) + 1 = i
  BY <1>1
<1>4. \A i \in 1..Len(q) : t[i] \in Req /\ t[i] = q[(Len(q) - i) + 1]
  BY <1>1, <1>2, <1>3
<1>5. t \in Seq(Req) /\ DOMAIN t = 1..Len(q)
  BY <1>1, <1>2, <1>4
<1>6. \A i \in 1..Len(q) : t[(Len(q) - i) + 1] = q[i]
  BY <1>3, <1>4
<1>7. Range(t) = Range(q)
  <2>1. ASSUME NEW i \in 1..Len(q) PROVE t[i] \in Range(q)
    <3>1. (Len(q) - i) + 1 \in DOMAIN q /\ t[i] = q[(Len(q) - i) + 1]
      BY <1>1, <1>3, <1>4
    <3> QED
      BY <3>1 DEF Range
  <2>2. ASSUME NEW i \in 1..Len(q) PROVE q[i] \in Range(t)
    <3>1. (Len(q) - i) + 1 \in DOMAIN t /\ q[i] = t[(Len(q) - i) + 1]
      BY <1>3, <1>5, <1>6
    <3> QED
      BY <3>1 DEF Range
  <2> QED
    BY <1>1, <1>5, <2>1, <2>2 DEF Range
<1> QED
  BY <1>2, <1>5, <1>7 DEF Reverse

(* Nothing is in the new call's local variables.                             *)
LEMMA CallEnds ==
    ASSUME NEW place \in {"idle", "collect"},
           s' = [NoStep EXCEPT !.at = place] \/ (place = "idle" /\ s' = NoStep)
    PROVE  /\ Locals' /\ Scheduled' = {} /\ Range(s'.sched) = {} /\ Range(s'.aside) = {}
           /\ s'.at = place /\ s'.sched = <<>> /\ s'.fresh = {} /\ s'.aside = <<>>
           /\ s'.preempted = FALSE /\ \A x \in Req : s'.spec[x] = 0
           /\ Loops'
<1>1. /\ DOMAIN s' = {"at", "idx", "sched", "fresh", "num", "spec", "delta", "count", "soft",
                      "tokens", "retry", "preempted", "broke", "aside"}
      /\ s'.at = place /\ s'.idx = 0 /\ s'.sched = <<>> /\ s'.fresh = {}
      /\ s'.num = [r \in Req |-> 0] /\ s'.spec = [r \in Req |-> 0] /\ s'.delta = [r \in Req |-> <<>>]
      /\ s'.count = 0 /\ s'.tokens = 0 /\ s'.aside = <<>>
      /\ s'.preempted = FALSE /\ s'.broke = FALSE
  BY DEF NoStep
<1>2. \A S : <<>> \in Seq(S)
  OBVIOUS
<1>a. [r \in Req |-> 0] \in [Req -> Int] /\ [r \in Req |-> <<>>] \in [Req -> Seq(BlockId)]
  BY <1>2
<1>3. s'.num \in [Req -> Int] /\ s'.spec \in [Req -> Int] /\ s'.delta \in [Req -> Seq(BlockId)]
  BY <1>1, <1>a
<1>4. s'.sched \in Seq(Req) /\ s'.aside \in Seq(Req)
  BY <1>1, <1>2
<1>5. s'.preempted \in BOOLEAN /\ s'.broke \in BOOLEAN
  BY <1>1
<1>6. Locals'
  BY <1>1, <1>3, <1>4, <1>5 DEF Locals
<1>7. Range(s'.sched) = {} /\ Range(s'.aside) = {} /\ Scheduled' = {}
  BY <1>1, EmptyRange DEF Scheduled
<1>8. Loops'
  BY <1>1, <1>7, FS_EmptySet DEF Loops, At
<1> QED
  BY <1>1, <1>6, <1>7, <1>8

(* schedule() returns.                                                       *)
LEMMA OutputKeeps ==
    ASSUME IInv, Output, UNCHANGED config
    PROVE  IInv'
<1> USE DEF IInv
<1>a. PICK S, E, st, place :
        /\ S = Scheduled /\ E = {r \in S : Emits(r)}
        /\ st = [num |-> Restrict(s.num, S), spec |-> Restrict(s.spec, S), emit |-> E,
                 prefill |-> {r \in S : is_prefill(r)}]
        /\ place = IF S = {} /\ steps # <<>> THEN "collect" ELSE "idle"
  OBVIOUS
<1>1. /\ At("output")
      /\ steps' = IF S = {} THEN steps ELSE Append(steps, st)
      /\ nComp' = [r \in Req |-> IF r \in S THEN nComp[r] + s.num[r] ELSE nComp[r]]
      /\ nOut' = [r \in Req |-> IF Async /\ r \in E THEN nOut[r] + 1 ELSE nOut[r]]
      /\ pending' = [r \in Req |-> IF r \in Range(s.sched) THEN <<>> ELSE pending[r]]
      /\ runner' = [r \in Req |-> Delivered(r)]
      /\ skipped' = Reverse(s.aside) \o skipped
      /\ s' = [NoStep EXCEPT !.at = place]
      /\ UNCHANGED <<status, nTok, drafts, epoch, running, waiting, nBlk, loading, received>>
  <2>1. nOut' = [r \in Req |-> IF Async /\ r \in Scheduled /\ Emits(r) THEN nOut[r] + 1 ELSE nOut[r]]
    BY DEF Output
  <2>2. nOut' = [r \in Req |-> IF Async /\ r \in E THEN nOut[r] + 1 ELSE nOut[r]]
    BY <1>a, <2>1
  <2>3. s' = [NoStep EXCEPT !.at = place]
    BY <1>a DEF Output
  <2>4. steps' = IF S = {} THEN steps ELSE Append(steps, st)
    BY <1>a DEF Output
  <2> QED
    BY <1>a, <2>2, <2>3, <2>4 DEF Output, Requeued
<1>2. /\ Locals' /\ Scheduled' = {} /\ Range(s'.sched) = {} /\ Range(s'.aside) = {}
      /\ s'.at = place /\ s'.sched = <<>> /\ s'.fresh = {} /\ s'.aside = <<>>
      /\ s'.preempted = FALSE /\ \A x \in Req : s'.spec[x] = 0
      /\ Loops'
  <2>1. place \in {"idle", "collect"}
    BY <1>a
  <2> QED
    BY <1>1, <2>1, CallEnds
<1>3. NumSpec' = NumSpec /\ Depth' = Depth /\ Lag' = Lag /\ decode_batch_size' = decode_batch_size
  BY ConfigStays
<1>c. NumSpec \in Nat /\ Lag \in {0, 1} /\ (Async <=> Lag = 1) /\ Depth \in {1, 2}
  BY ConfigFacts
<1>4. /\ S \subseteq Range(running) /\ S \subseteq Req /\ IsFiniteSet(S)
      /\ Cardinality(S) <= decode_batch_size
      /\ \A r \in S : is_prefill(r) => Cardinality(S) = 1
      /\ \A r \in S : status[r] = "running"
  <2>1. S \subseteq Range(running) /\ S = Range(s.sched) \cup s.fresh /\ IsFiniteSet(s.fresh)
    BY <1>a DEF Loops, Scheduled
  <2>2. IsFiniteSet(Range(s.sched))
    BY RangeCardinality DEF Locals
  <2>3. IsFiniteSet(S)
    BY <2>1, <2>2, FS_Union
  <2>4. S \subseteq Req
    BY <2>1, InRange DEF Types
  <2>5. \A r \in S : status[r] = "running"
    BY <2>1 DEF Queues
  <2> QED
    BY <1>1, <1>a, <2>1, <2>3, <2>4, <2>5 DEF Loops
<1>5. \A r \in Req : Token(r) /\ Flight(r) /\ Picked(r) /\ Tabled(r)
  BY DEF Requests
<1>6. \A r \in S : /\ s.num[r] >= 1 /\ s.spec[r] \in 0..NumSpec /\ nComp[r] + s.num[r] < MaxModelLen
                   /\ s.num[r] - s.spec[r] >= 1
                   /\ s.num[r] - s.spec[r] <= nTok[r] + nOut[r] - nComp[r]
                   /\ s.num[r] - s.spec[r] > 1 <=> is_prefill(r)
                   /\ Reach(nComp[r] + s.num[r], NumSpec) <= nBlk[r] * BlockSize
  BY <1>4, <1>5, <1>a DEF Picked
<1>7. \A r \in Req : /\ nTok[r] \in Int /\ nComp[r] \in Int /\ nOut[r] \in Int /\ s.num[r] \in Int
                     /\ s.spec[r] \in Int /\ nBlk[r] \in Nat
                     /\ pending[r] \in Seq(BlockId) /\ runner[r] \in Seq(BlockId)
                     /\ s.delta[r] \in Seq(BlockId)
  BY DEF Types, Locals
<1>8. \A r \in Req : /\ nComp'[r] = IF r \in S THEN nComp[r] + s.num[r] ELSE nComp[r]
                     /\ nOut'[r] = IF Lag = 1 /\ r \in E THEN nOut[r] + 1 ELSE nOut[r]
                     /\ pending'[r] = IF r \in Range(s.sched) THEN <<>> ELSE pending[r]
                     /\ runner'[r] = Delivered(r)
  BY <1>1, <1>c
<1>9. /\ st \in StepRec /\ DOMAIN st.num = S /\ st.emit = E /\ st.prefill = {r \in S : is_prefill(r)}
      /\ \A r \in S : st.num[r] = s.num[r] /\ st.spec[r] = s.spec[r]
  <2>1. PICK nm, sp, pf : /\ nm = [r \in S |-> s.num[r]] /\ sp = [r \in S |-> s.spec[r]]
                          /\ pf = {r \in S : is_prefill(r)}
    OBVIOUS
  <2>2. nm \in [S -> Int] /\ sp \in [S -> Int]
    BY <1>4, <1>7, <2>1
  <2>3. nm \in Counts /\ sp \in Counts
    BY <1>4, <2>2 DEF Counts
  <2>4. E \in SUBSET Req /\ pf \in SUBSET Req
    BY <1>4, <1>a, <2>1
  <2>5. st = [num |-> nm, spec |-> sp, emit |-> E, prefill |-> pf]
    BY <1>a, <2>1 DEF Restrict
  <2>6. st \in StepRec
    BY <2>3, <2>4, <2>5 DEF StepRec
  <2>7. st.num = nm /\ st.spec = sp /\ st.emit = E /\ st.prefill = pf
    BY <2>5
  <2>8. DOMAIN nm = S /\ \A r \in S : nm[r] = s.num[r] /\ sp[r] = s.spec[r]
    BY <2>1
  <2> QED
    BY <2>1, <2>6, <2>7, <2>8
<1>10. E \subseteq S /\ \A r \in E : nComp[r] + s.num[r] - s.spec[r] >= nTok[r] + nOut[r]
  BY <1>a DEF Emits
<1>11. /\ steps \in Seq(StepRec) /\ Len(steps) \in Nat /\ Len(steps) < Depth /\ Len(steps) \in {0, 1}
  <2>1. steps \in Seq(StepRec) /\ Len(steps) \in Nat /\ Len(steps) < Depth
    BY <1>1 DEF Line, At
  <2>2. Depth \in {1, 2}
    BY <1>c
  <2>3. Len(steps) \in {0, 1}
    <3>1. Len(steps) \in Nat /\ Len(steps) < Depth
      BY <2>1
    <3> QED
      BY ONLY <2>2, <3>1
  <2> QED
    BY <2>1, <2>3
<1>12. ASSUME S # {}
       PROVE  /\ steps' \in Seq(StepRec) /\ Len(steps') = Len(steps) + 1
              /\ \A i \in 1..Len(steps) : steps'[i] = steps[i]
              /\ steps'[Len(steps) + 1] = st
  BY <1>1, <1>9, <1>11, <1>12, AppendFacts
<1>13. Types'
  <2>1. nComp' \in [Req -> Int]
    <3>1. \A r \in Req : (IF r \in S THEN nComp[r] + s.num[r] ELSE nComp[r]) \in Int
      BY <1>7
    <3> QED
      BY <1>1, <3>1
  <2>2. nOut' \in [Req -> Int]
    <3>1. \A r \in Req : (IF Async /\ r \in E THEN nOut[r] + 1 ELSE nOut[r]) \in Int
      BY <1>7
    <3> QED
      BY <1>1, <3>1
  <2>3. pending' \in [Req -> Seq(BlockId)]
    <3>1. <<>> \in Seq(BlockId)
      OBVIOUS
    <3>2. \A r \in Req : (IF r \in Range(s.sched) THEN <<>> ELSE pending[r]) \in Seq(BlockId)
      BY <1>7, <3>1
    <3> QED
      BY <1>1, <3>2
  <2>4. runner' \in [Req -> Seq(BlockId)]
    <3>1. \A u, v, w \in Seq(BlockId) : u \o v \o w \in Seq(BlockId)
      OBVIOUS
    <3>2. \A r \in Req : Delivered(r) \in Seq(BlockId)
      BY <1>7, <3>1 DEF Delivered
    <3> QED
      BY <1>1, <3>2
  <2>5. skipped' \in Seq(Req)
    BY <1>1, ReverseFacts, ConcatRange DEF Types, Locals
  <2> QED
    BY <1>1, <2>1, <2>2, <2>3, <2>4, <2>5 DEF Types
<1>14. StepOK(st)
  <2>1. DOMAIN st.num \subseteq Req /\ IsFiniteSet(DOMAIN st.num)
    BY <1>4, <1>9
  <2>2. st.emit \subseteq DOMAIN st.num /\ st.prefill \subseteq DOMAIN st.num
    BY <1>9, <1>10
  <2>3. Cardinality(DOMAIN st.num) <= decode_batch_size
    BY <1>4, <1>9
  <2>4. st.prefill # {} => Cardinality(DOMAIN st.num) = 1
    BY <1>4, <1>9
  <2>5. ASSUME NEW r \in DOMAIN st.num
        PROVE  /\ st.num[r] \in Int /\ st.spec[r] \in 0..NumSpec
               /\ st.num[r] - st.spec[r] >= 1
               /\ st.num[r] - st.spec[r] > 1 <=> r \in st.prefill
    BY <1>4, <1>6, <1>7, <1>9
  <2> QED
    BY <2>1, <2>2, <2>3, <2>4, <2>5 DEF StepOK
<1>15. Line'
  <2>1. \A i \in 1..Len(steps) : StepOK(steps[i])
    BY DEF Line
  <2>2. \A i \in 1..Len(steps') : \E x : x = steps'[i] /\ StepOK(x)
    <3>1. CASE S = {}
      BY <1>1, <2>1, <3>1
    <3>2. CASE S # {}
      <4>1. \A i \in 1..Len(steps') : i \in 1..Len(steps) \/ i = Len(steps) + 1
        BY <1>11, <1>12, <3>2
      <4> QED
        BY <1>12, <1>14, <2>1, <3>2, <4>1
    <3> QED
      BY <3>1, <3>2
  <2>3. \A i \in 1..Len(steps') : StepOK(steps[i])'
    <3> TAKE i \in 1..Len(steps')
    <3>1. PICK x : x = steps'[i] /\ StepOK(x)
      BY <2>2
    <3> QED
      BY <1>3, <3>1 DEF StepOK
  <2>4. CASE S = {}
    BY <1>1, <1>2, <1>3, <1>11, <1>a, <2>3, <2>4 DEF Line, At
  <2>5. CASE S # {}
    <3>1. Len(steps') <= 2
      BY <1>11, <1>12, <2>5
    <3>2. At("idle")' /\ ~At("collect")'
      BY <1>2, <1>a, <2>5 DEF At
    <3> QED
      BY <1>12, <2>3, <2>5, <3>1, <3>2 DEF Line
  <2> QED
    BY <2>4, <2>5
<1>16. Queues'
  <2>1. Range(skipped') = Range(s.aside) \cup Range(skipped)
    BY <1>1, ReverseFacts, ConcatRange DEF Types, Locals
  <2>2. ASSUME NEW x \in Range(running), is_prefill(x)' PROVE is_prefill(x)
    <3>1. x \in Req
      BY InRange DEF Types
    <3>2. nComp[x] <= nComp'[x]
      BY <1>6, <1>7, <1>8, <3>1
    <3>3. nComp'[x] < nTok[x] - 1 /\ nComp'[x] \in Int
      BY <1>1, <1>13, <2>2, <3>1 DEF is_prefill, Types
    <3> QED
      BY <1>7, <3>1, <3>2, <3>3 DEF is_prefill
  <2> QED
    BY <1>1, <1>2, <2>1, <2>2 DEF Queues
<1>17. ASSUME NEW x \in Req PROVE Token(x)'
  <2>1. Token(x)
    BY <1>5
  <2>2. nComp'[x] < MaxModelLen
    BY <1>6, <1>8, <2>1 DEF Token
  <2>3. status[x] # "running" => nComp'[x] = nComp[x]
    BY <1>4, <1>8
  <2>4. status[x] = "running" /\ NumSpec = 0 => nComp'[x] <= nTok[x] + nOut'[x]
    <3> SUFFICES ASSUME status[x] = "running", NumSpec = 0 PROVE nComp'[x] <= nTok[x] + nOut'[x]
      OBVIOUS
    <3>1. nOut[x] <= nOut'[x] /\ nOut'[x] \in Int
      BY <1>7, <1>8
    <3>2. nComp'[x] <= nTok[x] + nOut[x] /\ nComp'[x] \in Int
      <4>1. CASE x \in S
        <5>1. /\ s.spec[x] \in 0..NumSpec /\ s.num[x] - s.spec[x] <= nTok[x] + nOut[x] - nComp[x]
              /\ nComp'[x] = nComp[x] + s.num[x]
          BY <1>6, <1>8, <4>1
        <5> QED
          BY <1>7, <5>1
      <4>2. CASE x \notin S
        BY <1>7, <1>8, <2>1, <4>2 DEF Token
      <4> QED
        BY <4>1, <4>2
    <3> QED
      BY <1>7, <3>1, <3>2
  <2> QED
    BY <1>1, <1>3, <2>1, <2>2, <2>3, <2>4 DEF Token
<1>18. ASSUME NEW x \in Req PROVE Picked(x)'
  BY <1>2 DEF Picked
<1>19. ASSUME NEW x \in Req PROVE Tabled(x)'
  <2>1. Table(x)' = Table(x) /\ Tabled(x)
    BY <1>1, <1>5, TableStays
  <2>2. status[x] # "running" => pending'[x] = <<>>
    <3>1. status[x] # "running" => x \notin Range(s.sched)
      BY <1>4, <1>a DEF Scheduled
    <3> QED
      BY <1>8, <2>1, <3>1 DEF Tabled
  <2>3. ASSUME x \in S PROVE runner'[x] = Table(x) /\ pending'[x] = <<>>
    <3>1. CASE x \in s.fresh
      <4>1. pending[x] = <<>> /\ s.delta[x] = Table(x) /\ x \notin Range(s.sched)
        BY <2>1, <3>1 DEF Tabled
      <4> QED
        BY <1>8, <3>1, <4>1 DEF Delivered
    <3>2. CASE x \notin s.fresh
      <4>1. x \in Range(s.sched) /\ status[x] = "running"
        BY <1>4, <1>a, <2>3, <3>2 DEF Scheduled
      <4>2. Table(x) = runner[x] \o pending[x] \o s.delta[x]
        BY <2>1, <3>2, <4>1 DEF Tabled
      <4> QED
        BY <1>8, <3>2, <4>1, <4>2 DEF Delivered
    <3> QED
      BY <3>1, <3>2
  <2>4. ASSUME x \notin S
        PROVE  /\ runner'[x] = runner[x] /\ pending'[x] = pending[x] /\ nComp'[x] = nComp[x]
               /\ x \notin Range(s.sched) /\ x \notin s.fresh
    BY <1>8, <1>a, <2>4 DEF Delivered, Scheduled
  <2>5. Table(x) \in Seq(BlockId) /\ Len(Table(x)) = nBlk[x]
    <3>1. epoch \in [Req -> Int] /\ 0 \in Nat /\ nBlk[x] \in Nat /\ 0 <= nBlk[x] /\ nBlk[x] - 0 = nBlk[x]
      BY <1>7 DEF Types
    <3> QED
      BY <3>1, BlocksFacts DEF Table
  <2>6. ASSUME status[x] = "running" PROVE Table(x) = runner'[x] \o pending'[x]
    <3>1. CASE x \in S
      <4>1. \A t \in Seq(BlockId) : t \o <<>> = t
        OBVIOUS
      <4> QED
        BY <2>3, <2>5, <3>1, <4>1
    <3>2. CASE x \notin S
      BY <2>1, <2>4, <2>6, <3>2 DEF Tabled
    <3> QED
      BY <3>1, <3>2
  <2>7. ASSUME status[x] = "running", steps' # <<>>, x \in DOMAIN Last(steps').num
        PROVE  Reach(nComp'[x], NumSpec) <= Len(runner'[x]) * BlockSize
    <3>1. CASE S = {}
      BY <1>1, <2>1, <2>4, <2>7, <3>1 DEF Tabled
    <3>2. CASE S # {}
      <4>1. Last(steps') = st
        BY <1>12, <3>2 DEF Last
      <4>2. x \in S
        BY <1>9, <2>7, <4>1
      <4>3. /\ nComp'[x] = nComp[x] + s.num[x]
            /\ Reach(nComp[x] + s.num[x], NumSpec) <= nBlk[x] * BlockSize
        BY <1>6, <1>8, <4>2
      <4>4. Len(runner'[x]) = nBlk[x]
        BY <2>3, <2>5, <4>2
      <4> QED
        BY <4>3, <4>4
    <3> QED
      BY <3>1, <3>2
  <2> QED
    BY <1>1, <1>2, <2>1, <2>2, <2>6, <2>7, ConfigStays DEF Tabled
<1>20. ASSUME NEW x \in Req PROVE Flight(x)'
  <2>0. Flight(x)
    BY <1>5
  <2>1. ASSUME S = {} PROVE nOut'[x] = nOut[x] /\ nComp'[x] = nComp[x] /\ steps' = steps /\ x \notin E
    BY <1>1, <1>8, <1>10, <2>1
  <2>2. \A i \in 1..Len(steps') :
           \/ i \in 1..Len(steps) /\ steps'[i] = steps[i]
           \/ S # {} /\ i = Len(steps) + 1 /\ steps'[i] = st
    <3> TAKE i \in 1..Len(steps')
    <3>1. CASE S = {}
      <4>1. steps' = steps
        BY <2>1, <3>1
      <4> QED
        BY <4>1
    <3>2. CASE S # {}
      <4>1. i \in 1..Len(steps) \/ i = Len(steps) + 1
        BY <1>11, <1>12, <3>2
      <4>2. CASE i \in 1..Len(steps)
        <5>1. steps'[i] = steps[i]
          BY <1>12, <3>2, <4>2
        <5> QED
          BY <4>2, <5>1
      <4>3. CASE i = Len(steps) + 1
        BY <1>12, <3>2, <4>3
      <4> QED
        BY <4>1, <4>2, <4>3
    <3> QED
      BY <3>1, <3>2
  <2>3. status[x] # "done" => nOut'[x] = IF Lag = 1 THEN Sent(x, 1)' + Sent(x, 2)' ELSE 0
    <3> SUFFICES ASSUME status[x] # "done"
                 PROVE  nOut'[x] = IF Lag = 1 THEN Sent(x, 1)' + Sent(x, 2)' ELSE 0
      OBVIOUS
    <3>1. nOut[x] = IF Lag = 1 THEN Sent(x, 1) + Sent(x, 2) ELSE 0
      BY <2>0 DEF Flight
    <3>2. Lag # 1 => nOut'[x] = nOut[x]
      BY <1>8
    <3>3. CASE S = {}
      <4>1. Sent(x, 1)' = Sent(x, 1) /\ Sent(x, 2)' = Sent(x, 2)
        BY <2>1, <3>3 DEF Sent
      <4> QED
        BY <2>1, <3>1, <3>3, <4>1
    <3>4. CASE S # {} /\ Lag = 1
      <4>1. nOut'[x] = nOut[x] + (IF x \in E THEN 1 ELSE 0)
        BY <1>7, <1>8, <3>4
      <4>2. Len(steps') = Len(steps) + 1 /\ steps'[Len(steps) + 1] = st /\ st.emit = E
        BY <1>9, <1>12, <3>4
      <4>3. CASE Len(steps) = 0
        <5>1. Len(steps') = 1 /\ steps'[1].emit = E
          BY <4>2, <4>3
        <5>2. Sent(x, 1) = 0 /\ Sent(x, 2) = 0
          BY <4>3 DEF Sent
        <5>3. Sent(x, 1)' = (IF x \in E THEN 1 ELSE 0) /\ Sent(x, 2)' = 0
          BY <5>1 DEF Sent
        <5> QED
          BY <3>1, <3>4, <4>1, <5>2, <5>3
      <4>4. CASE Len(steps) = 1
        <5>1. Len(steps') = 2 /\ steps'[2].emit = E /\ steps'[1] = steps[1]
          BY <1>12, <3>4, <4>2, <4>4
        <5>2. Sent(x, 2) = 0 /\ Sent(x, 1) \in {0, 1}
          BY <4>4 DEF Sent
        <5>3. Sent(x, 2)' = IF x \in E THEN 1 ELSE 0
          BY <5>1 DEF Sent
        <5>4. Sent(x, 1)' = Sent(x, 1)
          BY <4>4, <5>1 DEF Sent
        <5> QED
          BY <3>1, <3>4, <4>1, <5>2, <5>3, <5>4
      <4> QED
        BY <1>11, <4>3, <4>4
    <3> QED
      BY <3>1, <3>2, <3>3, <3>4
  <2>4. ASSUME status[x] \notin {"running", "done"}, NEW i \in 1..Len(steps'),
               x \in DOMAIN steps'[i].num
        PROVE  i = 1 /\ Unsettled'
    <3>1. x \notin S
      BY <1>4, <2>4
    <3>2. i \in 1..Len(steps) /\ x \in DOMAIN steps[i].num
      BY <1>9, <2>2, <2>4, <3>1
    <3>3. i = 1
      BY <2>0, <2>4, <3>2 DEF Flight
    <3>4. Len(steps) = 1
      BY <1>11, <3>2
    <3>5. CASE S = {}
      <4>0. steps # <<>>
        BY <3>4
      <4>1. At("collect")'
        BY <1>2, <1>a, <3>5, <4>0 DEF At
      <4> QED
        BY <3>3, <4>1 DEF Unsettled
    <3>6. CASE S # {}
      <4>1. At("idle")' /\ Len(steps') = 2
        BY <1>2, <1>a, <1>12, <3>4, <3>6 DEF At
      <4> QED
        BY <3>3, <4>1 DEF Unsettled
    <3> QED
      BY <3>5, <3>6
  <2>5. ASSUME status[x] = "running", NEW i \in 1..Len(steps'), x \in steps'[i].emit
        PROVE  /\ nComp'[x] - steps'[i].spec[x] >= nTok[x] + nOut'[x] - Lag
               /\ Lag = 0 => \A j \in 1..Len(steps') : x \in steps'[j].emit => j = i
    <3>1. Lag \in {0, 1}
      BY <1>c
    <3>2. /\ nTok[x] \in Int /\ nComp[x] \in Int /\ nOut[x] \in Int /\ s.num[x] \in Int /\ s.spec[x] \in Int
      BY <1>7
    <3>3. x \in S => s.num[x] >= 1
      BY <1>6
    <3>4. /\ nComp'[x] = IF x \in S THEN nComp[x] + s.num[x] ELSE nComp[x]
          /\ nOut'[x] = IF Lag = 1 /\ x \in E THEN nOut[x] + 1 ELSE nOut[x]
          /\ x \in E => x \in S
      BY <1>8, <1>10
    <3>5. ASSUME NEW k \in 1..Len(steps), x \in steps[k].emit
          PROVE  /\ steps[k].spec[x] \in 0..NumSpec
                 /\ nComp[x] - steps[k].spec[x] >= nTok[x] + nOut[x] - Lag
                 /\ Lag = 0 => \A j \in 1..Len(steps) : x \in steps[j].emit => j = k
      BY <2>0, <2>5, <3>5 DEF Flight, Line, StepOK
    <3>6. ASSUME Lag = 0, x \in E, NEW k \in 1..Len(steps), x \in steps[k].emit PROVE FALSE
      <4>1. /\ steps[k].spec[x] \in 0..NumSpec /\ NumSpec \in Nat
            /\ nComp[x] - steps[k].spec[x] >= nTok[x] + nOut[x] - 0
        BY <1>c, <3>5, <3>6
      <4>2. s.num[x] - s.spec[x] >= 1 /\ s.num[x] - s.spec[x] <= nTok[x] + nOut[x] - nComp[x]
        BY <1>6, <3>4, <3>6
      <4>3. PICK k1 : k1 = steps[k].spec[x]
        OBVIOUS
      <4>4. k1 \in Int /\ k1 >= 0 /\ nComp[x] - k1 >= nTok[x] + nOut[x]
        BY <3>2, <4>1, <4>3
      <4> QED
        BY <3>2, <4>2, <4>4, SMTT(40)
    <3>7. CASE i \in 1..Len(steps) /\ steps'[i] = steps[i]
      <4>1. x \in steps[i].emit
        BY <2>5, <3>7
      <4>2. /\ steps[i].spec[x] \in 0..NumSpec /\ NumSpec \in Nat
            /\ nComp[x] - steps[i].spec[x] >= nTok[x] + nOut[x] - Lag
        BY <1>c, <3>5, <3>7, <4>1
      <4>3. nComp'[x] - steps[i].spec[x] >= nTok[x] + nOut'[x] - Lag
        <5>1. PICK k : k = steps[i].spec[x]
          OBVIOUS
        <5>2. k \in Int /\ nComp[x] - k >= nTok[x] + nOut[x] - Lag
          BY <4>2, <5>1
        <5>3. nComp'[x] - k >= nTok[x] + nOut'[x] - Lag
          <6>1. CASE x \in S
            <7>1. nComp'[x] = nComp[x] + s.num[x] /\ s.num[x] >= 1
              BY <3>3, <3>4, <6>1
            <7>2. nOut'[x] = nOut[x] \/ nOut'[x] = nOut[x] + 1
              BY <3>4
            <7>3. Lag \in Int
              BY <3>1
            <7>4. /\ nTok[x] \in Int /\ nComp[x] \in Int /\ nOut[x] \in Int /\ s.num[x] \in Int
                  /\ k \in Int
              BY <3>2, <5>2
            <7>5. \A a, b, c, d, e, l, f \in Int :
                    e >= 1 /\ a - b >= c + d - l /\ (f = d \/ f = d + 1) => (a + e) - b >= c + f - l
              OBVIOUS
            <7>6. nOut'[x] \in Int
              BY <7>2, <7>4
            <7> QED
              BY <5>2, <7>1, <7>2, <7>3, <7>4, <7>5, <7>6
          <6>2. CASE x \notin S
            BY <3>4, <5>2, <6>2
          <6> QED
            BY <6>1, <6>2
        <5> QED
          BY <5>1, <5>3
      <4>4. ASSUME Lag = 0, NEW j \in 1..Len(steps'), x \in steps'[j].emit PROVE j = i
        <5>1. CASE j \in 1..Len(steps) /\ steps'[j] = steps[j]
          BY <3>5, <3>7, <4>1, <4>4, <5>1
        <5>2. CASE S # {} /\ j = Len(steps) + 1 /\ steps'[j] = st
          <6>1. x \in E
            BY <1>9, <4>4, <5>2
          <6> QED
            BY <3>6, <3>7, <4>1, <4>4, <6>1
        <5> QED
          BY <2>2, <5>1, <5>2
      <4> QED
        BY <3>7, <4>3, <4>4
    <3>8. CASE S # {} /\ i = Len(steps) + 1 /\ steps'[i] = st
      <4>1. x \in E /\ x \in S /\ steps'[i].spec[x] = s.spec[x]
        BY <1>9, <1>10, <2>5, <3>8
      <4>2. nComp[x] + s.num[x] - s.spec[x] >= nTok[x] + nOut[x]
        BY <1>10, <4>1
      <4>3. nComp'[x] - s.spec[x] >= nTok[x] + nOut'[x] - Lag
        BY <3>1, <3>2, <3>4, <4>1, <4>2
      <4>4. ASSUME Lag = 0, NEW j \in 1..Len(steps'), x \in steps'[j].emit PROVE j = i
        <5>1. CASE j \in 1..Len(steps) /\ steps'[j] = steps[j]
          BY <3>6, <4>1, <4>4, <5>1
        <5> QED
          BY <2>2, <3>8, <5>1
      <4> QED
        BY <4>1, <4>3, <4>4
    <3> QED
      BY <2>2, <3>7, <3>8
  <2> QED
    BY <1>1, <1>3, <2>3, <2>4, <2>5 DEF Flight
<1> QED
  BY <1>2, <1>13, <1>15, <1>16, <1>17, <1>18, <1>19, <1>20 DEF Requests

(* Requests leave; what stays of the queues and the pool.                    *)
LEMMA FinishedFacts ==
    ASSUME IInv, NEW R, Finished(R), Range(s'.aside) = {},
           \A x \in Range(running) \ R : is_prefill(x)' => is_prefill(x)
    PROVE  /\ status' \in [Req -> Statuses]
           /\ \A x \in Req : status'[x] = IF x \in R THEN "done" ELSE status[x]
           /\ running' \in Seq(Req) /\ waiting' \in Seq(Req) /\ skipped' \in Seq(Req)
           /\ nBlk' \in [Req -> Nat] /\ \A x \in Req : x \notin R => nBlk'[x] = nBlk[x]
           /\ pending' \in [Req -> Seq(BlockId)]
           /\ \A x \in Req : pending'[x] = IF x \in R THEN <<>> ELSE pending[x]
           /\ Queues'
<1> USE DEF IInv
<1>1. /\ status' = [r \in Req |-> IF r \in R THEN "done" ELSE status[r]]
      /\ running' = Without(running, R) /\ waiting' = Without(waiting, R)
      /\ skipped' = Without(skipped, R)
      /\ nBlk' = [r \in Req |-> IF r \in R \ loading THEN 0 ELSE nBlk[r]]
      /\ pending' = [r \in Req |-> IF r \in R THEN <<>> ELSE pending[r]]
  BY DEF Finished
<1>2. /\ running' \in Seq(Req) /\ Range(running') = Range(running) \ R /\ Distinct(running')
      /\ running # <<>> /\ Last(running) \notin R => running' # <<>> /\ Last(running') = Last(running)
  BY <1>1, WithoutFacts DEF Types, Queues
<1>3. /\ waiting' \in Seq(Req) /\ Range(waiting') = Range(waiting) \ R
      /\ skipped' \in Seq(Req) /\ Range(skipped') = Range(skipped) \ R
  BY <1>1, WithoutFacts DEF Types
<1>4. \A x \in Req : /\ status[x] \in Statuses /\ nBlk[x] \in Nat /\ pending[x] \in Seq(BlockId)
  BY DEF Types
<1>5. "done" \in Statuses
  BY DEF Statuses
<1>6. /\ status' \in [Req -> Statuses]
      /\ \A x \in Req : status'[x] = IF x \in R THEN "done" ELSE status[x]
  BY <1>1, <1>4, <1>5
<1>7. nBlk' \in [Req -> Nat] /\ \A x \in Req : x \notin R => nBlk'[x] = nBlk[x]
  BY <1>1, <1>4
<1>8. /\ pending' \in [Req -> Seq(BlockId)]
      /\ \A x \in Req : pending'[x] = IF x \in R THEN <<>> ELSE pending[x]
  <2>1. <<>> \in Seq(BlockId)
    OBVIOUS
  <2> QED
    BY <1>1, <1>4, <2>1
<1>9. Queues'
  <2>1. \A x \in Range(running') : status'[x] = "running"
    BY <1>2, <1>6, InRange DEF Queues, Types
  <2>2. \A x \in Range(waiting') \cup Range(skipped') :
           status'[x] \in {"waiting", "remote", "preempted"}
    BY <1>3, <1>6, InRange DEF Queues, Types
  <2>3. ASSUME NEW x \in Range(running'), is_prefill(x)' PROVE x = Last(running')
    <3>1. x \in Range(running) \ R /\ is_prefill(x)
      BY <1>2, <2>3
    <3>2. x = Last(running) /\ running # <<>>
      BY <3>1, EmptyRange DEF Queues
    <3> QED
      BY <1>2, <3>1, <3>2
  <2> QED
    BY <1>2, <2>1, <2>2, <2>3 DEF Queues
<1> QED
  BY <1>2, <1>3, <1>6, <1>7, <1>8, <1>9

(* A client gives up on a request.                                           *)
LEMMA AbortKeeps ==
    ASSUME IInv, NEW r \in Req, Abort(r), UNCHANGED config
    PROVE  IInv'
<1> USE DEF IInv
<1>1. /\ At("idle") /\ Finished({r})
      /\ UNCHANGED <<nTok, nComp, nOut, drafts, epoch, loading, steps, runner, s>>
  BY DEF Abort, tokVars
<1>2. s.sched = <<>> /\ s.fresh = {} /\ Range(s.aside) = {} /\ Range(s.sched) = {} /\ Scheduled = {}
  BY <1>1, EmptyRange DEF Loops, Between, Scheduled
<1>3. \A x : is_prefill(x)' <=> is_prefill(x)
  BY <1>1 DEF is_prefill
<1>4. /\ status' \in [Req -> Statuses]
      /\ \A x \in Req : status'[x] = IF x \in {r} THEN "done" ELSE status[x]
      /\ running' \in Seq(Req) /\ waiting' \in Seq(Req) /\ skipped' \in Seq(Req)
      /\ nBlk' \in [Req -> Nat] /\ \A x \in Req : x \notin {r} => nBlk'[x] = nBlk[x]
      /\ pending' \in [Req -> Seq(BlockId)]
      /\ \A x \in Req : pending'[x] = IF x \in {r} THEN <<>> ELSE pending[x]
      /\ Queues'
  BY <1>1, <1>2, <1>3, FinishedFacts
<1>5. NumSpec' = NumSpec /\ Depth' = Depth /\ Lag' = Lag /\ decode_batch_size' = decode_batch_size
  BY ConfigStays
<1>6. Types'
  BY <1>1, <1>4 DEF Types
<1>7. Locals' /\ Scheduled' = {} /\ (Unsettled' <=> Unsettled) /\ \A p : At(p)' <=> At(p)
  BY <1>1, <1>2 DEF Locals, Scheduled, Unsettled, At
<1>8. Line'
  BY <1>1, <1>5, <1>7 DEF Line, StepOK
<1>9. ASSUME NEW x \in Req PROVE Token(x)' /\ Flight(x)' /\ Picked(x)' /\ Tabled(x)'
  <2>1. Token(x) /\ Flight(x) /\ Tabled(x) /\ Picked(x)
    BY DEF Requests
  <2>2. \A i : Sent(x, i)' = Sent(x, i)
    BY <1>1 DEF Sent
  <2>3. Picked(x)'
    BY <1>1, <1>2, <1>7, <2>1 DEF Picked
  <2>4. CASE x = r
    <3>1. status'[r] = "done" /\ pending'[r] = <<>>
      BY <1>4
    <3>2. Token(r)'
      BY <1>1, <1>5, <2>1, <2>4, <3>1 DEF Token
    <3>3. Flight(r)'
      BY <3>1 DEF Flight
    <3>4. Tabled(r)'
      BY <1>1, <1>2, <3>1 DEF Tabled
    <3> QED
      BY <2>3, <2>4, <3>2, <3>3, <3>4
  <2>5. CASE x # r
    <3>1. status'[x] = status[x] /\ pending'[x] = pending[x] /\ nBlk'[x] = nBlk[x]
      BY <1>4, <2>5
    <3>2. Token(x)'
      BY <1>1, <1>5, <2>1, <3>1 DEF Token
    <3>3. Flight(x)'
      BY <1>1, <1>5, <1>7, <2>1, <2>2, <3>1 DEF Flight
    <3>4. Table(x)' = Table(x)
      BY <1>1, <3>1 DEF Table, Blocks
    <3>5. Tabled(x)'
      BY <1>1, <1>2, <2>1, <3>1, <3>4, ConfigStays DEF Tabled
    <3> QED
      BY <2>3, <3>2, <3>3, <3>5
  <2> QED
    BY <2>4, <2>5
<1>10. Loops'
  <2>1. s' = s /\ s.fresh = {} /\ Scheduled' = {}
    BY <1>1, <1>2, <1>7
  <2>2. At("idle")' /\ ~At("running")' /\ ~At("waiting")' /\ ~At("output")'
    BY <1>1 DEF At
  <2>3. s.sched = <<>> /\ s.aside = <<>>
    BY <1>1 DEF Loops, Between
  <2> QED
    BY <2>1, <2>2, <2>3, FS_EmptySet DEF Loops
<1> QED
  BY <1>4, <1>6, <1>7, <1>8, <1>9, <1>10 DEF Requests

(* A request arrives.                                                        *)
LEMMA AddRequestKeeps ==
    ASSUME IInv, NEW r \in Req, AddRequest(r), UNCHANGED config
    PROVE  IInv'
<1> USE DEF IInv
<1>1. /\ At("idle") /\ status[r] = "new"
      /\ status' = [status EXCEPT ![r] = "waiting"] /\ waiting' = Append(waiting, r)
      /\ UNCHANGED <<nTok, nComp, nOut, drafts, epoch, running, skipped, nBlk, loading, received,
                     pending, steps, runner, s>>
  BY DEF AddRequest, tokVars, kvVars
<1>2. s.sched = <<>> /\ s.fresh = {} /\ Range(s.aside) = {} /\ Range(s.sched) = {} /\ Scheduled = {}
  BY <1>1, EmptyRange DEF Loops, Between, Scheduled
<1>3. \A x : (is_prefill(x)' <=> is_prefill(x)) /\ Table(x)' = Table(x)
  BY <1>1 DEF is_prefill, Table, Blocks
<1>4. status \in [Req -> Statuses] /\ waiting \in Seq(Req)
  BY DEF Types
<1>5. "waiting" \in Statuses
  BY DEF Statuses
<1>6. status' \in [Req -> Statuses] /\ status'[r] = "waiting"
      /\ \A x \in Req : x # r => status'[x] = status[x]
  BY <1>1, <1>4, <1>5
<1>7. waiting' \in Seq(Req) /\ Range(waiting') = Range(waiting) \cup {r}
  BY <1>1, <1>4, PushBack
<1>8. NumSpec' = NumSpec /\ Depth' = Depth /\ Lag' = Lag /\ decode_batch_size' = decode_batch_size
  BY ConfigStays
<1>9. Types'
  BY <1>1, <1>6, <1>7 DEF Types
<1>10. Locals' /\ Scheduled' = Scheduled /\ (Unsettled' <=> Unsettled) /\ \A p : At(p)' <=> At(p)
  BY <1>1 DEF Locals, Scheduled, Unsettled, At
<1>11. Line'
  BY <1>1, <1>8, <1>10 DEF Line, StepOK
<1>12. Queues'
  <2>1. \A x \in Range(running) : x \in Req /\ x # r /\ status'[x] = "running"
    BY <1>1, <1>6, InRange DEF Queues, Types
  <2>2. \A x \in Range(waiting') \cup Range(skipped) :
           status'[x] \in {"waiting", "remote", "preempted"}
    <3> TAKE x \in Range(waiting') \cup Range(skipped)
    <3>1. CASE x = r
      BY <1>6, <3>1
    <3>2. CASE x # r
      <4>1. x \in Range(waiting) \cup Range(skipped)
        BY <1>7, <3>2
      <4>2. x \in Req
        BY <4>1, InRange DEF Types
      <4> QED
        BY <1>6, <3>2, <4>1, <4>2 DEF Queues
    <3> QED
      BY <3>1, <3>2
  <2> QED
    BY <1>1, <1>2, <1>3, <2>1, <2>2 DEF Queues
<1>13. ASSUME NEW x \in Req PROVE Token(x)' /\ Flight(x)' /\ Picked(x)' /\ Tabled(x)'
  <2>1. Token(x) /\ Flight(x) /\ Tabled(x) /\ Picked(x)
    BY DEF Requests
  <2>2. \A i : Sent(x, i)' = Sent(x, i)
    BY <1>1 DEF Sent
  <2>3. Picked(x)'
    BY <1>1, <1>2, <1>10, <2>1 DEF Picked
  <2>4. \/ status'[x] = status[x]
        \/ status[x] = "new" /\ status'[x] = "waiting"
    BY <1>1, <1>6
  <2>5. Token(x)'
    BY <1>1, <1>8, <2>1, <2>4 DEF Token
  <2>6. Flight(x)'
    BY <1>1, <1>8, <1>10, <2>1, <2>2, <2>4 DEF Flight
  <2>7. Tabled(x)'
    BY <1>1, <1>3, <2>1, <2>4, ConfigStays DEF Tabled
  <2> QED
    BY <2>3, <2>5, <2>6, <2>7
<1>14. Loops'
  <2>1. At("idle")' /\ ~At("running")' /\ ~At("waiting")' /\ ~At("output")'
    BY <1>1 DEF At
  <2>2. s.sched = <<>> /\ s.aside = <<>>
    BY <1>1 DEF Loops, Between
  <2> QED
    BY <1>1, <1>2, <1>10, <2>1, <2>2, FS_EmptySet DEF Loops
<1> QED
  BY <1>9, <1>10, <1>11, <1>12, <1>13, <1>14 DEF Requests

(* A transfer ends.                                                          *)
LEMMA FinishRecvingKeeps ==
    ASSUME IInv, NEW r \in Req, FinishRecving(r), UNCHANGED config
    PROVE  IInv'
<1> USE DEF IInv
<1>1. /\ At("idle")
      /\ \/ status[r] = "done" /\ nBlk' = [nBlk EXCEPT ![r] = 0]
         \/ nBlk' = nBlk
      /\ UNCHANGED <<status, nTok, nComp, nOut, drafts, epoch, running, waiting, skipped,
                     pending, steps, runner, s>>
  BY DEF FinishRecving, tokVars, queueVars
<1>2. s.sched = <<>> /\ s.fresh = {} /\ Range(s.sched) = {} /\ Scheduled = {}
  BY <1>1, EmptyRange DEF Loops, Between, Scheduled
<1>3. nBlk \in [Req -> Nat]
  BY DEF Types
<1>4. nBlk' \in [Req -> Nat] /\ \A x \in Req : status[x] # "done" => nBlk'[x] = nBlk[x]
  BY <1>1, <1>3
<1>5. \A x : (is_prefill(x)' <=> is_prefill(x)) /\ (Token(x)' <=> Token(x))
  BY <1>1, Untouched
<1>6. NumSpec' = NumSpec /\ Depth' = Depth /\ Lag' = Lag /\ decode_batch_size' = decode_batch_size
  BY ConfigStays
<1>7. Types'
  BY <1>1, <1>4 DEF Types
<1>8. Locals' /\ Scheduled' = Scheduled /\ (Unsettled' <=> Unsettled) /\ \A p : At(p)' <=> At(p)
  BY <1>1 DEF Locals, Scheduled, Unsettled, At
<1>9. Line' /\ Queues'
  BY <1>1, <1>5, <1>6, <1>8 DEF Line, StepOK, Queues
<1>10. ASSUME NEW x \in Req PROVE Token(x)' /\ Flight(x)' /\ Picked(x)' /\ Tabled(x)'
  <2>1. Token(x) /\ Flight(x) /\ Tabled(x) /\ Picked(x)
    BY DEF Requests
  <2>2. \A i : Sent(x, i)' = Sent(x, i)
    BY <1>1 DEF Sent
  <2>3. Flight(x)'
    BY <1>1, <1>6, <1>8, <2>1, <2>2 DEF Flight
  <2>4. Picked(x)'
    BY <1>1, <1>2, <1>8, <2>1 DEF Picked
  <2>5. status[x] # "done" => Table(x)' = Table(x)
    BY <1>1, <1>4 DEF Table, Blocks
  <2>6. Tabled(x)'
    BY <1>1, <1>2, <2>1, <2>5, ConfigStays DEF Tabled
  <2> QED
    BY <1>5, <2>1, <2>3, <2>4, <2>6
<1>11. Loops'
  <2>1. At("idle")' /\ ~At("running")' /\ ~At("waiting")' /\ ~At("output")'
    BY <1>1 DEF At
  <2>2. s.sched = <<>> /\ s.aside = <<>>
    BY <1>1 DEF Loops, Between
  <2> QED
    BY <1>1, <1>2, <1>8, <2>1, <2>2, FS_EmptySet DEF Loops
<1> QED
  BY <1>7, <1>8, <1>9, <1>10, <1>11 DEF Requests

(* The output of a step for a running request: the drafts that were accepted *)
(* leave the last token, at most, to compute.                                *)
LEMMA SampledDecodes ==
    ASSUME IInv, steps # <<>>, NEW x \in Req, x \in steps[1].emit, status[x] = "running",
           NEW a \in Int, 0 <= a
    PROVE  /\ nComp[x] > 0
           /\ nComp[x] - (steps[1].spec[x] - a) >= nTok[x] + a
<1> USE DEF IInv
<1>1. 1 \in 1..Len(steps)
  BY DEF Line
<1>2. Flight(x) /\ Token(x)
  BY DEF Requests
<1>3. nTok[x] \in Int /\ nComp[x] \in Int /\ nOut[x] \in Int /\ Lag \in {0, 1}
  BY ConfigFacts DEF Types
<1>4. PICK k : k = steps[1].spec[x]
  OBVIOUS
<1>5. k \in 0..NumSpec /\ NumSpec \in Nat
  BY <1>1, <1>4, ConfigFacts DEF Line, StepOK
<1>6. nComp[x] - k >= nTok[x] + nOut[x] - Lag
  BY <1>1, <1>2, <1>4 DEF Flight
<1>7. nOut[x] >= Lag
  <2>1. nOut[x] = IF Lag = 1 THEN Sent(x, 1) + Sent(x, 2) ELSE 0
    BY <1>2 DEF Flight
  <2>2. Sent(x, 1) = 1 /\ Sent(x, 2) \in {0, 1}
    <3>1. 1 <= Len(steps)
      BY <1>1
    <3> QED
      BY <3>1 DEF Sent
  <2> QED
    BY <1>3, <2>1, <2>2
<1>8. nTok[x] >= 1
  BY <1>2, <1>3, RequestFacts DEF Token
<1>9. k \in Int /\ k >= 0
  BY <1>5
<1>10. \A c, t, o, l \in Int : c - k >= t + o - l /\ o >= l /\ t >= 1 => c > 0 /\ c - (k - a) >= t + a
  BY <1>9
<1>11. Lag \in Int
  BY <1>3
<1>12. nComp[x] > 0 /\ nComp[x] - (k - a) >= nTok[x] + a
  BY <1>3, <1>6, <1>7, <1>8, <1>10, <1>11
<1> QED
  BY <1>4, <1>12

(* The output of the oldest step arrives.                                    *)
LEMMA UpdateFromOutputKeeps ==
    ASSUME IInv, UpdateFromOutput, UNCHANGED config
    PROVE  IInv'
<1> USE DEF IInv
<1> DEFINE step == Head(steps)
           out == {r \in step.emit : status[r] # "done"}
           newest == {r \in Last(steps).emit : status[r] = "running"}
<1>b. PICK acc \in [out -> 0..NumSpec] :
        LET nt == [r \in Req |-> IF r \in out THEN nTok[r] + 1 + acc[r] ELSE nTok[r]]
            rejected(r) == IF r \in out /\ nComp[r] > 0 THEN step.spec[r] - acc[r] ELSE 0
            full == {r \in out : nt[r] >= MaxLen[r]}
        IN  /\ \A r \in out : acc[r] <= step.spec[r] /\ nt[r] <= MaxLen[r]
            /\ nTok' = nt
            /\ nComp' = [r \in Req |-> nComp[r] - rejected(r)]
            /\ nOut' = [r \in Req |-> IF Async /\ r \in out THEN nOut[r] - 1 ELSE nOut[r]]
            /\ \E stop \in SUBSET out : Finished(full \cup stop)
            /\ \E d \in [newest -> 0..NumSpec] :
                 drafts' = [r \in Req |-> IF r \in newest /\ status'[r] = "running"
                                          THEN d[r] ELSE drafts[r]]
  BY Zenon DEF UpdateFromOutput
<1>a. step = Head(steps) /\ out = {r \in step.emit : status[r] # "done"}
  OBVIOUS
<1> HIDE DEF step, out, newest
<1>c. PICK full, stop : /\ full = {r \in out : nTok'[r] >= MaxLen[r]}
                        /\ Finished(full \cup stop)
  BY <1>b
<1>d. PICK d \in [newest -> 0..NumSpec] :
        drafts' = [r \in Req |-> IF r \in newest /\ status'[r] = "running" THEN d[r] ELSE drafts[r]]
  BY <1>b
<1>R. PICK R : R = full \cup stop
  OBVIOUS
<1>1. /\ Between /\ steps # <<>> /\ steps' = Tail(steps) /\ s' = NoStep
      /\ UNCHANGED <<epoch, loading, runner>>
  BY DEF UpdateFromOutput
<1>2. /\ \A r \in out : acc[r] <= step.spec[r] /\ nTok'[r] <= MaxLen[r]
      /\ nTok' = [r \in Req |-> IF r \in out THEN nTok[r] + 1 + acc[r] ELSE nTok[r]]
      /\ nComp' = [r \in Req |-> nComp[r] -
                                 (IF r \in out /\ nComp[r] > 0 THEN step.spec[r] - acc[r] ELSE 0)]
      /\ nOut' = [r \in Req |-> IF Async /\ r \in out THEN nOut[r] - 1 ELSE nOut[r]]
  BY <1>b
<1>3. /\ Locals' /\ Scheduled' = {} /\ Range(s'.sched) = {} /\ Range(s'.aside) = {}
      /\ s'.at = "idle" /\ s'.sched = <<>> /\ s'.fresh = {} /\ s'.aside = <<>>
      /\ s'.preempted = FALSE /\ \A x \in Req : s'.spec[x] = 0
      /\ Loops'
  <2>1. PICK place : place = "idle"
    OBVIOUS
  <2> QED
    BY <1>1, <2>1, CallEnds
<1>4. NumSpec' = NumSpec /\ Depth' = Depth /\ Lag' = Lag /\ decode_batch_size' = decode_batch_size
  BY ConfigStays
<1>5. NumSpec \in Nat /\ Lag \in {0, 1} /\ (Async <=> Lag = 1) /\ (Lag = 1 => NumSpec = 0)
  BY ConfigFacts
<1>6. /\ steps \in Seq(StepRec) /\ Len(steps) \in {1, 2} /\ 1 \in 1..Len(steps) /\ step = steps[1]
      /\ steps' \in Seq(StepRec) /\ Len(steps') = Len(steps) - 1
      /\ \A i \in 1..Len(steps') : steps'[i] = steps[i + 1] /\ i + 1 \in 1..Len(steps) /\ i = 1
  <2>1. steps \in Seq(StepRec) /\ Len(steps) <= 2
    BY DEF Line
  <2>2. /\ steps' \in Seq(StepRec) /\ Len(steps') = Len(steps) - 1 /\ Len(steps) \in Nat \ {0}
        /\ \A i \in 1..(Len(steps) - 1) : steps'[i] = steps[i + 1]
    BY <1>1, <2>1, HeadTailFacts
  <2>3. Len(steps) \in {1, 2} /\ 1 \in 1..Len(steps)
    BY <2>1, <2>2
  <2>4. step = steps[1]
    BY <1>1, <1>a, <2>1
  <2>5. \A i \in 1..Len(steps') : i + 1 \in 1..Len(steps) /\ i = 1
    <3>1. CASE Len(steps) = 1
      BY <2>2, <3>1
    <3>2. CASE Len(steps) = 2
      BY <2>2, <3>2
    <3> QED
      BY <2>3, <3>1, <3>2
  <2> QED
    BY <2>1, <2>2, <2>3, <2>4, <2>5
<1>7. StepOK(step)
  BY <1>6 DEF Line
<1>8. /\ out \subseteq Req
      /\ \A r \in out : /\ acc[r] \in Nat /\ step.spec[r] \in Nat /\ acc[r] <= step.spec[r]
                        /\ acc[r] <= NumSpec /\ step.spec[r] <= NumSpec /\ r \in step.emit
                        /\ status[r] # "done"
  <2>1. out \subseteq step.emit /\ \A r \in out : status[r] # "done"
    BY <1>a
  <2>2. step.emit \subseteq Req /\ \A r \in step.emit : step.spec[r] \in 0..NumSpec
    BY <1>7 DEF StepOK
  <2>3. \A r \in out : acc[r] \in 0..NumSpec /\ acc[r] <= step.spec[r]
    BY <1>2
  <2> QED
    BY <1>5, <2>1, <2>2, <2>3
<1>9. \A x \in Req : /\ nTok[x] \in Int /\ nComp[x] \in Int /\ nOut[x] \in Int /\ drafts[x] \in Int
                     /\ Token(x) /\ Flight(x) /\ Tabled(x)
  BY DEF Types, Requests
<1>10. \A x \in Req : x \notin out => nTok'[x] = nTok[x] /\ nComp'[x] = nComp[x] /\ nOut'[x] = nOut[x]
  BY <1>2, <1>9
<1>11. ASSUME NEW x \in out
       PROVE  /\ x \in Req /\ nTok'[x] = nTok[x] + 1 + acc[x]
              /\ nComp'[x] = IF nComp[x] > 0 THEN nComp[x] - (step.spec[x] - acc[x]) ELSE nComp[x]
              /\ nOut'[x] = IF Lag = 1 THEN nOut[x] - 1 ELSE nOut[x]
  <2>1. x \in Req
    BY <1>8
  <2> QED
    BY <1>2, <1>5, <1>9, <2>1
<1>12. \A x \in Req : /\ nTok'[x] \in Int /\ nComp'[x] \in Int /\ nOut'[x] \in Int
                      /\ nTok[x] <= nTok'[x] /\ nComp'[x] <= nComp[x]
  <2> TAKE x \in Req
  <2>1. CASE x \in out
    <3>1. acc[x] \in Nat /\ step.spec[x] \in Nat /\ acc[x] <= step.spec[x]
      BY <1>8, <2>1
    <3> QED
      BY <1>9, <1>11, <2>1, <3>1
  <2>2. CASE x \notin out
    BY <1>9, <1>10, <2>2
  <2> QED
    BY <2>1, <2>2
<1>13. ASSUME NEW x \in Range(running) \ R, is_prefill(x)' PROVE is_prefill(x)
  <2>1. x \in Req /\ status[x] = "running"
    BY InRange DEF Types, Queues
  <2>2. nComp'[x] < nTok'[x] - 1
    BY <1>13 DEF is_prefill
  <2>3. x \notin out
    <3> SUFFICES ASSUME x \in out PROVE FALSE
      OBVIOUS
    <3>1. acc[x] \in Int /\ 0 <= acc[x] /\ x \in steps[1].emit
      BY <1>6, <1>8
    <3>2. nComp[x] > 0 /\ nComp[x] - (steps[1].spec[x] - acc[x]) >= nTok[x] + acc[x]
      BY <1>1, <2>1, <3>1, SampledDecodes
    <3>3. nComp'[x] >= nTok[x] + acc[x]
      BY <1>6, <1>11, <3>2
    <3> QED
      BY <1>9, <1>11, <1>12, <2>1, <2>2, <3>1, <3>3
  <2> QED
    BY <1>10, <2>1, <2>2, <2>3 DEF is_prefill
<1>14. /\ status' \in [Req -> Statuses]
       /\ \A x \in Req : status'[x] = IF x \in R THEN "done" ELSE status[x]
       /\ running' \in Seq(Req) /\ waiting' \in Seq(Req) /\ skipped' \in Seq(Req)
       /\ nBlk' \in [Req -> Nat] /\ \A x \in Req : x \notin R => nBlk'[x] = nBlk[x]
       /\ pending' \in [Req -> Seq(BlockId)]
       /\ \A x \in Req : pending'[x] = IF x \in R THEN <<>> ELSE pending[x]
       /\ Queues'
  BY <1>c, <1>R, <1>3, <1>13, FinishedFacts
<1>15. /\ drafts' \in [Req -> Int] /\ \A x \in Req : drafts'[x] \in 0..NumSpec
  <2>1. \A x \in Req : drafts[x] \in 0..NumSpec
    BY <1>9 DEF Token
  <2>2. \A x \in Req : drafts'[x] \in 0..NumSpec
    BY <1>d, <2>1
  <2>3. \A k \in 0..NumSpec : k \in Int
    BY <1>5
  <2> QED
    BY <1>d, <2>2, <2>3
<1>16. Types'
  <2>1. nComp' \in [Req -> Int]
    BY <1>2, <1>12
  <2>2. nOut' \in [Req -> Int]
    BY <1>2, <1>12
  <2> QED
    BY <1>1, <1>12, <1>14, <1>15, <2>1, <2>2 DEF Types
<1>17. Line'
  <2>1. \A i \in 1..Len(steps') : StepOK(steps[i])'
    <3> TAKE i \in 1..Len(steps')
    <3>1. PICK x : x = steps'[i]
      OBVIOUS
    <3>2. StepOK(x)
      BY <1>6, <3>1 DEF Line
    <3> QED
      BY <1>4, <3>1, <3>2 DEF StepOK
  <2>2. Len(steps') <= 2
    BY <1>6
  <2> QED
    BY <1>3, <1>6, <2>1, <2>2 DEF Line, At
<1>18. ASSUME NEW x \in Req PROVE Token(x)'
  <2>0. Token(x)
    BY <1>9
  <2>1. PromptLen[x] <= nTok'[x]
    BY <1>9, <1>12, <2>0, RequestFacts DEF Token
  <2>2. nComp'[x] < MaxModelLen
    BY <1>9, <1>12, <2>0, RequestFacts DEF Token
  <2>3. ASSUME status'[x] # "done" PROVE nTok'[x] < MaxLen[x] /\ status'[x] = status[x]
    <3>1. x \notin R /\ status'[x] = status[x]
      BY <1>14, <2>3
    <3>2. CASE x \in out
      <4>1. ~(nTok'[x] >= MaxLen[x])
        BY <1>c, <1>R, <3>1, <3>2
      <4> QED
        BY <1>12, <3>1, <4>1, RequestFacts
    <3>3. CASE x \notin out
      BY <1>10, <2>0, <2>3, <3>1, <3>3 DEF Token
    <3> QED
      BY <3>1, <3>2, <3>3
  <2>4. status'[x] \in {"new", "waiting", "preempted"} => nComp'[x] < nTok'[x]
    BY <1>9, <1>12, <2>0, <2>3 DEF Token
  <2>5. status'[x] = "remote" => nComp'[x] <= nTok'[x]
    BY <1>9, <1>12, <2>0, <2>3 DEF Token
  <2>6. ASSUME status'[x] = "running", NumSpec = 0 PROVE nComp'[x] <= nTok'[x] + nOut'[x]
    <3>1. nComp[x] <= nTok[x] + nOut[x]
      BY <2>0, <2>3, <2>6 DEF Token
    <3>2. CASE x \in out
      <4>1. acc[x] \in Nat /\ nTok'[x] = nTok[x] + 1 + acc[x] /\ (nOut'[x] = nOut[x] \/ nOut'[x] = nOut[x] - 1)
        BY <1>8, <1>11, <3>2
      <4> QED
        BY <1>9, <1>12, <3>1, <4>1
    <3>3. CASE x \notin out
      BY <1>10, <3>1, <3>3
    <3> QED
      BY <3>2, <3>3
  <2> QED
    BY <1>4, <1>15, <2>1, <2>2, <2>3, <2>4, <2>5, <2>6 DEF Token
<1>19. ASSUME NEW x \in Req PROVE Picked(x)'
  BY <1>3 DEF Picked
<1>20. ASSUME NEW x \in Req PROVE Tabled(x)'
  <2>0. Tabled(x) /\ s.fresh = {} /\ Range(s.sched) = {}
    BY <1>1, <1>9, EmptyRange DEF Loops
  <2>1. status'[x] # "running" => pending'[x] = <<>>
    BY <1>14, <2>0 DEF Tabled
  <2>2. ASSUME status'[x] = "running"
        PROVE  /\ Table(x)' = runner[x] \o pending'[x]
               /\ steps' # <<>> /\ x \in DOMAIN Last(steps').num =>
                     Reach(nComp'[x], NumSpec) <= Len(runner[x]) * BlockSize
    <3>1. x \notin R /\ status[x] = "running" /\ pending'[x] = pending[x] /\ nBlk'[x] = nBlk[x]
      BY <1>14, <2>2
    <3>2. Table(x)' = Table(x)
      BY <1>1, <3>1 DEF Table, Blocks
    <3>3. Table(x) = runner[x] \o pending[x]
      BY <2>0, <3>1 DEF Tabled
    <3>4. ASSUME steps' # <<>>, x \in DOMAIN Last(steps').num
          PROVE  Reach(nComp'[x], NumSpec) <= Len(runner[x]) * BlockSize
      <4>1. Len(steps') \in 1..Len(steps')
        BY <1>6, <3>4
      <4>2. Last(steps') = Last(steps)
        <5>1. Last(steps') = steps'[Len(steps')] /\ Last(steps) = steps[Len(steps)]
          BY DEF Last
        <5>2. steps'[Len(steps')] = steps[Len(steps') + 1] /\ Len(steps') + 1 = Len(steps)
          BY <1>6, <4>1
        <5> QED
          BY <5>1, <5>2
      <4>3. Reach(nComp[x], NumSpec) <= Len(runner[x]) * BlockSize
        BY <1>1, <2>0, <3>1, <3>4, <4>2 DEF Tabled
      <4>4. PICK k : k = Len(runner[x]) * BlockSize
        OBVIOUS
      <4>5. k \in Int
        <5>1. Len(runner[x]) \in Nat /\ BlockSize \in Nat
          BY RequestFacts DEF Types
        <5> QED
          BY <4>4, <5>1
      <4>6. nComp'[x] \in Int /\ nComp[x] \in Int /\ nComp'[x] <= nComp[x]
        BY <1>9, <1>12
      <4>7. Reach(nComp'[x], NumSpec) <= Reach(nComp[x], NumSpec)
            /\ Reach(nComp'[x], NumSpec) \in Int /\ Reach(nComp[x], NumSpec) \in Int
        BY <4>6, ConfigFacts, RequestFacts, ReachFacts
      <4> QED
        BY <4>3, <4>4, <4>5, <4>7
    <3> QED
      BY <3>1, <3>2, <3>3, <3>4
  <2> QED
    BY <1>1, <1>3, <2>1, <2>2, ConfigStays DEF Tabled
<1>21. ASSUME NEW x \in Req PROVE Flight(x)'
  <2>0. Flight(x)
    BY <1>9
  <2>1. status'[x] # "done" => status'[x] = status[x] /\ status[x] # "done"
    BY <1>14
  <2>2. ASSUME status'[x] # "done"
        PROVE  nOut'[x] = IF Lag = 1 THEN Sent(x, 1)' + Sent(x, 2)' ELSE 0
    <3>1. nOut[x] = IF Lag = 1 THEN Sent(x, 1) + Sent(x, 2) ELSE 0
      BY <2>0, <2>1, <2>2 DEF Flight
    <3>2. x \in out <=> Sent(x, 1) = 1
      <4>1. x \in out <=> x \in steps[1].emit
        BY <1>6, <1>a, <2>1, <2>2
      <4>2. 1 <= Len(steps)
        BY <1>6
      <4> QED
        BY <4>1, <4>2 DEF Sent
    <3>3. Sent(x, 1) \in {0, 1} /\ Sent(x, 2) \in {0, 1}
      BY DEF Sent
    <3>4. Sent(x, 2)' = 0
      BY <1>6 DEF Sent
    <3>5. Sent(x, 1)' = Sent(x, 2)
      <4>1. CASE Len(steps) = 1
        BY <1>6, <4>1 DEF Sent
      <4>2. CASE Len(steps) = 2
        <5>1. Len(steps') = 1 /\ 1 \in 1..Len(steps') /\ steps'[1] = steps[2]
          BY <1>6, <4>2
        <5> QED
          BY <4>2, <5>1 DEF Sent
      <4> QED
        BY <1>6, <4>1, <4>2
    <3>6. nOut'[x] = IF Lag = 1 /\ Sent(x, 1) = 1 THEN nOut[x] - 1 ELSE nOut[x]
      BY <1>10, <1>11, <3>2
    <3> QED
      BY <3>1, <3>3, <3>4, <3>5, <3>6
  <2>3. ASSUME status'[x] \notin {"running", "done"}, NEW i \in 1..Len(steps'),
               x \in DOMAIN steps'[i].num
        PROVE  FALSE
    <3>1. i + 1 \in 1..Len(steps) /\ x \in DOMAIN steps[i + 1].num /\ i = 1
      BY <1>6, <2>3
    <3>2. i + 1 = 1
      BY <2>0, <2>1, <2>3, <3>1 DEF Flight
    <3> QED
      BY <3>1, <3>2
  <2>4. ASSUME status'[x] = "running", NEW i \in 1..Len(steps'), x \in steps'[i].emit
        PROVE  nComp'[x] - steps'[i].spec[x] >= nTok'[x] + nOut'[x] - Lag
    <3>1. i + 1 \in 1..Len(steps) /\ steps'[i] = steps[i + 1] /\ i = 1
      BY <1>6
    <3>2. PICK k : k = steps[i + 1].spec[x]
      OBVIOUS
    <3>3. nComp[x] - k >= nTok[x] + nOut[x] - Lag
      BY <2>0, <2>1, <2>4, <3>1, <3>2 DEF Flight
    <3>4. CASE x \notin out
      BY <1>10, <3>1, <3>2, <3>3, <3>4
    <3>5. CASE x \in out
      <4>1. Lag = 1
        <5> SUFFICES ASSUME Lag = 0 PROVE FALSE
          BY <1>5
        <5>1. x \in steps[1].emit
          BY <1>6, <1>8, <3>5
        <5>2. i + 1 = 1
          BY <1>6, <2>0, <2>1, <2>4, <3>1, <5>1 DEF Flight
        <5> QED
          BY <3>1, <5>2
      <4>2. NumSpec = 0
        BY <1>5, <4>1
      <4>3. acc[x] = 0 /\ step.spec[x] = 0
        <5>1. acc[x] \in Nat /\ step.spec[x] \in Nat /\ acc[x] <= NumSpec /\ step.spec[x] <= NumSpec
          BY <1>8, <3>5
        <5> QED
          BY ONLY <4>2, <5>1
      <4>4. nTok'[x] = nTok[x] + 1 /\ nOut'[x] = nOut[x] - 1 /\ nComp'[x] = nComp[x]
        BY <1>9, <1>11, <3>5, <4>1, <4>3
      <4>5. nTok'[x] + nOut'[x] - Lag = nTok[x] + nOut[x] - Lag
        <5>1. PICK t, o : t = nTok[x] /\ o = nOut[x]
          OBVIOUS
        <5>2. t \in Int /\ o \in Int
          BY <1>9, <5>1
        <5>3. (t + 1) + (o - 1) - 1 = t + o - 1
          BY <5>2
        <5> QED
          BY <4>1, <4>4, <5>1, <5>3, Zenon
      <4>6. nComp'[x] - k >= nTok'[x] + nOut'[x] - Lag
        BY <3>3, <4>4, <4>5
      <4>7. steps'[i].spec[x] = k
        BY <3>1, <3>2
      <4> QED
        BY <4>6, <4>7
    <3> QED
      BY <3>4, <3>5
  <2>5. \A i, j \in 1..Len(steps') : i = j
    BY <1>6
  <2> QED
    BY <1>4, <2>2, <2>3, <2>4, <2>5 DEF Flight
<1> QED
  BY <1>3, <1>14, <1>16, <1>17, <1>18, <1>19, <1>20, <1>21 DEF Requests

-----------------------------------------------------------------------------
(* The theorems.                                                             *)

(* Before the first request everything is empty.                             *)
LEMMA InitIInv ==
    ASSUME Init
    PROVE  IInv
<1>1. /\ config \in Configs /\ status = [r \in Req |-> "new"] /\ nTok = PromptLen
      /\ nComp = [r \in Req |-> 0] /\ nOut = [r \in Req |-> 0] /\ drafts = [r \in Req |-> 0]
      /\ epoch = [r \in Req |-> 0] /\ nBlk = [r \in Req |-> 0]
      /\ running = <<>> /\ waiting = <<>> /\ skipped = <<>>
      /\ pending = [r \in Req |-> <<>>] /\ steps = <<>> /\ runner = [r \in Req |-> <<>>]
      /\ s = NoStep
  BY DEF Init
<1>2. /\ DOMAIN s = {"at", "idx", "sched", "fresh", "num", "spec", "delta", "count", "soft",
                     "tokens", "retry", "preempted", "broke", "aside"}
      /\ s.at = "idle" /\ s.idx = 0 /\ s.sched = <<>> /\ s.fresh = {}
      /\ s.num = [r \in Req |-> 0] /\ s.spec = [r \in Req |-> 0] /\ s.delta = [r \in Req |-> <<>>]
      /\ s.count = 0 /\ s.tokens = 0 /\ s.aside = <<>>
      /\ s.preempted = FALSE /\ s.broke = FALSE
  BY <1>1 DEF NoStep
<1>3. \A S : <<>> \in Seq(S)
  OBVIOUS
<1>4. [r \in Req |-> 0] \in [Req -> Int] /\ [r \in Req |-> <<>>] \in [Req -> Seq(BlockId)]
  BY <1>3
<1>5. [r \in Req |-> 0] \in [Req -> Nat]
  OBVIOUS
<1>6. [r \in Req |-> "new"] \in [Req -> Statuses]
  BY DEF Statuses
<1>7. \A r \in Req : nTok[r] \in Int
  BY <1>1, RequestFacts
<1>8. Types
  BY <1>1, <1>3, <1>4, <1>5, <1>6, <1>7 DEF Types
<1>9. s.preempted \in BOOLEAN /\ s.broke \in BOOLEAN
  BY <1>2
<1>10. Locals
  BY <1>2, <1>3, <1>4, <1>9 DEF Locals
<1>11. Range(s.sched) = {} /\ Range(s.aside) = {} /\ Scheduled = {} /\ At("idle")
  BY <1>2, EmptyRange DEF Scheduled, At
<1>12. Len(steps) = 0 /\ steps \in Seq(StepRec)
  BY <1>1, <1>3
<1>13. Line
  BY <1>11, <1>12 DEF Line, At
<1>14. Queues
  <2>1. Distinct(running)
    BY <1>1 DEF Distinct
  <2> QED
    BY <1>1, <1>11, <2>1, EmptyRange DEF Queues
<1>15. ASSUME NEW r \in Req PROVE Token(r) /\ Flight(r) /\ Picked(r) /\ Tabled(r)
  <2>1. /\ status[r] = "new" /\ nTok[r] = PromptLen[r] /\ nComp[r] = 0 /\ nOut[r] = 0
        /\ drafts[r] = 0 /\ pending[r] = <<>> /\ s.spec[r] = 0
    BY <1>1, <1>2
  <2>2. NumSpec \in Nat /\ Lag \in {0, 1}
    BY <1>8, ConfigFacts
  <2>3. Token(r)
    <3>1. PromptLen[r] \in Int /\ 1 <= PromptLen[r] /\ PromptLen[r] < MaxLen[r] /\ 0 < MaxModelLen
      BY RequestFacts
    <3>2. 0 \in 0..NumSpec
      BY <2>2
    <3> QED
      BY <2>1, <3>1, <3>2 DEF Token
  <2>4. Flight(r)
    <3>1. Sent(r, 1) = 0 /\ Sent(r, 2) = 0
      BY <1>12 DEF Sent
    <3> QED
      BY <1>12, <2>1, <3>1 DEF Flight
  <2>5. Picked(r) /\ Tabled(r)
    BY <1>2, <1>11, <2>1 DEF Picked, Tabled
  <2> QED
    BY <2>3, <2>4, <2>5
<1>16. Loops
  BY <1>2, <1>11, FS_EmptySet DEF Loops, At
<1> QED
  BY <1>8, <1>10, <1>13, <1>14, <1>15, <1>16 DEF IInv, Requests

(* A step that changes nothing.                                              *)
LEMMA StutterKeeps ==
    ASSUME IInv, UNCHANGED vars
    PROVE  IInv'
<1>1. UNCHANGED <<config, status, nTok, nComp, nOut, drafts, epoch, nBlk, running,
                  waiting, skipped, loading, received, pending, steps, runner, s>>
  BY DEF vars
<1>2. NumSpec' = NumSpec /\ Depth' = Depth /\ Lag' = Lag /\ decode_batch_size' = decode_batch_size
  BY <1>1, ConfigStays
<1>3. \A r : /\ (is_prefill(r)' <=> is_prefill(r)) /\ (Token(r)' <=> Token(r)) /\ Table(r)' = Table(r)
             /\ \A i : Sent(r, i)' = Sent(r, i)
  BY <1>1, Untouched, TableStays DEF Sent
<1>4. /\ Scheduled' = Scheduled /\ (Unsettled' <=> Unsettled) /\ (Retrying' <=> Retrying)
      /\ Current' = Current /\ \A p : At(p)' <=> At(p)
  BY <1>1 DEF Scheduled, Unsettled, Retrying, At, Current
<1>5. Types' /\ Locals' /\ Queues'
  BY <1>1, <1>3 DEF IInv, Types, Locals, Queues
<1>6. Line'
  BY <1>1, <1>2, <1>4 DEF IInv, Line, StepOK
<1>7. ASSUME NEW r \in Req PROVE Token(r)' /\ Flight(r)' /\ Picked(r)' /\ Tabled(r)'
  BY <1>1, <1>2, <1>3, <1>4 DEF IInv, Requests, Flight, Picked, Tabled
<1>8. \A r : NumNew(r)' = NumNew(r)
  BY <1>1 DEF NumNew, MinOf, Limited, RawNew, Threshold
<1>9. CurrentNew' = CurrentNew
  BY <1>1, <1>4, <1>8 DEF CurrentNew
<1>10. NewOK(Current, CurrentNew)' <=> NewOK(Current, CurrentNew)
  BY <1>1, <1>3, <1>4, <1>9 DEF NewOK
<1>12. RunningLoop' <=> RunningLoop
  BY <1>1, <1>2, <1>3, <1>4, <1>10 DEF RunningLoop
<1>13. Loops'
  BY <1>1, <1>2, <1>3, <1>4, <1>12 DEF IInv, Loops, Between
<1> QED
  BY <1>5, <1>6, <1>7, <1>13 DEF IInv, Requests

(* Every step of the scheduler and the engine around it keeps the invariant. *)
LEMMA NextKeeps ==
    ASSUME IInv, [Next]_vars
    PROVE  IInv'
<1>1. CASE Schedule
  BY <1>1, StartStepKeeps, SkipRunningKeeps, ScheduleRunningKeeps, PreemptKeeps,
     EndRunningLoopKeeps, SetAsideKeeps, PromoteKeeps, LoadRemoteKeeps, AdmitWaitingKeeps,
     EndWaitingLoopKeeps, OutputKeeps DEF Schedule
<1>2. CASE Engine
  BY <1>2, UpdateFromOutputKeeps DEF Engine
<1>3. ASSUME NEW r \in Req, Client(r) PROVE IInv'
  BY <1>3, AddRequestKeeps, AbortKeeps DEF Client
<1>4. ASSUME NEW r \in Req, Received(r) PROVE IInv'
  BY <1>4, FinishRecvingKeeps DEF Received
<1>5. CASE AllDone \/ UNCHANGED vars
  BY <1>5, StutterKeeps DEF AllDone
<1> QED
  BY <1>1, <1>2, <1>3, <1>4, <1>5 DEF Next

(* The scheduler's invariant, for every deployment of ScopeAssumption.       *)
THEOREM Invariance == Spec => []IInv
  BY InitIInv, NextKeeps, PTL DEF Spec

(* schedule() only makes steps a graph was compiled for: a lone prefill or   *)
(* decodes, and no more of them than the compiled batch holds, whatever is   *)
(* preempted, promoted, evicted or aborted on the way (one or two stages and *)
(* a prefill threshold other than 1, as in every theorem of this module).    *)
THEOREM OneGraph == Spec => []StepFitsGraph
<1>1. ASSUME IInv PROVE StepFitsGraph
  <2>1. ASSUME NEW i \in 1..(Len(running) - 1) PROVE ~is_prefill(running[i])
    <3> SUFFICES ASSUME is_prefill(running[i]) PROVE FALSE
      OBVIOUS
    <3>1. running \in Seq(Req) /\ Len(running) \in Nat
      BY <1>1 DEF IInv, Types
    <3>2. i \in 1..Len(running) /\ Len(running) \in 1..Len(running) /\ i # Len(running)
      BY <3>1
    <3>3. running[i] \in Range(running)
      BY <3>1, <3>2, InRange
    <3>4. running[i] = running[Len(running)]
      BY <1>1, <3>3 DEF IInv, Queues, Last
    <3> QED
      BY <1>1, <3>2, <3>4 DEF IInv, Queues, Distinct
  <2>2. \A i \in 1..Len(steps) : StepOK(steps[i])
    BY <1>1 DEF IInv, Line
  <2>3. NeverMixed
    BY <2>1, <2>2 DEF NeverMixed, StepOK
  <2>4. FitsCompiledBatch
    BY <1>1, <2>2 DEF FitsCompiledBatch, StepOK, IInv, Loops
  <2> QED
    BY <2>3, <2>4 DEF StepFitsGraph
<1> QED
  BY <1>1, Invariance, PTL

(* The workers of every pipeline rank read the phase off the output alone,   *)
(* and it is the phase the scheduler decided on, if the prefill threshold is *)
(* not 1.  With a threshold of 1, which nothing refuses, it is false: every  *)
(* chunk of a prefill is one token, and step_is_prefill says decode.         *)
THEOREM OnePhase == Spec => []PhaseAgrees
<1>1. ASSUME IInv PROVE PhaseAgrees
  <2>1. ASSUME NEW i \in 1..Len(steps)
        PROVE  step_is_prefill(steps[i]) <=> steps[i].prefill # {}
    <3>1. PICK x : x = steps[i]
      OBVIOUS
    <3>2. StepOK(x)
      BY <1>1, <3>1 DEF IInv, Line
    <3>3. step_is_prefill(x) <=> x.prefill # {}
      BY <3>2 DEF StepOK, step_is_prefill
    <3> QED
      BY <3>1, <3>3
  <2> QED
    BY <2>1 DEF PhaseAgrees
<1> QED
  BY <1>1, Invariance, PTL

(* A step that verifies drafts computes the token they were drawn from.      *)
THEOREM Anchors == Spec => []Anchored
<1>1. ASSUME IInv PROVE Anchored
  BY <1>1 DEF IInv, Line, StepOK, Anchored
<1> QED
  BY <1>1, Invariance, PTL

(* The block tables of the model runner, with what is kept back for it, are  *)
(* the manager's, and hold every position the newest step computes and the   *)
(* look-ahead of the drafter after it.                                       *)
THEOREM ExactTables == Spec => []RunnerTableExact
<1>1. ASSUME IInv PROVE RunnerTableExact
  <2> SUFFICES ASSUME Between, NEW r \in Req, status[r] = "running"
               PROVE  /\ runner[r] \o pending[r] = Table(r)
                      /\ steps # <<>> /\ r \in DOMAIN Last(steps).num =>
                            Len(runner[r]) * BlockSize >= Reach(nComp[r], NumSpec)
    BY DEF RunnerTableExact
  <2>1. Tabled(r) /\ s.fresh = {} /\ Range(s.sched) = {}
    BY <1>1, EmptyRange DEF IInv, Requests, Loops
  <2>2. /\ Table(r) = runner[r] \o pending[r]
        /\ steps # <<>> /\ r \in DOMAIN Last(steps).num =>
              Reach(nComp[r], NumSpec) <= Len(runner[r]) * BlockSize
    BY <2>1 DEF Tabled
  <2>3. Reach(nComp[r], NumSpec) \in Int /\ Len(runner[r]) * BlockSize \in Int
    <3>1. /\ Len(runner[r]) \in Nat /\ BlockSize \in Nat /\ nComp[r] \in Int
          /\ NumSpec \in Nat /\ MaxModelLen \in Nat
      BY <1>1, ConfigFacts, RequestFacts DEF IInv, Types
    <3>2. Reach(nComp[r], NumSpec) \in Int
      BY <3>1, ReachFacts
    <3> QED
      BY <3>1, <3>2
  <2> QED
    BY <2>2, <2>3
<1> QED
  BY <1>1, Invariance, PTL
=============================================================================
