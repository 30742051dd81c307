---------------------------- MODULE DPBatch_proofs ----------------------------
(***************************************************************************)
(* The ranks of a data-parallel group run forward passes of one token      *)
(* dimension (SameDimension of DPBatch), in shapes with room for what they *)
(* stage (RowsFit) that warm-up has compiled (Warmed: without the draft    *)
(* passes of idle ranks), for every number of ranks, every deployment of   *)
(* Configs and every batch the ranks may bring.                            *)
(*                                                                         *)
(* The argument for the first has three parts.  Each rank encodes its      *)
(* batch in one integer and puts it in a slot of its own, so the sum of    *)
(* the all-reduce leaves every slot as its rank wrote it (OwnSlot), and    *)
(* the bits read back are the ones written as long as the counts fit their *)
(* fields (FlagBit, DecodedFlag).  So all ranks of a round read one        *)
(* status, which tells who prefills (Reported).  And what a rank then      *)
(* decides about the tokens is a function of that status alone             *)
(* (TargetDimension), or, in the drafter's passes, of the status and of    *)
(* facts that hold of every rank's batch (DraftDimension).                 *)
(*                                                                         *)
(* For the other two the status must tell everything that was brought      *)
(* (DecodedFields), and it must keep telling it while the drafter shortens *)
(* the batches (Heard, Informed).  The buckets are batch sizes whose       *)
(* largest is max_num_seqs (BucketFacts); the graphs of warm-up are listed *)
(* once, for each bucket and window (PrefillKey to DraftTopKey); and each  *)
(* case of the two decisions leads to one of them (TargetServed,           *)
(* FirstServed, LaterServed).                                              *)
(***************************************************************************)
EXTENDS DPBatch, SeqLemmas

(* The places of the loop at which a rank has read the status of its round.  *)
Round == {"decide", "forward", "drafting", "draft"}
InRound(r) == pc[r] \in Round

(* The batches that a rank may bring to a round.                             *)
Work == [reqs : Nat, tokens : Nat, prefill : BOOLEAN, idle : BOOLEAN, fits : BOOLEAN]

(* What a batch keeps being, whatever its length becomes.                    *)
IsBatch(w) ==
    /\ DOMAIN w = {"reqs", "tokens", "prefill", "idle", "fits"}
    /\ w.reqs \in Nat /\ w.prefill \in BOOLEAN

(* The shape of the state.                                                   *)
Types ==
    /\ config \in Configs
    /\ pc \in [Ranks -> {"loop", "reduce"} \cup Round]
    /\ DOMAIN work = Ranks /\ \A r \in Ranks : IsBatch(work[r])
    /\ DOMAIN status = Ranks /\ DOMAIN desc = Ranks
    /\ pass \in [Ranks -> Nat]

(* What a rank brings has a request and fits the fields of the all-reduce.   *)
Brought ==
    \A r \in Ranks :
        /\ pc[r] # "loop" => work[r].reqs # 0
        /\ pc[r] = "reduce" => work[r] \in Work /\ work[r].reqs <= MostReqs /\ work[r].tokens <= MostTokens

(* The ranks of a round read the same status, and it tells who prefills.     *)
Reported ==
    \A r, t \in Ranks : InRound(r) /\ InRound(t) =>
        /\ status[r] = status[t]
        /\ config.dp > 1 => DOMAIN status[r] = Ranks
        /\ config.dp > 1 /\ pass[t] <= 1 => status[r][t].prefill = work[t].prefill

(* The passes are counted from 1, and those after the first have one token   *)
(* per request.                                                              *)
Counted ==
    \A r \in Ranks :
        /\ pc[r] = "draft" <=> pass[r] # 0
        /\ pass[r] > 1 => ~work[r].prefill /\ work[r].tokens = work[r].reqs

(* A rank's shape is what its work and the status it read determine.         *)
Determined ==
    \A r \in Ranks :
        /\ pc[r] = "forward" =>
              desc[r] = determine_batch_execution_and_padding(config, work[r], status[r], 0)
        /\ pc[r] = "draft" =>
              desc[r] = determine_draft_batch_execution_and_padding(
                            config, work[r], status[r], pass[r] = 1, 0)

(* The inductive invariant.                                                  *)
IInv == Types /\ Brought /\ Reported /\ Counted /\ Determined

-----------------------------------------------------------------------------
(* The fields of the all-reduce hold something.                              *)
LEMMA FieldBounds ==
    MostReqs \in Nat /\ MostTokens \in Nat /\ 1 <= MostReqs /\ 1 <= MostTokens
  BY SMT DEF MostReqs, MostTokens

(* A deployment's numbers.                                                   *)
LEMMA ConfigNumbers ==
    ASSUME NEW c \in Configs
    PROVE  /\ c.dp \in Nat \ {0} /\ c.spec \in Nat
           /\ c.max \in 1 .. MostReqs /\ c.tokens \in 1 .. MostTokens
           /\ c.max * (c.spec + 1) <= c.tokens
  BY ConfigsAssumption, Zenon

(* A sum in which one slot is not zero: what the all-reduce leaves there.    *)
LEMMA OwnSlot ==
    ASSUME NEW D, IsFiniteSet(D), NEW values \in [D -> Int], NEW i \in D
    PROVE  MapThenSumSet(LAMBDA r : IF r = i THEN values[r] ELSE 0, D) = values[i]
<1> DEFINE Some(s) == CHOOSE x \in s : TRUE
           Eq(g) == g = [s \in SUBSET D |->
              IF s = {} THEN 0
              ELSE (IF Some(s) = i THEN values[Some(s)] ELSE 0) + g[s \ {Some(s)}]]
           f == CHOOSE g : Eq(g)
           h == [s \in SUBSET D |-> IF i \in s THEN values[i] ELSE 0]
<1>1. MapThenSumSet(LAMBDA r : IF r = i THEN values[r] ELSE 0, D) = f[D]
  BY DEF MapThenSumSet, MapThenFoldSet
<1>2. \A s : s # {} => Some(s) \in s
  OBVIOUS
<1> HIDE DEF Some
<1>3. ASSUME NEW s \in SUBSET D, s # {}
      PROVE  h[s] = (IF Some(s) = i THEN values[Some(s)] ELSE 0) + h[s \ {Some(s)}]
  <2>1. h[s] = (IF i \in s THEN values[i] ELSE 0) /\ h[s \ {Some(s)}] = IF i \in s \ {Some(s)} THEN values[i] ELSE 0
    OBVIOUS
  <2>2. values[i] \in Int /\ Some(s) \in s
    BY <1>2, <1>3
  <2> HIDE DEF h
  <2> QED
    BY <2>1, <2>2
<1>4. Eq(h)
  <2>1. h[{}] = 0
    OBVIOUS
  <2>2. h = [s \in SUBSET D |-> h[s]]
    OBVIOUS
  <2> HIDE DEF h
  <2>3. \A s \in SUBSET D : h[s] = IF s = {} THEN 0
              ELSE (IF Some(s) = i THEN values[Some(s)] ELSE 0) + h[s \ {Some(s)}]
    BY <1>3, <2>1
  <2> QED
    BY <2>2, <2>3
<1>5. Eq(f)
  <2> HIDE DEF Eq
  <2> QED
    BY <1>4
<1> HIDE DEF f
<1>6. ASSUME NEW s \in SUBSET D
      PROVE  f[s] = IF s = {} THEN 0 ELSE (IF Some(s) = i THEN values[Some(s)] ELSE 0) + f[s \ {Some(s)}]
  BY <1>5
<1> HIDE DEF Eq
<1> HIDE DEF h
<1> DEFINE T == {n \in Nat : \A s \in SUBSET D : Cardinality(s) = n => f[s] = h[s]}
<1>7. 0 \in T
  <2>1. ASSUME NEW s \in SUBSET D, Cardinality(s) = 0 PROVE f[s] = h[s]
    <3>1. s = {}
      BY <2>1, FS_Subset, FS_EmptySet
    <3> QED
      BY <1>6, <3>1 DEF h
  <2> QED
    BY <2>1
<1>8. ASSUME NEW n \in Nat, n \in T PROVE n + 1 \in T
  <2>1. ASSUME NEW s \in SUBSET D, Cardinality(s) = n + 1 PROVE f[s] = h[s]
    <3>1. IsFiniteSet(s) /\ s # {}
      BY <2>1, FS_Subset, FS_EmptySet
    <3> DEFINE t == s \ {Some(s)}
    <3>2. Cardinality(t) = n /\ t \in SUBSET D
      <4>1. Cardinality(t) = Cardinality(s) - 1
        BY <1>2, <3>1, FS_RemoveElement
      <4> QED
        BY <2>1, <4>1
    <3>3. f[t] = h[t]
      BY <1>8, <3>2
    <3> QED
      BY <1>3, <1>6, <3>1, <3>3
  <2> QED
    BY <2>1
<1>9. Nat \subseteq T
  <2> HIDE DEF T
  <2> QED
    BY <1>7, <1>8, NatSetInduction
<1>10. f[D] = h[D]
  <2>1. Cardinality(D) \in Nat
    BY FS_CardinalityType
  <2> QED
    BY <1>9, <2>1
<1> QED
  BY <1>1, <1>10 DEF h

(* The lower of two flags above a field of H values.                         *)
LEMMA FlagBit ==
    ASSUME NEW H \in Nat \ {0}, NEW low \in 0..(H - 1), NEW p \in 0..1, NEW i \in 0..1
    PROVE  LET a == low + p * H + i * (2 * H)
           IN  a \in Int /\ (a \div H) % 2 = p
<1> DEFINE a == low + p * H + i * (2 * H)
           q == p + 2 * i
<1>1. a \in Int /\ q * H <= a /\ a < (q + 1) * H
  <2>1. p = 0 \/ p = 1
    OBVIOUS
  <2>2. i = 0 \/ i = 1
    OBVIOUS
  <2> QED
    BY <2>1, <2>2
<1>2. q \in Int /\ q + 1 \in Int
  OBVIOUS
<1> HIDE DEF a, q
<1>3. a \div H \in Int /\ q <= a \div H /\ a \div H < q + 1
  BY <1>1, <1>2, DivFacts, DivBounds
<1>4. a \div H = q
  BY <1>2, <1>3
<1>5. q % 2 = p
  BY DEF q
<1> QED
  BY <1>1, <1>4, <1>5 DEF a

(* What the prefill flag of an encoded batch decodes to.                     *)
LEMMA DecodedFlag ==
    ASSUME NEW w \in Work, w.tokens <= MostTokens, w.reqs <= MostReqs
    PROVE  Encode(w) \in Int /\ Decode(Encode(w)).prefill = w.prefill
<1> DEFINE H == 2^29
           low == w.tokens + w.reqs * 2^16
           p == Flag(w.prefill)
           i == Flag(w.idle)
           a == low + p * H + i * (2 * H)
<1>1. H \in Nat \ {0} /\ 2^30 = 2 * H
  BY SMT
<1>2. low \in 0..(H - 1)
  <2>1. w.tokens \in Nat /\ w.reqs \in Nat
    BY DEF Work
  <2>2. 2^16 = 65536 /\ 2^29 = 536870912
    BY SMT
  <2> QED
    BY <2>1, <2>2, SMT DEF MostTokens, MostReqs
<1>3. p \in 0..1 /\ i \in 0..1
  BY DEF Flag
<1>4. Encode(w) = a
  <2> HIDE DEF p, i, low
  <2>1. Encode(w) = low + p * H + i * 2^30
    BY DEF Encode, p, i, low
  <2> HIDE DEF H
  <2> QED
    BY <1>1, <2>1
<1>5. w.prefill \in BOOLEAN
  BY DEF Work
<1>6. (p = 1) = w.prefill
  BY <1>5 DEF Flag
<1> HIDE DEF low, p, i
<1>7. Decode(Encode(w)).prefill = ((a \div H) % 2 = 1)
  <2> HIDE DEF a
  <2> QED
    BY <1>4 DEF Decode
<1> HIDE DEF H
<1>8. a \in Int /\ (a \div H) % 2 = p
  BY <1>1, <1>2, <1>3, FlagBit
<1> QED
  BY <1>4, <1>6, <1>7, <1>8

(* The token dimension of the target's pass is the status's alone.           *)
LEMMA TargetDimension ==
    ASSUME NEW c, NEW w, NEW v, NEW s
    PROVE  determine_batch_execution_and_padding(c, w, s, 0).tokens =
           determine_batch_execution_and_padding(c, v, s, 0).tokens
  BY DEF determine_batch_execution_and_padding, Shape, NoShape, AnyPrefill, QlenAsym, Agreed

(* The token dimension of a draft pass with experts.  In the first pass it   *)
(* takes that the status tells of a prefill to the ranks that decode; in the *)
(* later ones every rank has one token per request.                          *)
Tells(s, w) == w.prefill => \E i \in DOMAIN s : s[i].prefill
OneEach(w) == ~w.prefill /\ w.tokens = w.reqs /\ w.reqs \in Nat \ {0}

(* Ranks with such batches give a draft pass one dimension.                   *)
LEMMA DraftDimension ==
    ASSUME NEW c, c.moe, NEW w, NEW v, NEW s, DOMAIN s # {}, NEW first \in BOOLEAN,
           first => Tells(s, w) /\ Tells(s, v), ~first => OneEach(w) /\ OneEach(v)
    PROVE  determine_draft_batch_execution_and_padding(c, w, s, first, 0).tokens =
           determine_draft_batch_execution_and_padding(c, v, s, first, 0).tokens
<1> DEFINE any == first /\ \E i \in DOMAIN s : s[i].prefill
           D(x) == determine_draft_batch_execution_and_padding(c, x, s, first, 0).tokens
<1>1. ASSUME NEW x
      PROVE  D(x) = IF x.prefill \/ ~c.specialized \/ any THEN c.tokens
                    ELSE DraftReqs(c, x, s) * Max(DraftLens(x, s, first))
  <2>1. CASE x.prefill \/ ~c.specialized
    BY <2>1 DEF determine_draft_batch_execution_and_padding, Shape
  <2>2. CASE ~(x.prefill \/ ~c.specialized)
    BY <2>2 DEF determine_draft_batch_execution_and_padding, Shape
  <2> QED
    BY <2>1, <2>2
<1>2. DraftReqs(c, w, s) = DraftReqs(c, v, s)
  BY DEF DraftReqs
<1>3. CASE first
  <2>1. DraftLens(w, s, first) = DraftLens(v, s, first)
    BY <1>3 DEF DraftLens
  <2>2. D(w) = D(v)
    <3> HIDE DEF D
    <3> QED
      BY <1>1, <1>2, <1>3, <2>1 DEF Tells
  <2> QED
    BY <2>2
<1>4. CASE ~first
  <2>1. QueryLen(w) = 1 /\ QueryLen(v) = 1
    <3>1. \A n \in Nat \ {0} : n \div n = 1
      OBVIOUS
    <3> QED
      BY <1>4, <3>1 DEF QueryLen, OneEach
  <2>2. DraftLens(w, s, first) = DraftLens(v, s, first)
    BY <1>4, <2>1 DEF DraftLens
  <2>3. D(w) = D(v)
    <3> HIDE DEF D
    <3> QED
      BY <1>1, <1>2, <1>4, <2>2 DEF OneEach
  <2> QED
    BY <2>3
<1> QED
  BY <1>3, <1>4

(* The invariant is what the token dimension needs.                          *)
LEMMA DimensionFollows == IInv => SameDimension
<1> SUFFICES ASSUME IInv, NEW r \in Ranks, NEW t \in Ranks, InPass(r), pc[t] = pc[r],
                    pass[t] = pass[r], pc[r] = "draft" => config.moe
             PROVE  desc[t].tokens = desc[r].tokens
  BY DEF SameDimension
<1> USE DEF IInv
<1>1. InRound(r) /\ InRound(t) /\ status[r] = status[t]
  BY DEF InPass, InRound, Round, Reported
<1>2. CASE pc[r] = "forward"
  <2>1. desc[r] = determine_batch_execution_and_padding(config, work[r], status[r], 0)
    BY <1>2 DEF Determined
  <2>2. desc[t] = determine_batch_execution_and_padding(config, work[t], status[r], 0)
    BY <1>1, <1>2 DEF Determined
  <2> QED
    BY <2>1, <2>2, TargetDimension
<1>3. CASE pc[r] = "draft" /\ config.dp > 1
  <2>1. desc[r] = determine_draft_batch_execution_and_padding(config, work[r], status[r], pass[r] = 1, 0)
    BY <1>3 DEF Determined
  <2>2. desc[t] = determine_draft_batch_execution_and_padding(config, work[t], status[r], pass[r] = 1, 0)
    BY <1>1, <1>3 DEF Determined
  <2>3. pass[r] \in Nat \ {0}
    BY <1>3 DEF Counted, Types
  <2>4. DOMAIN status[r] = Ranks /\ DOMAIN status[r] # {}
    BY <1>1, <1>3 DEF Reported
  <2>5. pass[r] = 1 => Tells(status[r], work[r]) /\ Tells(status[r], work[t])
    <3>1. ASSUME pass[r] = 1
          PROVE  status[r][r].prefill = work[r].prefill /\ status[r][t].prefill = work[t].prefill
      BY <1>1, <1>3, <3>1 DEF Reported
    <3> QED
      BY <2>4, <3>1 DEF Tells
  <2>6. ASSUME pass[r] # 1
        PROVE  OneEach(work[r]) /\ OneEach(work[t])
    <3>1. pass[r] > 1 /\ pass[t] > 1
      BY <2>3, <2>6
    <3>2. work[r].reqs \in Nat \ {0} /\ work[t].reqs \in Nat \ {0}
      BY <1>3 DEF Brought, Types, IsBatch
    <3> QED
      BY <3>1, <3>2 DEF Counted, OneEach
  <2>7. config.moe
    BY <1>3
  <2> DEFINE f == pass[r] = 1
             w == work[r]
             v == work[t]
             s == status[r]
  <2>8. /\ f \in BOOLEAN /\ DOMAIN s # {} /\ (f => Tells(s, w) /\ Tells(s, v))
        /\ (~f => OneEach(w) /\ OneEach(v))
    BY <2>4, <2>5, <2>6
  <2> HIDE DEF f, w, v, s
  <2>9. determine_draft_batch_execution_and_padding(config, w, s, f, 0).tokens =
        determine_draft_batch_execution_and_padding(config, v, s, f, 0).tokens
    BY <2>7, <2>8, DraftDimension
  <2> QED
    BY <2>1, <2>2, <2>9 DEF f, w, v, s
<1>4. CASE ~(config.dp > 1)
  <2>1. config.dp = 1
    <3>1. config.dp \in Nat \ {0}
      BY ConfigNumbers DEF Types
    <3> QED
      BY ONLY <1>4, <3>1
  <2>2. Ranks = {0}
    BY <2>1 DEF Ranks
  <2> QED
    BY <2>2
<1> QED
  BY <1>2, <1>3, <1>4 DEF InPass

-----------------------------------------------------------------------------
(* Steps.                                                                    *)

(* A rank brings its batch: it has a request, and fits the fields.           *)
LEMMA BringKeeps ==
    ASSUME IInv, NEW r \in Ranks, NEW w \in Work, w.reqs \in 1..MostReqs,
           w.tokens <= MostTokens, Bring(r, w)
    PROVE  IInv'
<1> USE DEF IInv
<1>1. /\ pc[r] = "loop" /\ work' = [work EXCEPT ![r] = w] /\ pc' = [pc EXCEPT ![r] = "reduce"]
      /\ UNCHANGED <<config, status, desc, pass>> /\ Ranks' = Ranks
  BY DEF Bring, Ranks
<1>2. /\ \A t \in Ranks : t # r => pc'[t] = pc[t] /\ work'[t] = work[t]
      /\ pc'[r] = "reduce" /\ work'[r] = w
  BY <1>1 DEF Types
<1>3. IsBatch(w) /\ w.reqs # 0 /\ w.reqs <= MostReqs
  <2>1. w.reqs # 0 /\ w.reqs <= MostReqs
    BY FieldBounds
  <2>2. DOMAIN w = {"reqs", "tokens", "prefill", "idle", "fits"}
    BY DEF Work
  <2>3. w.reqs \in Nat /\ w.prefill \in BOOLEAN
    BY DEF Work
  <2> QED
    BY <2>1, <2>2, <2>3 DEF IsBatch
<1>4. Types'
  BY <1>1, <1>2, <1>3 DEF Types
<1>5. Brought'
  BY <1>1, <1>2, <1>3 DEF Brought
<1>6. \A t \in Ranks : InRound(t)' <=> t # r /\ InRound(t)
  BY <1>2 DEF InRound, Round
<1>7. Reported'
  BY <1>1, <1>2, <1>6 DEF Reported
<1>8. Counted' /\ Determined'
  BY <1>1, <1>2 DEF Counted, Determined, Types
<1> QED
  BY <1>4, <1>5, <1>7, <1>8

(* The ranks of R leave the round.                                           *)
LEMMA LeaveKeeps ==
    ASSUME IInv, NEW R \in SUBSET Ranks, Leave(R), UNCHANGED config
    PROVE  IInv'
<1> USE DEF IInv
<1>1. Ranks' = Ranks
  BY DEF Ranks
<1>2. ASSUME NEW t \in Ranks
      PROVE  /\ t \in R => pc'[t] = "loop" /\ work'[t] = NoWork /\ pass'[t] = 0
             /\ t \notin R => /\ pc'[t] = pc[t] /\ work'[t] = work[t] /\ pass'[t] = pass[t]
                             /\ status'[t] = status[t] /\ desc'[t] = desc[t]
  BY DEF Leave
<1>3. IsBatch(NoWork)
  BY DEF IsBatch, NoWork, BatchOf
<1>4. Types'
  <2>1. pc' \in [Ranks -> {"loop", "reduce"} \cup Round] /\ pass' \in [Ranks -> Nat]
    BY DEF Types, Leave
  <2>2. DOMAIN work' = Ranks /\ DOMAIN status' = Ranks /\ DOMAIN desc' = Ranks
    BY DEF Leave
  <2>3. \A t \in Ranks : IsBatch(work'[t])
    BY <1>2, <1>3 DEF Types
  <2> QED
    BY <1>1, <2>1, <2>2, <2>3 DEF Types
<1>5. Brought'
  BY <1>1, <1>2 DEF Brought
<1>6. \A t \in Ranks : InRound(t)' <=> t \notin R /\ InRound(t)
  BY <1>2 DEF InRound, Round
<1>7. Reported'
  BY <1>1, <1>2, <1>6 DEF Reported
<1>8. Counted'
  BY <1>1, <1>2 DEF Counted
<1>9. Determined'
  BY <1>1, <1>2 DEF Determined
<1> QED
  BY <1>4, <1>5, <1>7, <1>8, <1>9

(* A chunk of a prompt: one request, no more tokens than the budget.         *)
LEMMA PrefillKeeps ==
    ASSUME IInv, NEW r \in Ranks, Prefill(r)
    PROVE  IInv'
<1>1. PICK n \in Chunks \cup {config.tokens}, f \in Fits :
         n <= config.tokens /\ Bring(r, BatchOf(1, n, TRUE, FALSE, f))
  BY DEF Prefill
<1> DEFINE w == BatchOf(1, n, TRUE, FALSE, f)
<1>2. /\ Chunks \subseteq Nat \ {0} /\ config.tokens \in 1..MostTokens
      /\ 1 \in 1..MostReqs /\ MostTokens \in Nat
  <2>1. config.tokens \in 1..MostTokens /\ Chunks \subseteq Nat \ {0}
    BY ConfigsAssumption, ConfigNumbers DEF IInv, Types
  <2> QED
    BY <2>1, FieldBounds
<1>3. n \in Nat /\ n <= MostTokens /\ 1 \in Nat
  BY <1>1, <1>2
<1>4. f \in BOOLEAN /\ TRUE \in BOOLEAN /\ FALSE \in BOOLEAN
  BY DEF Fits
<1>5. w \in Work /\ w.reqs = 1 /\ w.tokens = n
  BY ONLY <1>3, <1>4 DEF BatchOf, Work
<1> HIDE DEF w
<1> QED
  BY <1>1, <1>2, <1>3, <1>5, BringKeeps DEF w

(* A decode batch: max_num_seqs requests of spec + 1 tokens fit the budget.  *)
LEMMA DecodeKeeps ==
    ASSUME IInv, NEW r \in Ranks, DecodeBatch(r)
    PROVE  IInv'
<1>1. PICK n \in 1..config.max, q \in {1, config.spec + 1}, f \in Fits :
         Bring(r, BatchOf(n, n * q, FALSE, FALSE, f))
  BY DEF DecodeBatch
<1> DEFINE w == BatchOf(n, n * q, FALSE, FALSE, f)
<1>2. /\ config.max \in 1..MostReqs /\ config.spec \in Nat /\ config.tokens \in 1..MostTokens
      /\ config.max * (config.spec + 1) <= config.tokens /\ MostReqs \in Nat /\ MostTokens \in Nat
  <2>1. /\ config.max \in 1..MostReqs /\ config.spec \in Nat /\ config.tokens \in 1..MostTokens
        /\ config.max * (config.spec + 1) <= config.tokens
    BY ConfigNumbers DEF IInv, Types
  <2> QED
    BY <2>1, FieldBounds
<1>3. n \in 1..MostReqs /\ q \in Nat /\ n \in Nat
  BY <1>1, <1>2
<1>6. f \in BOOLEAN /\ FALSE \in BOOLEAN
  BY DEF Fits
<1>4. n * q \in Nat /\ n * q <= MostTokens
  <2>1. n * q \in Int /\ n * q >= 0
    BY <1>3, MulFacts
  <2>2. n * q <= config.max * q
    BY <1>1, <1>2, <1>3, MulFacts
  <2>3. config.max * q <= config.max * (config.spec + 1)
    BY <1>1, <1>2
  <2>4. config.max * q \in Int /\ config.max * (config.spec + 1) \in Int
    BY <1>2, <1>3
  <2> QED
    BY <1>2, <2>1, <2>2, <2>3, <2>4
<1>5. w \in Work /\ w.reqs = n /\ w.tokens = n * q
  BY ONLY <1>3, <1>4, <1>6 DEF BatchOf, Work
<1> HIDE DEF w
<1> QED
  BY <1>1, <1>3, <1>4, <1>5, BringKeeps DEF w

(* The idle rank's batch: one request of one token.                          *)
LEMMA DummyKeeps ==
    ASSUME IInv, NEW r \in Ranks, execute_dummy_batch(r)
    PROVE  IInv'
<1> DEFINE w == BatchOf(1, 1, FALSE, TRUE, TRUE)
<1>1. w \in Work /\ w.reqs = 1 /\ w.tokens = 1
  <2>1. 1 \in Nat /\ FALSE \in BOOLEAN /\ TRUE \in BOOLEAN
    OBVIOUS
  <2> QED
    BY <2>1 DEF BatchOf, Work
<1>2. 1 \in 1..MostReqs /\ 1 <= MostTokens
  BY FieldBounds
<1>3. Bring(r, w)
  BY DEF execute_dummy_batch
<1> HIDE DEF w
<1> QED
  BY <1>1, <1>2, <1>3, BringKeeps

(* The all-reduce gives every rank the same status, and a slot of it is what *)
(* its rank encoded: the other ranks add zero.                               *)
LEMMA AllReduceKeeps ==
    ASSUME IInv, AllReduce
    PROVE  IInv'
<1> USE DEF IInv
<1> DEFINE values == [i \in Ranks |-> Encode(work[i])]
           S == _synchronize_dp_ranks(values)
<1>1. /\ \A r \in Ranks : pc[r] = "reduce" /\ pc'[r] = "decide"
      /\ pc' = [r \in Ranks |-> "decide"] /\ UNCHANGED <<config, work, desc, pass>> /\ Ranks' = Ranks
      /\ status' = IF config.dp = 1 THEN status ELSE [r \in Ranks |-> S]
  BY DEF AllReduce, Ranks
<1>2. ASSUME NEW t \in Ranks
      PROVE  Encode(work[t]) \in Int /\ Decode(Encode(work[t])).prefill = work[t].prefill
  BY <1>1, DecodedFlag DEF Brought
<1>3. DOMAIN S = Ranks
  BY DEF _synchronize_dp_ranks
<1>4. ASSUME NEW t \in Ranks PROVE S[t].prefill = work[t].prefill
  <2>1. values \in [Ranks -> Int] /\ values[t] = Encode(work[t]) /\ DOMAIN values = Ranks
    BY <1>2
  <2>2. IsFiniteSet(Ranks)
    <3>1. config.dp \in Nat
      BY ConfigNumbers DEF Types
    <3> QED
      BY <3>1, FS_Interval DEF Ranks
  <2> HIDE DEF values
  <2>3. _run_ar(values)[t] = values[t]
    BY <2>1, <2>2, OwnSlot DEF _run_ar
  <2>4. S[t] = Decode(values[t])
    BY <2>1, <2>3 DEF _synchronize_dp_ranks
  <2> QED
    BY <1>2, <2>1, <2>4
<1> HIDE DEF S, values
<1>5. Types'
  BY <1>1 DEF Types, Round
<1>6. Brought'
  BY <1>1 DEF Brought
<1>7. Reported'
  <2> SUFFICES ASSUME NEW r \in Ranks, NEW t \in Ranks
               PROVE  /\ status'[r] = status'[t]
                      /\ config.dp > 1 => DOMAIN status'[r] = Ranks
                      /\ config.dp > 1 => status'[r][t].prefill = work[t].prefill
    BY <1>1 DEF Reported
  <2>1. CASE config.dp = 1
    BY <1>1, <2>1 DEF Ranks
  <2>2. CASE config.dp # 1
    BY <1>1, <1>3, <1>4, <2>2
  <2> QED
    BY <2>1, <2>2
<1>8. Counted' /\ Determined'
  BY <1>1 DEF Counted, Determined
<1> QED
  BY <1>5, <1>6, <1>7, <1>8

(* A rank determines its shape from the status it read.                      *)
LEMMA DecideKeeps ==
    ASSUME IInv, NEW r \in Ranks, Decide(r)
    PROVE  IInv'
<1> USE DEF IInv
<1> DEFINE d == determine_batch_execution_and_padding(config, work[r], status[r], 0)
<1>1. CASE d = NoShape
  BY <1>1, LeaveKeeps DEF Decide
<1>2. CASE d # NoShape
  <2>1. /\ pc[r] = "decide" /\ desc' = [desc EXCEPT ![r] = d] /\ pc' = [pc EXCEPT ![r] = "forward"]
        /\ UNCHANGED <<config, work, status, pass>> /\ Ranks' = Ranks
    BY <1>2 DEF Decide, Ranks
  <2> HIDE DEF d
  <2>2. /\ \A t \in Ranks : t # r => pc'[t] = pc[t] /\ desc'[t] = desc[t]
        /\ pc'[r] = "forward" /\ desc'[r] = d
    BY <2>1 DEF Types
  <2>3. Types'
    BY <2>1 DEF Types, Round
  <2>4. \A t \in Ranks : InRound(t)' <=> InRound(t)
    BY <2>1, <2>2 DEF InRound, Round
  <2>5. Brought'
    BY <2>1, <2>2 DEF Brought
  <2>6. Reported'
    BY <2>1, <2>4 DEF Reported
  <2>7. Counted'
    BY <2>1, <2>2 DEF Counted
  <2>8. Determined'
    BY <2>1, <2>2 DEF Determined, d
  <2> QED
    BY <2>3, <2>5, <2>6, <2>7, <2>8
<1> QED
  BY <1>1, <1>2

(* The target's forward pass ends the round, or the drafter's passes follow. *)
LEMMA ForwardKeeps ==
    ASSUME IInv, Forward
    PROVE  IInv'
<1> USE DEF IInv
<1>1. /\ \A r \in Ranks : pc[r] = "forward" /\ pc'[r] = "drafting"
      /\ pc' = [r \in Ranks |-> "drafting"]
      /\ UNCHANGED <<config, work, status, desc, pass>> /\ Ranks' = Ranks
  BY DEF Forward, Ranks
<1>2. Types' /\ Brought' /\ Counted' /\ Determined'
  BY <1>1 DEF Types, Brought, Counted, Determined, Round
<1>3. \A t \in Ranks : InRound(t)' <=> InRound(t)
  BY <1>1 DEF InRound, Round
<1>4. Reported'
  BY <1>1, <1>3 DEF Reported
<1> QED
  BY <1>2, <1>4

(* The first draft pass.  A dummy takes another length, but is not a prefill. *)
LEMMA StartDraftKeeps ==
    ASSUME IInv, NEW r \in Ranks, StartDraft(r)
    PROVE  IInv'
<1> USE DEF IInv
<1> DEFINE d == determine_draft_batch_execution_and_padding(config, DraftWork(r), status[r], TRUE, 0)
           w == DraftWork(r)
<1>1. CASE ~Drafts(r)
  BY <1>1, LeaveKeeps DEF StartDraft
<1>2. CASE Drafts(r)
  <2>1. /\ pc[r] = "drafting" /\ desc' = [desc EXCEPT ![r] = d] /\ pc' = [pc EXCEPT ![r] = "draft"]
        /\ pass' = [pass EXCEPT ![r] = 1] /\ work' = [work EXCEPT ![r] = w]
        /\ UNCHANGED <<config, status>> /\ Ranks' = Ranks
    BY <1>2 DEF StartDraft, Ranks
  <2>2. IsBatch(w) /\ w.reqs = work[r].reqs /\ w.prefill = work[r].prefill
    <3>1. IsBatch(work[r])
      BY DEF Types
    <3>2. CASE ~work[r].idle
      BY <3>1, <3>2 DEF DraftWork
    <3>3. CASE work[r].idle
      BY <3>1, <3>3 DEF DraftWork, IsBatch
    <3> QED
      BY <3>2, <3>3
  <2> HIDE DEF w
  <2>3. d = determine_draft_batch_execution_and_padding(config, w, status[r], TRUE, 0)
    BY DEF w
  <2> HIDE DEF d
  <2>4. /\ \A t \in Ranks : t # r => /\ pc'[t] = pc[t] /\ desc'[t] = desc[t] /\ work'[t] = work[t]
                                     /\ pass'[t] = pass[t]
        /\ pc'[r] = "draft" /\ desc'[r] = d /\ work'[r] = w /\ pass'[r] = 1
    BY <2>1 DEF Types
  <2>5. Types'
    BY <2>1, <2>2, <2>4 DEF Types, Round
  <2>6. \A t \in Ranks : InRound(t)' <=> InRound(t)
    BY <2>1, <2>4 DEF InRound, Round
  <2>7. Brought'
    BY <2>1, <2>2, <2>4 DEF Brought
  <2>8. pass[r] = 0
    BY <2>1 DEF Counted
  <2>9. Reported'
    BY <2>1, <2>2, <2>4, <2>6, <2>8 DEF Reported
  <2>10. Counted'
    BY <2>1, <2>4 DEF Counted
  <2>11. Determined'
    <3>1. ASSUME NEW t \in Ranks, t # r
          PROVE  /\ pc'[t] = "forward" =>
                      desc'[t] = determine_batch_execution_and_padding(config, work'[t], status[t], 0)
                 /\ pc'[t] = "draft" =>
                      desc'[t] = determine_draft_batch_execution_and_padding(
                                    config, work'[t], status[t], pass'[t] = 1, 0)
      BY <2>4, <3>1 DEF Determined
    <3>2. (pass'[r] = 1) = TRUE
      BY <2>4
    <3>3. /\ pc'[r] # "forward"
          /\ desc'[r] = determine_draft_batch_execution_and_padding(
                             config, work'[r], status[r], pass'[r] = 1, 0)
      BY <2>3, <2>4, <3>2
    <3> QED
      BY <2>1, <3>1, <3>3 DEF Determined
  <2> QED
    BY <2>5, <2>7, <2>9, <2>10, <2>11
<1> QED
  BY <1>1, <1>2

(* A later pass: one token per request.                                      *)
LEMMA EndPassKeeps ==
    ASSUME IInv, NEW R \in SUBSET Ranks, \A r \in R : pc[r] = "draft", EndPass(R)
    PROVE  IInv'
<1> USE DEF IInv
<1>1. CASE \A r \in R : pass[r] = config.spec
  BY <1>1, LeaveKeeps DEF EndPass
<1>2. CASE ~ \A r \in R : pass[r] = config.spec
  <2>1. /\ pass' = [r \in Ranks |-> IF r \in R THEN pass[r] + 1 ELSE pass[r]]
        /\ work' = [r \in Ranks |-> IF r \in R THEN OneToken(work[r]) ELSE work[r]]
        /\ desc' = [r \in Ranks |-> IF r \in R
                          THEN determine_draft_batch_execution_and_padding(
                                   config, OneToken(work[r]), status[r], FALSE, 0)
                          ELSE desc[r]]
        /\ UNCHANGED <<config, pc, status>> /\ Ranks' = Ranks
    BY <1>2 DEF EndPass, Ranks
  <2>2. ASSUME NEW t \in Ranks
        PROVE  LET w == OneToken(work[t])
               IN  IsBatch(w) /\ w.reqs = work[t].reqs /\ w.tokens = w.reqs /\ ~w.prefill
    BY DEF OneToken, IsBatch, Types
  <2>3. ASSUME NEW t \in R
        PROVE  /\ pass'[t] > 1 /\ work'[t] = OneToken(work[t]) /\ (pass'[t] = 1) = FALSE /\ pass'[t] \in Nat
               /\ desc'[t] = determine_draft_batch_execution_and_padding(
                                   config, work'[t], status[t], FALSE, 0)
    <3>1. pass[t] \in Nat \ {0}
      BY DEF Types, Counted
    <3>2. pass'[t] = pass[t] + 1
      BY <2>1
    <3>3. pass'[t] > 1 /\ pass'[t] \in Nat /\ pass'[t] # 1
      BY <3>1, <3>2
    <3>4. (pass'[t] = 1) = FALSE
      BY <3>3
    <3>5. work'[t] = OneToken(work[t])
      BY <2>1
    <3> QED
      BY <2>1, <3>3, <3>4, <3>5
  <2>4. ASSUME NEW t \in Ranks, t \notin R
        PROVE  pass'[t] = pass[t] /\ work'[t] = work[t] /\ desc'[t] = desc[t]
    BY <2>1, <2>4
  <2>5. Types'
    <3>1. pass' \in [Ranks -> Nat]
      BY <2>1, <2>3 DEF Types
    <3>2. \A t \in Ranks : IsBatch(work'[t])
      BY <2>2, <2>3, <2>4 DEF Types
    <3>3. DOMAIN work' = Ranks /\ DOMAIN desc' = Ranks
      BY <2>1
    <3> QED
      BY <2>1, <3>1, <3>2, <3>3 DEF Types
  <2>6. \A t \in Ranks : InRound(t)' <=> InRound(t)
    BY <2>1 DEF InRound
  <2>7. Brought'
    BY <2>1, <2>2, <2>3, <2>4 DEF Brought
  <2>8. ASSUME NEW t \in R PROVE ~(pass'[t] <= 1) /\ pass'[t] # 0
    <3>1. pass'[t] > 1 /\ pass'[t] \in Nat
      BY <2>3
    <3> QED
      BY <3>1
  <2>9. Reported'
    BY <2>1, <2>4, <2>6, <2>8 DEF Reported
  <2>10. Counted'
    <3> SUFFICES ASSUME NEW t \in Ranks
                 PROVE  /\ pc[t] = "draft" <=> pass'[t] # 0
                        /\ pass'[t] > 1 => ~work'[t].prefill /\ work'[t].tokens = work'[t].reqs
      BY <2>1 DEF Counted
    <3>1. CASE t \in R
      <4>1. pc[t] = "draft" /\ pass'[t] # 0
        BY <2>8, <3>1
      <4>2. work'[t] = OneToken(work[t])
        BY <2>3, <3>1
      <4> QED
        BY <2>2, <4>1, <4>2
    <3>2. CASE t \notin R
      BY <2>4, <3>2 DEF Counted
    <3> QED
      BY <3>1, <3>2
  <2>11. Determined'
    BY <2>1, <2>3, <2>4 DEF Determined
  <2> QED
    BY <2>5, <2>7, <2>9, <2>10, <2>11
<1> QED
  BY <1>1, <1>2

(* No rank is in a round at the start.                                       *)
LEMMA InitKeeps == Init => IInv
<1> SUFFICES ASSUME Init PROVE IInv
  OBVIOUS
<1>1. IsBatch(NoWork)
  BY DEF IsBatch, NoWork, BatchOf
<1> QED
  BY <1>1 DEF Init, IInv, Types, Brought, Reported, Counted, Determined, InRound, Round

(* A step that changes nothing.                                              *)
LEMMA StutterKeeps == IInv /\ UNCHANGED vars => IInv'
<1> SUFFICES ASSUME IInv, UNCHANGED vars PROVE IInv'
  OBVIOUS
<1> USE DEF IInv, vars
<1>1. Ranks' = Ranks /\ \A r : InRound(r)' = InRound(r)
  BY DEF Ranks, InRound
<1>2. Types' /\ Brought'
  BY <1>1 DEF Types, Brought
<1>3. Reported' /\ Counted' /\ Determined'
  BY <1>1 DEF Reported, Counted, Determined
<1> QED
  BY <1>2, <1>3

(* The invariant holds in every state of every run of the ranks' loops:      *)
(* execute_model, the all-reduce, the target's pass and the drafter's.       *)
THEOREM Invariance == Spec => []IInv
<1>1. IInv /\ [Next]_vars => IInv'
  <2>1. ASSUME IInv, NEW r \in Ranks, DraftAlone(r) PROVE IInv'
    <3>1. {r} \in SUBSET Ranks /\ (\A q \in {r} : pc[q] = "draft") /\ EndPass({r})
      BY <2>1 DEF DraftAlone
    <3> QED
      BY <2>1, <3>1, EndPassKeeps
  <2>2. IInv /\ DraftTogether => IInv'
    BY EndPassKeeps DEF DraftTogether
  <2>3. ASSUME IInv, NEW r \in Ranks, RankStep(r) PROVE IInv'
    BY <2>1, <2>3, PrefillKeeps, DecodeKeeps, DummyKeeps, DecideKeeps, StartDraftKeeps DEF RankStep
  <2> QED
    BY <2>2, <2>3, AllReduceKeeps, ForwardKeeps, StutterKeeps DEF Next
<1> QED
  BY <1>1, InitKeeps, PTL DEF Spec

(* The ranks that meet in the collectives of a forward pass run it with the  *)
(* same number of tokens, whatever each of them brought: otherwise the       *)
(* all-gather and reduce-scatter of the experts would hang or mix rows.      *)
THEOREM OneDimension == Spec => []SameDimension
  BY Invariance, DimensionFollows, PTL

-----------------------------------------------------------------------------
(* Buckets.                                                                  *)

(* Dividing never makes a candidate larger.                                  *)
LEMMA CandidateFacts ==
    ASSUME NEW c \in Configs, c.strategy = "exponential"
    PROVE  \A k \in 0..(c.limit - 1) : Candidates(c)[k] \in 0..c.max
<1> DEFINE M == c.max
           L == c.limit - 1
           t == c.step
           Eq(f, n) == f = [k \in 0..n |-> IF k = 0 THEN M ELSE f[k - 1] \div t]
           Q == {n \in Nat : n <= L => \E f : Eq(f, n) /\ \A k \in 0..n : f[k] \in 0..M}
<1>1. M \in Nat \ {0} /\ L \in Nat /\ t \in Nat \ {0}
  BY ConfigsAssumption, FieldBounds
<1>2. Candidates(c) = CHOOSE f : Eq(f, L)
  BY DEF Candidates
<1> HIDE DEF M, L, t
<1>3. 0 \in Q
  <2> DEFINE f == [k \in 0..0 |-> M]
  <2>1. Eq(f, 0) /\ \A k \in 0..0 : f[k] \in 0..M
    BY <1>1
  <2> QED
    BY <2>1
<1>4. ASSUME NEW n \in Nat, n \in Q PROVE n + 1 \in Q
  <2>1. SUFFICES ASSUME n + 1 <= L PROVE \E f : Eq(f, n + 1) /\ \A k \in 0..(n + 1) : f[k] \in 0..M
    OBVIOUS
  <2>2. PICK f : Eq(f, n) /\ \A k \in 0..n : f[k] \in 0..M
    <3> HIDE DEF Eq
    <3>1. n <= L
      BY <1>1, <2>1
    <3> QED
      BY <1>4, <3>1
  <2> DEFINE g == [k \in 0..(n + 1) |-> IF k <= n THEN f[k] ELSE f[k - 1] \div t]
  <2>3. ASSUME NEW k \in 0..(n + 1)
        PROVE  g[k] = (IF k = 0 THEN M ELSE g[k - 1] \div t) /\ g[k] \in 0..M
    <3>1. CASE k = 0
      BY <2>2, <3>1
    <3>2. CASE k \in 1..n
      <4>1. k \in 0..n /\ k - 1 \in 0..n /\ k # 0 /\ k - 1 \in 0..(n + 1)
        BY <3>2
      <4>2. g[k] = f[k] /\ g[k - 1] = f[k - 1]
        BY <4>1
      <4>3. f[k] = f[k - 1] \div t /\ f[k] \in 0..M
        BY <2>2, <4>1
      <4> HIDE DEF g
      <4> QED
        BY <4>1, <4>2, <4>3
    <3>3. CASE k = n + 1
      <4>1. n \in 0..n /\ n \in 0..(n + 1) /\ ~(n + 1 <= n) /\ (n + 1) - 1 = n
        OBVIOUS
      <4>2. g[k] = f[n] \div t /\ g[n] = f[n] /\ f[n] \in 0..M
        BY <2>2, <3>3, <4>1
      <4>3. f[n] \div t \in 0..M
        <5> DEFINE a == f[n]
                   d == a \div t
        <5>1. a \in Nat /\ a <= M /\ a \in Int
          BY <1>1, <4>2
        <5> HIDE DEF a
        <5>2. d \in Int /\ d * t <= a /\ (0 * t <= a => 0 <= d)
          BY <1>1, <5>1, DivFacts, DivBounds
        <5>3. 0 * t = 0
          BY <1>1
        <5> HIDE DEF d
        <5>4. 0 <= d
          BY <5>1, <5>2, <5>3
        <5>5. d <= d * t /\ d * t \in Int
          BY <1>1, <5>2, <5>4
        <5>6. d \in 0..M
          BY <1>1, <5>1, <5>2, <5>4, <5>5
        <5> QED
          BY <5>6 DEF d, a
      <4> HIDE DEF g
      <4> QED
        BY <3>3, <4>1, <4>2, <4>3
    <3> QED
      BY <3>1, <3>2, <3>3
  <2>4. Eq(g, n + 1)
    BY <2>3
  <2>5. \A k \in 0..(n + 1) : g[k] \in 0..M
    BY <2>3
  <2> QED
    BY <2>4, <2>5
<1>5. L \in Q
  <2> HIDE DEF Q
  <2> QED
    BY <1>1, <1>3, <1>4, NatSetInduction
<1>6. PICK f : Eq(f, L) /\ \A k \in 0..L : f[k] \in 0..M
  <2> HIDE DEF Eq
  <2> QED
    BY <1>1, <1>5
<1> DEFINE h == Candidates(c)
<1>7. Eq(h, L)
  <2> HIDE DEF Eq
  <2> QED
    BY <1>2, <1>6
<1> HIDE DEF h
<1> DEFINE P == {n \in Nat : n <= L => h[n] = f[n]}
<1>8. 0 \in P
  BY <1>1, <1>6, <1>7
<1>9. ASSUME NEW n \in Nat, n \in P PROVE n + 1 \in P
  <2>1. SUFFICES ASSUME n + 1 <= L PROVE h[n + 1] = f[n + 1]
    OBVIOUS
  <2>2. h[n] = f[n] /\ n + 1 \in 0..L /\ n + 1 # 0 /\ (n + 1) - 1 = n
    BY <1>1, <1>9, <2>1
  <2>3. h[n + 1] = h[n] \div t
    BY <1>7, <2>2
  <2>4. f[n + 1] = f[n] \div t
    BY <1>6, <2>2
  <2> QED
    BY <2>2, <2>3, <2>4
<1>10. Nat \subseteq P
  <2> HIDE DEF P
  <2> QED
    BY <1>8, <1>9, NatSetInduction
<1>11. \A k \in 0..L : h[k] \in 0..M
  <2> HIDE DEF Eq
  <2> QED
    BY <1>1, <1>6, <1>10
<1> QED
  BY <1>11 DEF h, M, L

(* The buckets are batch sizes, and the largest is max_num_seqs.             *)
LEMMA BucketFacts ==
    ASSUME NEW c \in Configs
    PROVE  /\ decode_batch_buckets(c) \subseteq 1..c.max /\ c.max \in decode_batch_buckets(c)
           /\ c.max \in Nat \ {0} /\ Top(c) = c.max
<1> DEFINE M == c.max
           B == decode_batch_buckets(c)
<1>1. M \in Nat \ {0} /\ c.min \in 1..M
  BY ConfigsAssumption, FieldBounds
<1>2. B \subseteq 1..M /\ M \in B
  <2>1. CASE c.strategy = "exponential"
    <3>1. B = ExponentialBuckets(c)
      BY <2>1 DEF decode_batch_buckets
    <3>2. \A b \in ExponentialBuckets(c) : b = M \/ (b \in 0..M /\ b >= c.min)
      BY <2>1, CandidateFacts DEF ExponentialBuckets
    <3>3. M \in ExponentialBuckets(c)
      BY DEF ExponentialBuckets
    <3> QED
      BY <1>1, <3>1, <3>2, <3>3
  <2>2. CASE c.strategy = "linear"
    <3>1. B = LinearBuckets(c)
      BY <2>2 DEF decode_batch_buckets
    <3>2. c.step \in Nat /\ c.limit \in Nat \ {0}
      BY ConfigsAssumption
    <3>3. ASSUME NEW k \in 0..(c.limit - 1) PROVE c.step * k \in Int /\ c.step * k >= 0
      BY <3>2, MulFacts
    <3>4. ASSUME NEW b \in LinearBuckets(c) PROVE b = M \/ (b \in Int /\ b <= M /\ b >= c.min)
      <4>1. CASE b # M
        <5>1. PICK k \in 0..(c.limit - 1) : b = M - c.step * k
          BY <4>1 DEF LinearBuckets
        <5>2. b >= c.min
          BY <4>1 DEF LinearBuckets
        <5> DEFINE x == c.step * k
        <5>3. x \in Int /\ x >= 0 /\ b = M - x
          BY <3>3, <5>1
        <5> HIDE DEF x
        <5> QED
          BY <1>1, <5>2, <5>3
      <4> QED
        BY <4>1
    <3>5. M \in LinearBuckets(c)
      BY DEF LinearBuckets
    <3> QED
      BY <1>1, <3>1, <3>4, <3>5
  <2>3. CASE c.strategy = "manual"
    <3>1. B = c.manual
      BY <2>3 DEF decode_batch_buckets
    <3> QED
      BY <2>3, <3>1, ConfigsAssumption
  <2> QED
    BY <2>1, <2>2, <2>3, ConfigsAssumption
<1> HIDE DEF B, M
<1>3. Max(B) = M
  <2>1. B \in SUBSET Int /\ (\A b \in B : b <= M) /\ B # {} /\ M \in Int
    BY <1>1, <1>2
  <2>2. Max(B) \in B /\ \A b \in B : b <= Max(B)
    BY <2>1, MaxFacts
  <2> DEFINE m == Max(B)
  <2> HIDE DEF m
  <2>3. m \in 1..M /\ M <= m
    BY <1>2, <2>2 DEF m
  <2>4. m = M
    BY <1>1, <2>3
  <2> QED
    BY <2>4 DEF m
<1> QED
  BY <1>1, <1>2, <1>3 DEF Top, M, B

(* find_bucket: large enough, and a bucket is its own.                       *)
LEMMA FindBucket ==
    ASSUME NEW c \in Configs, NEW n \in 1..c.max
    PROVE  LET b == find_bucket(c, n)
           IN  /\ b \in decode_batch_buckets(c) /\ b \in 1..c.max /\ n <= b
               /\ n \in decode_batch_buckets(c) => b = n
<1> DEFINE B == decode_batch_buckets(c)
           I == {b \in B : b >= n}
<1>1. B \subseteq 1..c.max /\ c.max \in B /\ c.max \in Nat \ {0}
  BY BucketFacts
<1> HIDE DEF B
<1>2. I \in SUBSET Int /\ (\A b \in I : n <= b) /\ I # {} /\ n \in Int
  <2>1. c.max \in I
    BY <1>1
  <2>2. \A b \in I : b \in Int /\ n <= b
    BY <1>1
  <2> QED
    BY <2>1, <2>2
<1>3. Min(I) \in I /\ \A b \in I : Min(I) <= b
  <2> HIDE DEF I
  <2> QED
    BY <1>2, MinFacts
<1>4. find_bucket(c, n) = Min(I)
  BY DEF find_bucket, B
<1> DEFINE m == Min(I)
<1>5. m \in B /\ m \in 1..c.max /\ n <= m /\ (n \in B => m <= n)
  <2>1. n \in B => n \in I
    BY <1>1
  <2> HIDE DEF m
  <2>2. m \in I /\ \A b \in I : m <= b
    BY <1>3 DEF m
  <2> QED
    BY <1>1, <2>1, <2>2
<1> HIDE DEF m
<1>6. n \in B => m = n
  BY <1>1, <1>5
<1> QED
  BY <1>4, <1>5, <1>6 DEF m, B

-----------------------------------------------------------------------------
(* The all-reduce leaves every field as it was.                              *)

(* Two counts and two flags packed in one number, and read back.             *)
LEMMA FieldsApart ==
    ASSUME NEW A \in Nat \ {0}, NEW B \in Nat \ {0}, NEW H \in Nat, H = A * B,
           NEW n \in 0..(A - 1), NEW m \in 0..(B - 1), NEW p \in 0..1, NEW i \in 0..1,
           NEW a, a = n + m * A + p * H + i * (2 * H)
    PROVE  a % A = n /\ (a \div A) % B = m /\ (a \div (2 * H)) % 2 = i
<1> DEFINE y == p + 2 * i
           x == y * B + m
           low == n + m * A + p * H
<1>1. n \in Int /\ m \in Int /\ p \in Int /\ i \in Int /\ y \in Int /\ x \in Int /\ a \in Int
  OBVIOUS
<1>2. a = x * A + n
  <2>1. x * A = (y * B) * A + m * A
    BY <1>1, MulFacts
  <2>2. (y * B) * A = y * H
    BY <1>1
  <2>3. y * H = p * H + i * (2 * H)
    BY <1>1
  <2> DEFINE t == m * A
             u == p * H
             v == i * (2 * H)
  <2>4. t \in Int /\ u \in Int /\ v \in Int /\ x * A = (u + v) + t /\ a = n + t + u + v
    BY <1>1, <2>1, <2>2, <2>3
  <2> HIDE DEF t, u, v, x
  <2> QED
    BY <1>1, <2>4
<1>3. a % A = n /\ a \div A = x
  <2> HIDE DEF x
  <2> QED
    BY <1>1, <1>2, DivUnique
<1>4. x % B = m
  <2> HIDE DEF y
  <2> QED
    BY <1>1, DivUnique
<1>5. low \in Int /\ low >= 0 /\ low < 2 * H
  <2> DEFINE t == m * A
             b == B * A
  <2>1. t <= b - A /\ t >= 0 /\ t \in Int /\ b \in Int
    <3>1. m >= 0 /\ m <= B - 1 /\ B - 1 \in Int /\ A \in Nat
      OBVIOUS
    <3>2. t <= (B - 1) * A /\ t >= 0 /\ (B - 1) * A = b - A /\ t \in Int /\ b \in Int
      BY <1>1, <3>1, MulFacts
    <3> QED
      BY <3>2
  <2>2. b = H
    OBVIOUS
  <2>3. p * H \in 0..H
    <3>1. p = 0 \/ p = 1
      OBVIOUS
    <3> QED
      BY <3>1
  <2>4. n >= 0 /\ n < A
    OBVIOUS
  <2> DEFINE u == p * H
  <2>5. u \in Int /\ u >= 0 /\ u <= H /\ low = n + t + u
    BY <2>3
  <2> HIDE DEF t, b, u, low
  <2> QED
    BY <1>1, <2>1, <2>2, <2>4, <2>5
<1>6. a \div (2 * H) = i
  <2> DEFINE K == 2 * H
  <2>1. a = i * K + low /\ K \in Int
    <3> DEFINE t == i * K
    <3>1. a = low + t /\ t \in Int
      BY <1>1
    <3> HIDE DEF low, t
    <3>2. a = t + low
      BY <1>5, <3>1
    <3> QED
      BY <3>2 DEF t
  <2>2. low \in 0..(K - 1) /\ K \in Nat \ {0}
    <3> HIDE DEF low
    <3> QED
      BY <1>5
  <2> HIDE DEF K, low
  <2>3. a \div K = i
    BY <1>1, <2>1, <2>2, DivUnique
  <2> QED
    BY <2>3 DEF K
<1>7. i % 2 = i
  OBVIOUS
<1> QED
  BY <1>3, <1>4, <1>6, <1>7

(* The counts and the idle flag of an encoded batch.                         *)
LEMMA DecodedFields ==
    ASSUME NEW w \in Work, w.tokens <= MostTokens, w.reqs <= MostReqs
    PROVE  /\ Decode(Encode(w)).tokens = w.tokens /\ Decode(Encode(w)).reqs = w.reqs
           /\ Decode(Encode(w)).idle = w.idle
<1> DEFINE A == 2^16
           B == 2^13
           H == 2^29
           n == w.tokens
           m == w.reqs
           p == Flag(w.prefill)
           i == Flag(w.idle)
           a == Encode(w)
<1>1. n \in Nat /\ m \in Nat /\ p \in 0..1 /\ i \in 0..1 /\ w.idle \in BOOLEAN
  BY DEF Work, Flag
<1>2. (i = 1) = w.idle
  BY <1>1 DEF Flag
<1>3. A \in Nat \ {0} /\ B \in Nat \ {0} /\ H \in Nat /\ H = A * B /\ 2^30 = 2 * H
  BY SMT
<1>4. MostTokens = A - 1 /\ MostReqs = B - 1
  BY SMT DEF MostTokens, MostReqs
<1>5. a = n + m * A + p * H + i * 2^30
  BY DEF Encode
<1>6. /\ Decode(a).tokens = a % A /\ Decode(a).reqs = (a \div A) % B
      /\ Decode(a).idle = ((a \div 2^30) % 2 = 1)
  <2> HIDE DEF a
  <2> QED
    BY DEF Decode
<1> HIDE DEF A, B, H, p, i, a
<1>7. n \in 0..(A - 1) /\ m \in 0..(B - 1)
  BY <1>1, <1>3, <1>4
<1> HIDE DEF n, m
<1>8. a % A = n /\ (a \div A) % B = m /\ (a \div (2 * H)) % 2 = i
  <2> DEFINE K == 2^30
  <2>1. a = n + m * A + p * H + i * K /\ K = 2 * H
    BY <1>3, <1>5
  <2> HIDE DEF K
  <2>2. a = n + m * A + p * H + i * (2 * H)
    BY <2>1, Zenon
  <2>3. A \in Nat \ {0} /\ B \in Nat \ {0} /\ H \in Nat /\ H = A * B
    BY <1>3
  <2> QED
    BY <1>1, <1>7, <2>2, <2>3, FieldsApart
<1> QED
  BY <1>2, <1>3, <1>6, <1>8 DEF n, m, a

-----------------------------------------------------------------------------
(* The batches that ranks bring.                                             *)

(* A chunk of a prompt, a decode batch of a length that is warmed up, or the *)
(* dummy of an idle rank.                                                    *)
Brings(c, w) ==
    /\ w.reqs \in 1..c.max /\ w.prefill \in BOOLEAN /\ w.idle \in BOOLEAN
    /\ \/ w.prefill /\ ~w.idle /\ w.reqs = 1 /\ w.tokens \in 1..c.tokens
       \/ ~w.prefill /\ ~w.idle /\ \E q \in WarmLens(c) : w.tokens = w.reqs * q
       \/ ~w.prefill /\ w.idle /\ w.reqs = 1 /\ w.tokens = 1

(* What the ranks of a round reported, at least one of them with work.       *)
Group(c, s) ==
    /\ DOMAIN s # {} /\ Busy(s) # {} /\ \A i \in DOMAIN s : Brings(c, s[i])

(* What it says of one of them.                                              *)
Says(v, w) == /\ v.reqs = w.reqs /\ v.tokens = w.tokens
              /\ v.prefill = w.prefill /\ v.idle = w.idle

(* The lengths of a decode.                                                  *)
LEMMA WarmLensFacts ==
    ASSUME NEW c \in Configs
    PROVE  /\ WarmLens(c) \subseteq {1, c.spec + 1} /\ c.spec + 1 \in WarmLens(c)
           /\ WarmLens(c) \subseteq 1..(c.spec + 1) /\ c.spec \in Nat
           /\ uses_fixed_decode_window(c) => WarmLens(c) = {c.spec + 1} /\ c.spec > 0
           /\ ~uses_fixed_decode_window(c) => 1 \in WarmLens(c)
<1>1. c.spec \in Nat
  BY ConfigNumbers
<1>2. CASE c.spec = 0
  BY <1>1, <1>2 DEF WarmLens, uses_fixed_decode_window
<1>3. CASE c.spec # 0 /\ uses_fixed_decode_window(c)
  BY <1>1, <1>3 DEF WarmLens, uses_fixed_decode_window
<1>4. CASE c.spec # 0 /\ ~uses_fixed_decode_window(c)
  <2>1. WarmLens(c) = {1, c.spec + 1}
    BY <1>1, <1>4 DEF WarmLens
  <2> QED
    BY <1>1, <1>4, <2>1
<1> QED
  BY <1>2, <1>3, <1>4

(* The query length of a batch.                                              *)
LEMMA LenFacts ==
    ASSUME NEW c \in Configs, NEW w, Brings(c, w)
    PROVE  /\ w.reqs \in Nat \ {0} /\ QueryLen(w) \in Nat \ {0}
           /\ w.prefill => QueryLen(w) = w.tokens /\ w.tokens \in 1..c.tokens /\ ~w.idle
           /\ ~w.prefill /\ ~w.idle => QueryLen(w) \in WarmLens(c)
           /\ w.idle => ~w.prefill /\ QueryLen(w) = 1 /\ w.reqs = 1
<1> DEFINE n == w.reqs
<1>1. n \in Nat \ {0} /\ c.tokens \in Nat /\ c.spec \in Nat /\ 0 \in 0..(n - 1)
  <2>1. c.max \in Nat
    BY BucketFacts
  <2> QED
    BY <2>1, ConfigNumbers, FieldBounds DEF Brings
<1>2. ASSUME NEW q \in Nat \ {0}, w.tokens = n * q PROVE QueryLen(w) = q
  <2>1. w.tokens = q * n + 0 /\ w.tokens \in Int
    BY <1>1, <1>2
  <2> HIDE DEF n
  <2>2. w.tokens \div n = q
    BY <1>1, <2>1, DivUnique
  <2> QED
    BY <2>2 DEF QueryLen, n
<1>3. CASE w.prefill /\ ~w.idle /\ n = 1 /\ w.tokens \in 1..c.tokens
  <2>1. w.tokens \in Nat \ {0} /\ w.tokens = n * w.tokens
    BY <1>1, <1>3
  <2> QED
    BY <1>1, <1>2, <1>3, <2>1
<1>4. CASE ~w.prefill /\ ~w.idle /\ \E q \in WarmLens(c) : w.tokens = n * q
  <2>1. PICK q \in WarmLens(c) : w.tokens = n * q
    BY <1>4
  <2>2. q \in Nat \ {0}
    BY <1>1, WarmLensFacts
  <2>3. QueryLen(w) = q
    BY <1>2, <2>1, <2>2
  <2> QED
    BY <1>1, <1>4, <2>2, <2>3
<1>5. CASE ~w.prefill /\ w.idle /\ n = 1 /\ w.tokens = 1
  <2>1. QueryLen(w) = 1
    BY <1>2, <1>5
  <2> QED
    BY <1>1, <1>5, <2>1
<1> QED
  BY <1>3, <1>4, <1>5 DEF Brings

(* A number that bounds the lengths of every batch.                          *)
LEMMA DecodeFits ==
    ASSUME NEW c \in Configs, NEW b \in 1..c.max, NEW q \in 0..(c.spec + 1)
    PROVE  b * q \in Nat /\ b * q <= c.max * (c.spec + 1) /\ b * q <= c.tokens /\ c.tokens \in Nat \ {0}
<1>1. /\ c.max \in Nat \ {0} /\ c.spec \in Nat /\ c.tokens \in Nat \ {0}
      /\ c.max * (c.spec + 1) <= c.tokens
  BY BucketFacts, ConfigNumbers, FieldBounds
<1>2. b \in Nat /\ q \in Nat /\ q <= c.spec + 1
  BY <1>1
<1>3. b * q <= c.max * q
  BY <1>1, <1>2, MulFacts
<1>4. c.max * q <= c.max * (c.spec + 1)
  BY <1>1, <1>2
<1>5. b * q \in Nat /\ c.max * q \in Nat /\ c.max * (c.spec + 1) \in Nat
  BY <1>1, <1>2
<1> QED
  BY <1>1, <1>3, <1>4, <1>5

(* The largest batch and the longest query of a group.                       *)
LEMMA GroupFacts ==
    ASSUME NEW c \in Configs, NEW s, Group(c, s)
    PROVE  LET m == Max({s[i].reqs : i \in Busy(s)})
               all == Max({s[i].reqs : i \in DOMAIN s})
               q == Max(BusyLens(s))
           IN  /\ m \in 1..c.max /\ all \in 1..c.max /\ q \in BusyLens(s) /\ q \in Nat \ {0}
               /\ \A i \in Busy(s) : s[i].reqs <= m /\ QueryLen(s[i]) <= q
               /\ \A i \in DOMAIN s : s[i].reqs <= all
               /\ (~ \E i \in DOMAIN s : s[i].prefill) =>
                     BusyLens(s) \subseteq WarmLens(c)
<1> DEFINE M == {s[i].reqs : i \in Busy(s)}
           A == {s[i].reqs : i \in DOMAIN s}
           Q == BusyLens(s)
<1>1. c.max \in Nat \ {0} /\ c.tokens \in Nat \ {0} /\ c.spec \in Nat
  BY BucketFacts, ConfigNumbers, FieldBounds
<1>2. Busy(s) \subseteq DOMAIN s /\ Busy(s) # {} /\ DOMAIN s # {} /\ \A i \in DOMAIN s : s[i].reqs \in 1..c.max
  BY DEF Group, Busy, Brings
<1>3. /\ M \in SUBSET Int /\ M # {} /\ M \subseteq 1..c.max /\ (\A x \in M : x <= c.max)
      /\ A \in SUBSET Int /\ A # {} /\ A \subseteq 1..c.max /\ (\A x \in A : x <= c.max)
  BY <1>1, <1>2
<1>4. ASSUME NEW i \in Busy(s)
      PROVE  /\ QueryLen(s[i]) \in Nat \ {0} /\ QueryLen(s[i]) <= c.tokens + c.spec + 1
             /\ ~s[i].prefill => QueryLen(s[i]) \in WarmLens(c)
  <2>1. Brings(c, s[i]) /\ ~s[i].idle
    BY DEF Group, Busy
  <2> DEFINE w == s[i]
  <2> HIDE DEF w
  <2>2. Brings(c, w) /\ ~w.idle
    BY <2>1 DEF w
  <2>3. /\ QueryLen(w) \in Nat \ {0} /\ (w.prefill => QueryLen(w) = w.tokens /\ w.tokens \in 1..c.tokens)
        /\ ~w.prefill => QueryLen(w) \in WarmLens(c)
    BY <2>2, LenFacts
  <2>4. WarmLens(c) \subseteq 1..(c.spec + 1) /\ w.prefill \in BOOLEAN
    BY <2>2, WarmLensFacts DEF Brings
  <2>5. QueryLen(w) <= c.tokens + c.spec + 1
    BY <1>1, <2>3, <2>4
  <2> QED
    BY <2>3, <2>5 DEF w
<1>5. Q \in SUBSET Int /\ Q # {} /\ Q \subseteq Nat \ {0} /\ (\A x \in Q : x <= c.tokens + c.spec + 1)
  BY <1>2, <1>4 DEF BusyLens
<1>6. c.tokens + c.spec + 1 \in Int /\ c.max \in Int
  BY <1>1
<1>7. \A i \in Busy(s) : s[i].reqs \in M /\ QueryLen(s[i]) \in Q
  BY DEF BusyLens
<1>8. \A i \in DOMAIN s : s[i].reqs \in A
  OBVIOUS
<1>9. (~ \E i \in DOMAIN s : s[i].prefill) => Q \subseteq WarmLens(c)
  BY <1>2, <1>4 DEF BusyLens
<1> HIDE DEF M, A, Q
<1>10. Max(M) \in M /\ \A x \in M : x <= Max(M)
  BY <1>3, <1>6, MaxFacts
<1>11. Max(A) \in A /\ \A x \in A : x <= Max(A)
  BY <1>3, <1>6, MaxFacts
<1>12. Max(Q) \in Q /\ \A x \in Q : x <= Max(Q)
  <2> DEFINE N == c.tokens + c.spec + 1
  <2>1. N \in Int /\ Q \in SUBSET Int /\ Q # {} /\ \A x \in Q : x <= N
    BY <1>5, <1>6
  <2> HIDE DEF N
  <2> QED
    BY <2>1, MaxFacts
<1>13. Max(M) \in 1..c.max /\ Max(A) \in 1..c.max /\ Max(Q) \in Nat \ {0}
  BY <1>3, <1>5, <1>10, <1>11, <1>12
<1>14. /\ \A i \in Busy(s) : s[i].reqs <= Max(M) /\ QueryLen(s[i]) <= Max(Q)
       /\ \A i \in DOMAIN s : s[i].reqs <= Max(A)
  BY <1>7, <1>8, <1>10, <1>11, <1>12
<1> QED
  BY <1>9, <1>12, <1>13, <1>14 DEF M, A, Q

-----------------------------------------------------------------------------
(* What a rank knows in a round.                                             *)

(* The batch of a draft's first pass: a dummy takes the length decided.      *)
Drafted(c, w) ==
    \/ Brings(c, w)
    \/ /\ ~w.prefill /\ w.idle /\ w.reqs = 1 /\ w.reqs \in 1..c.max
       /\ w.tokens \in {1, c.spec + 1}

(* Rank r in pass n with batch w, having read the status s.                  *)
Heard(c, r, s, w, n) ==
    /\ w.reqs \in 1..c.max /\ w.prefill \in BOOLEAN
    /\ c.dp = 1 => DOMAIN s = {}
    /\ c.dp # 1 => /\ r \in DOMAIN s /\ \A i \in DOMAIN s : Brings(c, s[i])
                   /\ s[r].reqs = w.reqs /\ s[r].idle = w.idle
                   /\ n <= 1 => s[r].prefill = w.prefill
                   /\ n <= 1 /\ ~w.idle => s[r].tokens = w.tokens
    /\ n = 0 => Brings(c, w)
    /\ n = 1 => Drafted(c, w)
    /\ n > 1 => OneEach(w) /\ c.spec > 1
    /\ n > 0 => uses_fixed_decode_window(c)

(* Rank r at place p of its loop: its batch is one that a rank may bring,    *)
(* and past its decision some rank has work.                                 *)
Knows(c, r, p, s, w, n, d) ==
    /\ p = "reduce" => Brings(c, w)
    /\ p \in {"loop", "reduce"} /\ c.dp = 1 => DOMAIN s = {}
    /\ p \in Round => Heard(c, r, s, w, n)
    /\ p \in Round /\ p # "decide" /\ c.dp # 1 => Busy(s) # {}
    /\ p = "drafting" /\ w.idle => d.q \in {1, c.spec + 1}

(* It holds of every rank.                                                   *)
Informed == \A r \in Ranks : Knows(config, r, pc[r], status[r], work[r], pass[r], desc[r])

(* The cases of the target's shape.                                          *)
LEMMA TargetCases ==
    ASSUME NEW c, NEW w, NEW s
    PROVE  LET D == determine_batch_execution_and_padding(c, w, s, 0)
               busy == DOMAIN s # {} /\ Busy(s) # {}
               any == \E i \in DOMAIN s : s[i].prefill
           IN  /\ DOMAIN s = {} => D = Shape(LocalReqs(c, w), QueryLen(w), 0)
               /\ DOMAIN s # {} /\ Busy(s) = {} => D = NoShape
               /\ busy /\ ~c.specialized => D = Shape(LocalReqs(c, w), QueryLen(w), c.tokens)
               /\ busy /\ c.specialized /\ any => D = AnyPrefill(c, w)
               /\ busy /\ c.specialized /\ ~any =>
                    D = IF Cardinality(BusyLens(s)) > 1 THEN QlenAsym(c, w, s) ELSE Agreed(c, s)
<1> DEFINE D == determine_batch_execution_and_padding(c, w, s, 0)
           any == \E i \in DOMAIN s : s[i].prefill
<1>2. ASSUME DOMAIN s = {} PROVE D = Shape(LocalReqs(c, w), QueryLen(w), 0)
  BY <1>2 DEF determine_batch_execution_and_padding
<1>3. ASSUME DOMAIN s # {}, Busy(s) = {} PROVE D = NoShape
  BY <1>3 DEF determine_batch_execution_and_padding
<1>4. ASSUME DOMAIN s # {}, Busy(s) # {}, ~c.specialized
      PROVE  D = Shape(LocalReqs(c, w), QueryLen(w), c.tokens)
  BY <1>4 DEF determine_batch_execution_and_padding
<1>5. ASSUME DOMAIN s # {}, Busy(s) # {}, c.specialized, any PROVE D = AnyPrefill(c, w)
  BY <1>5 DEF determine_batch_execution_and_padding
<1>6. ASSUME DOMAIN s # {}, Busy(s) # {}, c.specialized, ~any
      PROVE  D = IF Cardinality(BusyLens(s)) > 1 THEN QlenAsym(c, w, s) ELSE Agreed(c, s)
  BY <1>6 DEF determine_batch_execution_and_padding
<1> QED
  BY <1>2, <1>3, <1>4, <1>5, <1>6

(* The draft's first pass and the later ones.                                *)
First(c, w, s, pin) == determine_draft_batch_execution_and_padding(c, w, s, TRUE, pin)
Later(c, w, s, pin) == determine_draft_batch_execution_and_padding(c, w, s, FALSE, pin)

(* The rows of a draft pass that no prefill joins, and its longest query.    *)
AllReqs(s) == {s[i].reqs : i \in DOMAIN s}
AllLens(s) == {QueryLen(s[i]) : i \in DOMAIN s}
Joint(c, s) == find_bucket(c, Max(AllReqs(s)))

(* A dimension, unless warm-up pins it.                                      *)
Dim(pin, t) == IF pin = 0 THEN t ELSE pin

(* The cases of the first pass's shape.                                      *)
LEMMA FirstCases ==
    ASSUME NEW c, NEW w, NEW s, NEW pin
    PROVE  LET D == First(c, w, s, pin)
               any == \E i \in DOMAIN s : s[i].prefill
               n == LocalReqs(c, w)
               q == QueryLen(w)
           IN  /\ DOMAIN s = {} => D = Shape(n, q, pin)
               /\ DOMAIN s # {} /\ ~c.moe => D = Shape(n, q, Dim(pin, n * q))
               /\ DOMAIN s # {} /\ c.moe /\ (w.prefill \/ ~c.specialized) => D = Shape(n, q, Dim(pin, c.tokens))
               /\ DOMAIN s # {} /\ c.moe /\ ~w.prefill /\ c.specialized /\ any =>
                    D = Shape(Top(c), q, Dim(pin, c.tokens))
               /\ DOMAIN s # {} /\ c.moe /\ ~w.prefill /\ c.specialized /\ ~any =>
                    D = Shape(Joint(c, s), q, Dim(pin, Joint(c, s) * Max(AllLens(s))))
<1> DEFINE D == First(c, w, s, pin)
           any == \E i \in DOMAIN s : s[i].prefill
           n == LocalReqs(c, w)
           q == QueryLen(w)
<1>1. ASSUME DOMAIN s = {} PROVE D = Shape(n, q, pin)
  BY <1>1 DEF First, determine_draft_batch_execution_and_padding
<1>2. ASSUME DOMAIN s # {}, ~c.moe PROVE D = Shape(n, q, Dim(pin, n * q))
  BY <1>2 DEF First, determine_draft_batch_execution_and_padding, Dim
<1>3. ASSUME DOMAIN s # {}, c.moe, w.prefill \/ ~c.specialized PROVE D = Shape(n, q, Dim(pin, c.tokens))
  BY <1>3 DEF First, determine_draft_batch_execution_and_padding, Dim
<1>4. ASSUME DOMAIN s # {}, c.moe, ~w.prefill, c.specialized, any
      PROVE  D = Shape(Top(c), q, Dim(pin, c.tokens))
  BY <1>4 DEF First, determine_draft_batch_execution_and_padding, Dim
<1>5. ASSUME DOMAIN s # {}, c.moe, ~w.prefill, c.specialized, ~any
      PROVE  D = Shape(Joint(c, s), q, Dim(pin, Joint(c, s) * Max(AllLens(s))))
  <2>1. DraftReqs(c, w, s) = Joint(c, s)
    BY DEF DraftReqs, Joint, AllReqs
  <2>2. DraftLens(w, s, TRUE) = AllLens(s)
    BY DEF DraftLens, AllLens
  <2>3. D = Shape(DraftReqs(c, w, s), q, Dim(pin, DraftReqs(c, w, s) * Max(DraftLens(w, s, TRUE))))
    BY <1>5 DEF First, determine_draft_batch_execution_and_padding, Dim
  <2> QED
    BY <2>1, <2>2, <2>3
<1> QED
  BY <1>1, <1>2, <1>3, <1>4, <1>5

(* The cases of a later pass's shape.                                        *)
LEMMA LaterCases ==
    ASSUME NEW c, NEW w, ~w.prefill, NEW s
    PROVE  LET D == Later(c, w, s, 0)
               n == LocalReqs(c, w)
               q == QueryLen(w)
           IN  /\ DOMAIN s = {} => D = Shape(n, q, 0)
               /\ DOMAIN s # {} /\ ~c.moe => D = Shape(n, q, n * q)
               /\ DOMAIN s # {} /\ c.moe /\ ~c.specialized => D = Shape(n, q, c.tokens)
               /\ DOMAIN s # {} /\ c.moe /\ c.specialized =>
                    D = Shape(Joint(c, s), q, Joint(c, s) * Max({q}))
<1> DEFINE D == Later(c, w, s, 0)
           n == LocalReqs(c, w)
           q == QueryLen(w)
<1>1. ASSUME DOMAIN s = {} PROVE D = Shape(n, q, 0)
  BY <1>1 DEF Later, determine_draft_batch_execution_and_padding
<1>2. ASSUME DOMAIN s # {}, ~c.moe PROVE D = Shape(n, q, n * q)
  BY <1>2 DEF Later, determine_draft_batch_execution_and_padding
<1>3. ASSUME DOMAIN s # {}, c.moe, ~c.specialized PROVE D = Shape(n, q, c.tokens)
  BY <1>3 DEF Later, determine_draft_batch_execution_and_padding
<1>4. ASSUME DOMAIN s # {}, c.moe, c.specialized
      PROVE  D = Shape(Joint(c, s), q, Joint(c, s) * Max({q}))
  <2>1. DraftReqs(c, w, s) = Joint(c, s)
    BY DEF DraftReqs, Joint, AllReqs
  <2>2. DraftLens(w, s, FALSE) = {q}
    BY <1>4 DEF DraftLens
  <2>3. D = Shape(DraftReqs(c, w, s), q, DraftReqs(c, w, s) * Max(DraftLens(w, s, FALSE)))
    BY <1>4 DEF Later, determine_draft_batch_execution_and_padding
  <2> QED
    BY <2>1, <2>2, <2>3
<1> QED
  BY <1>1, <1>2, <1>3, <1>4

(* The graph that a target pass of a shape is looked up by.                  *)
TKey(n, p, q, t) ==
    [model |-> "target", reqs |-> n, prefill |-> p, q |-> q, tokens |-> t, indices |-> p]
PrefillGraph(n, q, t) == TKey(n, TRUE, q, t)
DecodeGraph(n, q, t) == TKey(n, FALSE, q, t)

(* And a draft pass: over a prompt, over a decode and the later ones.        *)
DKey(n, p, q, t, first) ==
    [model |-> "draft", reqs |-> n, prefill |-> p, q |-> q, tokens |-> t, indices |-> first]
PromptKey(n, q, t) == DKey(n, TRUE, q, t, TRUE)
FirstKey(n, q, t) == DKey(n, FALSE, q, t, TRUE)
LaterKey(n, q, t) == DKey(n, FALSE, q, t, FALSE)

-----------------------------------------------------------------------------
(* The graphs of warm-up.                                                    *)

(* The largest of one.                                                       *)
LEMMA MaxOne ==
    ASSUME NEW x \in Int
    PROVE  Max({x}) = x
<1> DEFINE S == {x}
<1>1. S \in SUBSET Int /\ S # {} /\ \A y \in S : y <= x
  OBVIOUS
<1> HIDE DEF S
<1>2. Max(S) \in S
  BY <1>1, MaxFacts
<1> QED
  BY <1>2 DEF S

(* A batch of n requests of q tokens.                                        *)
LEMMA BatchFacts ==
    ASSUME NEW n \in Nat \ {0}, NEW q \in Nat \ {0}, NEW p \in BOOLEAN
    PROVE  LET w == Batch(n, q, p)
           IN  /\ w.reqs = n /\ w.tokens = n * q /\ w.prefill = p /\ w.idle = FALSE
               /\ QueryLen(w) = q
               /\ OneToken(w).reqs = n /\ OneToken(w).tokens = n /\ OneToken(w).prefill = FALSE
               /\ QueryLen(OneToken(w)) = 1
<1> DEFINE w == Batch(n, q, p)
<1>1. w.reqs = n /\ w.tokens = n * q /\ w.prefill = p /\ w.idle = FALSE
  BY DEF Batch, BatchOf
<1>2. OneToken(w).reqs = n /\ OneToken(w).tokens = n /\ OneToken(w).prefill = FALSE
  BY DEF Batch, BatchOf, OneToken
<1>3. (n * q) \div n = q
  <2> DEFINE a == n * q
  <2>1. a \in Int /\ a = q * n + 0 /\ 0 \in 0..(n - 1)
    OBVIOUS
  <2> HIDE DEF a
  <2>2. a \div n = q
    BY <2>1, DivUnique
  <2> QED
    BY <2>2 DEF a
<1>4. n \div n = 1
  OBVIOUS
<1> HIDE DEF w
<1> QED
  BY <1>1, <1>2, <1>3, <1>4 DEF QueryLen, w

(* What the ranks read when all of them warm up the same batch.              *)
LEMMA WarmRead ==
    ASSUME NEW c \in Configs, NEW w, ~w.idle
    PROVE  LET s == WarmStatus(c, w)
           IN  /\ c.dp = 1 => DOMAIN s = {}
               /\ c.dp # 1 =>
                    /\ DOMAIN s # {} /\ Busy(s) # {} /\ BusyLens(s) = {QueryLen(w)}
                    /\ {s[i].reqs : i \in Busy(s)} = {w.reqs}
                    /\ AllReqs(s) = {w.reqs} /\ AllLens(s) = {QueryLen(w)}
                    /\ (\E i \in DOMAIN s : s[i].prefill) <=> w.prefill
<1> DEFINE s == WarmStatus(c, w)
<1>1. CASE c.dp = 1
  BY <1>1 DEF WarmStatus
<1>2. CASE c.dp # 1
  <2> DEFINE R == 0 .. c.dp - 1
  <2>1. c.dp \in Nat \ {0}
    BY ConfigNumbers
  <2>2. s = [i \in R |-> w] /\ 0 \in R
    BY <1>2, <2>1 DEF WarmStatus
  <2> HIDE DEF R
  <2>3. DOMAIN s = R /\ \A i \in R : s[i] = w
    BY <2>2
  <2> HIDE DEF s
  <2>4. Busy(s) = R
    BY <2>3 DEF Busy
  <2>5. BusyLens(s) = {QueryLen(w)}
    BY <2>2, <2>3, <2>4 DEF BusyLens
  <2>6. {s[i].reqs : i \in R} = {w.reqs} /\ ((\E i \in R : s[i].prefill) <=> w.prefill)
    BY <2>2, <2>3
  <2>7. AllReqs(s) = {w.reqs} /\ AllLens(s) = {QueryLen(w)}
    BY <2>2, <2>3 DEF AllReqs, AllLens
  <2>8. R # {}
    BY <2>2
  <2>9. /\ DOMAIN s # {} /\ Busy(s) # {}
        /\ {s[i].reqs : i \in Busy(s)} = {w.reqs}
        /\ (\E i \in DOMAIN s : s[i].prefill) <=> w.prefill
    BY <2>3, <2>4, <2>6, <2>8
  <2> QED
    BY <1>2, <2>5, <2>7, <2>9 DEF s
<1> QED
  BY <1>1, <1>2

(* A window that is warmed up is staged as it is.                            *)
LEMMA StagedWarm ==
    ASSUME NEW c \in Configs, NEW w, ~w.prefill, NEW d,
           d.q \in WarmLens(c) \/ d.q = 1
    PROVE  /\ Staged(c, w, d) \in WarmLens(c)
           /\ d.q \in WarmLens(c) => Staged(c, w, d) = d.q
<1> DEFINE F == uses_fixed_decode_window(c)
           N == c.spec + 1
<1>1. /\ N \in WarmLens(c) /\ WarmLens(c) \subseteq {1, N} /\ N \in Nat \ {0}
      /\ F => WarmLens(c) = {N}
      /\ ~F => 1 \in WarmLens(c)
  BY WarmLensFacts
<1>2. CASE ~F
  BY <1>1, <1>2 DEF Staged
<1>3. CASE F
  <2> HIDE DEF N
  <2>1. Staged(c, w, d) = Max({d.q, N})
    BY <1>3 DEF Staged, N
  <2> DEFINE S == {d.q, N}
  <2>2. S \in SUBSET Int /\ S # {} /\ (\A y \in S : y <= N) /\ N \in S /\ N \in Int
    BY <1>1
  <2> HIDE DEF S
  <2>3. Max(S) \in S /\ N <= Max(S)
    BY <2>2, MaxFacts
  <2>4. Max(S) <= N /\ Max(S) \in Int
    BY <2>2, <2>3
  <2>5. Max(S) = N
    BY <2>2, <2>3, <2>4
  <2> QED
    BY <1>1, <1>3, <2>1, <2>5 DEF S
<1> QED
  BY <1>2, <1>3

(* A deployment's numbers, as the graphs use them.                           *)
LEMMA ShapeNumbers ==
    ASSUME NEW c \in Configs
    PROVE  /\ c.max \in Nat \ {0} /\ c.tokens \in Nat \ {0} /\ c.spec \in Nat
           /\ c.spec + 1 \in Nat \ {0}
           /\ \A b \in decode_batch_buckets(c) :
                 b \in Nat \ {0} /\ b \in 1..c.max /\ find_bucket(c, b) = b
           /\ Top(c) = c.max /\ Top(c) \in decode_batch_buckets(c)
<1>1. /\ decode_batch_buckets(c) \subseteq 1..c.max /\ c.max \in decode_batch_buckets(c)
      /\ c.max \in Nat \ {0} /\ Top(c) = c.max
  BY BucketFacts
<1>2. c.tokens \in Nat \ {0} /\ c.spec \in Nat
  BY ConfigNumbers, FieldBounds
<1>3. ASSUME NEW b \in decode_batch_buckets(c)
      PROVE  b \in Nat \ {0} /\ b \in 1..c.max /\ find_bucket(c, b) = b
  <2>1. b \in 1..c.max /\ b \in Nat \ {0}
    BY <1>1
  <2> QED
    BY <2>1, FindBucket
<1> QED
  BY <1>1, <1>2, <1>3

(* Every run of warm-up leaves its target's graph.                           *)
LEMMA RunsLeaveTarget ==
    ASSUME NEW c, NEW w, NEW pin, <<w, pin>> \in SymmetricRuns(c) \cup AsymmetricRuns(c)
    PROVE  TargetKey(c, w, determine_batch_execution_and_padding(c, w, WarmStatus(c, w), pin))
               \in warmup_model(c)
  BY DEF warmup_model, TargetGraphs

(* A prompt's chunk, staged at the full length.                              *)
LEMMA PrefillKey ==
    ASSUME NEW c \in Configs
    PROVE  PrefillGraph(1, c.tokens, IF c.dp = 1 THEN 0 ELSE c.tokens) \in warmup_model(c)
<1> DEFINE w == Batch(1, c.tokens, TRUE)
           s == WarmStatus(c, w)
           d == determine_batch_execution_and_padding(c, w, s, 0)
<1>1. c.tokens \in Nat \ {0} /\ 1 \in Nat \ {0}
  BY ShapeNumbers
<1>2. w.reqs = 1 /\ w.prefill /\ ~w.idle /\ QueryLen(w) = c.tokens /\ LocalReqs(c, w) = 1
  BY <1>1, BatchFacts, ZenonT(40) DEF LocalReqs
<1>3. TargetKey(c, w, d) \in warmup_model(c)
  <2>1. <<w, 0>> \in SymmetricRuns(c)
    BY DEF SymmetricRuns
  <2> HIDE DEF w
  <2> QED
    BY <2>1, RunsLeaveTarget
<1> HIDE DEF w
<1>4. d = Shape(1, c.tokens, IF c.dp = 1 THEN 0 ELSE c.tokens)
  <2>1. CASE c.dp = 1
    <3>1. DOMAIN s = {}
      BY <1>2, <2>1, WarmRead
    <3> HIDE DEF s
    <3> QED
      BY <1>2, <2>1, <3>1, TargetCases
  <2>2. CASE c.dp # 1
    <3>1. DOMAIN s # {} /\ Busy(s) # {} /\ \E i \in DOMAIN s : s[i].prefill
      BY <1>2, <2>2, WarmRead
    <3> HIDE DEF s
    <3>2. AnyPrefill(c, w) = Shape(1, c.tokens, c.tokens)
      BY <1>2 DEF AnyPrefill
    <3>3. CASE c.specialized
      BY <2>2, <3>1, <3>2, <3>3, TargetCases
    <3>4. CASE ~c.specialized
      BY <1>2, <2>2, <3>1, <3>4, TargetCases
    <3> QED
      BY <3>3, <3>4
  <2> QED
    BY <2>1, <2>2
<1> HIDE DEF d
<1>5. TargetKey(c, w, d) = PrefillGraph(1, c.tokens, IF c.dp = 1 THEN 0 ELSE c.tokens)
  <2>1. w.prefill = TRUE
    BY <1>2, BatchFacts, <1>1 DEF w
  <2> QED
    BY <1>4, <2>1 DEF TargetKey, TKey, PrefillGraph, DecodeGraph, Shape
<1> QED
  BY <1>3, <1>5

(* A decode batch: the bucket, and a length of its own.                      *)
LEMMA DecodeKey ==
    ASSUME NEW c \in Configs, NEW b \in decode_batch_buckets(c), NEW q \in WarmLens(c)
    PROVE  DecodeGraph(b, q, IF c.dp = 1 THEN 0 ELSE IF ~c.specialized THEN c.tokens ELSE b * q)
               \in warmup_model(c)
<1> DEFINE w == Batch(b, q, FALSE)
           s == WarmStatus(c, w)
           d == determine_batch_execution_and_padding(c, w, s, 0)
           t == IF c.dp = 1 THEN 0 ELSE IF ~c.specialized THEN c.tokens ELSE b * q
<1>1. b \in Nat \ {0} /\ q \in Nat \ {0} /\ find_bucket(c, b) = b /\ b \in Int /\ q \in Int
  BY ShapeNumbers, WarmLensFacts
<1>2. w.reqs = b /\ w.prefill = FALSE /\ ~w.idle /\ QueryLen(w) = q /\ LocalReqs(c, w) = b
  BY <1>1, BatchFacts DEF LocalReqs
<1>3. TargetKey(c, w, d) \in warmup_model(c)
  <2>1. <<w, 0>> = DecodeRun(b, q, 0)
    BY DEF DecodeRun
  <2>2. DecodeRun(b, q, 0) \in SymmetricRuns(c)
    <3> DEFINE p == <<Batch(1, c.tokens, TRUE), 0>>
    <3>1. SymmetricRuns(c) = {p} \cup {DecodeRun(x, y, 0) : x \in decode_batch_buckets(c), y \in WarmLens(c)}
      BY DEF SymmetricRuns
    <3> HIDE DEF p
    <3> QED
      BY <3>1, SMT
  <2> HIDE DEF w
  <2> QED
    BY <2>1, <2>2, RunsLeaveTarget
<1> HIDE DEF w
<1>4. d = Shape(b, q, t)
  <2>1. CASE c.dp = 1
    <3>1. DOMAIN s = {}
      BY <1>2, <2>1, WarmRead
    <3> HIDE DEF s
    <3> QED
      BY <1>2, <2>1, <3>1, TargetCases
  <2>2. CASE c.dp # 1
    <3>1. /\ DOMAIN s # {} /\ Busy(s) # {} /\ ~ \E i \in DOMAIN s : s[i].prefill
          /\ BusyLens(s) = {q} /\ {s[i].reqs : i \in Busy(s)} = {b}
      BY <1>2, <2>2, WarmRead
    <3> HIDE DEF s
    <3>2. Agreed(c, s) = Shape(b, q, b * q)
      BY <1>1, <3>1, MaxOne DEF Agreed
    <3>3. ~(Cardinality(BusyLens(s)) > 1)
      <4>1. Cardinality({q}) = 1
        BY FS_Singleton
      <4> QED
        BY <3>1, <4>1
    <3>4. CASE c.specialized
      BY <2>2, <3>1, <3>2, <3>3, <3>4, TargetCases
    <3>5. CASE ~c.specialized
      BY <1>2, <2>2, <3>1, <3>5, TargetCases
    <3> QED
      BY <3>4, <3>5
  <2> QED
    BY <2>1, <2>2
<1> HIDE DEF d, t
<1>5. d.reqs = b /\ d.q = q /\ d.tokens = t
  BY <1>4 DEF Shape
<1>6. Staged(c, w, d) = q
  BY <1>2, <1>5, StagedWarm
<1>7. TargetKey(c, w, d) = DecodeGraph(b, q, t)
  BY <1>2, <1>5, <1>6 DEF TargetKey, TKey, PrefillGraph, DecodeGraph
<1> QED
  BY <1>3, <1>7 DEF t

(* A run with a pinned dimension.                                            *)
LEMMA PinnedKey ==
    ASSUME NEW c \in Configs, NEW q \in Nat \ {0}, NEW pin, pin # 0,
           q \in WarmLens(c), DecodeRun(Top(c), q, pin) \in AsymmetricRuns(c)
    PROVE  DecodeGraph(Top(c), q, pin) \in warmup_model(c)
<1> DEFINE w == Batch(Top(c), q, FALSE)
           s == WarmStatus(c, w)
           d == determine_batch_execution_and_padding(c, w, s, pin)
<1>1. Top(c) \in Nat \ {0} /\ find_bucket(c, Top(c)) = Top(c)
  BY ShapeNumbers
<1>2. w.reqs = Top(c) /\ w.prefill = FALSE /\ ~w.idle /\ QueryLen(w) = q /\ LocalReqs(c, w) = Top(c)
  BY <1>1, BatchFacts DEF LocalReqs
<1>3. TargetKey(c, w, d) \in warmup_model(c)
  <2>1. <<w, pin>> \in AsymmetricRuns(c)
    BY DEF DecodeRun
  <2> HIDE DEF w
  <2> QED
    BY <2>1, RunsLeaveTarget
<1> HIDE DEF w
<1>4. d = Shape(Top(c), q, pin)
  <2> HIDE DEF s
  <2>1. d = Shape(LocalReqs(c, w), QueryLen(w), pin)
    BY DEF determine_batch_execution_and_padding
  <2> QED
    BY <1>2, <2>1
<1> HIDE DEF d
<1>5. d.reqs = Top(c) /\ d.q = q /\ d.tokens = pin
  BY <1>4 DEF Shape
<1>6. Staged(c, w, d) = q
  BY <1>2, <1>5, StagedWarm
<1>7. TargetKey(c, w, d) = DecodeGraph(Top(c), q, pin)
  BY <1>2, <1>5, <1>6 DEF TargetKey, TKey, PrefillGraph, DecodeGraph
<1> QED
  BY <1>3, <1>7

(* The decode beside a peer's prefill.                                       *)
LEMMA TopKey ==
    ASSUME NEW c \in Configs, c.dp # 1, c.specialized, NEW q \in WarmLens(c)
    PROVE  DecodeGraph(Top(c), q, c.tokens) \in warmup_model(c)
<1>1. q \in Nat \ {0} /\ c.tokens # 0
  BY ShapeNumbers, WarmLensFacts
<1>2. DecodeRun(Top(c), q, c.tokens) \in AsymmetricRuns(c)
  BY DEF AsymmetricRuns
<1> QED
  BY <1>1, <1>2, PinnedKey

(* The one-token decode beside a speculating peer.                           *)
LEMMA AsymKey ==
    ASSUME NEW c \in Configs, c.dp # 1, c.specialized, c.spec > 0, ~uses_fixed_decode_window(c)
    PROVE  DecodeGraph(Top(c), 1, Top(c) * (c.spec + 1)) \in warmup_model(c)
<1>1. 1 \in WarmLens(c) /\ 1 \in Nat \ {0}
  BY WarmLensFacts
<1>2. Top(c) * (c.spec + 1) # 0
  <2>1. Top(c) \in Nat \ {0} /\ c.spec + 1 \in Nat \ {0}
    BY ShapeNumbers
  <2> DEFINE a == Top(c)
             e == c.spec + 1
  <2> HIDE DEF a, e
  <2>2. a * e # 0
    BY <2>1 DEF a, e
  <2> QED
    BY <2>2 DEF a, e
<1>3. DecodeRun(Top(c), 1, Top(c) * (c.spec + 1)) \in AsymmetricRuns(c)
  BY DEF AsymmetricRuns
<1> QED
  BY <1>1, <1>2, <1>3, PinnedKey

(* The graphs of the first pass and of the later ones.                       *)
Opening(c, w, d) == DraftKey(c, w, d, TRUE)
Closing(c, w, d) == DraftKey(c, w, d, FALSE)

(* What they are.                                                            *)
LEMMA DraftKeys ==
    ASSUME NEW c, NEW w, w.prefill \in BOOLEAN, NEW d
    PROVE  LET t == IF c.moe THEN d.tokens ELSE 0
           IN  /\ w.prefill => Opening(c, w, d) = PromptKey(d.reqs, c.tokens, t)
               /\ ~w.prefill => Opening(c, w, d) = FirstKey(d.reqs, d.q, t)
               /\ Closing(c, w, d) = LaterKey(d.reqs, d.q, t)
  BY DEF Opening, Closing, DraftKey, PromptKey, FirstKey, LaterKey, DKey

(* Every run of warm-up leaves its drafter's graphs, where there is one.     *)
LEMMA RunsLeaveDraft ==
    ASSUME NEW c, uses_fixed_decode_window(c),
           NEW w, NEW pin, <<w, pin>> \in SymmetricRuns(c) \cup AsymmetricRuns(c)
    PROVE  LET s == WarmStatus(c, w)
               v == OneToken(w)
           IN  /\ Opening(c, w, First(c, w, s, pin)) \in warmup_model(c)
               /\ c.spec > 1 => Closing(c, v, Later(c, v, s, pin)) \in warmup_model(c)
<1> DEFINE s == WarmStatus(c, w)
           v == OneToken(w)
           k1 == Opening(c, w, First(c, w, s, pin))
           k2 == Closing(c, v, Later(c, v, s, pin))
<1>1. DraftGraphs(c, w, pin) = {k1} \cup IF c.spec > 1 THEN {k2} ELSE {}
  BY DEF DraftGraphs, Opening, Closing, First, Later
<1>2. DraftGraphs(c, w, pin) \subseteq warmup_model(c)
  BY DEF warmup_model
<1> HIDE DEF k1, k2
<1>3. k1 \in warmup_model(c) /\ (c.spec > 1 => k2 \in warmup_model(c))
  BY <1>1, <1>2
<1> QED
  BY <1>3 DEF k1, k2

(* The draft's token dimension for a batch of b rows of q tokens.            *)
DraftDim(c, b, q) ==
    IF ~c.moe \/ c.dp = 1 THEN 0 ELSE IF ~c.specialized THEN c.tokens ELSE b * q

(* The first pass over a prompt's chunk.                                     *)
LEMMA DraftPrefillKey ==
    ASSUME NEW c \in Configs, uses_fixed_decode_window(c)
    PROVE  PromptKey(1, c.tokens, IF ~c.moe \/ c.dp = 1 THEN 0 ELSE c.tokens)
               \in warmup_model(c)
<1> DEFINE w == Batch(1, c.tokens, TRUE)
           s == WarmStatus(c, w)
           d == First(c, w, s, 0)
<1>1. c.tokens \in Nat \ {0} /\ 1 \in Nat \ {0}
  BY ShapeNumbers
<1>2. w.reqs = 1 /\ w.prefill \in BOOLEAN /\ w.prefill /\ ~w.idle /\ QueryLen(w) = c.tokens /\ LocalReqs(c, w) = 1
  BY <1>1, BatchFacts, ZenonT(40) DEF LocalReqs
<1>3. Opening(c, w, d) \in warmup_model(c)
  <2>1. <<w, 0>> \in SymmetricRuns(c)
    BY DEF SymmetricRuns
  <2> HIDE DEF w
  <2> QED
    BY <2>1, RunsLeaveDraft
<1> HIDE DEF w
<1>4. /\ d.reqs = 1 /\ d.q = c.tokens
      /\ (IF c.moe THEN d.tokens ELSE 0) = IF ~c.moe \/ c.dp = 1 THEN 0 ELSE c.tokens
  <2>1. CASE c.dp = 1
    <3>1. DOMAIN s = {}
      BY <1>2, <2>1, WarmRead
    <3> HIDE DEF s
    <3>2. d = Shape(1, c.tokens, 0)
      BY <1>2, <3>1, FirstCases DEF Dim
    <3> QED
      BY <2>1, <3>2 DEF Shape
  <2>2. CASE c.dp # 1
    <3>1. DOMAIN s # {}
      BY <1>2, <2>2, WarmRead
    <3> HIDE DEF s
    <3>2. CASE c.moe
      <4>1. d = Shape(1, c.tokens, c.tokens)
        BY <1>2, <3>1, <3>2, FirstCases DEF Dim
      <4> QED
        BY <2>2, <3>2, <4>1 DEF Shape
    <3>3. CASE ~c.moe
      <4>1. d = Shape(1, c.tokens, 1 * c.tokens)
        BY <1>2, <3>1, <3>3, FirstCases DEF Dim
      <4> QED
        BY <3>3, <4>1 DEF Shape
    <3> QED
      BY <3>2, <3>3
  <2> QED
    BY <2>1, <2>2
<1> HIDE DEF d
<1> DEFINE t == IF c.moe THEN d.tokens ELSE 0
<1>5. Opening(c, w, d) = PromptKey(d.reqs, c.tokens, t)
  <2>1. w.prefill \in BOOLEAN /\ w.prefill
    BY <1>2
  <2> QED
    BY <2>1 DEF Opening, DraftKey, PromptKey, DKey
<1> HIDE DEF t
<1> QED
  BY <1>3, <1>4, <1>5 DEF t

(* The first pass over a decode batch, and the passes of one token after it. *)
LEMMA DraftDecodeKey ==
    ASSUME NEW c \in Configs, uses_fixed_decode_window(c), NEW b \in decode_batch_buckets(c)
    PROVE  /\ FirstKey(b, c.spec + 1, DraftDim(c, b, c.spec + 1)) \in warmup_model(c)
           /\ c.spec > 1 => LaterKey(b, 1, DraftDim(c, b, 1)) \in warmup_model(c)
<1> DEFINE q == c.spec + 1
           w == Batch(b, q, FALSE)
           v == OneToken(w)
           s == WarmStatus(c, w)
           d == First(c, w, s, 0)
           e == Later(c, v, s, 0)
<1>1. /\ b \in Nat \ {0} /\ q \in Nat \ {0} /\ find_bucket(c, b) = b /\ b \in Int /\ q \in Int
      /\ q \in WarmLens(c)
  BY ShapeNumbers, WarmLensFacts
<1> HIDE DEF q
<1>2. /\ w.reqs = b /\ w.prefill \in BOOLEAN /\ ~w.prefill /\ ~w.idle /\ QueryLen(w) = q /\ LocalReqs(c, w) = b
      /\ v.reqs = b /\ v.prefill \in BOOLEAN /\ ~v.prefill /\ QueryLen(v) = 1 /\ LocalReqs(c, v) = b
  <2>1. FALSE \in BOOLEAN
    OBVIOUS
  <2>2. /\ w.reqs = b /\ w.prefill \in BOOLEAN /\ ~w.prefill /\ ~w.idle /\ QueryLen(w) = q
        /\ v.reqs = b /\ v.prefill \in BOOLEAN /\ ~v.prefill /\ QueryLen(v) = 1
    BY <1>1, <2>1, BatchFacts, ZenonT(40)
  <2> HIDE DEF w, v
  <2> QED
    BY <1>1, <2>2 DEF LocalReqs
<1>3. /\ Opening(c, w, d) \in warmup_model(c)
      /\ c.spec > 1 => Closing(c, v, e) \in warmup_model(c)
  <2>1. <<w, 0>> = DecodeRun(b, q, 0)
    BY DEF DecodeRun
  <2>2. DecodeRun(b, q, 0) \in SymmetricRuns(c)
    <3> DEFINE p == <<Batch(1, c.tokens, TRUE), 0>>
    <3>1. SymmetricRuns(c) = {p} \cup {DecodeRun(x, y, 0) : x \in decode_batch_buckets(c), y \in WarmLens(c)}
      BY DEF SymmetricRuns
    <3> HIDE DEF p
    <3> QED
      BY <1>1, <3>1, SMT
  <2> HIDE DEF w
  <2> QED
    BY <2>1, <2>2, RunsLeaveDraft
<1> HIDE DEF w, v
<1>4. CASE c.dp = 1
  <2>1. DOMAIN s = {}
    BY <1>2, <1>4, WarmRead
  <2> HIDE DEF s
  <2>2. d = Shape(b, q, 0) /\ e = Shape(b, 1, 0)
    <3>1. d = Shape(LocalReqs(c, w), QueryLen(w), 0)
      BY <2>1, FirstCases
    <3>2. e = Shape(LocalReqs(c, v), QueryLen(v), 0)
      BY <1>2, <2>1, LaterCases
    <3> QED
      BY <1>2, <3>1, <3>2
  <2> HIDE DEF d, e
  <2>3. DraftDim(c, b, q) = 0 /\ DraftDim(c, b, 1) = 0
    BY <1>4 DEF DraftDim
  <2>4. /\ Opening(c, w, d) = FirstKey(b, q, 0)
        /\ Closing(c, v, e) = LaterKey(b, 1, 0)
    BY <1>2, <2>2, DraftKeys DEF Shape
  <2> QED
    BY <1>3, <2>3, <2>4 DEF q
<1>5. CASE c.dp # 1
  <2>1. /\ DOMAIN s # {} /\ ~ (\E i \in DOMAIN s : s[i].prefill)
        /\ AllReqs(s) = {b} /\ AllLens(s) = {q}
    BY <1>2, <1>5, WarmRead
  <2> HIDE DEF s
  <2>2. Joint(c, s) = b
    BY <1>1, <2>1, MaxOne DEF Joint
  <2>3. Max(AllLens(s)) = q /\ Max({1}) = 1
    BY <1>1, <2>1, MaxOne
  <2>4. CASE ~c.moe
    <3>1. d = Shape(b, q, b * q) /\ e = Shape(b, 1, b * 1)
      <4>1. d = Shape(LocalReqs(c, w), QueryLen(w), Dim(0, LocalReqs(c, w) * QueryLen(w)))
        BY <2>1, <2>4, FirstCases
      <4>2. e = Shape(LocalReqs(c, v), QueryLen(v), LocalReqs(c, v) * QueryLen(v))
        BY <1>2, <2>1, <2>4, LaterCases
      <4> QED
        BY <1>2, <4>1, <4>2 DEF Dim
    <3> HIDE DEF d, e
    <3>2. /\ Opening(c, w, d) = FirstKey(b, q, 0)
          /\ Closing(c, v, e) = LaterKey(b, 1, 0)
      BY <1>2, <2>4, <3>1, DraftKeys DEF Shape
    <3>3. DraftDim(c, b, q) = 0 /\ DraftDim(c, b, 1) = 0
      BY <2>4 DEF DraftDim
    <3> QED
      BY <1>3, <3>2, <3>3 DEF q
  <2>5. CASE c.moe /\ ~c.specialized
    <3>1. d = Shape(b, q, c.tokens) /\ e = Shape(b, 1, c.tokens)
      <4>1. d = Shape(LocalReqs(c, w), QueryLen(w), Dim(0, c.tokens))
        BY <2>1, <2>5, FirstCases
      <4>2. e = Shape(LocalReqs(c, v), QueryLen(v), c.tokens)
        BY <1>2, <2>1, <2>5, LaterCases
      <4> QED
        BY <1>2, <4>1, <4>2 DEF Dim
    <3> HIDE DEF d, e
    <3>2. /\ Opening(c, w, d) = FirstKey(b, q, c.tokens)
          /\ Closing(c, v, e) = LaterKey(b, 1, c.tokens)
      BY <1>2, <2>5, <3>1, DraftKeys DEF Shape
    <3>3. DraftDim(c, b, q) = c.tokens /\ DraftDim(c, b, 1) = c.tokens
      BY <1>5, <2>5 DEF DraftDim
    <3> QED
      BY <1>3, <3>2, <3>3 DEF q
  <2>6. CASE c.moe /\ c.specialized
    <3>1. d = Shape(b, q, b * q)
      <4>1. d = Shape(Joint(c, s), QueryLen(w), Dim(0, Joint(c, s) * Max(AllLens(s))))
        <5>1. c.moe /\ c.specialized /\ ~w.prefill /\ DOMAIN s # {} /\ ~ \E i \in DOMAIN s : s[i].prefill
          BY <1>2, <2>1, <2>6
        <5> QED
          BY <5>1, FirstCases, SMTT(30)
      <4> QED
        BY <1>2, <2>2, <2>3, <4>1 DEF Dim
    <3>4. e = Shape(b, 1, b * 1)
      BY <1>2, <2>1, <2>2, <2>3, <2>6, LaterCases
    <3> HIDE DEF d, e
    <3>2. /\ Opening(c, w, d) = FirstKey(b, q, b * q)
          /\ Closing(c, v, e) = LaterKey(b, 1, b * 1)
      BY <1>2, <2>6, <3>1, <3>4, DraftKeys DEF Shape
    <3>3. DraftDim(c, b, q) = b * q /\ DraftDim(c, b, 1) = b * 1
      BY <1>5, <2>6 DEF DraftDim
    <3> QED
      BY <1>3, <3>2, <3>3 DEF q
  <2> QED
    BY <2>4, <2>5, <2>6
<1> QED
  BY <1>4, <1>5

(* The first pass beside a peer's prefill.                                   *)
LEMMA DraftTopKey ==
    ASSUME NEW c \in Configs, uses_fixed_decode_window(c), c.dp # 1, c.specialized, c.moe
    PROVE  FirstKey(Top(c), c.spec + 1, c.tokens) \in warmup_model(c)
<1> DEFINE q == c.spec + 1
           b == Top(c)
           w == Batch(b, q, FALSE)
           s == WarmStatus(c, w)
           d == First(c, w, s, c.tokens)
<1>1. /\ b \in Nat \ {0} /\ q \in Nat \ {0} /\ find_bucket(c, b) = b /\ b \in Int /\ q \in Int
      /\ q \in WarmLens(c) /\ c.tokens # 0
  BY ShapeNumbers, WarmLensFacts
<1>0. DecodeRun(b, q, c.tokens) \in AsymmetricRuns(c)
  BY <1>1 DEF AsymmetricRuns
<1> HIDE DEF q, b
<1>2. w.reqs = b /\ w.prefill \in BOOLEAN /\ ~w.prefill /\ ~w.idle /\ QueryLen(w) = q
  BY <1>1, BatchFacts, ZenonT(40)
<1>3. Opening(c, w, d) \in warmup_model(c)
  <2>1. <<w, c.tokens>> = DecodeRun(b, q, c.tokens)
    BY DEF DecodeRun
  <2> HIDE DEF w
  <2> QED
    BY <1>0, <2>1, RunsLeaveDraft
<1> HIDE DEF w
<1>4. DOMAIN s # {} /\ ~ (\E i \in DOMAIN s : s[i].prefill) /\ AllReqs(s) = {b}
  BY <1>2, WarmRead
<1> HIDE DEF s
<1>5. Joint(c, s) = b
  BY <1>1, <1>4, MaxOne DEF Joint
<1>6. d = Shape(b, q, c.tokens)
  BY <1>1, <1>2, <1>4, <1>5, FirstCases DEF Dim
<1> HIDE DEF d
<1>7. Opening(c, w, d) = FirstKey(b, q, c.tokens)
  BY <1>2, <1>6, DraftKeys DEF Shape
<1> QED
  BY <1>3, <1>7 DEF b, q

-----------------------------------------------------------------------------
(* What the target's pass gives a rank.                                      *)

(* The shape d takes the batch w, its graph is compiled, and it leaves a     *)
(* dummy a length of the drafter's.                                          *)
Serves(c, w, d) ==
    /\ w.reqs <= d.reqs
    /\ d.tokens # 0 => d.reqs * Staged(c, w, d) <= d.tokens
    /\ ~w.idle => QueryLen(w) <= d.q
    /\ TargetKey(c, w, d) \in warmup_model(c)
    /\ w.idle => d.q \in {1, c.spec + 1}

(* A prompt's chunk.                                                         *)
LEMMA PrefillServed ==
    ASSUME NEW c \in Configs, NEW w, Brings(c, w), w.prefill,
           NEW d, d = Shape(1, QueryLen(w), IF c.dp = 1 THEN 0 ELSE c.tokens)
    PROVE  Serves(c, w, d)
<1> DEFINE t == IF c.dp = 1 THEN 0 ELSE c.tokens
<1>1. /\ w.reqs = 1 /\ ~w.idle /\ QueryLen(w) \in 1..c.tokens /\ w.prefill \in BOOLEAN
      /\ c.tokens \in Nat \ {0}
  BY LenFacts, ShapeNumbers DEF Brings
<1>2. d.reqs = 1 /\ d.q = QueryLen(w) /\ d.tokens = t
  BY DEF Shape
<1>3. Staged(c, w, d) = d.q
  BY DEF Staged
<1>4. PrefillGraph(1, c.tokens, t) \in warmup_model(c)
  BY PrefillKey
<1>5. TargetKey(c, w, d) = PrefillGraph(1, c.tokens, t)
  <2> HIDE DEF t
  <2> QED
    BY <1>1, <1>2 DEF TargetKey, TKey, PrefillGraph, DecodeGraph
<1>6. d.tokens # 0 => d.reqs * Staged(c, w, d) <= d.tokens
  BY <1>1, <1>2, <1>3
<1>7. w.reqs <= d.reqs /\ QueryLen(w) <= d.q
  BY <1>1, <1>2
<1> QED
  BY <1>1, <1>4, <1>5, <1>6, <1>7 DEF Serves

(* A decode or a dummy, in a shape of b rows.                                *)
LEMMA DecodeServed ==
    ASSUME NEW c \in Configs, NEW w, Brings(c, w), ~w.prefill,
           NEW b \in 1..c.max, w.reqs <= b, NEW q, NEW t, NEW d, d = Shape(b, q, t),
           q \in WarmLens(c) \/ (w.idle /\ q = 1),
           ~w.idle => QueryLen(w) <= q,
           \A x \in WarmLens(c) :
              (q \in WarmLens(c) => x = q) =>
                 /\ t # 0 => b * x <= t
                 /\ DecodeGraph(b, x, t) \in warmup_model(c)
    PROVE  Serves(c, w, d)
<1>1. d.reqs = b /\ d.q = q /\ d.tokens = t
  BY DEF Shape
<1>2. w.prefill \in BOOLEAN /\ ~w.prefill
  BY DEF Brings
<1> DEFINE x == Staged(c, w, d)
<1>3. x \in WarmLens(c) /\ (q \in WarmLens(c) => x = q)
  BY <1>1, StagedWarm
<1>4. TargetKey(c, w, d) = DecodeGraph(b, x, t)
  BY <1>1, <1>2 DEF TargetKey, TKey, PrefillGraph, DecodeGraph
<1> HIDE DEF x
<1>5. (t # 0 => b * x <= t) /\ DecodeGraph(b, x, t) \in warmup_model(c)
  BY <1>3
<1>6. q \in {1, c.spec + 1}
  BY WarmLensFacts
<1> QED
  BY <1>1, <1>4, <1>5, <1>6 DEF Serves, x

(* The length that a rank brings is staged at a length that is warmed up.    *)
LEMMA OwnLen ==
    ASSUME NEW c \in Configs, NEW w, Brings(c, w), ~w.prefill
    PROVE  /\ QueryLen(w) \in WarmLens(c) \/ (w.idle /\ QueryLen(w) = 1)
           /\ ~w.idle => QueryLen(w) <= QueryLen(w)
           /\ LocalReqs(c, w) \in decode_batch_buckets(c) /\ LocalReqs(c, w) \in 1..c.max
           /\ w.reqs <= LocalReqs(c, w)
<1>1. QueryLen(w) \in Nat \ {0} /\ (~w.idle => QueryLen(w) \in WarmLens(c)) /\ (w.idle => QueryLen(w) = 1)
  BY LenFacts
<1>2. LocalReqs(c, w) = find_bucket(c, w.reqs) /\ w.reqs \in 1..c.max
  BY DEF LocalReqs, Brings
<1>3. /\ find_bucket(c, w.reqs) \in decode_batch_buckets(c) /\ find_bucket(c, w.reqs) \in 1..c.max
      /\ w.reqs <= find_bucket(c, w.reqs)
  BY <1>2, FindBucket
<1> QED
  BY <1>1, <1>2, <1>3

(* What the target's pass gives it.                                          *)
LEMMA TargetServed ==
    ASSUME NEW c \in Configs, NEW r, NEW s, NEW w, Heard(c, r, s, w, 0),
           c.dp # 1 => Busy(s) # {}
    PROVE  Serves(c, w, determine_batch_execution_and_padding(c, w, s, 0))
<1> DEFINE d == determine_batch_execution_and_padding(c, w, s, 0)
           any == \E i \in DOMAIN s : s[i].prefill
           n == LocalReqs(c, w)
           q == QueryLen(w)
<1>1. Brings(c, w) /\ w.reqs \in 1..c.max /\ w.prefill \in BOOLEAN /\ w.idle \in BOOLEAN
  BY DEF Heard, Brings
<1>2. /\ c.tokens \in Nat \ {0} /\ c.max \in Nat \ {0} /\ c.spec \in Nat
      /\ Top(c) = c.max /\ Top(c) \in decode_batch_buckets(c) /\ Top(c) \in 1..c.max
  BY ShapeNumbers
<1>3. ASSUME c.dp # 1 PROVE DOMAIN s # {} /\ Busy(s) # {} /\ Group(c, s) /\ r \in DOMAIN s
                            /\ s[r].reqs = w.reqs /\ s[r].idle = w.idle
                            /\ s[r].tokens = w.tokens /\ s[r].prefill = w.prefill
  <2>1. /\ r \in DOMAIN s /\ (\A i \in DOMAIN s : Brings(c, s[i])) /\ s[r].reqs = w.reqs
        /\ s[r].idle = w.idle /\ s[r].prefill = w.prefill /\ (~w.idle => s[r].tokens = w.tokens)
    BY <1>3 DEF Heard
  <2>2. w.idle => w.tokens = 1 /\ s[r].tokens = 1
    BY <1>1, <2>1 DEF Brings
  <2> QED
    BY <1>3, <2>1, <2>2 DEF Group
<1>4. \A x \in WarmLens(c) : x \in 0..(c.spec + 1) /\ x \in Nat \ {0}
  BY WarmLensFacts
<1>5. CASE w.prefill
  <2>1. n = 1 /\ w.reqs = 1
    BY <1>1, <1>5, LenFacts DEF LocalReqs, Brings
  <2>2. d = Shape(1, q, IF c.dp = 1 THEN 0 ELSE c.tokens)
    <3>1. CASE c.dp = 1
      <4>1. DOMAIN s = {}
        BY <3>1 DEF Heard
      <4> QED
        BY <2>1, <3>1, <4>1, TargetCases
    <3>2. CASE c.dp # 1 /\ ~c.specialized
      BY <1>3, <2>1, <3>2, TargetCases
    <3>3. CASE c.dp # 1 /\ c.specialized
      <4>1. any
        BY <1>3, <1>5, <3>3
      <4>2. AnyPrefill(c, w) = Shape(1, q, c.tokens)
        BY <1>5, <2>1 DEF AnyPrefill
      <4> QED
        BY <1>3, <3>3, <4>1, <4>2, TargetCases
    <3> QED
      BY <3>1, <3>2, <3>3
  <2> QED
    BY <1>1, <1>5, <2>2, PrefillServed
<1>6. CASE ~w.prefill
  <2>1. /\ q \in WarmLens(c) \/ (w.idle /\ q = 1)
        /\ ~w.idle => q <= q
        /\ n \in decode_batch_buckets(c) /\ n \in 1..c.max /\ w.reqs <= n
    BY <1>1, <1>6, OwnLen
  <2>2. \A b \in 1..c.max, x \in WarmLens(c) : b * x <= c.tokens
    BY <1>4, DecodeFits
  <2>3. w.reqs <= Top(c)
    BY <1>1, <1>2
  <2> HIDE DEF q, n
  <2>4. CASE c.dp = 1
    <3>1. d = Shape(n, q, 0)
      <4>1. DOMAIN s = {}
        BY <2>4 DEF Heard
      <4> QED
        BY <4>1, TargetCases DEF n, q
    <3>2. ASSUME NEW x \in WarmLens(c) PROVE DecodeGraph(n, x, 0) \in warmup_model(c)
      BY <2>1, <2>4, DecodeKey
    <3> HIDE DEF d
    <3>3. Serves(c, w, d)
      BY <1>1, <1>6, <2>1, <3>1, <3>2, DecodeServed DEF q
    <3> QED
      BY <3>3 DEF d
  <2>5. CASE c.dp # 1 /\ ~c.specialized
    <3>1. d = Shape(n, q, c.tokens)
      BY <1>3, <2>5, TargetCases DEF n, q
    <3>2. ASSUME NEW x \in WarmLens(c) PROVE DecodeGraph(n, x, c.tokens) \in warmup_model(c)
      BY <2>1, <2>5, DecodeKey
    <3> HIDE DEF d
    <3>3. Serves(c, w, d)
      BY <1>1, <1>6, <2>1, <2>2, <3>1, <3>2, DecodeServed DEF q
    <3> QED
      BY <3>3 DEF d
  <2>6. CASE c.dp # 1 /\ c.specialized /\ any
    <3>1. d = Shape(Top(c), q, c.tokens)
      <4>1. AnyPrefill(c, w) = Shape(Top(c), q, c.tokens)
        BY <1>6 DEF AnyPrefill, q
      <4> QED
        BY <1>3, <2>6, <4>1, TargetCases
    <3>2. ASSUME NEW x \in WarmLens(c) PROVE DecodeGraph(Top(c), x, c.tokens) \in warmup_model(c)
      BY <2>6, TopKey
    <3> HIDE DEF d
    <3>3. Serves(c, w, d)
      BY <1>1, <1>2, <1>6, <2>1, <2>2, <2>3, <3>1, <3>2, DecodeServed DEF q
    <3> QED
      BY <3>3 DEF d
  <2>7. CASE c.dp # 1 /\ c.specialized /\ ~any
    <3> DEFINE m == Max({s[i].reqs : i \in Busy(s)})
               e == Max(BusyLens(s))
    <3>1. /\ m \in 1..c.max /\ e \in BusyLens(s) /\ e \in Nat \ {0}
          /\ \A i \in Busy(s) : s[i].reqs <= m /\ QueryLen(s[i]) <= e
          /\ BusyLens(s) \subseteq WarmLens(c)
      BY <1>3, <2>7, GroupFacts
    <3>2. ~w.idle => r \in Busy(s) /\ QueryLen(s[r]) = q /\ s[r].reqs = w.reqs
      BY <1>3, <2>7 DEF Busy, QueryLen, q
    <3>3. ~w.idle => w.reqs <= m /\ q <= e
      BY <3>1, <3>2
    <3>4. w.idle => w.reqs = 1
      BY <1>1, LenFacts
    <3>5. CASE Cardinality(BusyLens(s)) > 1
      <4>1. ~uses_fixed_decode_window(c) /\ c.spec > 0 /\ e = c.spec + 1
        <5>1. \A x : BusyLens(s) # {x}
          <6>1. \A x : Cardinality({x}) = 1
            BY FS_Singleton
          <6> QED
            BY <3>5, <6>1
        <5>2. BusyLens(s) # {} /\ BusyLens(s) \subseteq {1, c.spec + 1}
          BY <3>1, WarmLensFacts
        <5>3. 1 \in BusyLens(s) /\ c.spec + 1 \in BusyLens(s) /\ c.spec + 1 # 1
          BY <5>1, <5>2
        <5>4. ~uses_fixed_decode_window(c)
          BY <3>1, <5>3, WarmLensFacts
        <5>5. c.spec > 0
          BY <1>2, <5>3
        <5>6. c.spec + 1 <= e
          <6>1. PICK i \in Busy(s) : QueryLen(s[i]) = c.spec + 1
            BY <5>3 DEF BusyLens
          <6> HIDE DEF e
          <6> QED
            BY <3>1, <6>1
        <5>7. e \in {1, c.spec + 1}
          BY <3>1, <5>2
        <5> HIDE DEF e
        <5> QED
          BY <1>2, <5>4, <5>5, <5>6, <5>7
      <4> DEFINE N == c.spec + 1
                 t == Top(c) * N
      <4>2. d = Shape(Top(c), q, t)
        <5>1. QlenAsym(c, w, s) = Shape(Top(c), q, t)
          BY <4>1 DEF QlenAsym, q
        <5> QED
          BY <1>3, <2>7, <3>5, <5>1, TargetCases
      <4>3. 1 \in WarmLens(c) /\ WarmLens(c) \subseteq {1, N} /\ N \in WarmLens(c) /\ N \in Nat \ {0} /\ 1 <= N
        BY <1>2, <4>1, WarmLensFacts
      <4>4. DecodeGraph(Top(c), 1, t) \in warmup_model(c)
        BY <2>7, <4>1, AsymKey
      <4>5. DecodeGraph(Top(c), N, t) \in warmup_model(c)
        BY <1>2, <2>7, <4>3, DecodeKey
      <4>6. Top(c) * 1 <= t /\ Top(c) * N <= t
        <5> HIDE DEF N
        <5> DEFINE T == Top(c)
        <5>1. T \in Nat \ {0}
          BY <1>2
        <5> HIDE DEF T
        <5>2. T * 1 <= T * N /\ T * N \in Int
          BY <4>3, <5>1, MulFacts
        <5> QED
          BY <5>2 DEF T
      <4>7. \A x \in WarmLens(c) : Top(c) * x <= t /\ DecodeGraph(Top(c), x, t) \in warmup_model(c)
        <5> HIDE DEF t, N
        <5> QED
          BY <4>3, <4>4, <4>5, <4>6
      <4> HIDE DEF d, t, N
      <4>8. Serves(c, w, d)
        BY <1>1, <1>2, <1>6, <2>1, <2>3, <4>2, <4>7, DecodeServed DEF q
      <4> QED
        BY <4>8 DEF d
    <3>6. CASE ~(Cardinality(BusyLens(s)) > 1)
      <4> DEFINE b == find_bucket(c, m)
                 t == b * e
      <4>1. b \in decode_batch_buckets(c) /\ b \in 1..c.max /\ m <= b
        BY <3>1, FindBucket
      <4>2. d = Shape(b, e, t)
        <5>1. Agreed(c, s) = Shape(b, e, t)
          BY DEF Agreed
        <5> QED
          BY <1>3, <2>7, <3>6, <5>1, TargetCases
      <4>3. e \in WarmLens(c)
        BY <3>1
      <4> HIDE DEF d, m, e, b
      <4>4. DecodeGraph(b, e, t) \in warmup_model(c)
        BY <2>7, <4>1, <4>3, DecodeKey
      <4>5. w.reqs <= b
        BY <1>1, <1>2, <3>1, <3>3, <3>4, <4>1
      <4>6. b * e <= t
        <5>1. b * e \in Int
          BY <3>1, <4>1
        <5> QED
          BY <5>1
      <4>7. \A x \in WarmLens(c) : x = e => b * x <= t /\ DecodeGraph(b, x, t) \in warmup_model(c)
        BY <4>4, <4>6
      <4> HIDE DEF t
      <4>8. Serves(c, w, d)
        BY <1>1, <1>6, <3>3, <4>1, <4>2, <4>3, <4>5, <4>7, DecodeServed DEF q
      <4> QED
        BY <4>8 DEF d
    <3> QED
      BY <3>5, <3>6
  <2> QED
    BY <2>4, <2>5, <2>6, <2>7
<1> QED
  BY <1>1, <1>5, <1>6

-----------------------------------------------------------------------------
(* What the drafter's passes give a rank.                                    *)

(* The shape d takes the batch w.                                            *)
Takes(w, d) ==
    /\ w.reqs <= d.reqs
    /\ d.tokens # 0 => d.reqs * d.q <= d.tokens
    /\ ~w.idle => QueryLen(w) <= d.q

(* The batch of a first pass, of a drafter with a fixed window.              *)
LEMMA DraftedFacts ==
    ASSUME NEW c \in Configs, uses_fixed_decode_window(c), NEW w, Drafted(c, w)
    PROVE  /\ w.prefill \in BOOLEAN \/ w.idle
           /\ w.reqs \in 1..c.max /\ w.reqs \in Nat \ {0} /\ QueryLen(w) \in Nat \ {0}
           /\ w.prefill => w.reqs = 1 /\ QueryLen(w) \in 1..c.tokens /\ ~w.idle
           /\ ~w.prefill /\ ~w.idle => QueryLen(w) = c.spec + 1
           /\ ~w.prefill => QueryLen(w) \in {1, c.spec + 1} /\ QueryLen(w) \in 0..(c.spec + 1)
<1>1. c.spec \in Nat /\ c.spec > 0 /\ WarmLens(c) = {c.spec + 1} /\ c.max \in Nat
  BY WarmLensFacts, ShapeNumbers
<1>2. CASE Brings(c, w)
  <2>1. /\ w.reqs \in Nat \ {0} /\ QueryLen(w) \in Nat \ {0}
        /\ (w.prefill => QueryLen(w) = w.tokens /\ w.tokens \in 1..c.tokens /\ ~w.idle)
        /\ (~w.prefill /\ ~w.idle => QueryLen(w) \in WarmLens(c))
        /\ (w.idle => ~w.prefill /\ QueryLen(w) = 1 /\ w.reqs = 1)
    BY <1>2, LenFacts
  <2>2. w.reqs \in 1..c.max /\ w.prefill \in BOOLEAN /\ (w.prefill => w.reqs = 1)
    BY <1>2 DEF Brings
  <2> QED
    BY <1>1, <2>1, <2>2
<1>3. CASE ~w.prefill /\ w.idle /\ w.reqs = 1 /\ w.reqs \in 1..c.max /\ w.tokens \in {1, c.spec + 1}
  <2>1. \A n \in Nat : n \div 1 = n
    OBVIOUS
  <2>2. QueryLen(w) = w.tokens
    BY <1>1, <1>3, <2>1 DEF QueryLen
  <2> QED
    BY <1>1, <1>3, <2>2
<1> QED
  BY <1>2, <1>3 DEF Drafted

(* The longest query of a group that decodes, the ranks' drafters having a   *)
(* fixed window: that of a rank with work.                                   *)
LEMMA JointLen ==
    ASSUME NEW c \in Configs, uses_fixed_decode_window(c), NEW s, Group(c, s),
           ~ \E i \in DOMAIN s : s[i].prefill
    PROVE  Max(AllLens(s)) = c.spec + 1
<1> DEFINE N == c.spec + 1
           A == AllLens(s)
<1>1. c.spec \in Nat /\ WarmLens(c) = {N} /\ N \in Nat \ {0}
  BY WarmLensFacts
<1>2. ASSUME NEW i \in DOMAIN s
      PROVE  QueryLen(s[i]) \in {1, N} /\ (~s[i].idle => QueryLen(s[i]) = N)
  <2>1. Brings(c, s[i]) /\ ~s[i].prefill
    BY DEF Group
  <2> DEFINE w == s[i]
  <2>2. Brings(c, w) /\ ~w.prefill
    BY <2>1
  <2> HIDE DEF w
  <2>3. (~w.idle => QueryLen(w) \in WarmLens(c)) /\ (w.idle => QueryLen(w) = 1)
    BY <2>2, LenFacts
  <2> QED
    BY <1>1, <2>3 DEF w
<1>3. PICK i \in DOMAIN s : ~s[i].idle
  BY DEF Group, Busy
<1>4. N \in A /\ A \subseteq {1, N}
  BY <1>2, <1>3 DEF AllLens
<1> HIDE DEF A
<1>5. A \in SUBSET Int /\ A # {} /\ (\A x \in A : x <= N) /\ N \in Int
  BY <1>1, <1>4
<1> HIDE DEF N
<1>6. Max(A) \in A /\ N <= Max(A)
  BY <1>4, <1>5, MaxFacts
<1>7. Max(A) <= N /\ Max(A) \in Int
  BY <1>5, <1>6
<1>8. Max(A) = N
  BY <1>5, <1>6, <1>7
<1> QED
  BY <1>8 DEF A, N

(* The rows of a group.                                                      *)
LEMMA JointRows ==
    ASSUME NEW c \in Configs, NEW s, Group(c, s)
    PROVE  /\ Joint(c, s) \in decode_batch_buckets(c) /\ Joint(c, s) \in 1..c.max
           /\ \A i \in DOMAIN s : s[i].reqs <= Joint(c, s)
<1> DEFINE m == Max(AllReqs(s))
<1>1. m \in 1..c.max /\ \A i \in DOMAIN s : s[i].reqs <= m
  BY GroupFacts DEF AllReqs
<1>2. \A i \in DOMAIN s : s[i].reqs \in 1..c.max
  BY DEF Group, Brings
<1> HIDE DEF m
<1>3. /\ find_bucket(c, m) \in decode_batch_buckets(c) /\ find_bucket(c, m) \in 1..c.max
      /\ m <= find_bucket(c, m)
  BY <1>1, FindBucket
<1> DEFINE b == find_bucket(c, m)
<1>4. \A i \in DOMAIN s : s[i].reqs <= b
  <2>1. c.max \in Nat
    BY ShapeNumbers
  <2> HIDE DEF b
  <2> QED
    BY <1>1, <1>2, <1>3, <2>1 DEF b
<1> QED
  BY <1>3, <1>4 DEF m, Joint

(* The rows that a decode of its own has.                                    *)
LEMMA OwnRows ==
    ASSUME NEW c \in Configs, NEW w, ~w.prefill, w.reqs \in 1..c.max
    PROVE  /\ LocalReqs(c, w) \in decode_batch_buckets(c) /\ LocalReqs(c, w) \in 1..c.max
           /\ w.reqs <= LocalReqs(c, w) /\ LocalReqs(c, w) \in Nat \ {0}
<1>1. LocalReqs(c, w) = find_bucket(c, w.reqs)
  BY DEF LocalReqs
<1>2. /\ find_bucket(c, w.reqs) \in decode_batch_buckets(c) /\ find_bucket(c, w.reqs) \in 1..c.max
      /\ w.reqs <= find_bucket(c, w.reqs)
  BY FindBucket
<1>3. find_bucket(c, w.reqs) \in Nat \ {0}
  BY <1>2, ShapeNumbers
<1> QED
  BY <1>1, <1>2, <1>3

(* A shape, as a rank sees it.                                               *)
LEMMA TakesShape ==
    ASSUME NEW c \in Configs, NEW w, NEW b \in Nat, w.reqs <= b, QueryLen(w) \in Nat,
           NEW t, t # 0 => b * QueryLen(w) <= t, NEW d, d = Shape(b, QueryLen(w), t)
    PROVE  Takes(w, d) /\ d.reqs = b /\ d.q = QueryLen(w) /\ d.tokens = t
<1>1. d.reqs = b /\ d.q = QueryLen(w) /\ d.tokens = t
  BY DEF Shape
<1>2. QueryLen(w) <= QueryLen(w)
  OBVIOUS
<1> QED
  BY <1>1, <1>2 DEF Takes

(* The first pass.                                                           *)
LEMMA FirstServed ==
    ASSUME NEW c \in Configs, NEW r, NEW s, NEW w, Heard(c, r, s, w, 1),
           c.dp # 1 => Busy(s) # {}
    PROVE  LET d == First(c, w, s, 0)
           IN  Takes(w, d) /\ (~w.idle => Opening(c, w, d) \in warmup_model(c))
<1> DEFINE d == First(c, w, s, 0)
           any == \E i \in DOMAIN s : s[i].prefill
           n == LocalReqs(c, w)
           q == QueryLen(w)
           N == c.spec + 1
           k == IF c.moe THEN d.tokens ELSE 0
<1>1. Drafted(c, w) /\ uses_fixed_decode_window(c) /\ w.reqs \in 1..c.max /\ w.prefill \in BOOLEAN
  BY DEF Heard
<1>2. /\ c.tokens \in Nat \ {0} /\ c.max \in Nat \ {0} /\ c.spec \in Nat /\ N \in Nat \ {0}
      /\ Top(c) = c.max /\ Top(c) \in decode_batch_buckets(c) /\ Top(c) \in 1..c.max
  BY ShapeNumbers
<1>3. ASSUME c.dp # 1
      PROVE  /\ DOMAIN s # {} /\ Group(c, s) /\ r \in DOMAIN s
             /\ s[r].reqs = w.reqs /\ s[r].idle = w.idle /\ s[r].prefill = w.prefill
  BY <1>3 DEF Heard, Group
<1>4. c.dp = 1 => DOMAIN s = {}
  BY DEF Heard
<1>5. /\ w.reqs \in Nat \ {0} /\ q \in Nat \ {0}
      /\ w.prefill => w.reqs = 1 /\ q \in 1..c.tokens /\ ~w.idle
      /\ ~w.prefill /\ ~w.idle => q = N
      /\ ~w.prefill => q \in {1, N} /\ q \in 0..N
  BY <1>1, DraftedFacts
<1>6. CASE w.prefill
  <2>1. n = 1
    BY <1>5, <1>6 DEF LocalReqs
  <2>2. PromptKey(1, c.tokens, IF ~c.moe \/ c.dp = 1 THEN 0 ELSE c.tokens) \in warmup_model(c)
    BY <1>1, DraftPrefillKey
  <2>3. Opening(c, w, d) = PromptKey(d.reqs, c.tokens, k)
    <3> HIDE DEF d
    <3> QED
      BY <1>1, <1>6 DEF Opening, DraftKey, PromptKey, DKey
  <2>4. 1 * q <= c.tokens /\ 1 * q <= 1 * q /\ 1 \in Nat /\ w.reqs <= 1 /\ q \in Nat
    BY <1>2, <1>5, <1>6
  <2>5. CASE c.dp = 1
    <3>1. d = Shape(1, q, 0)
      BY <1>4, <2>1, <2>5, FirstCases
    <3> HIDE DEF d
    <3>2. Takes(w, d) /\ d.reqs = 1 /\ d.tokens = 0
      BY <2>4, <3>1, TakesShape
    <3>3. Opening(c, w, d) \in warmup_model(c)
      BY <2>2, <2>3, <2>5, <3>2
    <3> QED
      BY <3>2, <3>3 DEF d
  <2>6. CASE c.dp # 1 /\ ~c.moe
    <3>1. d = Shape(1, q, Dim(0, 1 * q))
      BY <1>3, <2>1, <2>6, FirstCases
    <3> HIDE DEF d
    <3>2. Takes(w, d) /\ d.reqs = 1
      <4>1. Dim(0, 1 * q) = 1 * q
        BY DEF Dim
      <4> QED
        BY <2>4, <3>1, <4>1, TakesShape
    <3>3. Opening(c, w, d) \in warmup_model(c)
      BY <2>2, <2>3, <2>6, <3>2
    <3> QED
      BY <3>2, <3>3 DEF d
  <2>7. CASE c.dp # 1 /\ c.moe
    <3>1. d = Shape(1, q, Dim(0, c.tokens))
      <4>1. c.moe /\ w.prefill /\ DOMAIN s # {}
        BY <1>3, <1>6, <2>7
      <4>2. d = Shape(n, q, Dim(0, c.tokens))
        BY <4>1, FirstCases, SMTT(30)
      <4> QED
        BY <2>1, <4>2
    <3> HIDE DEF d
    <3>2. Takes(w, d) /\ d.reqs = 1 /\ d.tokens = c.tokens
      <4>1. Dim(0, c.tokens) = c.tokens
        BY DEF Dim
      <4> QED
        BY <2>4, <3>1, <4>1, TakesShape
    <3>3. Opening(c, w, d) \in warmup_model(c)
      BY <2>2, <2>3, <2>7, <3>2
    <3> QED
      BY <3>2, <3>3 DEF d
  <2> QED
    BY <2>5, <2>6, <2>7
<1>7. CASE ~w.prefill
  <2>1. n \in decode_batch_buckets(c) /\ n \in 1..c.max /\ w.reqs <= n /\ n \in Nat \ {0}
    BY <1>1, <1>7, OwnRows
  <2>2. Opening(c, w, d) = FirstKey(d.reqs, d.q, k)
    <3> HIDE DEF d
    <3> QED
      BY <1>1, <1>7, DraftKeys
  <2>3. \A b \in decode_batch_buckets(c) : FirstKey(b, N, DraftDim(c, b, N)) \in warmup_model(c)
    BY <1>1, DraftDecodeKey
  <2>4. \A b \in 1..c.max : b * q <= c.tokens /\ b * q \in Nat /\ b \in Nat
    BY <1>2, <1>5, <1>7, DecodeFits
  <2>5. q \in Nat
    BY <1>5
  <2> HIDE DEF n, N
  <2>6. CASE c.dp = 1
    <3>1. d = Shape(n, q, 0)
      BY <1>4, <2>6, FirstCases DEF n
    <3> HIDE DEF d
    <3>2. Takes(w, d) /\ d.reqs = n /\ d.q = q /\ d.tokens = 0
      BY <2>1, <2>5, <3>1, TakesShape
    <3>3. ~w.idle => Opening(c, w, d) \in warmup_model(c)
      <4>1. DraftDim(c, n, N) = 0 /\ k = 0
        BY <2>6, <3>2 DEF DraftDim
      <4> QED
        BY <1>5, <1>7, <2>1, <2>2, <2>3, <3>2, <4>1
    <3> QED
      BY <3>2, <3>3 DEF d
  <2>7. CASE c.dp # 1 /\ ~c.moe
    <3>1. d = Shape(n, q, Dim(0, n * q))
      BY <1>3, <2>7, FirstCases DEF n
    <3> HIDE DEF d
    <3>2. Takes(w, d) /\ d.reqs = n /\ d.q = q
      <4>1. Dim(0, n * q) = n * q /\ n * q <= n * q
        BY <2>1, <2>4 DEF Dim
      <4> QED
        BY <2>1, <2>5, <3>1, <4>1, TakesShape
    <3>3. ~w.idle => Opening(c, w, d) \in warmup_model(c)
      <4>1. DraftDim(c, n, N) = 0 /\ k = 0
        BY <2>7 DEF DraftDim
      <4> QED
        BY <1>5, <1>7, <2>1, <2>2, <2>3, <3>2, <4>1
    <3> QED
      BY <3>2, <3>3 DEF d
  <2>8. CASE c.dp # 1 /\ c.moe /\ ~c.specialized
    <3>1. d = Shape(n, q, Dim(0, c.tokens))
      BY <1>3, <2>8, FirstCases DEF n
    <3> HIDE DEF d
    <3>2. Takes(w, d) /\ d.reqs = n /\ d.q = q /\ d.tokens = c.tokens
      <4>1. Dim(0, c.tokens) = c.tokens /\ n * q <= c.tokens
        BY <2>1, <2>4 DEF Dim
      <4> QED
        BY <2>1, <2>5, <3>1, <4>1, TakesShape
    <3>3. ~w.idle => Opening(c, w, d) \in warmup_model(c)
      <4>1. DraftDim(c, n, N) = c.tokens /\ k = c.tokens
        BY <2>8, <3>2 DEF DraftDim
      <4> QED
        BY <1>5, <1>7, <2>1, <2>2, <2>3, <3>2, <4>1
    <3> QED
      BY <3>2, <3>3 DEF d
  <2>9. CASE c.dp # 1 /\ c.moe /\ c.specialized /\ any
    <3>1. d = Shape(Top(c), q, Dim(0, c.tokens))
      BY <1>3, <1>7, <2>9, FirstCases
    <3> HIDE DEF d
    <3>2. Takes(w, d) /\ d.reqs = Top(c) /\ d.q = q /\ d.tokens = c.tokens
      <4>1. Dim(0, c.tokens) = c.tokens /\ Top(c) * q <= c.tokens /\ w.reqs <= Top(c) /\ Top(c) \in Nat
        BY <1>1, <1>2, <2>4 DEF Dim
      <4> QED
        BY <2>5, <3>1, <4>1, TakesShape
    <3>3. ~w.idle => Opening(c, w, d) \in warmup_model(c)
      <4>1. FirstKey(Top(c), N, c.tokens) \in warmup_model(c)
        BY <1>1, <2>9, DraftTopKey DEF N
      <4>2. k = c.tokens
        BY <2>9, <3>2
      <4> QED
        BY <1>5, <1>7, <2>2, <3>2, <4>1, <4>2
    <3> QED
      BY <3>2, <3>3 DEF d
  <2>10. CASE c.dp # 1 /\ c.moe /\ c.specialized /\ ~any
    <3> DEFINE b == Joint(c, s)
               t == b * N
    <3>1. b \in decode_batch_buckets(c) /\ b \in 1..c.max /\ w.reqs <= b
      BY <1>3, <2>10, JointRows
    <3>2. Max(AllLens(s)) = N
      BY <1>1, <1>3, <2>10, JointLen DEF N
    <3>3. d = Shape(b, q, Dim(0, t))
      <4>1. c.moe /\ c.specialized /\ ~w.prefill /\ DOMAIN s # {} /\ ~any
        BY <1>3, <1>7, <2>10
      <4>2. d = Shape(b, q, Dim(0, b * Max(AllLens(s))))
        BY <4>1, FirstCases, SMTT(30)
      <4> QED
        BY <3>2, <4>2
    <3> HIDE DEF d, b
    <3>4. b * q <= t /\ b \in Nat
      <4>1. b \in Nat \ {0}
        BY <1>2, <3>1
      <4>2. q <= N /\ N \in Nat \ {0} /\ q \in Nat
        BY <1>2, <1>5, <1>7
      <4>3. b * q <= b * N
        <5> HIDE DEF q
        <5> QED
          BY <4>1, <4>2, MulFacts
      <4> QED
        BY <4>1, <4>3
    <3> HIDE DEF t
    <3>5. Takes(w, d) /\ d.reqs = b /\ d.q = q /\ d.tokens = t
      <4>1. Dim(0, t) = t
        BY DEF Dim
      <4> QED
        BY <2>5, <3>1, <3>3, <3>4, <4>1, TakesShape
    <3>6. ~w.idle => Opening(c, w, d) \in warmup_model(c)
      <4>1. DraftDim(c, b, N) = t /\ k = t
        BY <2>10, <3>5 DEF DraftDim, t
      <4> QED
        BY <1>5, <1>7, <2>2, <2>3, <3>1, <3>5, <4>1
    <3> QED
      BY <3>5, <3>6 DEF d
  <2> QED
    BY <2>6, <2>7, <2>8, <2>9, <2>10
<1> QED
  BY <1>1, <1>6, <1>7

(* A later pass.                                                             *)
LEMMA LaterServed ==
    ASSUME NEW c \in Configs, NEW r, NEW s, NEW w, NEW m \in Nat, m > 1, Heard(c, r, s, w, m),
           c.dp # 1 => Busy(s) # {}
    PROVE  LET d == Later(c, w, s, 0)
           IN  Takes(w, d) /\ Closing(c, w, d) \in warmup_model(c)
<1> DEFINE d == Later(c, w, s, 0)
           n == LocalReqs(c, w)
           q == QueryLen(w)
           k == IF c.moe THEN d.tokens ELSE 0
<1>1. /\ uses_fixed_decode_window(c) /\ c.spec > 1 /\ w.reqs \in 1..c.max /\ w.prefill \in BOOLEAN
      /\ ~w.prefill /\ OneEach(w)
  BY DEF Heard, OneEach
<1>2. c.tokens \in Nat \ {0} /\ c.max \in Nat \ {0} /\ c.spec \in Nat
  BY ShapeNumbers
<1>3. ASSUME c.dp # 1
      PROVE  DOMAIN s # {} /\ Group(c, s) /\ r \in DOMAIN s /\ s[r].reqs = w.reqs
  BY <1>3 DEF Heard, Group
<1>4. c.dp = 1 => DOMAIN s = {}
  BY DEF Heard
<1>5. q = 1
  <2>1. \A x \in Nat \ {0} : x \div x = 1
    OBVIOUS
  <2> QED
    BY <1>1, <2>1 DEF QueryLen, OneEach
<1>6. n \in decode_batch_buckets(c) /\ n \in 1..c.max /\ w.reqs <= n /\ n \in Nat \ {0}
  BY <1>1, OwnRows
<1>7. Closing(c, w, d) = LaterKey(d.reqs, d.q, k)
  <2> HIDE DEF d
  <2> QED
    BY <1>1, DraftKeys
<1>8. \A b \in decode_batch_buckets(c) : LaterKey(b, 1, DraftDim(c, b, 1)) \in warmup_model(c)
  BY <1>1, DraftDecodeKey
<1>9. \A b \in 1..c.max : b * 1 <= c.tokens /\ b * 1 \in Nat /\ b \in Nat
  <2>1. 1 \in 0..(c.spec + 1)
    BY <1>2
  <2> QED
    BY <2>1, DecodeFits
<1>10. q \in Nat
  BY <1>5
<1> HIDE DEF n, q
<1>11. CASE c.dp = 1
  <2>1. d = Shape(n, q, 0)
    BY <1>1, <1>4, <1>11, LaterCases DEF n, q
  <2> HIDE DEF d
  <2>2. Takes(w, d) /\ d.reqs = n /\ d.q = q /\ d.tokens = 0
    BY <1>6, <1>10, <2>1, TakesShape DEF q
  <2>3. DraftDim(c, n, 1) = 0 /\ k = 0
    BY <1>11, <2>2 DEF DraftDim
  <2>4. Closing(c, w, d) \in warmup_model(c)
    BY <1>5, <1>6, <1>7, <1>8, <2>2, <2>3
  <2> QED
    BY <2>2, <2>4 DEF d
<1>12. CASE c.dp # 1 /\ ~c.moe
  <2>1. d = Shape(n, q, n * q)
    BY <1>1, <1>3, <1>12, LaterCases DEF n, q
  <2> HIDE DEF d
  <2>2. Takes(w, d) /\ d.reqs = n /\ d.q = q
    <3>1. n * q <= n * q
      BY <1>6, <1>10
    <3> QED
      BY <1>6, <1>10, <2>1, <3>1, TakesShape DEF q
  <2>3. DraftDim(c, n, 1) = 0 /\ k = 0
    BY <1>12 DEF DraftDim
  <2>4. Closing(c, w, d) \in warmup_model(c)
    BY <1>5, <1>6, <1>7, <1>8, <2>2, <2>3
  <2> QED
    BY <2>2, <2>4 DEF d
<1>13. CASE c.dp # 1 /\ c.moe /\ ~c.specialized
  <2>1. d = Shape(n, q, c.tokens)
    BY <1>1, <1>3, <1>13, LaterCases DEF n, q
  <2> HIDE DEF d
  <2>2. Takes(w, d) /\ d.reqs = n /\ d.q = q /\ d.tokens = c.tokens
    <3>1. n * q <= c.tokens
      BY <1>5, <1>6, <1>9
    <3> QED
      BY <1>6, <1>10, <2>1, <3>1, TakesShape DEF q
  <2>3. DraftDim(c, n, 1) = c.tokens /\ k = c.tokens
    BY <1>13, <2>2 DEF DraftDim
  <2>4. Closing(c, w, d) \in warmup_model(c)
    BY <1>5, <1>6, <1>7, <1>8, <2>2, <2>3
  <2> QED
    BY <2>2, <2>4 DEF d
<1>14. CASE c.dp # 1 /\ c.moe /\ c.specialized
  <2> DEFINE b == Joint(c, s)
             t == b * 1
  <2>1. b \in decode_batch_buckets(c) /\ b \in 1..c.max /\ w.reqs <= b
    BY <1>3, <1>14, JointRows
  <2>2. Max({q}) = 1
    BY <1>5, MaxOne
  <2>3. d = Shape(b, q, t)
    <3>1. d = Shape(b, q, b * Max({q}))
      BY <1>1, <1>3, <1>14, LaterCases DEF q
    <3> QED
      BY <2>2, <3>1
  <2> HIDE DEF d, b
  <2>4. b * q <= t /\ b \in Nat
    BY <1>5, <1>9, <2>1
  <2> HIDE DEF t
  <2>5. Takes(w, d) /\ d.reqs = b /\ d.q = q /\ d.tokens = t
    BY <1>10, <2>1, <2>3, <2>4, TakesShape DEF q
  <2>6. DraftDim(c, b, 1) = t /\ k = t
    BY <1>14, <2>5 DEF DraftDim, t
  <2>7. Closing(c, w, d) \in warmup_model(c)
    BY <1>5, <1>7, <1>8, <2>1, <2>5, <2>6
  <2> QED
    BY <2>5, <2>7 DEF d
<1> QED
  BY <1>11, <1>12, <1>13, <1>14

-----------------------------------------------------------------------------
(* The steps keep what the ranks know.                                       *)

(* A status that says the same is of a batch that a rank may bring.          *)
LEMMA SaysBrings ==
    ASSUME NEW c, NEW w, Brings(c, w), NEW v, Says(v, w)
    PROVE  Brings(c, v)
  BY DEF Says, Brings

(* A rank brings a batch; the step leaves the other ranks alone.             *)
LEMMA RankBrings ==
    ASSUME IInv, Informed, NEW r \in Ranks, NEW w, Brings(config, w), Bring(r, w)
    PROVE  Informed'
<1> USE DEF IInv
<1>1. /\ pc[r] = "loop" /\ work' = [work EXCEPT ![r] = w] /\ pc' = [pc EXCEPT ![r] = "reduce"]
      /\ UNCHANGED <<config, status, desc, pass>> /\ Ranks' = Ranks
  BY DEF Bring, Ranks
<1>2. /\ \A t \in Ranks : t # r => pc'[t] = pc[t] /\ work'[t] = work[t]
      /\ pc'[r] = "reduce" /\ work'[r] = w
  BY <1>1 DEF Types
<1>3. ASSUME NEW t \in Ranks
      PROVE  Knows(config, t, pc'[t], status[t], work'[t], pass[t], desc[t])
  <2>1. Knows(config, t, pc[t], status[t], work[t], pass[t], desc[t])
    BY DEF Informed
  <2>2. CASE t # r
    BY <1>2, <2>1, <2>2
  <2>3. CASE t = r
    <3>1. config.dp = 1 => DOMAIN status[r] = {}
      BY <1>1, <2>1, <2>3 DEF Knows
    <3> QED
      BY <1>2, <2>3, <3>1 DEF Knows, Round
  <2> QED
    BY <2>2, <2>3
<1> QED
  BY <1>1, <1>3 DEF Informed

(* What the ranks bring.                                                     *)
LEMMA WorkBrings ==
    ASSUME IInv, Informed, NEW r \in Ranks, Prefill(r) \/ DecodeBatch(r) \/ execute_dummy_batch(r)
    PROVE  Informed'
<1>1. config \in Configs /\ Chunks \subseteq Nat \ {0}
  BY ConfigsAssumption DEF IInv, Types
<1>2. /\ config.tokens \in Nat \ {0} /\ config.max \in Nat \ {0} /\ config.spec \in Nat
      /\ 1 \in 1..config.max
  BY <1>1, ShapeNumbers
<1>3. CASE Prefill(r)
  <2>1. PICK n \in Chunks \cup {config.tokens}, f \in Fits :
           n <= config.tokens /\ Bring(r, BatchOf(1, n, TRUE, FALSE, f))
    BY <1>3 DEF Prefill
  <2> DEFINE w == BatchOf(1, n, TRUE, FALSE, f)
  <2>2. n \in 1..config.tokens
    BY <1>1, <1>2, <2>1
  <2>3. w.reqs = 1 /\ w.tokens = n /\ w.prefill = TRUE /\ w.idle = FALSE
    BY DEF BatchOf
  <2>4. Brings(config, w)
    <3> HIDE DEF w
    <3> QED
      BY <1>2, <2>2, <2>3 DEF Brings
  <2> HIDE DEF w
  <2> QED
    BY <2>1, <2>4, RankBrings DEF w
<1>4. CASE DecodeBatch(r)
  <2>1. PICK n \in 1..config.max, q \in {1, config.spec + 1}, f \in Fits :
           /\ uses_fixed_decode_window(config) => q = config.spec + 1
           /\ Bring(r, BatchOf(n, n * q, FALSE, FALSE, f))
    BY <1>4 DEF DecodeBatch
  <2> DEFINE w == BatchOf(n, n * q, FALSE, FALSE, f)
  <2>2. w.reqs = n /\ w.tokens = n * q /\ w.prefill = FALSE /\ w.idle = FALSE
    BY DEF BatchOf
  <2>3. q \in WarmLens(config)
    BY <1>1, <2>1, WarmLensFacts
  <2>4. Brings(config, w)
    <3> HIDE DEF w
    <3> QED
      BY <2>2, <2>3 DEF Brings
  <2> HIDE DEF w
  <2> QED
    BY <2>1, <2>4, RankBrings DEF w
<1>5. CASE execute_dummy_batch(r)
  <2> DEFINE w == BatchOf(1, 1, FALSE, TRUE, TRUE)
  <2>1. w.reqs = 1 /\ w.tokens = 1 /\ w.prefill = FALSE /\ w.idle = TRUE
    BY DEF BatchOf
  <2>2. Bring(r, w)
    BY <1>5 DEF execute_dummy_batch
  <2> HIDE DEF w
  <2>3. Brings(config, w)
    BY <1>2, <2>1 DEF Brings
  <2> QED
    BY <2>2, <2>3, RankBrings
<1> QED
  BY <1>3, <1>4, <1>5

(* A rank that leaves the round forgets it.                                  *)
LEMMA LeaveForgets ==
    ASSUME IInv, Informed, NEW R \in SUBSET Ranks, Leave(R), UNCHANGED config
    PROVE  Informed'
<1>1. Ranks' = Ranks
  BY DEF Ranks
<1>2. ASSUME NEW t \in Ranks
      PROVE  Knows(config, t, pc'[t], status'[t], work'[t], pass'[t], desc'[t])
  <2>1. Knows(config, t, pc[t], status[t], work[t], pass[t], desc[t])
    BY DEF Informed
  <2>2. CASE t \notin R
    <3>1. pc'[t] = pc[t] /\ status'[t] = status[t] /\ work'[t] = work[t] /\ pass'[t] = pass[t] /\ desc'[t] = desc[t]
      BY <2>2 DEF Leave
    <3> QED
      BY <2>1, <3>1
  <2>3. CASE t \in R
    <3>1. pc'[t] = "loop" /\ status'[t] = <<>>
      BY <2>3 DEF Leave
    <3>2. DOMAIN status'[t] = {}
      BY <3>1
    <3> QED
      BY <3>1, <3>2 DEF Knows, Round
  <2> QED
    BY <2>2, <2>3
<1> QED
  BY <1>1, <1>2 DEF Informed

(* A slot of the all-reduce.                                                 *)
LEMMA SlotRead ==
    ASSUME IInv, \A r \in Ranks : pc[r] = "reduce", NEW t \in Ranks
    PROVE  /\ DOMAIN _synchronize_dp_ranks([i \in Ranks |-> Encode(work[i])]) = Ranks
           /\ Says(_synchronize_dp_ranks([i \in Ranks |-> Encode(work[i])])[t], work[t])
<1> USE DEF IInv
<1> DEFINE values == [i \in Ranks |-> Encode(work[i])]
           S == _synchronize_dp_ranks(values)
<1>1. ASSUME NEW x \in Ranks
      PROVE  Encode(work[x]) \in Int /\ Decode(Encode(work[x])).prefill = work[x].prefill
  BY DecodedFlag DEF Brought
<1>2. /\ Decode(Encode(work[t])).tokens = work[t].tokens /\ Decode(Encode(work[t])).reqs = work[t].reqs
      /\ Decode(Encode(work[t])).idle = work[t].idle
  BY DecodedFields DEF Brought
<1>3. DOMAIN S = Ranks
  BY DEF _synchronize_dp_ranks
<1>4. S[t] = Decode(Encode(work[t]))
  <2>1. values \in [Ranks -> Int] /\ values[t] = Encode(work[t]) /\ DOMAIN values = Ranks
    BY <1>1
  <2>2. IsFiniteSet(Ranks)
    <3>1. config.dp \in Nat
      BY ConfigNumbers DEF Types
    <3> QED
      BY <3>1, FS_Interval DEF Ranks
  <2> HIDE DEF values
  <2>3. _run_ar(values)[t] = values[t]
    BY <2>1, <2>2, OwnSlot DEF _run_ar
  <2> QED
    BY <2>1, <2>3 DEF _synchronize_dp_ranks
<1> QED
  BY <1>1, <1>2, <1>3, <1>4 DEF Says

(* After the all-reduce every rank knows what each of them brings.           *)
LEMMA AllReduceInforms ==
    ASSUME IInv, Informed, AllReduce
    PROVE  Informed'
<1> USE DEF IInv
<1> DEFINE S == _synchronize_dp_ranks([i \in Ranks |-> Encode(work[i])])
<1>1. /\ \A r \in Ranks : pc[r] = "reduce" /\ pc'[r] = "decide"
      /\ UNCHANGED <<config, work, desc, pass>> /\ Ranks' = Ranks
      /\ status' = IF config.dp = 1 THEN status ELSE [r \in Ranks |-> S]
  BY DEF AllReduce, Ranks
<1>2. DOMAIN S = Ranks /\ \A t \in Ranks : Says(S[t], work[t])
  <2>1. 0 \in Ranks
    <3>1. config.dp \in Nat \ {0}
      BY ConfigNumbers DEF Types
    <3> QED
      BY <3>1 DEF Ranks
  <2> QED
    BY <1>1, <2>1, SlotRead
<1> HIDE DEF S
<1>3. ASSUME NEW t \in Ranks PROVE Brings(config, work[t])
  BY <1>1 DEF Informed, Knows
<1>4. \A t \in Ranks : Brings(config, S[t])
  BY <1>2, <1>3, SaysBrings
<1>5. ASSUME NEW t \in Ranks
      PROVE  Knows(config, t, pc'[t], status'[t], work[t], pass[t], desc[t])
  <2>1. pass[t] = 0
    BY <1>1 DEF Counted
  <2>2. work[t].reqs \in 1..config.max /\ work[t].prefill \in BOOLEAN
    BY <1>3 DEF Brings
  <2>3. CASE config.dp = 1
    <3>1. DOMAIN status'[t] = {}
      BY <1>1, <2>3 DEF Informed, Knows
    <3>2. Heard(config, t, status'[t], work[t], 0)
      BY <1>3, <2>2, <2>3, <3>1 DEF Heard
    <3> QED
      BY <1>1, <2>1, <3>2 DEF Knows, Round
  <2>4. CASE config.dp # 1
    <3>1. status'[t] = S
      BY <1>1, <2>4
    <3>2. /\ t \in DOMAIN S /\ (\A i \in DOMAIN S : Brings(config, S[i])) /\ S[t].reqs = work[t].reqs
          /\ S[t].idle = work[t].idle /\ S[t].prefill = work[t].prefill /\ S[t].tokens = work[t].tokens
      BY <1>2, <1>4 DEF Says
    <3>3. Heard(config, t, S, work[t], 0)
      BY <1>3, <2>2, <2>4, <3>2 DEF Heard
    <3> QED
      BY <1>1, <2>1, <3>1, <3>3 DEF Knows, Round
  <2> QED
    BY <2>3, <2>4
<1> QED
  BY <1>1, <1>5 DEF Informed

(* A rank that goes on to the forward pass is not of a drained group.        *)
LEMMA DecideInforms ==
    ASSUME IInv, Informed, NEW r \in Ranks, Decide(r)
    PROVE  Informed'
<1> USE DEF IInv
<1> DEFINE d == determine_batch_execution_and_padding(config, work[r], status[r], 0)
<1>1. CASE d = NoShape
  BY <1>1, LeaveForgets DEF Decide
<1>2. CASE d # NoShape
  <2>1. /\ pc[r] = "decide" /\ desc' = [desc EXCEPT ![r] = d] /\ pc' = [pc EXCEPT ![r] = "forward"]
        /\ UNCHANGED <<config, work, status, pass>> /\ Ranks' = Ranks
    BY <1>2 DEF Decide, Ranks
  <2>2. /\ \A t \in Ranks : t # r => pc'[t] = pc[t] /\ desc'[t] = desc[t]
        /\ pc'[r] = "forward"
    BY <2>1 DEF Types
  <2>3. Heard(config, r, status[r], work[r], pass[r])
    BY <2>1 DEF Informed, Knows, Round
  <2>4. ASSUME config.dp # 1 PROVE Busy(status[r]) # {}
    <3>1. DOMAIN status[r] # {}
      BY <2>3, <2>4 DEF Heard
    <3> QED
      BY <1>2, <3>1, TargetCases
  <2>5. ASSUME NEW t \in Ranks
        PROVE  Knows(config, t, pc'[t], status[t], work[t], pass[t], desc'[t])
    <3>1. CASE t # r
      BY <2>2, <3>1 DEF Informed
    <3>2. CASE t = r
      BY <2>2, <2>3, <2>4, <3>2 DEF Knows, Round
    <3> QED
      BY <3>1, <3>2
  <2> QED
    BY <2>1, <2>5 DEF Informed
<1> QED
  BY <1>1, <1>2

(* The forward pass leaves a dummy a length of the drafter's.                *)
LEMMA ForwardInforms ==
    ASSUME IInv, Informed, Forward
    PROVE  Informed'
<1> USE DEF IInv
<1>1. /\ \A r \in Ranks : pc[r] = "forward" /\ pc'[r] = "drafting"
      /\ UNCHANGED <<config, work, status, desc, pass>> /\ Ranks' = Ranks
  BY DEF Forward, Ranks
<1>2. ASSUME NEW t \in Ranks
      PROVE  Knows(config, t, pc'[t], status[t], work[t], pass[t], desc[t])
  <2> DEFINE w == work[t]
             s == status[t]
             c == config
  <2>1. pass[t] = 0
    BY <1>1 DEF Counted
  <2>2. Heard(c, t, s, w, 0) /\ (c.dp # 1 => Busy(s) # {}) /\ c \in Configs
    BY <1>1, <2>1 DEF Informed, Knows, Round, Types
  <2>3. desc[t] = determine_batch_execution_and_padding(c, w, s, 0)
    BY <1>1 DEF Determined
  <2> HIDE DEF w, s, c
  <2>4. Serves(c, w, determine_batch_execution_and_padding(c, w, s, 0))
    BY <2>2, TargetServed
  <2>5. w.idle => desc[t].q \in {1, c.spec + 1}
    BY <2>3, <2>4 DEF Serves
  <2> QED
    BY <1>1, <2>1, <2>2, <2>5 DEF Knows, Round, w, s, c
<1> QED
  BY <1>1, <1>2 DEF Informed

(* The first draft pass: a dummy takes the length that was decided, or its   *)
(* window.                                                                   *)
LEMMA StartDraftInforms ==
    ASSUME IInv, Informed, NEW r \in Ranks, StartDraft(r)
    PROVE  Informed'
<1> USE DEF IInv
<1>1. CASE ~Drafts(r)
  BY <1>1, LeaveForgets DEF StartDraft
<1>2. CASE Drafts(r)
  <2> DEFINE v == DraftWork(r)
             w == work[r]
             s == status[r]
             c == config
             d == desc[r]
             N == c.spec + 1
  <2>1. /\ pc[r] = "drafting" /\ DOMAIN desc' = Ranks
        /\ pc' = [pc EXCEPT ![r] = "draft"] /\ pass' = [pass EXCEPT ![r] = 1]
        /\ work' = [work EXCEPT ![r] = v] /\ UNCHANGED <<config, status>> /\ Ranks' = Ranks
        /\ \A t \in Ranks : t # r => desc'[t] = desc[t]
    BY <1>2 DEF StartDraft, Ranks, Types
  <2>2. uses_fixed_decode_window(c) /\ c \in Configs /\ IsBatch(w) /\ pass[r] = 0
    BY <1>2, <2>1 DEF Drafts, Types, Counted
  <2>3. /\ Heard(c, r, s, w, 0) /\ (c.dp # 1 => Busy(s) # {})
        /\ w.idle => d.q \in {1, N}
    BY <2>1, <2>2 DEF Informed, Knows, Round
  <2>4. Heard(c, r, s, v, 1)
    <3>1. CASE ~w.idle
      <4>1. v = w
        BY <3>1 DEF DraftWork
      <4> HIDE DEF v, w, s, c
      <4> QED
        BY <2>2, <2>3, <3>1, <4>1 DEF Heard, Drafted
    <3>2. CASE w.idle
      <4> DEFINE x == IF c.spec = 1 THEN Staged(c, w, d) ELSE d.q
      <4>1. v = [w EXCEPT !.tokens = w.reqs * x]
        BY <3>2 DEF DraftWork
      <4>2. /\ w.reqs \in 1..c.max /\ w.reqs = 1 /\ ~w.prefill /\ w.prefill \in BOOLEAN
            /\ WarmLens(c) = {N} /\ c.spec \in Nat
        <5> HIDE DEF w, s, c
        <5>1. Brings(c, w) /\ w.reqs \in 1..c.max /\ w.prefill \in BOOLEAN
          BY <2>3 DEF Heard
        <5>2. w.reqs = 1 /\ ~w.prefill
          BY <2>2, <3>2, <5>1, LenFacts
        <5>3. WarmLens(c) = {N} /\ c.spec \in Nat
          BY <2>2, WarmLensFacts
        <5> QED
          BY <5>1, <5>2, <5>3
      <4>3. x \in {1, N}
        <5> HIDE DEF w, c, d
        <5>1. Staged(c, w, d) \in WarmLens(c)
          <6>1. d.q \in WarmLens(c) \/ d.q = 1
            BY <2>3, <3>2, <4>2
          <6> QED
            BY <2>2, <4>2, <6>1, StagedWarm
        <5> QED
          BY <2>3, <3>2, <4>2, <5>1
      <4>4. v.tokens = w.reqs * x /\ v.reqs = w.reqs /\ v.prefill = w.prefill /\ v.idle = w.idle
        <5> HIDE DEF v, w, x, c, d
        <5> QED
          BY <2>2, <4>1 DEF IsBatch
      <4>5. v.tokens \in {1, N}
        <5>1. N \in Nat
          BY <4>2
        <5> HIDE DEF v, w, x, N
        <5>2. w.reqs * x = x
          BY <4>2, <4>3, <5>1
        <5> QED
          BY <4>3, <4>4, <5>2
      <4>6. Drafted(c, v)
        <5> HIDE DEF v, w, c
        <5> QED
          BY <3>2, <4>2, <4>4, <4>5 DEF Drafted
      <4> HIDE DEF v, w, s, c
      <4>7. v.idle
        BY <3>2, <4>4
      <4>8. c.dp = 1 => DOMAIN s = {}
        BY <2>3 DEF Heard
      <4>9. c.dp # 1 => /\ r \in DOMAIN s /\ (\A i \in DOMAIN s : Brings(c, s[i]))
                        /\ s[r].reqs = v.reqs /\ s[r].idle = v.idle /\ s[r].prefill = v.prefill
        BY <2>3, <4>4 DEF Heard
      <4>10. v.reqs \in 1..c.max /\ v.prefill \in BOOLEAN
        BY <4>2, <4>4
      <4> DEFINE n == 1
      <4>11. n # 0 /\ ~(n > 1) /\ n > 0
        OBVIOUS
      <4> HIDE DEF n
      <4>12. Heard(c, r, s, v, n)
        BY ONLY <2>2, <4>6, <4>7, <4>8, <4>9, <4>10, <4>11 DEF Heard
      <4> QED
        BY <4>12 DEF n
    <3> QED
      BY <3>1, <3>2
  <2>5. /\ \A t \in Ranks : t # r => pc'[t] = pc[t] /\ work'[t] = work[t] /\ pass'[t] = pass[t]
        /\ pc'[r] = "draft" /\ work'[r] = v /\ pass'[r] = 1
    BY <2>1 DEF Types
  <2> HIDE DEF v
  <2>6. ASSUME NEW t \in Ranks
        PROVE  Knows(config, t, pc'[t], status[t], work'[t], pass'[t], desc'[t])
    <3>1. CASE t # r
      BY <2>1, <2>5, <3>1 DEF Informed
    <3>2. CASE t = r
      BY <2>3, <2>4, <2>5, <3>2 DEF Knows, Round
    <3> QED
      BY <3>1, <3>2
  <2> QED
    BY <2>1, <2>6 DEF Informed
<1> QED
  BY <1>1, <1>2

(* A later pass, which only a drafter of several tokens has.                 *)
LEMMA EndPassInforms ==
    ASSUME IInv, Informed, NEW R \in SUBSET Ranks, \A r \in R : pc[r] = "draft", EndPass(R)
    PROVE  Informed'
<1> USE DEF IInv
<1>1. CASE \A r \in R : pass[r] = config.spec
  BY <1>1, LeaveForgets DEF EndPass
<1>2. CASE ~ \A r \in R : pass[r] = config.spec
  <2>1. /\ pass' = [r \in Ranks |-> IF r \in R THEN pass[r] + 1 ELSE pass[r]]
        /\ work' = [r \in Ranks |-> IF r \in R THEN OneToken(work[r]) ELSE work[r]]
        /\ \A t \in Ranks : t \notin R => desc'[t] = desc[t]
        /\ UNCHANGED <<config, pc, status>> /\ Ranks' = Ranks
    BY <1>2 DEF EndPass, Ranks
  <2>2. ASSUME NEW t \in R
        PROVE  /\ pass[t] \in Nat \ {0} /\ Heard(config, t, status[t], work[t], pass[t])
               /\ config.dp # 1 => Busy(status[t]) # {}
               /\ IsBatch(work[t]) /\ work[t].reqs # 0
    BY DEF Informed, Knows, Round, Types, Counted, Brought
  <2>3. config.spec > 1
    <3>1. PICK t \in R : pass[t] # config.spec
      BY <1>2
    <3>2. uses_fixed_decode_window(config) /\ (pass[t] > 1 => config.spec > 1) /\ pass[t] \in Nat \ {0}
      BY <2>2 DEF Heard
    <3>3. config.spec \in Nat \ {0}
      BY <3>2, WarmLensFacts DEF Types
    <3> QED
      BY <3>1, <3>2, <3>3
  <2>4. ASSUME NEW t \in Ranks
        PROVE  Knows(config, t, pc[t], status[t], work'[t], pass'[t], desc'[t])
    <3>1. CASE t \notin R
      <4>1. work'[t] = work[t] /\ pass'[t] = pass[t] /\ desc'[t] = desc[t]
        BY <2>1, <3>1
      <4> QED
        BY <4>1 DEF Informed
    <3>2. CASE t \in R
      <4> DEFINE w == work[t]
                 v == OneToken(work[t])
                 n == pass[t]
      <4>1. /\ n \in Nat \ {0} /\ Heard(config, t, status[t], w, n) /\ IsBatch(w) /\ w.reqs # 0
            /\ config.dp # 1 => Busy(status[t]) # {}
        BY <2>2, <3>2
      <4>2. v.reqs = w.reqs /\ v.tokens = w.reqs /\ v.prefill = FALSE /\ v.idle = w.idle
        BY <4>1 DEF OneToken, IsBatch
      <4>3. work'[t] = v /\ pass'[t] = n + 1 /\ pc[t] = "draft"
        BY <2>1, <3>2
      <4> HIDE DEF w, v, n
      <4>4. OneEach(v)
        BY <4>1, <4>2 DEF OneEach, IsBatch
      <4>5. n + 1 > 1 /\ ~(n + 1 <= 1) /\ n + 1 # 0 /\ n + 1 # 1 /\ n > 0
        BY <4>1
      <4> DEFINE m == n + 1
      <4> HIDE DEF m
      <4>6. m > 1 /\ ~(m <= 1) /\ m # 0 /\ m # 1
        BY <4>5 DEF m
      <4>7. v.reqs \in 1..config.max /\ v.prefill \in BOOLEAN /\ uses_fixed_decode_window(config)
        BY <4>1, <4>2, <4>5 DEF Heard
      <4>8. config.dp = 1 => DOMAIN status[t] = {}
        BY <4>1 DEF Heard
      <4>9. config.dp # 1 => /\ t \in DOMAIN status[t]
                             /\ \A i \in DOMAIN status[t] : Brings(config, status[t][i])
                             /\ status[t][t].reqs = v.reqs /\ status[t][t].idle = v.idle
        BY <4>1, <4>2 DEF Heard
      <4>10. Heard(config, t, status[t], v, m)
        BY <2>3, <4>4, <4>6, <4>7, <4>8, <4>9 DEF Heard
      <4> QED
        BY <4>1, <4>3, <4>10 DEF Knows, Round, m
    <3> QED
      BY <3>1, <3>2
  <2> QED
    BY <2>1, <2>4 DEF Informed
<1> QED
  BY <1>1, <1>2

(* Both invariants hold in every state.                                      *)
THEOREM RoundsAreInformed == Spec => [](IInv /\ Informed)
<1>1. Init => IInv /\ Informed
  <2> SUFFICES ASSUME Init PROVE Informed
    BY InitKeeps
  <2>1. ASSUME NEW r \in Ranks
        PROVE  Knows(config, r, pc[r], status[r], work[r], pass[r], desc[r])
    <3>1. pc[r] = "loop" /\ status[r] = <<>>
      BY DEF Init
    <3>2. DOMAIN status[r] = {}
      BY <3>1
    <3> QED
      BY <3>1, <3>2 DEF Knows, Round
  <2> QED
    BY <2>1 DEF Informed
<1>2. IInv /\ Informed /\ IInv' /\ [Next]_vars => Informed'
  <2>1. ASSUME IInv, Informed, NEW r \in Ranks, DraftAlone(r) PROVE Informed'
    <3>1. {r} \in SUBSET Ranks /\ (\A q \in {r} : pc[q] = "draft") /\ EndPass({r})
      BY <2>1 DEF DraftAlone
    <3> QED
      BY <2>1, <3>1, EndPassInforms
  <2>2. IInv /\ Informed /\ DraftTogether => Informed'
    BY EndPassInforms DEF DraftTogether
  <2>3. ASSUME IInv, Informed, NEW r \in Ranks, RankStep(r) PROVE Informed'
    BY <2>1, <2>3, WorkBrings, DecideInforms, StartDraftInforms DEF RankStep
  <2>4. IInv /\ Informed /\ UNCHANGED vars => Informed'
    BY DEF vars, Informed, Ranks
  <2> QED
    BY <2>2, <2>3, <2>4, AllReduceInforms, ForwardInforms DEF Next
<1> QED
  BY <1>1, <1>2, Invariance, PTL DEF Spec

(* What a rank in a pass has been given.                                     *)
LEMMA PassServed ==
    ASSUME IInv, Informed, NEW r \in Ranks
    PROVE  /\ pc[r] = "forward" => Serves(config, work[r], desc[r])
           /\ pc[r] = "draft" =>
                /\ Takes(work[r], desc[r])
                /\ ~work[r].idle => DraftKey(config, work[r], desc[r], pass[r] = 1) \in warmup_model(config)
<1> USE DEF IInv
<1> DEFINE w == work[r]
           s == status[r]
           c == config
           d == desc[r]
           n == pass[r]
<1>1. c \in Configs /\ Knows(c, r, pc[r], s, w, n, d) /\ n \in Nat
  BY DEF Informed, Types
<1>2. CASE pc[r] = "forward"
  <2>1. n = 0 /\ d = determine_batch_execution_and_padding(c, w, s, 0)
    BY <1>2 DEF Counted, Determined
  <2> HIDE DEF w, s, c, d, n
  <2>2. Heard(c, r, s, w, 0) /\ (c.dp # 1 => Busy(s) # {})
    BY <1>1, <1>2, <2>1 DEF Knows, Round
  <2>3. Serves(c, w, d)
    BY <1>1, <2>1, <2>2, TargetServed
  <2> QED
    BY <1>2, <2>3 DEF c, w, d
<1>3. CASE pc[r] = "draft"
  <2>1. n # 0 /\ d = determine_draft_batch_execution_and_padding(c, w, s, n = 1, 0)
    BY <1>3 DEF Counted, Determined
  <2> HIDE DEF w, s, c, d, n
  <2>2. Heard(c, r, s, w, n) /\ (c.dp # 1 => Busy(s) # {})
    BY <1>1, <1>3 DEF Knows, Round
  <2>3. CASE n = 1
    <3>1. (n = 1) = TRUE
      BY <2>3
    <3>2. d = First(c, w, s, 0)
      BY <2>1, <3>1 DEF First
    <3>3. Takes(w, d) /\ (~w.idle => Opening(c, w, d) \in warmup_model(c))
      BY <1>1, <2>2, <2>3, <3>2, FirstServed
    <3>4. Opening(c, w, d) = DraftKey(c, w, d, n = 1)
      BY <3>1 DEF Opening
    <3> QED
      BY <1>3, <3>3, <3>4 DEF c, w, d, n
  <2>4. CASE n # 1
    <3>1. (n = 1) = FALSE /\ n > 1
      BY <1>1, <2>1, <2>4
    <3>2. d = Later(c, w, s, 0)
      BY <2>1, <3>1 DEF Later
    <3>3. Takes(w, d) /\ Closing(c, w, d) \in warmup_model(c)
      BY <1>1, <2>2, <3>1, <3>2, LaterServed
    <3>4. Closing(c, w, d) = DraftKey(c, w, d, n = 1)
      BY <3>1 DEF Closing
    <3> QED
      BY <1>3, <3>3, <3>4 DEF c, w, d, n
  <2> QED
    BY <2>3, <2>4
<1> QED
  BY <1>2, <1>3

(* Whatever the ranks bring, each is given a shape with room for all that it *)
(* stages: its rows, and its rows times its window in the token dimension.   *)
THEOREM RowsAlwaysFit == Spec => []RowsFit
<1>1. IInv /\ Informed => RowsFit
  <2> SUFFICES ASSUME IInv, Informed, NEW r \in Ranks, InPass(r)
               PROVE  /\ work[r].reqs <= desc[r].reqs
                      /\ desc[r].tokens # 0 =>
                           desc[r].reqs * (IF pc[r] = "forward" THEN Staged(config, work[r], desc[r])
                                           ELSE desc[r].q) <= desc[r].tokens
                      /\ ~work[r].idle => QueryLen(work[r]) <= desc[r].q
    BY DEF RowsFit
  <2>1. CASE pc[r] = "forward"
    BY <2>1, PassServed DEF Serves
  <2>2. CASE pc[r] = "draft"
    BY <2>2, PassServed DEF Takes
  <2> QED
    BY <2>1, <2>2 DEF InPass
<1> QED
  BY <1>1, RoundsAreInformed, PTL

(* The shape of every target pass, an idle rank's too, and of every draft    *)
(* pass of a rank with work was compiled by warmup_model, whatever the ranks *)
(* bring and whatever the buckets.  Not so the draft passes of idle ranks,   *)
(* which can meet a query length that warm-up has not compiled.              *)
THEOREM ServedWarm == Spec => []Warmed
<1>1. IInv /\ Informed => Warmed
  <2> SUFFICES ASSUME IInv, Informed, NEW r \in Ranks
               PROVE  /\ pc[r] = "forward" => TargetKey(config, work[r], desc[r]) \in Graphs[config]
                      /\ pc[r] = "draft" /\ ~work[r].idle =>
                           DraftKey(config, work[r], desc[r], pass[r] = 1) \in Graphs[config]
    BY DEF Warmed
  <2>1. Graphs[config] = warmup_model(config)
    BY DEF Graphs, IInv, Types
  <2>2. CASE pc[r] = "forward"
    BY <2>1, <2>2, PassServed DEF Serves
  <2>3. CASE pc[r] = "draft"
    BY <2>1, <2>3, PassServed
  <2> QED
    BY <2>2, <2>3
<1> QED
  BY <1>1, RoundsAreInformed, PTL

=============================================================================
