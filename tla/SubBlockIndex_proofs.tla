------------------------- MODULE SubBlockIndex_proofs -------------------------
(***************************************************************************)
(* Proofs about SubBlockIndex, for any number of blocks and any hash tree.  *)
(* The inductive invariant is                                               *)
(*    TypeOK /\ IndexAgrees /\ ExtendedAreChains /\ EventsExact,            *)
(* proved one part at a time: IndexAgrees and EventsExact hold whatever     *)
(* the owner does with the index, ExtendedAreChains is about the blocks     *)
(* that were only extended.  MatchSound and EventsFresh are consequences of *)
(* the whole.                                                               *)
(***************************************************************************)
EXTENDS SubBlockIndex, TLAPS

(* A block that was only ever extended is indexed under an initial part of   *)
(* one chain: a hit at depth k means that it holds the k sub-blocks before.  *)
ExtendedAreChains ==
    \A b \in Block \ mixed : \A i \in 1..Len(lists[b]) :
        Chain[lists[b][i]] = SubSeq(lists[b], 1, i)

(* The list a block gets from update is a sequence of hashes that keeps what *)
(* was there and takes the rest from the new list.                           *)
LEMMA GrownType ==
    ASSUME NEW old \in Seq(Hash), NEW hs \in Seq(Hash)
    PROVE  /\ Grown(old, hs) \in Seq(Hash)
           /\ Len(Grown(old, hs)) = (IF Len(old) < Len(hs) THEN Len(hs) ELSE Len(old))
           /\ \A i \in 1..Len(Grown(old, hs)) :
                 Grown(old, hs)[i] = IF i <= Len(old) THEN old[i] ELSE hs[i]
<1> DEFINE n == IF Len(old) < Len(hs) THEN Len(hs) ELSE Len(old)
<1>1. n \in Nat /\ Len(old) \in Nat /\ Len(hs) \in Nat
  OBVIOUS
<1>2. \A i \in 1..n : (IF i <= Len(old) THEN old[i] ELSE hs[i]) \in Hash
  OBVIOUS
<1>3. Grown(old, hs) = [i \in 1..n |-> IF i <= Len(old) THEN old[i] ELSE hs[i]]
  BY DEF Grown
<1> HIDE DEF n
<1>4. Grown(old, hs) \in Seq(Hash) /\ Len(Grown(old, hs)) = n
  BY <1>1, <1>2, <1>3
<1> QED
  BY <1>3, <1>4 DEF n

(* The hashes a block is indexed under after update are those it had and     *)
(* those appended.                                                           *)
LEMMA GrownHashes ==
    ASSUME NEW old \in Seq(Hash), NEW hs \in Seq(Hash)
    PROVE  {Grown(old, hs)[i] : i \in 1..Len(Grown(old, hs))}
             = {old[i] : i \in 1..Len(old)} \cup Appended(old, hs)
<1> DEFINE g == Grown(old, hs)
<1>1. /\ g \in Seq(Hash)
      /\ Len(g) = (IF Len(old) < Len(hs) THEN Len(hs) ELSE Len(old))
      /\ \A i \in 1..Len(g) : g[i] = IF i <= Len(old) THEN old[i] ELSE hs[i]
  BY GrownType
<1> HIDE DEF g
<1>2. ASSUME NEW i \in 1..Len(g)
      PROVE  g[i] \in {old[k] : k \in 1..Len(old)} \cup Appended(old, hs)
  <2>1. CASE i <= Len(old)
    BY <1>1, <2>1
  <2>2. CASE ~(i <= Len(old))
    <3>1. i \in (Len(old) + 1)..Len(hs) /\ g[i] = hs[i]
      BY <1>1, <2>2
    <3> QED
      BY <3>1 DEF Appended
  <2> QED
    BY <2>1, <2>2
<1>3. ASSUME NEW i \in 1..Len(old)
      PROVE  old[i] \in {g[k] : k \in 1..Len(g)}
  <2>1. i \in 1..Len(g) /\ g[i] = old[i]
    BY <1>1
  <2> QED
    BY <2>1
<1>4. ASSUME NEW i \in (Len(old) + 1)..Len(hs)
      PROVE  hs[i] \in {g[k] : k \in 1..Len(g)}
  <2>1. i \in 1..Len(g) /\ g[i] = hs[i]
    BY <1>1
  <2> QED
    BY <2>1
<1> QED
  BY <1>2, <1>3, <1>4 DEF g, Appended

(* The published suffix consists of appended hashes and contains every one   *)
(* whose bucket was empty.                                                   *)
LEMMA FreshSuffixBounds ==
    ASSUME TypeOK, NEW b \in Block, NEW hs \in Seq(Hash)
    PROVE  /\ FreshSuffix(buckets, lists, b, hs) \subseteq Appended(lists[b], hs)
           /\ \A h \in Appended(lists[b], hs) :
                 buckets[h] = {} => h \in FreshSuffix(buckets, lists, b, hs)
           /\ Appended(lists[b], hs) \subseteq Hash
<1>1. Len(lists[b]) \in Nat /\ Len(hs) \in Nat
  BY DEF TypeOK
<1>2. FreshSuffix(buckets, lists, b, hs) \subseteq Appended(lists[b], hs)
  BY DEF FreshSuffix, Appended
<1>3. ASSUME NEW i \in (Len(lists[b]) + 1)..Len(hs), buckets[hs[i]] = {}
      PROVE  hs[i] \in FreshSuffix(buckets, lists, b, hs)
  <2>1. i \in (Len(lists[b]) + 1)..i
    BY <1>1
  <2> QED
    BY <1>3, <2>1 DEF FreshSuffix
<1>4. Appended(lists[b], hs) \subseteq Hash
  BY <1>1 DEF Appended
<1> QED
  BY <1>2, <1>3, <1>4 DEF Appended

-----------------------------------------------------------------------------
(* An event queue stays one when Emit publishes a set of hashes.             *)
LEMMA EmitType ==
    ASSUME NEW q \in Seq(Event), NEW kind \in {"stored", "removed", "cleared"},
           NEW hs \in SUBSET Hash
    PROVE  Emit(q, kind, hs) \in Seq(Event)
<1>1. [kind |-> kind, hashes |-> hs] \in Event
  BY DEF Event
<1> QED
  BY <1>1 DEF Emit

LEMMA TypeInit == Init => TypeOK
<1> SUFFICES ASSUME Init PROVE TypeOK
  OBVIOUS
<1>1. buckets \in [Hash -> SUBSET Block]
  BY DEF Init
<1>2. lists \in [Block -> Seq(Hash)]
  BY DEF Init
<1>3. queue \in Seq(Event) /\ view \in SUBSET Hash /\ mixed \in SUBSET Block
  BY DEF Init
<1> QED
  BY <1>1, <1>2, <1>3 DEF TypeOK

(* Every step of update, pop, reset_prefix_cache and take_events keeps the   *)
(* types.                                                                    *)
LEMMA TypeStep == TypeOK /\ [Next]_vars => TypeOK'
<1> SUFFICES ASSUME TypeOK, [Next]_vars PROVE TypeOK'
  OBVIOUS
<1>0. /\ buckets \in [Hash -> SUBSET Block]
      /\ lists \in [Block -> Seq(Hash)]
      /\ queue \in Seq(Event)
      /\ view \in SUBSET Hash
      /\ mixed \in SUBSET Block
  BY DEF TypeOK
<1>1. ASSUME NEW b \in Block, NEW h \in Hash, Update(b, h) PROVE TypeOK'
  <2> DEFINE hs == Chain[h]
  <2>1. hs \in Seq(Hash)
    BY ChainAssumption
  <2> HIDE DEF hs
  <2>2. Grown(lists[b], hs) \in Seq(Hash)
    BY <1>0, <2>1, GrownType
  <2>3. lists' \in [Block -> Seq(Hash)]
    BY <1>0, <1>1, <2>2 DEF Update, IndexUpdateLists, hs
  <2>4. buckets' \in [Hash -> SUBSET Block]
    BY <1>0, <1>1 DEF Update, IndexUpdateBuckets
  <2>5. FreshSuffix(buckets, lists, b, hs) \in SUBSET Hash
    BY <2>1, FreshSuffixBounds
  <2>6. queue' \in Seq(Event)
    BY <1>0, <1>1, <2>5, EmitType DEF Update, hs
  <2>7. view' \in SUBSET Hash
    BY <1>0, <1>1, <2>5 DEF Update, hs
  <2>8. mixed' \in SUBSET Block
    BY <1>0, <1>1 DEF Update
  <2> QED
    BY <2>3, <2>4, <2>6, <2>7, <2>8 DEF TypeOK
<1>2. ASSUME NEW b \in Block, Pop(b) PROVE TypeOK'
  <2>1. lists' \in [Block -> Seq(Hash)]
    BY <1>0, <1>2 DEF Pop, IndexPopLists
  <2>2. buckets' \in [Hash -> SUBSET Block]
    BY <1>0, <1>2 DEF Pop, IndexPopBuckets
  <2>3. FullyRemoved(buckets, lists, b) \in SUBSET Hash
    BY <1>0 DEF FullyRemoved, HashesOf
  <2>4. queue' \in Seq(Event)
    BY <1>0, <1>2, <2>3, EmitType DEF Pop
  <2>5. view' \in SUBSET Hash /\ mixed' \in SUBSET Block
    BY <1>0, <1>2 DEF Pop
  <2> QED
    BY <2>1, <2>2, <2>4, <2>5 DEF TypeOK
<1>3. ASSUME ResetPrefixCache PROVE TypeOK'
  <2>1. [kind |-> "cleared", hashes |-> {}] \in Event
    BY DEF Event
  <2>2. queue' \in Seq(Event)
    BY <1>0, <1>3, <2>1 DEF ResetPrefixCache
  <2>3. lists' \in [Block -> Seq(Hash)]
    BY <1>3 DEF ResetPrefixCache
  <2>4. buckets' \in [Hash -> SUBSET Block]
    BY <1>3 DEF ResetPrefixCache
  <2>5. view' \in SUBSET Hash /\ mixed' \in SUBSET Block
    BY <1>3 DEF ResetPrefixCache
  <2> QED
    BY <2>2, <2>3, <2>4, <2>5 DEF TypeOK
<1>4. ASSUME TakeEvents PROVE TypeOK'
  BY <1>0, <1>4 DEF TakeEvents, TypeOK
<1>5. CASE UNCHANGED vars
  BY <1>0, <1>5 DEF vars, TypeOK
<1> QED
  BY <1>1, <1>2, <1>3, <1>4, <1>5 DEF Next

(* The state of the index keeps its types for ever.                          *)
THEOREM TypeCorrect == Spec => []TypeOK
  BY TypeInit, TypeStep, PTL DEF Spec

-----------------------------------------------------------------------------
(* update keeps the two dictionaries in agreement, whatever list it is       *)
(* given.                                                                    *)
LEMMA AgreesUpdate ==
    ASSUME TypeOK, IndexAgrees, NEW b \in Block, NEW h \in Hash, Update(b, h)
    PROVE  IndexAgrees'
<1> DEFINE hs == Chain[h]
<1>1. hs \in Seq(Hash)
  BY ChainAssumption
<1>2. /\ lists' = [lists EXCEPT ![b] = Grown(lists[b], hs)]
      /\ buckets' = [g \in Hash |-> IF g \in Appended(lists[b], hs)
                                    THEN buckets[g] \cup {b} ELSE buckets[g]]
  BY DEF Update, IndexUpdateLists, IndexUpdateBuckets
<1> HIDE DEF hs
<1>3. lists[b] \in Seq(Hash) /\ lists \in [Block -> Seq(Hash)]
  BY DEF TypeOK
<1>4. ASSUME NEW c \in Block, NEW g \in Hash
      PROVE  c \in buckets'[g] <=> g \in HashesOf(lists', c)
  <2>1. CASE c = b
    <3>1. HashesOf(lists', b) = HashesOf(lists, b) \cup Appended(lists[b], hs)
      <4>1. lists'[b] = Grown(lists[b], hs)
        BY <1>2, <1>3
      <4> QED
        BY <4>1, <1>1, <1>3, GrownHashes, ZenonT(60) DEF HashesOf
    <3>2. b \in buckets'[g] <=> (g \in Appended(lists[b], hs) \/ b \in buckets[g])
      BY <1>2
    <3> QED
      BY <2>1, <3>1, <3>2 DEF IndexAgrees
  <2>2. CASE c # b
    <3>1. lists'[c] = lists[c]
      BY <1>2, <1>3, <2>2
    <3>2. c \in buckets'[g] <=> c \in buckets[g]
      BY <1>2, <2>2
    <3> QED
      BY <3>1, <3>2 DEF IndexAgrees, HashesOf
  <2> QED
    BY <2>1, <2>2
<1> QED
  BY <1>4 DEF IndexAgrees

(* pop leaves no bucket that names the block.                                *)
LEMMA AgreesPop ==
    ASSUME TypeOK, IndexAgrees, NEW b \in Block, Pop(b)
    PROVE  IndexAgrees'
<1>1. /\ lists' = [lists EXCEPT ![b] = <<>>]
      /\ buckets' = [g \in Hash |-> IF g \in HashesOf(lists, b)
                                    THEN buckets[g] \ {b} ELSE buckets[g]]
  BY DEF Pop, IndexPopLists, IndexPopBuckets
<1>2. lists \in [Block -> Seq(Hash)]
  BY DEF TypeOK
<1>3. ASSUME NEW c \in Block, NEW g \in Hash
      PROVE  c \in buckets'[g] <=> g \in HashesOf(lists', c)
  <2>1. CASE c = b
    <3>1. HashesOf(lists', b) = {}
      BY <1>1, <1>2 DEF HashesOf
    <3>2. b \notin buckets'[g]
      BY <1>1 DEF IndexAgrees
    <3> QED
      BY <2>1, <3>1, <3>2
  <2>2. CASE c # b
    <3>1. lists'[c] = lists[c]
      BY <1>1, <1>2, <2>2
    <3>2. c \in buckets'[g] <=> c \in buckets[g]
      BY <1>1, <2>2
    <3> QED
      BY <3>1, <3>2 DEF IndexAgrees, HashesOf
  <2> QED
    BY <2>1, <2>2
<1> QED
  BY <1>3 DEF IndexAgrees

LEMMA AgreesStep == TypeOK /\ IndexAgrees /\ [Next]_vars => IndexAgrees'
<1> SUFFICES ASSUME TypeOK, IndexAgrees, [Next]_vars PROVE IndexAgrees'
  OBVIOUS
<1>1. ASSUME ResetPrefixCache PROVE IndexAgrees'
  BY <1>1 DEF ResetPrefixCache, IndexAgrees, HashesOf
<1>2. ASSUME TakeEvents PROVE IndexAgrees'
  BY <1>2 DEF TakeEvents, IndexAgrees, HashesOf
<1>3. CASE UNCHANGED vars
  BY <1>3 DEF vars, IndexAgrees, HashesOf
<1> QED
  BY <1>1, <1>2, <1>3, AgreesUpdate, AgreesPop DEF Next

(* The forward and the reverse index always describe the same relation.      *)
THEOREM AgreesAlways == Spec => []IndexAgrees
<1>1. Init => IndexAgrees
  BY DEF Init, IndexAgrees, HashesOf
<1> QED
  BY <1>1, TypeCorrect, AgreesStep, PTL DEF Spec

-----------------------------------------------------------------------------
(* Sequences that agree on their first i elements have the same prefix.      *)
LEMMA SamePrefix ==
    ASSUME NEW s \in Seq(Hash), NEW t \in Seq(Hash), NEW i \in Nat,
           i <= Len(s), i <= Len(t), \A k \in 1..i : s[k] = t[k]
    PROVE  SubSeq(s, 1, i) = SubSeq(t, 1, i)
  OBVIOUS

(* Equal prefixes have equal lengths and elements.                           *)
LEMMA PrefixElements ==
    ASSUME NEW s \in Seq(Hash), NEW t \in Seq(Hash),
           NEW i \in 1..Len(s), NEW j \in 1..Len(t),
           SubSeq(s, 1, i) = SubSeq(t, 1, j)
    PROVE  i = j /\ \A k \in 1..i : s[k] = t[k]
<1>1. Len(SubSeq(s, 1, i)) = i /\ Len(SubSeq(t, 1, j)) = j
  OBVIOUS
<1>2. i = j
  BY <1>1
<1>3. ASSUME NEW k \in 1..i PROVE s[k] = t[k]
  <2>1. SubSeq(s, 1, i)[k] = s[k] /\ SubSeq(t, 1, j)[k] = t[k]
    BY <1>2
  <2> QED
    BY <2>1
<1> QED
  BY <1>2, <1>3

(* update keeps the list of every block that is not mixed a chain: the       *)
(* block it changes was one before, and is extended, or becomes mixed.       *)
LEMMA ChainsUpdate ==
    ASSUME TypeOK, ExtendedAreChains, NEW b \in Block, NEW h \in Hash, Update(b, h)
    PROVE  ExtendedAreChains'
<1> DEFINE hs == Chain[h]
           g == Grown(lists[b], hs)
<1>1. hs \in Seq(Hash) /\ \A i \in 1..Len(hs) : Chain[hs[i]] = SubSeq(hs, 1, i)
  BY ChainAssumption
<1>2. lists \in [Block -> Seq(Hash)] /\ lists[b] \in Seq(Hash)
  BY DEF TypeOK
<1>3. lists' = [lists EXCEPT ![b] = g]
  BY DEF Update, IndexUpdateLists
<1>4. /\ \A c \in Block \ mixed' : c \in Block \ mixed
      /\ b \notin mixed' =>
            \A i \in 1..Len(lists[b]) : i <= Len(hs) => lists[b][i] = hs[i]
  BY DEF Update, Extends
<1>5. /\ g \in Seq(Hash)
      /\ Len(g) = (IF Len(lists[b]) < Len(hs) THEN Len(hs) ELSE Len(lists[b]))
      /\ \A i \in 1..Len(g) : g[i] = IF i <= Len(lists[b]) THEN lists[b][i] ELSE hs[i]
  BY <1>1, <1>2, GrownType
<1> HIDE DEF hs, g
<1>6. ASSUME b \notin mixed', NEW i \in 1..Len(g) PROVE Chain[g[i]] = SubSeq(g, 1, i)
  <2>1. CASE i <= Len(lists[b])
    <3>1. g[i] = lists[b][i] /\ Chain[lists[b][i]] = SubSeq(lists[b], 1, i)
      BY <1>2, <1>4, <1>5, <1>6, <2>1 DEF ExtendedAreChains
    <3>2. \A k \in 1..i : g[k] = lists[b][k]
      BY <1>2, <1>5, <2>1
    <3>3. SubSeq(g, 1, i) = SubSeq(lists[b], 1, i)
      BY <1>2, <1>5, <2>1, <3>2, SamePrefix
    <3> QED
      BY <3>1, <3>3
  <2>2. CASE ~(i <= Len(lists[b]))
    <3>1. i <= Len(hs) /\ g[i] = hs[i]
      BY <1>1, <1>2, <1>5, <2>2
    <3>2. ASSUME NEW k \in 1..i PROVE g[k] = hs[k]
      <4>1. k \in 1..Len(g) /\ k <= Len(hs)
        BY <1>1, <1>5, <3>1
      <4>2. CASE k <= Len(lists[b])
        <5>1. k \in 1..Len(lists[b]) /\ g[k] = lists[b][k]
          BY <1>2, <1>5, <4>1, <4>2
        <5> QED
          BY <1>4, <1>6, <4>1, <5>1
      <4>3. CASE ~(k <= Len(lists[b]))
        BY <1>5, <4>1, <4>3
      <4> QED
        BY <4>2, <4>3
    <3>3. SubSeq(g, 1, i) = SubSeq(hs, 1, i)
      BY <1>1, <1>5, <3>1, <3>2, SamePrefix
    <3> QED
      BY <1>1, <3>1, <3>3
  <2> QED
    BY <2>1, <2>2
<1>7. ASSUME NEW c \in Block \ mixed', NEW i \in 1..Len(lists'[c])
      PROVE  Chain[lists'[c][i]] = SubSeq(lists'[c], 1, i)
  <2>1. CASE c = b
    BY <1>2, <1>3, <1>6, <2>1
  <2>2. CASE c # b
    BY <1>2, <1>3, <1>4, <2>2 DEF ExtendedAreChains
  <2> QED
    BY <2>1, <2>2
<1> QED
  BY <1>7 DEF ExtendedAreChains

LEMMA ChainsStep == TypeOK /\ ExtendedAreChains /\ [Next]_vars => ExtendedAreChains'
<1> SUFFICES ASSUME TypeOK, ExtendedAreChains, [Next]_vars PROVE ExtendedAreChains'
  OBVIOUS
<1>1. ASSUME NEW b \in Block, Pop(b) PROVE ExtendedAreChains'
  <2>1. /\ lists' = [lists EXCEPT ![b] = <<>>] /\ lists \in [Block -> Seq(Hash)]
        /\ mixed' = mixed \ {b}
    BY <1>1 DEF Pop, IndexPopLists, TypeOK
  <2>2. ASSUME NEW c \in Block \ mixed', NEW i \in 1..Len(lists'[c])
        PROVE  Chain[lists'[c][i]] = SubSeq(lists'[c], 1, i)
    <3>1. c # b
      BY <2>1
    <3> QED
      BY <2>1, <3>1 DEF ExtendedAreChains
  <2> QED
    BY <2>2 DEF ExtendedAreChains
<1>2. ASSUME ResetPrefixCache PROVE ExtendedAreChains'
  BY <1>2 DEF ResetPrefixCache, ExtendedAreChains
<1>3. ASSUME TakeEvents PROVE ExtendedAreChains'
  BY <1>3 DEF TakeEvents, ExtendedAreChains
<1>4. CASE UNCHANGED vars
  BY <1>4 DEF vars, ExtendedAreChains
<1> QED
  BY <1>1, <1>2, <1>3, <1>4, ChainsUpdate DEF Next

(* The hashes of a block that was only extended stay a chain.                *)
LEMMA ChainsAlways == Spec => []ExtendedAreChains
<1>1. Init => ExtendedAreChains
  BY DEF Init, ExtendedAreChains
<1> QED
  BY <1>1, TypeCorrect, ChainsStep, PTL DEF Spec

-----------------------------------------------------------------------------
LEMMA EventsStep ==
    TypeOK /\ IndexAgrees /\ EventsExact /\ [Next]_vars => EventsExact'
<1> SUFFICES ASSUME TypeOK, IndexAgrees, EventsExact, [Next]_vars PROVE EventsExact'
  OBVIOUS
<1>0. buckets \in [Hash -> SUBSET Block] /\ view \in SUBSET Hash
  BY DEF TypeOK
<1>1. ASSUME NEW b \in Block, NEW h \in Hash, Update(b, h) PROVE EventsExact'
  <2> DEFINE A == Appended(lists[b], Chain[h])
             F == FreshSuffix(buckets, lists, b, Chain[h])
  <2>1. F \subseteq A /\ A \subseteq Hash /\ \A g \in A : buckets[g] = {} => g \in F
    BY ChainAssumption, FreshSuffixBounds
  <2>2. /\ view' = view \cup F
        /\ buckets' = [g \in Hash |-> IF g \in A THEN buckets[g] \cup {b} ELSE buckets[g]]
    BY <1>1 DEF Update, IndexUpdateBuckets
  <2> HIDE DEF A, F
  <2>3. \A g \in Hash : g \in view' <=> buckets'[g] # {}
    BY <1>0, <2>1, <2>2 DEF EventsExact
  <2>4. view' \subseteq Hash
    BY <1>0, <2>1, <2>2
  <2> QED
    BY <2>3, <2>4 DEF EventsExact
<1>2. ASSUME NEW b \in Block, Pop(b) PROVE EventsExact'
  <2> DEFINE R == FullyRemoved(buckets, lists, b)
  <2>1. /\ view' = view \ R
        /\ buckets' = [g \in Hash |-> IF g \in HashesOf(lists, b)
                                      THEN buckets[g] \ {b} ELSE buckets[g]]
    BY <1>2 DEF Pop, IndexPopBuckets
  <2>2. \A g \in Hash : g \in R <=> g \in HashesOf(lists, b) /\ buckets[g] \subseteq {b}
    BY DEF FullyRemoved
  <2>3. \A g \in Hash : g \in HashesOf(lists, b) => b \in buckets[g]
    BY DEF IndexAgrees
  <2> HIDE DEF R
  <2>4. \A g \in Hash : g \in view' <=> buckets'[g] # {}
    BY <1>0, <2>1, <2>2, <2>3 DEF EventsExact
  <2>5. view' \subseteq Hash
    BY <1>0, <2>1
  <2> QED
    BY <2>4, <2>5 DEF EventsExact
<1>3. ASSUME ResetPrefixCache PROVE EventsExact'
  BY <1>3 DEF ResetPrefixCache, EventsExact
<1>4. ASSUME TakeEvents PROVE EventsExact'
  BY <1>4 DEF TakeEvents, EventsExact
<1>5. CASE UNCHANGED vars
  BY <1>5 DEF vars, EventsExact
<1> QED
  BY <1>1, <1>2, <1>3, <1>4, <1>5 DEF Next

(* A consumer of the KV events knows exactly the hashes some block holds.    *)
THEOREM EventsAlwaysExact == Spec => []EventsExact
<1>1. Init => EventsExact
  BY DEF Init, EventsExact
<1> QED
  BY <1>1, TypeCorrect, AgreesAlways, EventsStep, PTL DEF Spec

-----------------------------------------------------------------------------
(* An extended block found under the d-th hash of a chain is indexed under   *)
(* the first d hashes of that chain, in order.                               *)
LEMMA HolderHasPrefix ==
    ASSUME TypeOK, IndexAgrees, ExtendedAreChains, NEW h \in Hash,
           NEW d \in 1..Len(Chain[h]), NEW b \in Block \ mixed, b \in buckets[Chain[h][d]]
    PROVE  d <= Len(lists[b]) /\ \A i \in 1..d : lists[b][i] = Chain[h][i]
<1>1. Chain[h] \in Seq(Hash) /\ Chain[h][d] \in Hash
  BY ChainAssumption
<1>2. lists[b] \in Seq(Hash)
  BY DEF TypeOK
<1>3. PICK i \in 1..Len(lists[b]) : lists[b][i] = Chain[h][d]
  BY <1>1 DEF IndexAgrees, HashesOf
<1>4. Chain[lists[b][i]] = SubSeq(lists[b], 1, i)
  BY DEF ExtendedAreChains
<1>5. Chain[Chain[h][d]] = SubSeq(Chain[h], 1, d)
  BY ChainAssumption
<1>6. SubSeq(lists[b], 1, i) = SubSeq(Chain[h], 1, d)
  BY <1>3, <1>4, <1>5
<1>7. i = d /\ \A k \in 1..i : lists[b][k] = Chain[h][k]
  BY <1>1, <1>2, <1>6, PrefixElements
<1> QED
  BY <1>2, <1>7

(* Whatever block longest_match picks, if it was only ever extended it holds *)
(* the whole matched prefix.                                                 *)
THEOREM MatchAlwaysSound == Spec => []MatchSound
<1>1. TypeOK /\ IndexAgrees /\ ExtendedAreChains => MatchSound
  <2> SUFFICES ASSUME TypeOK, IndexAgrees, ExtendedAreChains, NEW h \in Hash,
                      NEW m \in LongestMatch(buckets, Chain[h]), m[1] \notin mixed
               PROVE  /\ m[2] <= Len(lists[m[1]])
                      /\ \A i \in 1..m[2] : lists[m[1]][i] = Chain[h][i]
    BY DEF MatchSound
  <2>1. m[1] \in Block /\ m[2] \in 1..Len(Chain[h]) /\ m[1] \in buckets[Chain[h][m[2]]]
    BY DEF LongestMatch
  <2> QED
    BY <2>1, HolderHasPrefix
<1> QED
  BY <1>1, TypeCorrect, AgreesAlways, ChainsAlways, PTL

-----------------------------------------------------------------------------
(* Past the first absent hash of a chain, every hash is absent: the suffix   *)
(* published as stored holds nothing a consumer already knows, so long as    *)
(* no block is mixed.                                                        *)
LEMMA SuffixIsAbsent ==
    ASSUME TypeOK, IndexAgrees, ExtendedAreChains, mixed = {},
           NEW b \in Block, NEW h \in Hash
    PROVE  \A g \in FreshSuffix(buckets, lists, b, Chain[h]) : buckets[g] = {}
<1> DEFINE hs == Chain[h]
           n == Len(lists[b])
<1>1. n \in Nat /\ hs \in Seq(Hash) /\ buckets \in [Hash -> SUBSET Block]
  BY ChainAssumption, SMTT(30) DEF TypeOK
<1>2. SUFFICES ASSUME NEW k \in (n + 1)..Len(hs), NEW j \in (n + 1)..k,
                      buckets[hs[j]] = {}, buckets[hs[k]] # {}
               PROVE  FALSE
  BY DEF FreshSuffix
<1>3. k \in 1..Len(hs) /\ j \in 1..k /\ j \in 1..Len(hs) /\ hs[k] \in Hash /\ hs[j] \in Hash
  BY <1>1
<1>4. PICK c \in Block : c \in buckets[hs[k]]
  BY <1>1, <1>2, <1>3
<1>5. k <= Len(lists[c]) /\ lists[c][j] = hs[j]
  BY <1>3, <1>4, HolderHasPrefix
<1>6. j \in 1..Len(lists[c])
  <2>1. Len(lists[c]) \in Nat
    BY DEF TypeOK
  <2> QED
    BY <1>3, <1>5, <2>1
<1>7. hs[j] \in HashesOf(lists, c)
  BY <1>5, <1>6 DEF HashesOf
<1> QED
  BY <1>2, <1>3, <1>7 DEF IndexAgrees

(* Every event tells the consumer something new: a removed hash was known to *)
(* it, and while every indexed block was only extended a stored one was not. *)
THEOREM EventsAlwaysFresh == Spec => EventsFresh
<1> DEFINE I == TypeOK /\ IndexAgrees /\ ExtendedAreChains /\ EventsExact
           A == \A n \in 1..Len(queue') :
                  n = Len(queue) + 1 =>
                     /\ queue'[n].kind = "stored" /\ mixed = {}
                          => queue'[n].hashes \cap view = {}
                     /\ queue'[n].kind = "removed" => queue'[n].hashes \subseteq view
<1>1. I /\ [Next]_vars => [A]_vars
  <2> SUFFICES ASSUME I, Next PROVE A
    OBVIOUS
  <2>0. queue \in Seq(Event) /\ view = {g \in Hash : buckets[g] # {}}
    BY DEF TypeOK, EventsExact
  <2>1. ASSUME NEW b \in Block, NEW h \in Hash, Update(b, h) PROVE A
    <3> DEFINE F == FreshSuffix(buckets, lists, b, Chain[h])
    <3>1. mixed = {} => F \cap view = {}
      BY <2>0, SuffixIsAbsent
    <3>2. queue' = Emit(queue, "stored", F)
      BY <2>1 DEF Update
    <3> HIDE DEF F
    <3>3. CASE F = {}
      BY <2>0, <3>2, <3>3 DEF Emit
    <3>4. CASE F # {}
      <4>1. queue' = Append(queue, [kind |-> "stored", hashes |-> F])
        BY <3>2, <3>4 DEF Emit
      <4>2. queue'[Len(queue) + 1] = [kind |-> "stored", hashes |-> F]
        BY <2>0, <4>1
      <4> QED
        BY <3>1, <4>2
    <3> QED
      BY <3>3, <3>4
  <2>2. ASSUME NEW b \in Block, Pop(b) PROVE A
    <3> DEFINE R == FullyRemoved(buckets, lists, b)
    <3>1. R \subseteq view
      <4>1. ASSUME NEW g \in R PROVE g \in view
        <5>1. g \in HashesOf(lists, b) /\ g \in Hash
          BY DEF FullyRemoved, HashesOf, TypeOK
        <5>2. b \in buckets[g]
          BY <5>1 DEF IndexAgrees
        <5> QED
          BY <2>0, <5>1, <5>2
      <4> QED
        BY <4>1
    <3>2. queue' = Emit(queue, "removed", R)
      BY <2>2 DEF Pop
    <3> HIDE DEF R
    <3>3. CASE R = {}
      BY <2>0, <3>2, <3>3 DEF Emit
    <3>4. CASE R # {}
      <4>1. queue' = Append(queue, [kind |-> "removed", hashes |-> R])
        BY <3>2, <3>4 DEF Emit
      <4>2. queue'[Len(queue) + 1] = [kind |-> "removed", hashes |-> R]
        BY <2>0, <4>1
      <4> QED
        BY <3>1, <4>2
    <3> QED
      BY <3>3, <3>4
  <2>3. ASSUME ResetPrefixCache PROVE A
    <3>1. queue' = Append(queue, [kind |-> "cleared", hashes |-> {}])
      BY <2>3 DEF ResetPrefixCache
    <3>2. queue'[Len(queue) + 1] = [kind |-> "cleared", hashes |-> {}]
      BY <2>0, <3>1
    <3> QED
      BY <3>2
  <2>4. ASSUME TakeEvents PROVE A
    <3>1. queue' = <<>>
      BY <2>4 DEF TakeEvents
    <3> QED
      BY <3>1
  <2> QED
    BY <2>1, <2>2, <2>3, <2>4 DEF Next
<1>2. Spec => []I
  BY TypeCorrect, AgreesAlways, ChainsAlways, EventsAlwaysExact, PTL
<1>3. EventsFresh <=> [][A]_vars
  BY DEF EventsFresh
<1> HIDE DEF A, I
<1> QED
  BY <1>1, <1>2, <1>3, PTL DEF Spec
=============================================================================
