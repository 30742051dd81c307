--------------------------- MODULE ECTransfer_proofs ---------------------------
(***************************************************************************)
(* Proofs about the encoder-cache connector: no metadata is lost, the map  *)
(* the LLM has of the encoder covers what it knows and the encoder holds,  *)
(* and every pull is accounted for, for any number of requests and hashes, *)
(* any queue bounds, pull cap, capacity and TTL.                           *)
(*                                                                         *)
(* The invariant is about the line of metadata: what the LLM has queued,   *)
(* what its receiver thread holds and what is on the wire are one FIFO     *)
(* between the registry and the encoder.                                   *)
(***************************************************************************)
EXTENDS ECTransfer, SeqLemmas

(* What the receiver thread holds and has not queued.                        *)
Held == IF recv.pc = "put" THEN <<recv.m>> ELSE <<>>

(* All metadata that the main thread has not drained, oldest first.          *)
Line == inMeta \o Held \o metaNet

(* Along the line the generations of a hash increase, from beyond the one in *)
(* the registry up to the newest.                                            *)
Ordered(L, reg, g) ==
    \A i \in 1..Len(L) :
        /\ reg[L[i].h] < L[i].g /\ L[i].g <= g[L[i].h]
        /\ \A j \in 1..Len(L) : i < j /\ L[j].h = L[i].h => L[i].g < L[j].g

(* The newest generation of a hash is in the registry or on the line.        *)
Complete(L, reg, g) ==
    \A h \in Hash : reg[h] = g[h] \/ \E i \in 1..Len(L) : L[i].h = h /\ L[i].g = g[h]

(* Registration e is announced by the i-th metadata of the line or later.    *)
Announced(L, e, i) == \E j \in i..Len(L) : <<L[j].h, L[j].g>> = e

(* A buffer the encoder holds is in the map NIXL has and in every map on the *)
(* line, except where it is announced only later.                            *)
Mapped(L, lv, v) ==
    \A e \in lv : /\ e \in v \/ Announced(L, e, 1)
                  /\ \A i \in 1..Len(L) : e \in L[i].map \/ Announced(L, e, i + 1)

LineInv ==
    /\ Ordered(Line, registry, gen)
    /\ Complete(Line, registry, gen)
    /\ Mapped(Line, ToSet(live), view)

(* What the step asks for and has not dealt with is still on its list.       *)
Tracked == asked \subseteq cache \cup pending \cup deferred \cup lost \cup toFree \cup ToSet(todo)

(* The main thread waits for the first hash of its list, and has dealt with  *)
(* the whole list when start_load_caches returns.                            *)
TodoPlace ==
    /\ pc \in {"armed", "clear", "asleep", "again"} => todo # <<>>
    /\ pc \in {"idle", "pulls", "drop", "run", "finish"} => todo = <<>>

PullInv ==
    /\ IsFiniteSet(pending) /\ IsFiniteSet(deferred)
    /\ TodoPlace /\ Tracked /\ HandlesExact

(* The inductive invariant.                                                  *)
IInv == TypeOK /\ PullInv /\ LineInv

-----------------------------------------------------------------------------
(* What the operators of the model return.                                   *)

(* The list of start_load_caches consists of hashes and has every hash that  *)
(* was deferred and every hash that is asked for.                            *)
LEMMA TodoFacts ==
    ASSUME NEW fresh \in Seq(Hash), NEW old \in Seq(Hash)
    PROVE  /\ Todo(fresh, old) \in Seq(Hash)
           /\ ToSet(old) \cup ToSet(fresh) \subseteq ToSet(Todo(fresh, old))
<1> DEFINE D == 1..Len(fresh)
           first == {i \in DOMAIN fresh : /\ fresh[i] \notin ToSet(old)
                                          /\ \A j \in 1..(i - 1) : fresh[j] # fresh[i]}
           places == [i \in DOMAIN fresh |-> i]
           at == Kept(places, first)
           new == [k \in DOMAIN at |-> fresh[at[k]]]
<1>1. DOMAIN fresh = D /\ Len(fresh) \in Nat
  OBVIOUS
<1>2. places \in Seq(D) /\ Len(places) = Len(fresh) /\ \A i \in D : places[i] = i
  BY <1>1
<1>3. at \in Seq(D) /\ \E e : Enumerates(e, at, places, first)
  <2> HIDE DEF D, first, places
  <2> QED
    BY <1>2, KeptFacts
<1> HIDE DEF at
<1>4. new \in Seq(Hash) /\ Len(new) = Len(at) /\ DOMAIN at = 1..Len(at)
  <2>1. DOMAIN at = 1..Len(at) /\ Len(at) \in Nat
    BY <1>3
  <2>2. \A k \in 1..Len(at) : at[k] \in D /\ fresh[at[k]] \in Hash
    BY <1>1, <1>3
  <2> QED
    BY <2>1, <2>2
<1>5. Todo(fresh, old) = old \o new
  BY DEF Todo, at
<1>6. ASSUME NEW i \in first PROVE fresh[i] \in ToSet(new)
  <2>1. i \in D /\ i \in 1..Len(places) /\ places[i] = i
    BY <1>1, <1>2
  <2>2. PICK e : Enumerates(e, at, places, first)
    BY <1>3
  <2>3. PICK k \in 1..Len(at) : e[k] = i /\ at[k] = places[i]
    BY <1>6, <2>1, <2>2, ZenonT(60) DEF Enumerates
  <2>4. k \in DOMAIN new /\ new[k] = fresh[i]
    BY <1>4, <2>1, <2>3
  <2> QED
    BY <2>4 DEF ToSet
<1> HIDE DEF new
<1>7. /\ ToSet(old) \subseteq ToSet(old \o new)
      /\ ToSet(new) \subseteq ToSet(old \o new)
  <2>1. old \o new \in Seq(Hash) /\ Len(old \o new) = Len(old) + Len(new)
    BY <1>4
  <2>2. DOMAIN old = 1..Len(old) /\ DOMAIN new = 1..Len(new)
        /\ DOMAIN (old \o new) = 1..(Len(old) + Len(new))
    BY <1>4, <2>1
  <2>3. ASSUME NEW i \in 1..Len(old) PROVE old[i] \in ToSet(old \o new)
    <3>1. i \in DOMAIN (old \o new) /\ (old \o new)[i] = old[i]
      BY <1>4, <2>2
    <3> QED
      BY <3>1 DEF ToSet
  <2>4. ASSUME NEW i \in 1..Len(new) PROVE new[i] \in ToSet(old \o new)
    <3>1. Len(old) + i \in DOMAIN (old \o new) /\ (old \o new)[Len(old) + i] = new[i]
      BY <1>4, <2>2
    <3> QED
      BY <3>1 DEF ToSet
  <2> QED
    BY <2>2, <2>3, <2>4 DEF ToSet
<1>8. ASSUME NEW i \in D PROVE fresh[i] \in ToSet(old) \cup ToSet(new)
  <2> DEFINE I == {k \in D : fresh[k] = fresh[i]}
             m == Min(I)
  <2>1. I \in SUBSET Int /\ (\A k \in I : 1 <= k) /\ I # {}
    BY <1>1
  <2>2. m \in I /\ \A k \in I : m <= k
    <3> HIDE DEF I
    <3> QED
      BY <2>1, MinFacts
  <2>3. \A j \in 1..(m - 1) : fresh[j] # fresh[m]
    <3> HIDE DEF m
    <3>1. m \in D /\ fresh[m] = fresh[i]
      BY <2>2
    <3> SUFFICES ASSUME NEW j \in 1..(m - 1), fresh[j] = fresh[m] PROVE FALSE
      OBVIOUS
    <3>2. j \in I
      BY <1>1, <3>1
    <3> QED
      BY <1>1, <2>2, <3>1, <3>2
  <2>4. m \in D /\ fresh[m] = fresh[i]
    BY <2>2
  <2> HIDE DEF m
  <2>5. CASE fresh[m] \notin ToSet(old)
    <3>1. m \in first
      BY <1>1, <2>3, <2>4, <2>5
    <3> QED
      BY <1>6, <2>4, <3>1
  <2> QED
    BY <2>4, <2>5
<1> QED
  <2>1. ToSet(fresh) \subseteq ToSet(old) \cup ToSet(new)
    BY <1>1, <1>8 DEF ToSet
  <2>2. old \o new \in Seq(Hash)
    BY <1>4
  <2> QED
    BY <1>5, <1>7, <2>1, <2>2

(* The hashes a step asks for are those of waiting requests.                 *)
LEMMA FreshFacts ==
    ASSUME NEW w \in Seq(Req), NEW p \in BOOLEAN, p => w # <<>>
    PROVE  Fresh(p, w) \in Seq(Hash)
<1>1. \A r \in Req : HashOf[r] \in Hash
  BY ECAssumption DEF Req
<1> DEFINE v == IF p THEN <<Head(w)>> \o Tail(w) ELSE w
<1>2. v \in Seq(Req)
  OBVIOUS
<1>3. Fresh(p, w) = [i \in DOMAIN v |-> HashOf[v[i]]]
  BY DEF Fresh
<1> HIDE DEF v
<1>4. DOMAIN v = 1..Len(v) /\ Len(v) \in Nat /\ \A i \in 1..Len(v) : v[i] \in Req
  BY <1>2
<1> QED
  BY <1>1, <1>3, <1>4

-----------------------------------------------------------------------------
(* Types.                                                                    *)

(* The constants' types, as ECAssumption gives them.                         *)
LEMMA Constants ==
    /\ QueueMax \in Nat \ {0} /\ AckMax \in Nat \ {0} /\ MaxPulls \in Nat \ {0}
    /\ Capacity \in Nat \ {0} /\ HashOf \in Seq(Hash)
    /\ Req = 1..Len(HashOf) /\ Len(HashOf) \in Nat /\ \A r \in Req : HashOf[r] \in Hash
  BY ECAssumption DEF Req

(* Draining keeps the registry and the map well typed.                       *)
LEMMA DrainTypes ==
    ASSUME TypeOK, Drain
    PROVE  /\ registry' \in [Hash -> Nat] /\ view' \in SUBSET (Hash \X Nat)
           /\ inMeta' \in Seq(Meta) /\ Len(inMeta') <= QueueMax
<1>1. inMeta \in Seq(Meta) /\ DOMAIN inMeta = 1..Len(inMeta) /\ Len(inMeta) \in Nat
  BY DEF TypeOK, EncoderTypes, ChannelTypes, KnownTypes
<1>2. ASSUME NEW h \in Hash PROVE Drained[h] \in Nat
  <2> DEFINE I == {i \in DOMAIN inMeta : inMeta[i].h = h}
  <2>1. CASE InQueue(h)
    <3>1. I # {} /\ I \in SUBSET Int /\ \A i \in I : i <= Len(inMeta)
      BY <1>1, <2>1 DEF InQueue, ToSet
    <3>2. Max(I) \in I
      <4> HIDE DEF I
      <4>1. Len(inMeta) \in Int
        BY <1>1
      <4> QED
        BY <3>1, <4>1, MaxFacts
    <3>3. Max(I) \in 1..Len(inMeta)
      BY <1>1, <3>2
    <3>4. Newest(h) = inMeta[Max(I)].g
      BY DEF Newest
    <3>5. inMeta[Max(I)] \in Meta
      <4> HIDE DEF I
      <4> QED
        BY <1>1, <3>3
    <3>6. Drained[h] = inMeta[Max(I)].g
      BY <2>1, <3>4 DEF Drained
    <3> HIDE DEF I
    <3> QED
      BY <3>5, <3>6 DEF Meta
  <2>2. CASE ~InQueue(h)
    BY <2>2 DEF Drained, TypeOK, EncoderTypes, ChannelTypes, KnownTypes
  <2> QED
    BY <2>1, <2>2
<1>3. registry' \in [Hash -> Nat]
  <2>1. registry' = Drained
    BY DEF Drain
  <2>2. Drained = [h \in Hash |-> Drained[h]]
    BY DEF Drained
  <2> HIDE DEF Drained
  <2> QED
    BY <1>2, <2>1, <2>2
<1>4. view' \in SUBSET (Hash \X Nat)
  <2>1. inMeta # <<>> => inMeta[Len(inMeta)] \in Meta
    BY <1>1
  <2> QED
    BY <2>1 DEF Drain, DrainedView, Last, Meta, TypeOK, EncoderTypes, ChannelTypes, KnownTypes
<1>5. inMeta' \in Seq(Meta) /\ Len(inMeta') <= QueueMax
  BY Constants DEF Drain
<1> QED
  BY <1>3, <1>4, <1>5

(* Acknowledgements, the TTL and the capacity rule only remove entries.      *)
LEMMA EncoderFacts ==
    ASSUME TypeOK
    PROVE  /\ AfterAcks \in Seq(Hash \X Nat) /\ Len(AfterAcks) <= Capacity
           /\ ToSet(AfterAcks) \subseteq ToSet(live)
           /\ \A k \in 0..Len(AfterAcks) :
                /\ Admitted(AfterAcks, k) \in Seq(Hash \X Nat)
                /\ Len(Admitted(AfterAcks, k)) < Capacity
                /\ ToSet(Admitted(AfterAcks, k)) \subseteq ToSet(live)
<1> DEFINE a == AfterAcks
<1>1. /\ a \in Seq(Hash \X Nat) /\ Len(a) <= Len(live)
      /\ ToSet(a) \subseteq ToSet(live)
  BY KeptSubset DEF AfterAcks, TypeOK, EncoderTypes, ChannelTypes, KnownTypes
<1>2. Len(live) \in Nat /\ Len(live) <= Capacity /\ Capacity \in Nat \ {0}
  BY Constants DEF TypeOK, EncoderTypes, ChannelTypes, KnownTypes
<1> HIDE DEF a
<1>3. Len(a) \in Nat /\ DOMAIN a = 1..Len(a)
  BY <1>1
<1>4. ASSUME NEW k \in 0..Len(a)
      PROVE  /\ Admitted(a, k) \in Seq(Hash \X Nat)
             /\ Len(Admitted(a, k)) < Capacity
             /\ ToSet(Admitted(a, k)) \subseteq ToSet(a)
  <2> DEFINE t == SubSeq(a, k + 1, Len(a))
             u == SubSeq(t, Len(t) - Capacity + 2, Len(t))
  <2>1. t \in Seq(Hash \X Nat) /\ Len(t) = Len(a) - k
        /\ ToSet(t) \subseteq ToSet(a)
    BY <1>1, SuffixFacts
  <2>3. CASE Len(t) < Capacity
    BY <2>1, <2>3 DEF Admitted
  <2>4. CASE ~(Len(t) < Capacity)
    <3> HIDE DEF t
    <3> DEFINE o == Len(t) - Capacity + 1
    <3>1. Len(t) \in Nat /\ o \in 0..Len(t) /\ Len(t) - Capacity + 2 = o + 1
      BY <1>2, <2>1, <2>4
    <3>2. u \in Seq(Hash \X Nat) /\ Len(u) = Len(t) - o /\ ToSet(u) \subseteq ToSet(t)
      <4> HIDE DEF o
      <4>1. u = SubSeq(t, o + 1, Len(t))
        BY <3>1
      <4>2. t \in Seq(Hash \X Nat) /\ o \in 0..Len(t)
        BY <2>1, <3>1
      <4>3. LET v == SubSeq(t, o + 1, Len(t))
            IN  v \in Seq(Hash \X Nat) /\ Len(v) = Len(t) - o /\ ToSet(v) \subseteq ToSet(t)
        BY <4>2, SuffixFacts
      <4> HIDE DEF u
      <4> QED
        BY <4>1, <4>3
    <3>3. Len(u) < Capacity
      BY <1>2, <3>1, <3>2
    <3>5. Admitted(a, k) = u
      BY <2>4 DEF Admitted, t
    <3> HIDE DEF u
    <3> QED
      BY <2>1, <3>2, <3>3, <3>5
  <2> QED
    BY <2>3, <2>4
<1> QED
  BY <1>1, <1>2, <1>3, <1>4 DEF a

(* Every step keeps the types.                                               *)
LEMMA TypeStep == TypeOK /\ PullInv /\ [Next]_vars => TypeOK'
<1> SUFFICES ASSUME TypeOK, PullInv, [Next]_vars PROVE TypeOK'
  OBVIOUS
<1> USE Constants DEF encVars, recvVars, schedVars, loadVars
<1> EncoderTypes /\ ChannelTypes /\ KnownTypes /\ PullTypes /\ ThreadTypes
  BY DEF TypeOK
<1>1. CASE ReceiveAck
  <2>1. Head(ackNet) \in Hash /\ Tail(ackNet) \in Seq(Hash) /\ Len(Tail(ackNet)) = Len(ackNet) - 1
        /\ Len(ackNet) \in Nat
    BY <1>1, HeadTailFacts DEF ReceiveAck, ChannelTypes
  <2>2. inAcks' \in Seq(Hash) /\ Len(inAcks') = Len(inAcks) + 1 /\ Len(inAcks) \in Nat
    BY <1>1, <2>1, AppendFacts DEF ReceiveAck, EncoderTypes
  <2>11. EncoderTypes'
    BY <1>1, <2>1, <2>2 DEF ReceiveAck, EncoderTypes
  <2>12. ChannelTypes'
    BY <1>1, <2>1 DEF ReceiveAck, ChannelTypes
  <2>13. KnownTypes'
    BY <1>1 DEF ReceiveAck, KnownTypes
  <2>14. PullTypes'
    BY <1>1 DEF ReceiveAck, PullTypes
  <2>15. ThreadTypes'
    BY <1>1 DEF ReceiveAck, ThreadTypes
  <2> QED
    BY <2>11, <2>12, <2>13, <2>14, <2>15 DEF TypeOK
<1>2. CASE ReceiveMeta
  <2>1. Head(metaNet) \in Meta /\ Tail(metaNet) \in Seq(Meta)
    BY <1>2, HeadTailFacts DEF ReceiveMeta, ChannelTypes
  <2>11. EncoderTypes'
    BY <1>2 DEF ReceiveMeta, EncoderTypes
  <2>12. ChannelTypes'
    BY <1>2, <2>1 DEF ReceiveMeta, ChannelTypes
  <2>13. KnownTypes'
    BY <1>2 DEF ReceiveMeta, KnownTypes
  <2>14. PullTypes'
    BY <1>2 DEF ReceiveMeta, PullTypes
  <2>15. ThreadTypes'
    BY <1>2 DEF ReceiveMeta, ThreadTypes
  <2> QED
    BY <2>11, <2>12, <2>13, <2>14, <2>15 DEF TypeOK
<1>3. CASE PutMeta
  <2>1. recv.m \in Meta /\ recv' = [pc |-> "signal", m |-> recv.m]
    BY <1>3 DEF PutMeta, ChannelTypes, NoMeta
  <2>2. inMeta' \in Seq(Meta) /\ Len(inMeta') = Len(inMeta) + 1 /\ Len(inMeta) \in Nat
    <3>1. inMeta \in Seq(Meta) /\ inMeta' = Append(inMeta, recv.m)
      BY <1>3 DEF PutMeta, ChannelTypes
    <3> HIDE Constants
    <3> QED
      BY <2>1, <3>1, AppendFacts
  <2>11. EncoderTypes'
    BY <1>3 DEF PutMeta, EncoderTypes
  <2>12. ChannelTypes'
    <3>1. Len(inMeta') <= QueueMax
      BY <1>3, <2>2 DEF PutMeta
    <3>2. recv' \in [pc : {"put", "signal"}, m : Meta]
      BY <2>1
    <3> QED
      BY <1>3, <2>2, <3>1, <3>2 DEF PutMeta, ChannelTypes
  <2>13. KnownTypes'
    BY <1>3 DEF PutMeta, KnownTypes
  <2>14. PullTypes'
    BY <1>3 DEF PutMeta, PullTypes
  <2>15. ThreadTypes'
    BY <1>3 DEF PutMeta, ThreadTypes
  <2> QED
    BY <2>11, <2>12, <2>13, <2>14, <2>15 DEF TypeOK
<1>4. CASE Signal
  <2>11. EncoderTypes'
    BY <1>4 DEF Signal, EncoderTypes
  <2>12. ChannelTypes'
    BY <1>4 DEF Signal, ChannelTypes
  <2>13. KnownTypes'
    BY <1>4 DEF Signal, KnownTypes
  <2>14. PullTypes'
    BY <1>4 DEF Signal, PullTypes
  <2>15. ThreadTypes'
    BY <1>4 DEF Signal, ThreadTypes
  <2> QED
    BY <2>11, <2>12, <2>13, <2>14, <2>15 DEF TypeOK
<1>5. CASE SkipLoad
  <2>1. todo # <<>>
    BY <1>5 DEF SkipLoad
  <2>2. Head(todo) \in Hash /\ Tail(todo) \in Seq(Hash)
    BY <2>1, HeadTailFacts DEF ThreadTypes
  <2>11. EncoderTypes'
    BY <1>5 DEF SkipLoad, NextItem, EncoderTypes
  <2>12. ChannelTypes'
    BY <1>5 DEF SkipLoad, NextItem, ChannelTypes
  <2>13. KnownTypes'
    BY <1>5 DEF SkipLoad, NextItem, KnownTypes
  <2>14. PullTypes'
    BY <1>5 DEF SkipLoad, NextItem, PullTypes
  <2>15. ThreadTypes'
    BY <1>5, <2>2 DEF SkipLoad, NextItem, ThreadTypes
  <2> QED
    BY <2>11, <2>12, <2>13, <2>14, <2>15 DEF TypeOK
<1>6. CASE DeferLoad
  <2>1. todo # <<>>
    BY <1>6 DEF DeferLoad
  <2>2. Head(todo) \in Hash /\ Tail(todo) \in Seq(Hash)
    BY <2>1, HeadTailFacts DEF ThreadTypes
  <2>11. EncoderTypes'
    BY <1>6 DEF DeferLoad, NextItem, EncoderTypes
  <2>12. ChannelTypes'
    BY <1>6 DEF DeferLoad, NextItem, ChannelTypes
  <2>13. KnownTypes'
    BY <1>6 DEF DeferLoad, NextItem, KnownTypes
  <2>14. PullTypes'
    BY <1>6, <2>2 DEF DeferLoad, Defer, PullTypes
  <2>15. ThreadTypes'
    BY <1>6, <2>2 DEF DeferLoad, NextItem, ThreadTypes
  <2> QED
    BY <2>11, <2>12, <2>13, <2>14, <2>15 DEF TypeOK
<1>7. CASE InitiatePull
  <2>1. todo # <<>>
    BY <1>7 DEF InitiatePull, Wanted
  <2>2. Head(todo) \in Hash /\ Tail(todo) \in Seq(Hash)
    BY <2>1, HeadTailFacts DEF ThreadTypes
  <2>11. EncoderTypes'
    BY <1>7 DEF InitiatePull, EncoderTypes
  <2>12. ChannelTypes'
    BY <1>7 DEF InitiatePull, ChannelTypes
  <2>13. KnownTypes'
    BY <1>7 DEF InitiatePull, KnownTypes
  <2>14. PullTypes'
    <3>1. ASSUME pc' # "dead" PROVE pending' \subseteq Hash /\ Cardinality(pending') <= MaxPulls
      <4>1. Cardinality(pending \cup {Head(todo)}) = Cardinality(pending) + 1
        BY <1>7, FS_AddElement DEF InitiatePull, Wanted, Skip, PullInv
      <4>2. Cardinality(pending) \in Nat /\ Cardinality(pending) < MaxPulls
        <5>1. Cardinality(pending) \in Nat
          BY FS_CardinalityType DEF PullInv
        <5>2. ~(Cardinality(pending) >= MaxPulls)
          BY <1>7 DEF InitiatePull, Wanted, AtCap
        <5> QED
          BY <5>1, <5>2
      <4>3. Cardinality(pending') <= MaxPulls
        <5>1. pending' = pending \cup {Head(todo)}
          BY <1>7, <3>1 DEF InitiatePull
        <5> QED
          BY <4>1, <4>2, <5>1
      <4>4. pending' \subseteq Hash
        BY <1>7, <2>2, <3>1 DEF InitiatePull, PullTypes
      <4> QED
        BY <4>3, <4>4
    <3>2. ASSUME pc' = "dead" PROVE pending' \subseteq Hash /\ Cardinality(pending') <= MaxPulls
      <4>1. pending' = pending
        BY <1>7, <3>2 DEF InitiatePull, NextItem
      <4> QED
        BY <4>1 DEF PullTypes
    <3>3. handles' \in [Hash -> Int]
      BY <1>7, <2>2 DEF InitiatePull, PullTypes
    <3>4. xfer' \in [Hash -> {"none", "proc", "done", "err"}]
      BY <1>7, <2>2 DEF InitiatePull, PullTypes
    <3>5. cache' = cache /\ deferred' = deferred
      BY <1>7 DEF InitiatePull
    <3> QED
      BY <3>1, <3>2, <3>3, <3>4, <3>5 DEF PullTypes
  <2>15. ThreadTypes'
    BY <1>7, <2>2 DEF InitiatePull, NextItem, ThreadTypes
  <2> QED
    BY <2>11, <2>12, <2>13, <2>14, <2>15 DEF TypeOK
<1>8. CASE WaitFirst
  <2>1. todo # <<>>
    BY <1>8 DEF WaitFirst, Wanted
  <2>2. Head(todo) \in Hash /\ Tail(todo) \in Seq(Hash)
    BY <2>1, HeadTailFacts DEF ThreadTypes
  <2>3. Drain
    BY <1>8 DEF WaitFirst
  <2>11. EncoderTypes'
    BY <1>8 DEF WaitFirst, EncoderTypes
  <2>12. ChannelTypes'
    BY <1>8, <2>3, DrainTypes DEF WaitFirst, ChannelTypes
  <2>13. KnownTypes'
    BY <1>8, <2>2, <2>3, DrainTypes DEF WaitFirst, KnownTypes
  <2>14. PullTypes'
    BY <1>8 DEF WaitFirst, PullTypes
  <2>15. ThreadTypes'
    BY <1>8 DEF WaitFirst, ThreadTypes
  <2> QED
    BY <2>11, <2>12, <2>13, <2>14, <2>15 DEF TypeOK
<1>9. CASE WaitAgain
  <2>3. Drain
    BY <1>9 DEF WaitAgain
  <2>11. EncoderTypes'
    BY <1>9 DEF WaitAgain, EncoderTypes
  <2>12. ChannelTypes'
    BY <1>9, <2>3, DrainTypes DEF WaitAgain, ChannelTypes
  <2>13. KnownTypes'
    BY <1>9, <2>3, DrainTypes DEF WaitAgain, KnownTypes
  <2>14. PullTypes'
    BY <1>9 DEF WaitAgain, PullTypes
  <2>15. ThreadTypes'
    BY <1>9 DEF WaitAgain, ThreadTypes
  <2> QED
    BY <2>11, <2>12, <2>13, <2>14, <2>15 DEF TypeOK
<1>10. CASE Clear
  <2>11. EncoderTypes'
    BY <1>10 DEF Clear, EncoderTypes
  <2>12. ChannelTypes'
    BY <1>10 DEF Clear, ChannelTypes
  <2>13. KnownTypes'
    BY <1>10 DEF Clear, KnownTypes
  <2>14. PullTypes'
    BY <1>10 DEF Clear, PullTypes
  <2>15. ThreadTypes'
    BY <1>10 DEF Clear, ThreadTypes
  <2> QED
    BY <2>11, <2>12, <2>13, <2>14, <2>15 DEF TypeOK
<1>11. CASE Wake
  <2>3. Drain
    BY <1>11 DEF Wake
  <2>11. EncoderTypes'
    BY <1>11 DEF Wake, EncoderTypes
  <2>12. ChannelTypes'
    BY <1>11, <2>3, DrainTypes DEF Wake, ChannelTypes
  <2>13. KnownTypes'
    BY <1>11, <2>3, DrainTypes DEF Wake, KnownTypes
  <2>14. PullTypes'
    BY <1>11 DEF Wake, PullTypes
  <2>15. ThreadTypes'
    BY <1>11 DEF Wake, ThreadTypes
  <2> QED
    BY <2>11, <2>12, <2>13, <2>14, <2>15 DEF TypeOK
<1>12. CASE WaitTimedOut
  <2>1. todo # <<>>
    BY <1>12 DEF WaitTimedOut, PullInv, TodoPlace
  <2>2. Head(todo) \in Hash /\ Tail(todo) \in Seq(Hash)
    BY <2>1, HeadTailFacts DEF ThreadTypes
  <2>11. EncoderTypes'
    BY <1>12 DEF WaitTimedOut, NextItem, EncoderTypes
  <2>12. ChannelTypes'
    BY <1>12 DEF WaitTimedOut, NextItem, ChannelTypes
  <2>13. KnownTypes'
    BY <1>12 DEF WaitTimedOut, NextItem, KnownTypes
  <2>14. PullTypes'
    BY <1>12 DEF WaitTimedOut, NextItem, PullTypes
  <2>15. ThreadTypes'
    BY <1>12, <2>2 DEF WaitTimedOut, NextItem, ThreadTypes
  <2> QED
    BY <2>11, <2>12, <2>13, <2>14, <2>15 DEF TypeOK
<1>13. CASE LoadsStarted
  <2>11. EncoderTypes'
    BY <1>13 DEF LoadsStarted, EncoderTypes
  <2>12. ChannelTypes'
    BY <1>13 DEF LoadsStarted, ChannelTypes
  <2>13. KnownTypes'
    BY <1>13 DEF LoadsStarted, KnownTypes
  <2>14. PullTypes'
    BY <1>13 DEF LoadsStarted, PullTypes
  <2>15. ThreadTypes'
    BY <1>13 DEF LoadsStarted, ThreadTypes
  <2> QED
    BY <2>11, <2>12, <2>13, <2>14, <2>15 DEF TypeOK
<1>14. CASE PullsOver
  <2>11. EncoderTypes'
    BY <1>14 DEF PullsOver, EncoderTypes
  <2>12. ChannelTypes'
    BY <1>14 DEF PullsOver, ChannelTypes
  <2>13. KnownTypes'
    BY <1>14 DEF PullsOver, KnownTypes
  <2>14. PullTypes'
    BY <1>14 DEF PullsOver, PullTypes
  <2>15. ThreadTypes'
    BY <1>14 DEF PullsOver, ThreadTypes
  <2> QED
    BY <2>11, <2>12, <2>13, <2>14, <2>15 DEF TypeOK
<1>15. CASE Run
  <2>11. EncoderTypes'
    BY <1>15 DEF Run, EncoderTypes
  <2>12. ChannelTypes'
    <3>1. CASE pending # {}
      <4>1. Drain
        BY <1>15, <3>1 DEF Run
      <4> QED
        BY <1>15, <4>1, DrainTypes DEF Run, ChannelTypes
    <3>2. CASE pending = {}
      BY <1>15, <3>2 DEF Run, ChannelTypes
    <3> QED
      BY <3>1, <3>2
  <2>13. KnownTypes'
    <3>1. CASE pending # {}
      <4>1. Drain
        BY <1>15, <3>1 DEF Run
      <4> QED
        BY <1>15, <4>1, DrainTypes DEF Run, KnownTypes
    <3>2. CASE pending = {}
      BY <1>15, <3>2 DEF Run, KnownTypes
    <3> QED
      BY <3>1, <3>2
  <2>14. PullTypes'
    BY <1>15 DEF Run, PullTypes
  <2>15. ThreadTypes'
    BY <1>15 DEF Run, ThreadTypes
  <2> QED
    BY <2>11, <2>12, <2>13, <2>14, <2>15 DEF TypeOK
<1>16. CASE StepOver
  <2>11. EncoderTypes'
    BY <1>16 DEF StepOver, EncoderTypes
  <2>12. ChannelTypes'
    BY <1>16 DEF StepOver, ChannelTypes
  <2>13. KnownTypes'
    BY <1>16 DEF StepOver, KnownTypes
  <2>14. PullTypes'
    BY <1>16 DEF StepOver, PullTypes
  <2>15. ThreadTypes'
    BY <1>16 DEF StepOver, ThreadTypes
  <2> QED
    BY <2>11, <2>12, <2>13, <2>14, <2>15 DEF TypeOK
<1>17. ASSUME NEW r \in Req, Encode(r) PROVE TypeOK'
  <2>1. HashOf[r] \in Hash
    OBVIOUS
  <2>2. encoded' \in 0..Len(HashOf) /\ inAcks' \in Seq(Hash) /\ Len(inAcks') <= AckMax
    BY <1>17 DEF Encode, EncoderTypes
  <2>3. gen' \in [Hash -> Nat]
    <3>1. gen' = gen \/ gen' = [gen EXCEPT ![HashOf[r]] = @ + 1]
      BY <1>17 DEF Encode
    <3> QED
      BY <2>1, <3>1 DEF EncoderTypes
  <2>4. live' \in Seq(Hash \X Nat) /\ Len(live') <= Capacity
    <3>1. CASE \E e \in ToSet(AfterAcks) : e[1] = HashOf[r]
      BY <1>17, <3>1, EncoderFacts DEF Encode
    <3>2. CASE ~\E e \in ToSet(AfterAcks) : e[1] = HashOf[r]
      <4>1. PICK k \in IF Expires THEN 0..Len(AfterAcks) ELSE {0} :
               live' = Append(Admitted(AfterAcks, k), <<HashOf[r], gen[HashOf[r]] + 1>>)
        BY <1>17, <3>2 DEF Encode
      <4> DEFINE a == Admitted(AfterAcks, k)
                 e == <<HashOf[r], gen[HashOf[r]] + 1>>
      <4>2. k \in 0..Len(AfterAcks)
        BY EncoderFacts
      <4>3. a \in Seq(Hash \X Nat) /\ Len(a) < Capacity
        BY <4>2, EncoderFacts
      <4>4. e \in Hash \X Nat
        BY <2>1 DEF EncoderTypes
      <4> HIDE DEF a, e
      <4>5. Append(a, e) \in Seq(Hash \X Nat) /\ Len(Append(a, e)) = Len(a) + 1 /\ Len(a) \in Nat
        BY <4>3, <4>4, AppendFacts
      <4>6. live' = Append(a, e)
        BY <4>1 DEF a, e
      <4> QED
        BY <4>3, <4>5, <4>6
    <3> QED
      BY <3>1, <3>2
  <2>5. metaNet' \in Seq(Meta)
    <3>1. [h |-> HashOf[r], g |-> gen[HashOf[r]] + 1, map |-> ToSet(live')] \in Meta
      <4>1. ToSet(live') \subseteq Hash \X Nat
        BY <2>4 DEF ToSet
      <4>2. gen[HashOf[r]] + 1 \in Nat
        BY <2>1 DEF EncoderTypes
      <4> QED
        BY <2>1, <4>1, <4>2 DEF Meta
    <3>2. metaNet' = metaNet \/ metaNet' = Append(metaNet, [h |-> HashOf[r], g |-> gen[HashOf[r]] + 1, map |-> ToSet(live')])
      BY <1>17 DEF Encode, PushMeta
    <3> QED
      <4>1. metaNet \in Seq(Meta)
        BY DEF ChannelTypes
      <4>2. Append(metaNet, [h |-> HashOf[r], g |-> gen[HashOf[r]] + 1, map |-> ToSet(live')]) \in Seq(Meta)
        BY <3>1, <4>1, AppendFacts
      <4> QED
        BY <3>2, <4>1, <4>2
  <2>11. EncoderTypes'
    BY <1>17, <2>2, <2>3, <2>4, <2>5 DEF Encode, EncoderTypes
  <2>12. ChannelTypes'
    BY <1>17, <2>2, <2>3, <2>4, <2>5 DEF Encode, ChannelTypes
  <2>13. KnownTypes'
    BY <1>17 DEF Encode, KnownTypes
  <2>14. PullTypes'
    BY <1>17 DEF Encode, PullTypes
  <2>15. ThreadTypes'
    BY <1>17 DEF Encode, ThreadTypes
  <2> QED
    BY <2>11, <2>12, <2>13, <2>14, <2>15 DEF TypeOK
<1>18. ASSUME NEW r \in Req, Arrive(r) PROVE TypeOK'
  <2>11. EncoderTypes'
    BY <1>18 DEF Arrive, EncoderTypes
  <2>12. ChannelTypes'
    BY <1>18 DEF Arrive, ChannelTypes
  <2>13. KnownTypes'
    BY <1>18 DEF Arrive, KnownTypes
  <2>14. PullTypes'
    BY <1>18 DEF Arrive, PullTypes
  <2>15. ThreadTypes'
    BY <1>18 DEF Arrive, ThreadTypes
  <2> QED
    BY <2>11, <2>12, <2>13, <2>14, <2>15 DEF TypeOK
<1>19. ASSUME NEW r \in Req, Finish(r) PROVE TypeOK'
  <2>1. waiting' \in Seq(Req)
    BY <1>19, KeptSubset DEF Finish, ThreadTypes
  <2>11. EncoderTypes'
    BY <1>19 DEF Finish, EncoderTypes
  <2>12. ChannelTypes'
    BY <1>19 DEF Finish, ChannelTypes
  <2>13. KnownTypes'
    BY <1>19 DEF Finish, KnownTypes
  <2>14. PullTypes'
    BY <1>19 DEF Finish, PullTypes
  <2>15. ThreadTypes'
    BY <1>19, <2>1 DEF Finish, ThreadTypes
  <2> QED
    BY <2>11, <2>12, <2>13, <2>14, <2>15 DEF TypeOK
<1>20. ASSUME NEW p \in BOOLEAN, Schedule(p) PROVE TypeOK'
  <2>1. Drain
    BY <1>20 DEF Schedule
  <2>2. p => Head(waiting) \in Req /\ Tail(waiting) \in Seq(Req)
    BY <1>20, HeadTailFacts DEF Schedule, ThreadTypes
  <2>3. todo' \in Seq(Hash)
    <3>1. PICK old \in SetToSeqs(deferred) : todo' = Todo(Fresh(p, waiting), old)
      BY <1>20 DEF Schedule
    <3>2. Fresh(p, waiting) \in Seq(Hash)
      BY <1>20, FreshFacts DEF Schedule, ThreadTypes
    <3>3. old \in Seq(deferred) /\ deferred \subseteq Hash
      BY SetToSeqsFacts DEF PullInv, PullTypes
    <3>4. old \in Seq(Hash)
      BY <3>3
    <3> QED
      BY <3>1, <3>2, <3>4, TodoFacts
  <2>11. EncoderTypes'
    BY <1>20 DEF Schedule, EncoderTypes
  <2>12. ChannelTypes'
    BY <1>20, <2>1, DrainTypes DEF Schedule, ChannelTypes
  <2>13. KnownTypes'
    BY <1>20, <2>1, DrainTypes DEF Schedule, KnownTypes
  <2>14. PullTypes'
    BY <1>20 DEF Schedule, PullTypes
  <2>15. ThreadTypes'
    BY <1>20, <2>2, <2>3 DEF Schedule, ThreadTypes
  <2> QED
    BY <2>11, <2>12, <2>13, <2>14, <2>15 DEF TypeOK
<1>21. ASSUME NEW h \in Hash, PullsTimedOut(h) PROVE TypeOK'
  <2>1. pending' = pending \ {h} /\ handles' = [handles EXCEPT ![h] = @ - 1]
        /\ xfer' = [xfer EXCEPT ![h] = "none"]
    BY <1>21 DEF PullsTimedOut, Release
  <2>2. Cardinality(pending') <= MaxPulls
    <3>1. Cardinality(pending \ {h}) = Cardinality(pending) - 1
      BY <1>21, FS_RemoveElement DEF PullsTimedOut, PullInv
    <3>2. Cardinality(pending) \in Nat /\ Cardinality(pending) <= MaxPulls
      BY FS_CardinalityType DEF PullInv, PullTypes
    <3> QED
      BY <2>1, <3>1, <3>2
  <2>3. ackNet' \in Seq(Hash) /\ Len(ackNet') <= AckMax
    <3>1. CASE Unsent(h)
      <4>1. Len(ackNet) < AckMax /\ ackNet' = Append(ackNet, h)
        BY <1>21, <3>1 DEF PullsTimedOut, SendAck, Unsent
      <4>2. Append(ackNet, h) \in Seq(Hash) /\ Len(Append(ackNet, h)) = Len(ackNet) + 1
        BY AppendFacts DEF ChannelTypes
      <4>3. Len(ackNet) \in Nat
        BY DEF ChannelTypes
      <4> QED
        BY <4>1, <4>2, <4>3
    <3>2. CASE ~Unsent(h)
      BY <1>21, <3>2 DEF PullsTimedOut, SendAck, ChannelTypes
    <3> QED
      BY <3>1, <3>2
  <2>11. EncoderTypes'
    BY <1>21 DEF PullsTimedOut, EncoderTypes
  <2>12. ChannelTypes'
    BY <1>21, <2>3 DEF PullsTimedOut, ChannelTypes
  <2>13. KnownTypes'
    BY <1>21 DEF PullsTimedOut, SendAck, KnownTypes
  <2>14. PullTypes'
    BY <1>21, <2>1, <2>2 DEF PullsTimedOut, PullTypes
  <2>15. ThreadTypes'
    BY <1>21 DEF PullsTimedOut, ThreadTypes
  <2> QED
    BY <2>11, <2>12, <2>13, <2>14, <2>15 DEF TypeOK
<1>22. ASSUME NEW h \in Hash, PullOver(h) PROVE TypeOK'
  <2>1. pending' = pending \ {h} /\ handles' = [handles EXCEPT ![h] = @ - 1]
        /\ xfer' = [xfer EXCEPT ![h] = "none"]
    BY <1>22 DEF PullOver, Release
  <2>2. Cardinality(pending') <= MaxPulls
    <3>1. Cardinality(pending \ {h}) = Cardinality(pending) - 1
      BY <1>22, FS_RemoveElement DEF PullOver, PullInv
    <3>2. Cardinality(pending) \in Nat /\ Cardinality(pending) <= MaxPulls
      BY FS_CardinalityType DEF PullInv, PullTypes
    <3> QED
      BY <2>1, <3>1, <3>2
  <2>3. ackNet' \in Seq(Hash) /\ Len(ackNet') <= AckMax
    <3>1. CASE Unsent(h)
      <4>1. Len(ackNet) < AckMax /\ ackNet' = Append(ackNet, h)
        BY <1>22, <3>1 DEF PullOver, SendAck, Unsent
      <4>2. Append(ackNet, h) \in Seq(Hash) /\ Len(Append(ackNet, h)) = Len(ackNet) + 1
        BY AppendFacts DEF ChannelTypes
      <4>3. Len(ackNet) \in Nat
        BY DEF ChannelTypes
      <4> QED
        BY <4>1, <4>2, <4>3
    <3>2. CASE ~Unsent(h)
      BY <1>22, <3>2 DEF PullOver, SendAck, ChannelTypes
    <3> QED
      BY <3>1, <3>2
  <2>11. EncoderTypes'
    BY <1>22 DEF PullOver, EncoderTypes
  <2>12. ChannelTypes'
    BY <1>22, <2>3 DEF PullOver, ChannelTypes
  <2>13. KnownTypes'
    BY <1>22 DEF PullOver, SendAck, KnownTypes
  <2>14. PullTypes'
    BY <1>22, <2>1, <2>2 DEF PullOver, PullTypes
  <2>15. ThreadTypes'
    BY <1>22 DEF PullOver, ThreadTypes
  <2> QED
    BY <2>11, <2>12, <2>13, <2>14, <2>15 DEF TypeOK
<1>23. ASSUME NEW h \in Hash, Transfer(h) PROVE TypeOK'
  <2>11. EncoderTypes'
    BY <1>23 DEF Transfer, EncoderTypes
  <2>12. ChannelTypes'
    BY <1>23 DEF Transfer, ChannelTypes
  <2>13. KnownTypes'
    BY <1>23 DEF Transfer, KnownTypes
  <2>14. PullTypes'
    BY <1>23 DEF Transfer, PullTypes
  <2>15. ThreadTypes'
    BY <1>23 DEF Transfer, ThreadTypes
  <2> QED
    BY <2>11, <2>12, <2>13, <2>14, <2>15 DEF TypeOK
<1>24. CASE UNCHANGED vars
  <2>11. EncoderTypes'
    BY <1>24 DEF vars, EncoderTypes
  <2>12. ChannelTypes'
    BY <1>24 DEF vars, ChannelTypes
  <2>13. KnownTypes'
    BY <1>24 DEF vars, KnownTypes
  <2>14. PullTypes'
    BY <1>24 DEF vars, PullTypes
  <2>15. ThreadTypes'
    BY <1>24 DEF vars, ThreadTypes
  <2> QED
    BY <2>11, <2>12, <2>13, <2>14, <2>15 DEF TypeOK
<1> QED
  BY <1>1, <1>2, <1>3, <1>4, <1>5, <1>6, <1>7, <1>8, <1>9, <1>10, <1>11, <1>12, <1>13,
     <1>14, <1>15, <1>16, <1>17, <1>18, <1>19, <1>20, <1>21, <1>22, <1>23, <1>24 DEF Next, Loading

-----------------------------------------------------------------------------
(* Pulls.  Every step accounts for the hashes it takes off the list.         *)
LEMMA PullStep == TypeOK /\ PullInv /\ [Next]_vars => PullInv'
<1> SUFFICES ASSUME TypeOK, PullInv, [Next]_vars PROVE PullInv'
  OBVIOUS
<1> USE DEF encVars, recvVars, schedVars, loadVars
<1> ChannelTypes /\ PullTypes /\ ThreadTypes
  BY DEF TypeOK
<1>1. CASE ReceiveAck
  BY <1>1 DEF ReceiveAck, PullInv, TodoPlace, Tracked, HandlesExact
<1>2. CASE ReceiveMeta
  BY <1>2 DEF ReceiveMeta, PullInv, TodoPlace, Tracked, HandlesExact
<1>3. CASE PutMeta
  BY <1>3 DEF PutMeta, PullInv, TodoPlace, Tracked, HandlesExact
<1>4. CASE Signal
  BY <1>4 DEF Signal, PullInv, TodoPlace, Tracked, HandlesExact
<1>5. CASE SkipLoad
  <2>1. todo # <<>>
    BY <1>5 DEF SkipLoad
  <2>2. Head(todo) \in Hash /\ Tail(todo) \in Seq(Hash) /\ ToSet(todo) = {Head(todo)} \cup ToSet(Tail(todo))
    BY <2>1, HeadTailFacts DEF ThreadTypes
  <2> QED
    BY <1>5, <2>2 DEF SkipLoad, Skip, NextItem, PullInv, TodoPlace, Tracked, HandlesExact
<1>6. CASE DeferLoad
  <2>1. todo # <<>>
    BY <1>6 DEF DeferLoad
  <2>2. Head(todo) \in Hash /\ Tail(todo) \in Seq(Hash) /\ ToSet(todo) = {Head(todo)} \cup ToSet(Tail(todo))
    BY <2>1, HeadTailFacts DEF ThreadTypes
  <2>3. IsFiniteSet(deferred')
    BY <1>6, FS_AddElement DEF DeferLoad, Defer, PullInv
  <2>4. Tracked'
    BY <1>6, <2>2 DEF DeferLoad, Defer, NextItem, PullInv, Tracked
  <2> QED
    BY <1>6, <2>3, <2>4 DEF DeferLoad, NextItem, PullInv, TodoPlace, HandlesExact
<1>7. CASE InitiatePull
  <2>1. todo # <<>>
    BY <1>7 DEF InitiatePull, Wanted
  <2>2. Head(todo) \in Hash /\ Tail(todo) \in Seq(Hash) /\ ToSet(todo) = {Head(todo)} \cup ToSet(Tail(todo))
    BY <2>1, HeadTailFacts DEF ThreadTypes
  <2>3. CASE pc' # "dead"
    <3>1. IsFiniteSet(pending')
      BY <1>7, <2>3, FS_AddElement DEF InitiatePull, PullInv
    <3>2. HandlesExact'
      BY <1>7, <2>2, <2>3 DEF InitiatePull, Wanted, Skip, PullInv, HandlesExact, PullTypes
    <3>3. Tracked'
      BY <1>7, <2>2, <2>3 DEF InitiatePull, NextItem, PullInv, Tracked
    <3> QED
      BY <1>7, <2>3, <3>1, <3>2, <3>3 DEF InitiatePull, NextItem, PullInv, TodoPlace
  <2>4. CASE pc' = "dead"
    <3>1. pending' = pending /\ todo' = todo /\ deferred' = deferred
      BY <1>7, <2>4 DEF InitiatePull, NextItem
    <3> QED
      BY <1>7, <2>4, <3>1 DEF InitiatePull, PullInv, TodoPlace, Tracked, HandlesExact
  <2> QED
    BY <2>3, <2>4
<1>8. CASE WaitFirst
  BY <1>8 DEF WaitFirst, Wanted, PullInv, TodoPlace, Tracked, HandlesExact
<1>9. CASE WaitAgain
  BY <1>9 DEF WaitAgain, PullInv, TodoPlace, Tracked, HandlesExact
<1>10. CASE Clear
  BY <1>10 DEF Clear, PullInv, TodoPlace, Tracked, HandlesExact
<1>11. CASE Wake
  BY <1>11 DEF Wake, PullInv, TodoPlace, Tracked, HandlesExact
<1>12. CASE WaitTimedOut
  <2>1. todo # <<>>
    BY <1>12 DEF WaitTimedOut, PullInv, TodoPlace
  <2>2. Head(todo) \in Hash /\ Tail(todo) \in Seq(Hash) /\ ToSet(todo) = {Head(todo)} \cup ToSet(Tail(todo))
    BY <2>1, HeadTailFacts DEF ThreadTypes
  <2> QED
    BY <1>12, <2>2 DEF WaitTimedOut, NextItem, PullInv, TodoPlace, Tracked, HandlesExact
<1>13. CASE LoadsStarted
  BY <1>13 DEF LoadsStarted, PullInv, TodoPlace, Tracked, HandlesExact
<1>14. CASE PullsOver
  BY <1>14 DEF PullsOver, PullInv, TodoPlace, Tracked, HandlesExact
<1>15. CASE Run
  BY <1>15 DEF Run, PullInv, TodoPlace, Tracked, HandlesExact
<1>16. CASE StepOver
  BY <1>16 DEF StepOver, PullInv, TodoPlace, Tracked, HandlesExact
<1>17. ASSUME NEW r \in Req, Encode(r) PROVE PullInv'
  BY <1>17 DEF Encode, PullInv, TodoPlace, Tracked, HandlesExact
<1>18. ASSUME NEW r \in Req, Arrive(r) PROVE PullInv'
  BY <1>18 DEF Arrive, PullInv, TodoPlace, Tracked, HandlesExact
<1>19. ASSUME NEW r \in Req, Finish(r) PROVE PullInv'
  BY <1>19 DEF Finish, PullInv, TodoPlace, Tracked, HandlesExact
<1>20. ASSUME NEW p \in BOOLEAN, Schedule(p) PROVE PullInv'
  <2>1. PICK old \in SetToSeqs(deferred) : todo' = Todo(Fresh(p, waiting), old)
    BY <1>20 DEF Schedule
  <2>2. Fresh(p, waiting) \in Seq(Hash)
    BY <1>20, FreshFacts DEF Schedule, ThreadTypes
  <2>3. old \in Seq(Hash)
    <3>1. old \in Seq(deferred) /\ deferred \subseteq Hash
      BY SetToSeqsFacts DEF PullInv, PullTypes
    <3> QED
      BY <3>1
  <2>4. ToSet(Fresh(p, waiting)) \subseteq ToSet(todo')
    BY <2>1, <2>2, <2>3, TodoFacts
  <2>5. IsFiniteSet(deferred')
    BY <1>20, FS_EmptySet DEF Schedule
  <2> QED
    BY <1>20, <2>4, <2>5 DEF Schedule, PullInv, TodoPlace, Tracked, HandlesExact
<1>21. ASSUME NEW h \in Hash, PullsTimedOut(h) PROVE PullInv'
  <2>1. h \in pending /\ pending' = pending \ {h} /\ handles' = [handles EXCEPT ![h] = @ - 1]
    BY <1>21 DEF PullsTimedOut, Release
  <2>2. IsFiniteSet(pending')
    BY <2>1, FS_RemoveElement DEF PullInv
  <2>3. HandlesExact'
    BY <1>21, <2>1 DEF PullsTimedOut, PullInv, HandlesExact, PullTypes
  <2>4. Tracked'
    BY <1>21, <2>1 DEF PullsTimedOut, PullInv, Tracked
  <2> QED
    BY <1>21, <2>2, <2>3, <2>4 DEF PullsTimedOut, PullInv, TodoPlace
<1>22. ASSUME NEW h \in Hash, PullOver(h) PROVE PullInv'
  <2>1. h \in pending /\ pending' = pending \ {h} /\ handles' = [handles EXCEPT ![h] = @ - 1]
    BY <1>22 DEF PullOver, Release
  <2>2. IsFiniteSet(pending')
    BY <2>1, FS_RemoveElement DEF PullInv
  <2>3. HandlesExact'
    BY <1>22, <2>1 DEF PullOver, PullInv, HandlesExact, PullTypes
  <2>4. Tracked'
    BY <1>22, <2>1 DEF PullOver, PullInv, Tracked
  <2> QED
    BY <1>22, <2>2, <2>3, <2>4 DEF PullOver, PullInv, TodoPlace
<1>23. ASSUME NEW h \in Hash, Transfer(h) PROVE PullInv'
  BY <1>23 DEF Transfer, PullInv, TodoPlace, Tracked, HandlesExact
<1>24. CASE UNCHANGED vars
  BY <1>24 DEF vars, PullInv, TodoPlace, Tracked, HandlesExact
<1> QED
  BY <1>1, <1>2, <1>3, <1>4, <1>5, <1>6, <1>7, <1>8, <1>9, <1>10, <1>11, <1>12, <1>13,
     <1>14, <1>15, <1>16, <1>17, <1>18, <1>19, <1>20, <1>21, <1>22, <1>23, <1>24 DEF Next, Loading

-----------------------------------------------------------------------------
(* The line of metadata.                                                     *)

(* A hash's registry entry is never newer than its last registration.        *)
LEMMA RegistryBehind ==
    ASSUME NEW L \in Seq(Meta), NEW reg \in [Hash -> Nat], NEW g \in [Hash -> Nat],
           Ordered(L, reg, g), Complete(L, reg, g), NEW h \in Hash
    PROVE  reg[h] <= g[h]
<1>1. reg[h] \in Nat /\ g[h] \in Nat
  OBVIOUS
<1>2. ASSUME NEW i \in 1..Len(L), L[i].h = h, L[i].g = g[h] PROVE reg[h] < g[h]
  BY <1>2 DEF Ordered
<1>3. reg[h] = g[h] \/ \E i \in 1..Len(L) : L[i].h = h /\ L[i].g = g[h]
  BY DEF Complete
<1> QED
  BY <1>1, <1>2, <1>3

(* Registering a buffer and announcing it at the end of the line keeps the   *)
(* line in order, complete and covering.                                     *)
LEMMA LineAppend ==
    ASSUME NEW L \in Seq(Meta), NEW reg \in [Hash -> Nat], NEW g \in [Hash -> Nat],
           NEW lv \in SUBSET (Hash \X Nat), NEW v,
           Ordered(L, reg, g), Complete(L, reg, g), Mapped(L, lv, v),
           NEW h \in Hash, NEW lv2 \in SUBSET (Hash \X Nat), NEW m \in Meta,
           m.h = h, m.g = g[h] + 1, m.map = lv2, lv2 \subseteq lv \cup {<<h, g[h] + 1>>}
    PROVE  LET L2 == Append(L, m)
               g2 == [g EXCEPT ![h] = @ + 1]
           IN  Ordered(L2, reg, g2) /\ Complete(L2, reg, g2) /\ Mapped(L2, lv2, v)
<1> DEFINE L2 == Append(L, m)
           g2 == [g EXCEPT ![h] = @ + 1]
           n == Len(L)
<1>1. /\ n \in Nat /\ Len(L2) = n + 1 /\ \A i \in 1..n : L2[i] = L[i] /\ L[i] \in Meta
      /\ L2[n + 1] = m
  OBVIOUS
<1>2. /\ g2 \in [Hash -> Nat] /\ g2[h] = g[h] + 1 /\ g[h] \in Nat
      /\ \A k \in Hash : k # h => g2[k] = g[k]
  OBVIOUS
<1>3. \A i \in 1..n : L[i].h \in Hash /\ L[i].g \in Nat
  BY <1>1 DEF Meta
<1>4. reg[h] <= g[h]
  BY RegistryBehind
<1> HIDE DEF L2, g2, n
<1>5. Ordered(L2, reg, g2)
  <2> SUFFICES ASSUME NEW i \in 1..(n + 1)
               PROVE  /\ reg[L2[i].h] < L2[i].g /\ L2[i].g <= g2[L2[i].h]
                      /\ \A j \in 1..(n + 1) : i < j /\ L2[j].h = L2[i].h => L2[i].g < L2[j].g
    BY <1>1 DEF Ordered
  <2>1. CASE i = n + 1
    BY <1>1, <1>2, <1>4, <2>1
  <2>2. CASE i \in 1..n
    <3>1. /\ reg[L[i].h] < L[i].g /\ L[i].g <= g[L[i].h]
          /\ \A j \in 1..n : i < j /\ L[j].h = L[i].h => L[i].g < L[j].g
      BY <2>2 DEF Ordered, n
    <3>2. L2[i] = L[i] /\ L[i].h \in Hash /\ L[i].g \in Nat
      BY <1>1, <1>3, <2>2
    <3>3. L[i].g <= g2[L[i].h]
      <4>1. g2[L[i].h] = g[L[i].h] \/ g2[L[i].h] = g[L[i].h] + 1
        BY <1>2, <3>2
      <4>2. g[L[i].h] \in Nat
        BY <3>2
      <4> QED
        BY <3>1, <3>2, <4>1, <4>2
    <3>4. ASSUME NEW j \in 1..(n + 1), i < j, L2[j].h = L2[i].h PROVE L2[i].g < L2[j].g
      <4>1. CASE j = n + 1
        BY <1>1, <1>2, <3>1, <3>2, <3>4, <4>1
      <4>2. CASE j # n + 1
        <5>1. j \in 1..n
          BY <1>1, <4>2
        <5>2. L2[j] = L[j]
          BY <1>1, <5>1
        <5> QED
          BY <3>1, <3>2, <3>4, <5>1, <5>2
      <4> QED
        BY <4>1, <4>2
    <3> QED
      BY <3>1, <3>2, <3>3, <3>4
  <2>3. i = n + 1 \/ i \in 1..n
    BY <1>1
  <2> QED
    BY <2>1, <2>2, <2>3
<1>6. Complete(L2, reg, g2)
  <2> SUFFICES ASSUME NEW k \in Hash
               PROVE  reg[k] = g2[k] \/ \E i \in 1..(n + 1) : L2[i].h = k /\ L2[i].g = g2[k]
    BY <1>1 DEF Complete
  <2>1. CASE k = h
    <3>1. n + 1 \in 1..(n + 1)
      BY <1>1
    <3> QED
      BY <1>1, <1>2, <2>1, <3>1
  <2>2. CASE k # h
    <3>1. reg[k] = g[k] \/ \E i \in 1..n : L[i].h = k /\ L[i].g = g[k]
      BY DEF Complete, n
    <3>2. \A i \in 1..n : i \in 1..(n + 1)
      BY <1>1
    <3> QED
      BY <1>1, <1>2, <2>2, <3>1, <3>2
  <2> QED
    BY <2>1, <2>2
<1>7. Mapped(L2, lv2, v)
  <2> SUFFICES ASSUME NEW e \in lv2
               PROVE  /\ e \in v \/ Announced(L2, e, 1)
                      /\ \A i \in 1..(n + 1) : e \in L2[i].map \/ Announced(L2, e, i + 1)
    BY <1>1 DEF Mapped
  <2>1. e \in L2[n + 1].map
    BY <1>1
  <2>2. CASE e = <<h, g[h] + 1>>
    <3>1. ASSUME NEW i \in 1..(n + 1) PROVE Announced(L2, e, i)
      <4>1. n + 1 \in i..Len(L2) /\ <<L2[n + 1].h, L2[n + 1].g>> = e
        BY <1>1, <2>2
      <4> QED
        BY <4>1 DEF Announced
    <3>2. 1 \in 1..(n + 1) /\ \A i \in 1..(n + 1) : i = n + 1 \/ i + 1 \in 1..(n + 1)
      BY <1>1
    <3> QED
      BY <2>1, <3>1, <3>2
  <2>3. CASE e \in lv
    <3>1. /\ e \in v \/ Announced(L, e, 1)
          /\ \A i \in 1..n : e \in L[i].map \/ Announced(L, e, i + 1)
      BY <2>3 DEF Mapped, n
    <3>2. ASSUME NEW i \in 1..(n + 1), Announced(L, e, i) PROVE Announced(L2, e, i)
      <4>1. PICK j \in i..n : <<L[j].h, L[j].g>> = e
        BY <3>2 DEF Announced, n
      <4>2. j \in 1..n /\ j \in i..Len(L2)
        BY <1>1
      <4>3. <<L2[j].h, L2[j].g>> = e
        BY <1>1, <4>1, <4>2
      <4> QED
        BY <4>2, <4>3 DEF Announced
    <3>3. \A i \in 1..(n + 1) : i = n + 1 \/ (i \in 1..n /\ i + 1 \in 1..(n + 1))
      BY <1>1
    <3>4. 1 \in 1..(n + 1)
      BY <1>1
    <3> QED
      BY <1>1, <2>1, <3>1, <3>2, <3>3, <3>4
  <2> QED
    BY <2>2, <2>3
<1> QED
  BY <1>5, <1>6, <1>7 DEF L2, g2

(* What draining the first n metadata of a line makes of the registry: the   *)
(* newest of each hash that is among them.                                   *)
Takes(L, n, reg, reg2) ==
    \A h \in Hash :
        \/ (\A i \in 1..n : L[i].h # h) /\ reg2[h] = reg[h]
        \/ \E i \in 1..n : /\ L[i].h = h /\ reg2[h] = L[i].g
                         /\ \A j \in 1..n : L[j].h = h => j <= i

(* L2 is what remains of L without its first n elements.                     *)
Rest(L, n, L2) ==
    n <= Len(L) /\ Len(L2) = Len(L) - n /\ \A i \in 1..Len(L2) : L2[i] = L[n + i]

(* The map that the last of the first n metadata brings.                     *)
Brings(L, n, v, v2) == v2 = IF n = 0 THEN v ELSE L[n].map

(* Taking the first n metadata off the line, with the newest of each hash in *)
(* the registry and the last one's map, keeps the line in order, complete    *)
(* and covering.                                                             *)
LEMMA LineDrain ==
    ASSUME NEW L \in Seq(Meta), NEW reg \in [Hash -> Nat], NEW g \in [Hash -> Nat],
           NEW lv, NEW v,
           Ordered(L, reg, g), Complete(L, reg, g), Mapped(L, lv, v),
           NEW n \in Nat, NEW L2 \in Seq(Meta), Rest(L, n, L2),
           NEW reg2 \in [Hash -> Nat], NEW v2, Brings(L, n, v, v2),
           Takes(L, n, reg, reg2)
    PROVE  Ordered(L2, reg2, g) /\ Complete(L2, reg2, g) /\ Mapped(L2, lv, v2)
<1> USE DEF Takes, Rest, Brings
<1> DEFINE N == Len(L)
<1>1. N \in Nat /\ Len(L2) \in Nat /\ \A i \in 1..N : L[i] \in Meta
  OBVIOUS
<1>2. \A i \in 1..N : L[i].h \in Hash /\ L[i].g \in Nat
  BY <1>1 DEF Meta
<1>3. \A i \in 1..Len(L2) : n + i \in 1..N /\ L2[i] = L[n + i]
  BY <1>1
<1>4. \A i \in 1..n : i \in 1..N
  BY <1>1
<1>5. Ordered(L2, reg2, g)
  <2> SUFFICES ASSUME NEW i \in 1..Len(L2)
               PROVE  /\ reg2[L2[i].h] < L2[i].g /\ L2[i].g <= g[L2[i].h]
                      /\ \A j \in 1..Len(L2) : i < j /\ L2[j].h = L2[i].h => L2[i].g < L2[j].g
    BY DEF Ordered
  <2>1. /\ reg[L[n + i].h] < L[n + i].g /\ L[n + i].g <= g[L[n + i].h]
        /\ \A j \in 1..N : n + i < j /\ L[j].h = L[n + i].h => L[n + i].g < L[j].g
    BY <1>3 DEF Ordered
  <2>2. reg2[L[n + i].h] < L[n + i].g
    <3> DEFINE h == L[n + i].h
    <3>1. h \in Hash
      BY <1>2, <1>3
    <3>2. CASE reg2[h] = reg[h]
      BY <2>1, <3>2
    <3>3. CASE \E k \in 1..n : L[k].h = h /\ reg2[h] = L[k].g
      <4>1. PICK k \in 1..n : L[k].h = h /\ reg2[h] = L[k].g
        BY <3>3
      <4>2. k \in 1..N /\ n + i \in 1..N /\ k < n + i
        BY <1>1, <1>3, <1>4
      <4>3. L[k].g < L[n + i].g
        BY <4>1, <4>2 DEF Ordered
      <4> QED
        BY <4>1, <4>3
    <3> QED
      BY <3>1, <3>2, <3>3
  <2>3. ASSUME NEW j \in 1..Len(L2), i < j, L2[j].h = L2[i].h PROVE L2[i].g < L2[j].g
    <3>1. n + j \in 1..N /\ n + i < n + j /\ L2[j] = L[n + j] /\ L2[i] = L[n + i]
      BY <1>1, <1>3, <2>3
    <3> QED
      BY <2>1, <2>3, <3>1
  <2> QED
    BY <1>3, <2>1, <2>2, <2>3
<1>6. Complete(L2, reg2, g)
  <2> SUFFICES ASSUME NEW h \in Hash, reg2[h] # g[h]
               PROVE  \E i \in 1..Len(L2) : L2[i].h = h /\ L2[i].g = g[h]
    BY DEF Complete
  <2>1. ASSUME NEW i \in 1..N, L[i].h = h, L[i].g = g[h] PROVE i > n
    <3> SUFFICES ASSUME i \in 1..n PROVE FALSE
      BY <1>1
    <3>1. PICK k \in 1..n : /\ L[k].h = h /\ reg2[h] = L[k].g
                            /\ \A j \in 1..n : L[j].h = h => j <= k
      BY <2>1
    <3>2. i <= k /\ i # k
      BY <2>1, <3>1
    <3>3. k \in 1..N /\ i < k /\ L[i].h = L[k].h
      BY <1>4, <2>1, <3>1, <3>2
    <3>4. L[i].g < L[k].g /\ L[k].g <= g[h]
      BY <3>1, <3>3 DEF Ordered
    <3> QED
      BY <1>2, <2>1, <3>3, <3>4
  <2>2. PICK i \in 1..N : L[i].h = h /\ L[i].g = g[h]
    <3>1. CASE reg[h] = g[h]
      <4>1. reg2[h] # reg[h]
        BY <3>1
      <4>2. PICK k \in 1..n : L[k].h = h
        BY <4>1
      <4>3. reg[h] < L[k].g /\ L[k].g <= g[h]
        BY <1>4, <4>2 DEF Ordered
      <4> QED
        BY <1>2, <1>4, <3>1, <4>2, <4>3
    <3> QED
      BY <3>1 DEF Complete
  <2>3. i - n \in 1..Len(L2) /\ n + (i - n) = i
    BY <1>1, <2>1, <2>2
  <2>4. L2[i - n] = L[i]
    BY <2>3
  <2> QED
    BY <2>2, <2>3, <2>4
<1>7. Mapped(L2, lv, v2)
  <2> SUFFICES ASSUME NEW e \in lv
               PROVE  /\ e \in v2 \/ Announced(L2, e, 1)
                      /\ \A i \in 1..Len(L2) : e \in L2[i].map \/ Announced(L2, e, i + 1)
    BY DEF Mapped
  <2>1. /\ e \in v \/ Announced(L, e, 1)
        /\ \A i \in 1..N : e \in L[i].map \/ Announced(L, e, i + 1)
    BY DEF Mapped
  <2>2. ASSUME NEW i \in Nat \ {0}, Announced(L, e, n + i) PROVE Announced(L2, e, i)
    <3>1. PICK j \in (n + i)..N : <<L[j].h, L[j].g>> = e
      BY <2>2 DEF Announced
    <3>2. j - n \in i..Len(L2) /\ j - n \in 1..Len(L2) /\ n + (j - n) = j
      BY <1>1
    <3>3. L2[j - n] = L[j]
      BY <3>2
    <3> QED
      BY <3>1, <3>2, <3>3 DEF Announced
  <2>3. e \in v2 \/ Announced(L2, e, 1)
    <3>1. CASE n = 0
      BY <2>1, <2>2, <3>1
    <3>2. CASE n # 0
      <4>1. n \in 1..N
        BY <1>1, <3>2
      <4> QED
        BY <2>1, <2>2, <3>2, <4>1
    <3> QED
      BY <3>1, <3>2
  <2>4. ASSUME NEW i \in 1..Len(L2) PROVE e \in L2[i].map \/ Announced(L2, e, i + 1)
    <3>1. e \in L[n + i].map \/ Announced(L, e, (n + i) + 1)
      BY <1>3, <2>1
    <3>2. (n + i) + 1 = n + (i + 1) /\ i + 1 \in Nat \ {0}
      BY <1>1
    <3> QED
      BY <1>3, <2>2, <3>1, <3>2
  <2> QED
    BY <2>3, <2>4
<1> QED
  BY <1>5, <1>6, <1>7

(* The line consists of metadata.                                            *)
LEMMA LineType ==
    ASSUME ChannelTypes
    PROVE  Held \in Seq(Meta) /\ Line \in Seq(Meta) /\ (recv.pc = "put" => recv.m \in Meta)
<1>1. recv.pc = "put" => recv.m \in Meta
  BY DEF ChannelTypes, NoMeta
<1>2. Held \in Seq(Meta)
  BY <1>1 DEF Held
<1> QED
  BY <1>1, <1>2 DEF Line, ChannelTypes

(* Moving metadata along the line does not change it.                        *)
LEMMA LineMoves ==
    ASSUME NEW S, NEW a \in Seq(S), NEW c \in Seq(S), NEW x \in S
    PROVE  /\ c # <<>> => a \o <<>> \o c = a \o <<Head(c)>> \o Tail(c)
           /\ a \o <<x>> \o c = Append(a, x) \o <<>> \o c
           /\ \A b \in Seq(S) : a \o b \o Append(c, x) = Append(a \o b \o c, x)
<1>1. ASSUME c # <<>> PROVE a \o <<>> \o c = a \o <<Head(c)>> \o Tail(c)
  <2>1. c = <<Head(c)>> \o Tail(c)
    BY <1>1
  <2>2. a \o <<>> \o c = a \o c
    OBVIOUS
  <2>3. a \o (<<Head(c)>> \o Tail(c)) = a \o <<Head(c)>> \o Tail(c)
    BY <1>1
  <2> QED
    BY <2>1, <2>2, <2>3
<1>2. a \o <<x>> \o c = Append(a, x) \o <<>> \o c
  OBVIOUS
<1>3. \A b \in Seq(S) : a \o b \o Append(c, x) = Append(a \o b \o c, x)
  OBVIOUS
<1> QED
  BY <1>1, <1>2, <1>3

(* A step that touches no end of the line keeps its invariant.               *)
LEMMA LineSame ==
    ASSUME LineInv, UNCHANGED <<gen, live, metaNet, recv, inMeta, registry, view>>
    PROVE  LineInv'
  BY DEF LineInv, Line, Held

(* Draining the queue keeps the line's invariant.                            *)
LEMMA DrainStep ==
    ASSUME TypeOK, LineInv, Drain, UNCHANGED <<gen, live, metaNet, recv>>
    PROVE  LineInv'
<1> DEFINE n == Len(inMeta)
<1>1. /\ inMeta \in Seq(Meta) /\ metaNet \in Seq(Meta) /\ n \in Nat /\ DOMAIN inMeta = 1..n
      /\ registry \in [Hash -> Nat] /\ gen \in [Hash -> Nat] /\ ChannelTypes
  BY DEF TypeOK, ChannelTypes, EncoderTypes, KnownTypes
<1>2. Held \in Seq(Meta) /\ Line \in Seq(Meta)
  BY <1>1, LineType
<1>3. Held' = Held /\ inMeta' = <<>> /\ Line' = <<>> \o Held \o metaNet
  BY DEF Held, Drain, Line
<1>4. /\ Line' \in Seq(Meta) /\ Len(Line') = Len(Line) - n /\ n <= Len(Line)
      /\ \A i \in 1..Len(Line') : Line'[i] = Line[n + i]
      /\ \A i \in 1..n : Line[i] = inMeta[i]
  BY <1>1, <1>2, <1>3 DEF Line
<1>5. registry' \in [Hash -> Nat]
  BY DrainTypes
<1> HIDE DEF n
<1>6. view' = IF n = 0 THEN view ELSE Line[n].map
  <2>1. (inMeta = <<>>) <=> (n = 0)
    BY <1>1 DEF n
  <2>2. n # 0 => Last(inMeta) = inMeta[n] /\ Line[n] = inMeta[n]
    BY <1>1, <1>4 DEF Last, n
  <2> QED
    BY <2>1, <2>2 DEF Drain, DrainedView
<1>7. ASSUME NEW h \in Hash
      PROVE  \/ (\A i \in 1..n : Line[i].h # h) /\ registry'[h] = registry[h]
             \/ \E i \in 1..n : /\ Line[i].h = h /\ registry'[h] = Line[i].g
                              /\ \A j \in 1..n : Line[j].h = h => j <= i
  <2> DEFINE I == {i \in DOMAIN inMeta : inMeta[i].h = h}
  <2>1. CASE InQueue(h)
    <3>1. I # {} /\ I \in SUBSET Int /\ n \in Int /\ \A i \in I : i <= n
      BY <1>1, <2>1 DEF InQueue, ToSet
    <3>2. Max(I) \in I /\ \A i \in I : i <= Max(I)
      <4> HIDE DEF I
      <4> QED
        BY <3>1, MaxFacts
    <3>3. registry'[h] = inMeta[Max(I)].g
      BY <2>1 DEF Drain, Drained, Newest
    <3> DEFINE x == Max(I)
    <3> HIDE DEF x
    <3>4. x \in 1..n /\ inMeta[x].h = h /\ registry'[h] = inMeta[x].g
          /\ \A i \in I : i <= x
      BY <1>1, <3>2, <3>3 DEF x
    <3>5. \A j \in 1..n : Line[j].h = h => j <= x
      BY <1>1, <1>4, <3>4
    <3> QED
      BY <1>4, <3>4, <3>5
  <2>2. CASE ~InQueue(h)
    BY <1>1, <1>4, <2>2 DEF InQueue, ToSet, Drain, Drained
  <2> QED
    BY <2>1, <2>2
<1>8. Ordered(Line, registry, gen) /\ Complete(Line, registry, gen) /\ Mapped(Line, ToSet(live), view)
  BY DEF LineInv
<1>9. Ordered(Line', registry', gen) /\ Complete(Line', registry', gen)
      /\ Mapped(Line', ToSet(live), view')
  <2>1. Takes(Line, n, registry, registry')
    BY <1>7 DEF Takes
  <2>2. Rest(Line, n, Line')
    BY <1>4 DEF Rest
  <2>3. Brings(Line, n, view, view')
    BY <1>6 DEF Brings
  <2>4. Line' \in Seq(Meta) /\ n \in Nat
    BY <1>1, <1>4
  <2> QED
    BY <1>1, <1>2, <1>5, <1>8, <2>1, <2>2, <2>3, <2>4, LineDrain
<1> QED
  BY <1>9 DEF LineInv

(* Every step keeps the line in order, complete and covering.                *)
LEMMA LineStep == TypeOK /\ LineInv /\ [Next]_vars => LineInv'
<1> SUFFICES ASSUME TypeOK, LineInv, [Next]_vars PROVE LineInv'
  OBVIOUS
<1> USE DEF encVars, recvVars, schedVars, loadVars
<1> EncoderTypes /\ ChannelTypes /\ KnownTypes
  BY DEF TypeOK
<1>1. CASE ReceiveAck
  BY <1>1, LineSame DEF ReceiveAck
<1>2. CASE ReceiveMeta
  <2>1. metaNet # <<>> /\ metaNet \in Seq(Meta) /\ inMeta \in Seq(Meta)
    BY <1>2 DEF ReceiveMeta, ChannelTypes
  <2>2. Held = <<>> /\ Held' = <<Head(metaNet)>> /\ metaNet' = Tail(metaNet) /\ inMeta' = inMeta
    BY <1>2 DEF ReceiveMeta, Held, NoMeta
  <2>3. Line' = Line
    <3>1. Head(metaNet) \in Meta
      BY <2>1, HeadTailFacts
    <3>2. inMeta \o <<>> \o metaNet = inMeta \o <<Head(metaNet)>> \o Tail(metaNet)
      BY <2>1, <3>1, LineMoves
    <3> QED
      BY <2>2, <3>2 DEF Line
  <2> QED
    BY <1>2, <2>3 DEF ReceiveMeta, LineInv
<1>3. CASE PutMeta
  <2>1. metaNet \in Seq(Meta) /\ inMeta \in Seq(Meta) /\ recv.m \in Meta
    BY <1>3, LineType DEF PutMeta, ChannelTypes
  <2>2. Held = <<recv.m>> /\ Held' = <<>> /\ metaNet' = metaNet /\ inMeta' = Append(inMeta, recv.m)
    <3>1. recv' = [pc |-> "signal", m |-> recv.m]
      BY <1>3 DEF PutMeta, ChannelTypes, NoMeta
    <3> QED
      BY <1>3, <3>1 DEF PutMeta, Held
  <2>3. Line' = Line
    <3>1. inMeta \o <<recv.m>> \o metaNet = Append(inMeta, recv.m) \o <<>> \o metaNet
      BY <2>1, LineMoves, SMTT(30)
    <3> QED
      BY <2>2, <3>1 DEF Line
  <2> QED
    BY <1>3, <2>3 DEF PutMeta, LineInv
<1>4. CASE Signal
  <2>1. Line' = Line
    BY <1>4 DEF Signal, Line, Held, NoMeta
  <2> QED
    BY <1>4, <2>1 DEF Signal, LineInv
<1>5. CASE SkipLoad
  BY <1>5, LineSame DEF SkipLoad
<1>6. CASE DeferLoad
  BY <1>6, LineSame DEF DeferLoad
<1>7. CASE InitiatePull
  BY <1>7, LineSame DEF InitiatePull
<1>8. CASE WaitFirst
  BY <1>8, DrainStep DEF WaitFirst
<1>9. CASE WaitAgain
  BY <1>9, DrainStep DEF WaitAgain
<1>10. CASE Clear
  BY <1>10, LineSame DEF Clear
<1>11. CASE Wake
  BY <1>11, DrainStep DEF Wake
<1>12. CASE WaitTimedOut
  BY <1>12, LineSame DEF WaitTimedOut
<1>13. CASE LoadsStarted
  BY <1>13, LineSame DEF LoadsStarted
<1>14. CASE PullsOver
  BY <1>14, LineSame DEF PullsOver
<1>15. CASE Run
  <2>1. CASE pending # {}
    BY <1>15, <2>1, DrainStep DEF Run
  <2>2. CASE pending = {}
    BY <1>15, <2>2, LineSame DEF Run
  <2> QED
    BY <2>1, <2>2
<1>16. CASE StepOver
  BY <1>16, LineSame DEF StepOver
<1>17. ASSUME NEW r \in Req, Encode(r) PROVE LineInv'
  <2> DEFINE h == HashOf[r]
  <2>1. h \in Hash /\ gen \in [Hash -> Nat] /\ live \in Seq(Hash \X Nat)
    BY Constants DEF EncoderTypes
  <2>2. inMeta' = inMeta /\ recv' = recv /\ registry' = registry /\ view' = view
    BY <1>17 DEF Encode
  <2>3. CASE \E e \in ToSet(AfterAcks) : e[1] = h
    <3>1. live' = AfterAcks /\ metaNet' = metaNet /\ gen' = gen
      BY <1>17, <2>3 DEF Encode
    <3>2. ToSet(live') \subseteq ToSet(live)
      BY <3>1, EncoderFacts
    <3>3. Line' = Line
      BY <2>2, <3>1 DEF Line, Held
    <3> QED
      BY <2>2, <3>1, <3>2, <3>3 DEF LineInv, Mapped
  <2>4. CASE ~\E e \in ToSet(AfterAcks) : e[1] = h
    <3> DEFINE new == <<h, gen[h] + 1>>
               m == [h |-> h, g |-> gen[h] + 1, map |-> ToSet(live')]
    <3>1. PICK k \in IF Expires THEN 0..Len(AfterAcks) ELSE {0} :
             live' = Append(Admitted(AfterAcks, k), new)
      BY <1>17, <2>4 DEF Encode
    <3>2. gen' = [gen EXCEPT ![h] = @ + 1] /\ metaNet' = Append(metaNet, m)
      BY <1>17, <2>4 DEF Encode, PushMeta
    <3>3. new \in Hash \X Nat
      BY <2>1
    <3>4. live' \in Seq(Hash \X Nat) /\ ToSet(live') \subseteq ToSet(live) \cup {new}
      <4>1. k \in 0..Len(AfterAcks)
        BY EncoderFacts
      <4> DEFINE a == Admitted(AfterAcks, k)
      <4>2. a \in Seq(Hash \X Nat) /\ ToSet(a) \subseteq ToSet(live)
        BY <4>1, EncoderFacts
      <4>3. live' = Append(a, new)
        BY <3>1
      <4> HIDE DEF a, new
      <4>4. Append(a, new) \in Seq(Hash \X Nat) /\ ToSet(Append(a, new)) = ToSet(a) \cup {new}
        BY <3>3, <4>2, AppendFacts
      <4> QED
        BY <4>2, <4>3, <4>4
    <3>5. ToSet(live') \in SUBSET (Hash \X Nat) /\ ToSet(live) \in SUBSET (Hash \X Nat)
      BY <2>1, <3>4 DEF ToSet
    <3>6. m \in Meta /\ m.h = h /\ m.g = gen[h] + 1 /\ m.map = ToSet(live')
      BY <2>1, <3>5 DEF Meta
    <3>7. Line' = Append(Line, m)
      <4>1. Held' = Held
        BY <2>2 DEF Held
      <4>2. inMeta \in Seq(Meta) /\ metaNet \in Seq(Meta) /\ Held \in Seq(Meta)
        BY LineType DEF ChannelTypes
      <4> HIDE DEF m
      <4>3. inMeta \o Held \o Append(metaNet, m) = Append(inMeta \o Held \o metaNet, m)
        BY <3>6, <4>2, LineMoves
      <4> QED
        BY <2>2, <3>2, <4>1, <4>3 DEF Line
    <3>8. Line \in Seq(Meta) /\ registry \in [Hash -> Nat]
      BY LineType DEF KnownTypes
    <3> HIDE DEF m, h
    <3>9. LET L2 == Append(Line, m)
              g2 == [gen EXCEPT ![h] = @ + 1]
          IN  Ordered(L2, registry, g2) /\ Complete(L2, registry, g2) /\ Mapped(L2, ToSet(live'), view)
      BY <2>1, <3>4, <3>5, <3>6, <3>8, LineAppend DEF LineInv
    <3> QED
      BY <2>2, <3>2, <3>7, <3>9 DEF LineInv
  <2> QED
    BY <2>3, <2>4
<1>18. ASSUME NEW r \in Req, Arrive(r) PROVE LineInv'
  BY <1>18, LineSame DEF Arrive
<1>19. ASSUME NEW r \in Req, Finish(r) PROVE LineInv'
  BY <1>19, LineSame DEF Finish
<1>20. ASSUME NEW p \in BOOLEAN, Schedule(p) PROVE LineInv'
  BY <1>20, DrainStep DEF Schedule
<1>21. ASSUME NEW h \in Hash, PullsTimedOut(h) PROVE LineInv'
  BY <1>21, LineSame DEF PullsTimedOut
<1>22. ASSUME NEW h \in Hash, PullOver(h) PROVE LineInv'
  BY <1>22, LineSame DEF PullOver
<1>23. ASSUME NEW h \in Hash, Transfer(h) PROVE LineInv'
  BY <1>23, LineSame DEF Transfer
<1>24. CASE UNCHANGED vars
  BY <1>24, LineSame DEF vars
<1> QED
  BY <1>1, <1>2, <1>3, <1>4, <1>5, <1>6, <1>7, <1>8, <1>9, <1>10, <1>11, <1>12, <1>13,
     <1>14, <1>15, <1>16, <1>17, <1>18, <1>19, <1>20, <1>21, <1>22, <1>23, <1>24 DEF Next, Loading

-----------------------------------------------------------------------------
(* The initial state satisfies the invariant.                                *)
LEMMA InitIInv == Init => IInv
<1> SUFFICES ASSUME Init PROVE IInv
  OBVIOUS
<1> USE Constants DEF Init
<1>1. TypeOK
  <2>1. EncoderTypes
    BY DEF EncoderTypes
  <2>2. ChannelTypes
    BY DEF ChannelTypes
  <2>3. KnownTypes
    BY DEF KnownTypes
  <2>4. PullTypes
    BY FS_EmptySet DEF PullTypes
  <2>5. ThreadTypes
    BY DEF ThreadTypes
  <2> QED
    BY <2>1, <2>2, <2>3, <2>4, <2>5 DEF TypeOK
<1>2. PullInv
  BY FS_EmptySet DEF PullInv, TodoPlace, Tracked, HandlesExact
<1>3. LineInv
  <2>1. Line = <<>> /\ ToSet(live) = {}
    BY DEF Line, Held, NoMeta, ToSet
  <2> QED
    BY <2>1 DEF LineInv, Ordered, Complete, Mapped
<1> QED
  BY <1>1, <1>2, <1>3 DEF IInv

(* The invariant holds in every state that the three threads can reach.      *)
THEOREM Invariance == Spec => []IInv
<1>1. IInv /\ [Next]_vars => IInv'
  BY TypeStep, PullStep, LineStep DEF IInv
<1> QED
  BY <1>1, InitIInv, PTL DEF Spec

(* The types of the state and the bounds of the queues hold: the receiver    *)
(* threads never exceed metadata_queue_max and ack_queue_max, the encoder    *)
(* never keeps more than producer_cache_capacity, and no more than           *)
(* max_concurrent_pulls pulls are in flight.                                 *)
THEOREM Types == Spec => []TypeOK
<1>1. IInv => TypeOK
  BY DEF IInv
<1> QED
  BY <1>1, Invariance, PTL

(* Between steps every hash asked for is loaded, being pulled, deferred, or  *)
(* given up, and as long as no pull has failed to start, which ends the       *)
(* engine, NIXL handles and destination buffers are held for pending pulls   *)
(* only (start_load_caches, _release_pull, get_finished).                    *)
THEOREM Pulls == Spec => []PullsAccounted
<1>1. IInv => PullsAccounted
  <2> SUFFICES ASSUME IInv PROVE PullsAccounted
    OBVIOUS
  <2>1. HandlesExact
    BY DEF IInv, PullInv
  <2>2. ASSUME pc = "idle" PROVE asked \subseteq cache \cup pending \cup deferred \cup lost \cup toFree
    <3>1. ToSet(todo) = {}
      BY <2>2 DEF IInv, PullInv, TodoPlace, ToSet
    <3> QED
      BY <3>1 DEF IInv, PullInv, Tracked
  <2> QED
    BY <2>1, <2>2 DEF PullsAccounted, AskedIsTracked
<1> QED
  BY <1>1, Invariance, PTL

(* The newest registration of a hash is in the registry or on its way, with  *)
(* the queue full or not (_receiver_loop, _process_pending_metadata).        *)
THEOREM NoMetadataLost == Spec => []MetadataIsNotLost
<1>1. IInv => MetadataIsNotLost
  <2> SUFFICES ASSUME IInv, NEW h \in Hash, registry[h] # gen[h]
               PROVE  \E m \in ToSet(metaNet) \cup ToSet(inMeta)
                                  \cup (IF recv = NoMeta THEN {} ELSE {recv.m}) :
                         m.h = h /\ m.g = gen[h]
    BY DEF MetadataIsNotLost
  <2>1. PICK i \in 1..Len(Line) : Line[i].h = h /\ Line[i].g = gen[h]
    BY DEF IInv, LineInv, Complete
  <2>2. /\ inMeta \in Seq(Meta) /\ metaNet \in Seq(Meta) /\ Held \in Seq(Meta)
    BY LineType DEF IInv, TypeOK, ChannelTypes
  <2> DEFINE a == Len(inMeta)
             b == Len(Held)
  <2>3. a \in Nat /\ b \in Nat /\ Len(metaNet) \in Nat /\ Len(Line) = a + b + Len(metaNet)
    BY <2>2 DEF Line
  <2>4. /\ i \in 1..a => Line[i] = inMeta[i]
        /\ i \in (a + 1)..(a + b) => Line[i] = Held[i - a]
        /\ i \in (a + b + 1)..(a + b + Len(metaNet)) => Line[i] = metaNet[i - a - b]
    BY <2>2, <2>3 DEF Line
  <2> HIDE DEF a, b
  <2>5. CASE i \in 1..a
    <3>1. Line[i] \in ToSet(inMeta)
      BY <2>2, <2>4, <2>5 DEF ToSet, a
    <3> QED
      BY <2>1, <3>1
  <2>6. CASE i \in (a + 1)..(a + b)
    <3>1. b # 0
      BY <2>3, <2>6
    <3>2. Held = <<recv.m>> /\ recv # NoMeta
      BY <3>1 DEF Held, NoMeta, b
    <3>3. i - a = 1
      BY <2>3, <2>6, <3>2 DEF b
    <3>4. Line[i] = recv.m
      BY <2>4, <2>6, <3>2, <3>3
    <3> QED
      BY <2>1, <3>2, <3>4
  <2>7. CASE i \in (a + b + 1)..(a + b + Len(metaNet))
    <3>1. i - a - b \in 1..Len(metaNet)
      BY <2>3, <2>7
    <3>2. Line[i] \in ToSet(metaNet)
      BY <2>2, <2>4, <2>7, <3>1 DEF ToSet
    <3> QED
      BY <2>1, <3>2
  <2> QED
    BY <2>3, <2>5, <2>6, <2>7
<1> QED
  BY <1>1, Invariance, PTL

(* A registration that the LLM knows and the encoder holds is in the memory  *)
(* map that the LLM last took, although every metadata replaces the map.     *)
THEOREM ViewCovers == Spec => []ViewCoversLive
<1>1. IInv => ViewCoversLive
  <2> SUFFICES ASSUME IInv, NEW h \in Hash, <<h, registry[h]>> \in ToSet(live),
                      <<h, registry[h]>> \notin view
               PROVE  FALSE
    BY DEF ViewCoversLive
  <2>1. Announced(Line, <<h, registry[h]>>, 1)
    BY DEF IInv, LineInv, Mapped
  <2>2. PICK j \in 1..Len(Line) : Line[j].h = h /\ Line[j].g = registry[h]
    BY <2>1 DEF Announced
  <2>3. registry[h] < registry[h] /\ registry[h] \in Nat
    BY <2>2 DEF IInv, LineInv, Ordered, TypeOK, KnownTypes
  <2> QED
    BY <2>3
<1> QED
  BY <1>1, Invariance, PTL
=============================================================================
