------------------------ MODULE SubBlockReuse_proofs ------------------------
(***************************************************************************)
(* Prefix caching is sound: the theorems about what the cache holds.        *)
(*                                                                          *)
(* Two inductive invariants, on top of RefInv (SubBlockCache_proofs):       *)
(*   HashInv, for every deployment, says which blocks have a hash: a block  *)
(*     without one is in one place of one table, so nothing but its request *)
(*     writes in it; one with a hash was computed whole, whatever drafts    *)
(*     the steps in flight lose.                                            *)
(*   ReuseInv, with one step at a time and no drafts, says what the blocks  *)
(*     hold, WillHold standing for what the step in flight leaves in them:  *)
(*     every hashed or indexed block belongs to some request's stream.      *)
(* HashesMatchIndex, IndexSound and ReuseSound follow.                      *)
(***************************************************************************)
EXTENDS SubBlockCache_proofs

(* A prefix of a sequence, and the prefix of a prefix.                       *)
LEMMA PrefixFacts ==
    ASSUME NEW S, NEW s \in Seq(S), NEW n \in 0..Len(s)
    PROVE  /\ SubSeq(s, 1, n) \in Seq(S) /\ Len(SubSeq(s, 1, n)) = n
           /\ \A k \in 0..n : SubSeq(SubSeq(s, 1, n), 1, k) = SubSeq(s, 1, k)
<1>1. Len(s) \in Nat /\ n \in Nat /\ n <= Len(s)
  OBVIOUS
<1>2. SubSeq(s, 1, n) \in Seq(S) /\ Len(SubSeq(s, 1, n)) = n
      /\ \A i \in 1..n : SubSeq(s, 1, n)[i] = s[i]
  BY <1>1
<1>3. ASSUME NEW k \in 0..n PROVE SubSeq(SubSeq(s, 1, n), 1, k) = SubSeq(s, 1, k)
  <2> DEFINE u == SubSeq(s, 1, n)
             x == SubSeq(u, 1, k)
             y == SubSeq(s, 1, k)
  <2>1. u \in Seq(S) /\ Len(u) = n /\ \A i \in 1..n : u[i] = s[i]
    BY <1>2
  <2> HIDE DEF u
  <2>2. x \in Seq(S) /\ Len(x) = k /\ \A i \in 1..k : x[i] = u[i]
    BY <1>1, <2>1
  <2>3. y \in Seq(S) /\ Len(y) = k /\ \A i \in 1..k : y[i] = s[i]
    BY <1>1
  <2> HIDE DEF x, y
  <2>4. \A i \in 1..k : x[i] = y[i]
    BY <1>1, <2>1, <2>2, <2>3
  <2>5. x = y
    BY <2>2, <2>3, <2>4
  <2> QED
    BY <2>5 DEF x, y, u
<1> QED
  BY <1>2, <1>3

-----------------------------------------------------------------------------
(* Hashes.                                                                   *)

(* Whether step i in flight brings r an output.                              *)
Emits(r, i) ==
    IF i \in 1..Len(steps) /\ r \in DOMAIN steps[i].work /\ steps[i].work[r].emit
    THEN 1 ELSE 0

(* The steps in flight: their number, their drafts, which count as computed, *)
(* and a placeholder for every output on its way.                            *)
Flights ==
    /\ Len(steps) <= Depth /\ (match # NoMatch => Len(steps) < Depth)
    /\ \A i \in 1..Len(steps) : \A r \in DOMAIN steps[i].work :
          /\ steps[i].work[r].spec \in 0..MaxSpec
          /\ steps[i].acc[r] \in 0..steps[i].work[r].spec
          /\ status[r] # "done" => nComp[r] >= steps[i].work[r].spec
    /\ \A r \in Req : /\ nOut[r] >= 0 /\ nComp[r] >= 0
                      /\ Async /\ status[r] # "done" => nOut[r] >= Emits(r, 1) + Emits(r, 2)

(* A block without a hash has one place in one table.                        *)
Sole ==
    \A r, q \in Req : \A j \in 1..Len(blocks[r]) : \A l \in 1..Len(blocks[q]) :
        blocks[r][j] = blocks[q][l] /\ hash[blocks[r][j]] = NoHash => r = q /\ j = l

(* A block with a hash was computed whole, whatever the steps in flight      *)
(* reject.                                                                   *)
HashedIsComputed ==
    \A r \in Req : \A j \in 1..Len(blocks[r]) : hash[blocks[r][j]] # NoHash =>
        /\ j * BlockSize <= nComp[r]
        /\ \A i \in 1..Len(steps) : r \in DOMAIN steps[i].work =>
              j * BlockSize <= nComp[r] - steps[i].work[r].spec

(* The hits of the match handle are still the request's full blocks.         *)
HitsCached ==
    match # NoMatch => \A j \in 1..Len(match.hits) :
        hash[match.hits[j]] = <<"full", Prefix(match.req, j * BlockSize)>>

(* What is noted is a number.                                                *)
Noted == note \in [Req -> Int]

HashInv == Noted /\ Flights /\ Sole /\ HashedIsComputed /\ HitsCached

(* The deployment does not change.                                           *)
LEMMA ConfigSame ==
    ASSUME UNCHANGED config
    PROVE  /\ SubSize' = SubSize /\ PerBlock' = PerBlock /\ BlockSize' = BlockSize
           /\ Depth' = Depth /\ MaxSpec' = MaxSpec /\ Tokens' = Tokens
           /\ Async' = Async /\ Plain' = Plain
           /\ \A r, p : Prefix(r, p)' = Prefix(r, p)
           /\ \A p : BlockOf(p)' = BlockOf(p) /\ SlotOf(p)' = SlotOf(p)
  BY DEF SubSize, PerBlock, BlockSize, Depth, MaxSpec, Tokens, Async, Plain, Prefix, BlockOf, SlotOf

(* Drafts only with one step at a time.                                      *)
LEMMA DepthFacts ==
    ASSUME config \in Configs
    PROVE  /\ Depth \in {1, 2} /\ MaxSpec \in Nat /\ (Depth = 2 => MaxSpec = 0)
           /\ (Async <=> Depth = 2) /\ (Plain => Depth = 1 /\ MaxSpec = 0)
<1>1. Depth \in {1, 2} /\ MaxSpec \in Nat
  BY ConfigFacts
<1>2. Depth = 2 => MaxSpec = 0
  BY ConfigsAssumption DEF Depth, MaxSpec
<1> QED
  BY <1>1, <1>2 DEF Async, Plain

(* A free block is in no table.                                              *)
LEMMA FreeFacts ==
    ASSUME RefInv, NEW b \in FreeBlocks, NEW r \in Req, NEW j \in 1..Len(blocks[r])
    PROVE  blocks[r][j] # b
<1> SUFFICES ASSUME blocks[r][j] = b PROVE FALSE
  OBVIOUS
<1>1. b \in Block /\ refCnt[b] = 0
  BY DEF FreeBlocks
<1>2. blocks[r] \in Seq(Block)
  BY DEF RefInv, Types
<1>3. r \in Owners(b)
  BY <1>2 DEF Owners, Range
<1>4. /\ IsFiniteSet(Owners(b)) /\ Cardinality(Owners(b)) \in Nat /\ Cardinality(Copiers(b)) \in Nat
  BY CountsFinite DEF RefInv, Types
<1>5. refCnt[b] = Cardinality(Owners(b)) + Handle(b) + Cardinality(Copiers(b)) /\ Handle(b) \in Nat
  BY <1>1 DEF RefInv, Counted, Handle
<1>6. Cardinality(Owners(b)) = 0
  BY <1>1, <1>4, <1>5
<1> QED
  BY <1>3, <1>4, <1>6, FS_EmptySet

(* cache_blocks: a hash stays; a block without one gets that of a full place *)

(* it has, if it has any.                                                    *)
LEMMA CachedIs ==
    ASSUME NEW hs, NEW R, NEW table, NEW n, NEW b \in Block
    PROVE  LET c == Cached(hs, R, table, n)[b] IN
           /\ hs[b] # NoHash => c = hs[b]
           /\ hs[b] = NoHash =>
                \/ /\ c = NoHash
                   /\ \A r \in R : \A j \in 1..Len(table[r]) :
                        table[r][j] = b => ~(j * BlockSize <= n[r])
                \/ \E r \in R : \E j \in 1..Len(table[r]) :
                     /\ table[r][j] = b /\ j * BlockSize <= n[r]
                     /\ c = <<"full", Prefix(r, j * BlockSize)>>
<1> DEFINE places == {w \in FullPlaces(R, table, n) : table[w[1]][w[2]] = b}
           c == Cached(hs, R, table, n)[b]
<1>1. c = IF hs[b] = NoHash /\ places # {}
          THEN LET w == CHOOSE w \in places : TRUE
               IN  <<"full", Prefix(w[1], w[2] * BlockSize)>>
          ELSE hs[b]
  BY DEF Cached
<1>2. ASSUME NEW w \in places
      PROVE  /\ w[1] \in R /\ w[2] \in 1..Len(table[w[1]])
             /\ table[w[1]][w[2]] = b /\ w[2] * BlockSize <= n[w[1]]
  BY DEF FullPlaces
<1>3. ASSUME NEW r \in R, NEW j \in 1..Len(table[r]), table[r][j] = b, j * BlockSize <= n[r]
      PROVE  <<r, j>> \in places
  BY <1>3 DEF FullPlaces
<1> HIDE DEF places, c
<1>4. CASE hs[b] = NoHash /\ places # {}
  <2>1. PICK w \in places : c = <<"full", Prefix(w[1], w[2] * BlockSize)>>
    <3> DEFINE w == CHOOSE w \in places : TRUE
    <3>1. w \in places
      BY <1>4
    <3>2. c = <<"full", Prefix(w[1], w[2] * BlockSize)>>
      BY <1>1, <1>4
    <3> QED
      BY <3>1, <3>2
  <2>2. \E r \in R : \E j \in 1..Len(table[r]) :
                     /\ table[r][j] = b /\ j * BlockSize <= n[r]
                     /\ c = <<"full", Prefix(r, j * BlockSize)>>
    BY <1>2, <2>1
  <2> QED
    BY <1>4, <2>2 DEF c
<1>5. CASE hs[b] = NoHash /\ places = {}
  <2>1. c = NoHash
    BY <1>1, <1>5
  <2>2. \A r \in R : \A j \in 1..Len(table[r]) : table[r][j] = b => ~(j * BlockSize <= n[r])
    BY <1>3, <1>5
  <2> QED
    BY <1>5, <2>1, <2>2 DEF c
<1>6. CASE hs[b] # NoHash
  BY <1>1, <1>6 DEF c
<1> QED
  BY <1>4, <1>5, <1>6

(* A full hash is a hash.                                                    *)
LEMMA FullIsHash == \A x : <<"full", x>> # NoHash /\ <<"partial", x>> # NoHash
  BY DEF NoHash

(* The place _index_partial_block looks at is past the computed full blocks. *)
LEMMA OpenPlace ==
    ASSUME config \in Configs, NEW nc \in Int
    PROVE  /\ nc \div BlockSize + 1 \in Int
           /\ (nc \div BlockSize + 1) * BlockSize > nc
           /\ ((nc \div BlockSize + 1) - 1) * BlockSize <= nc
           /\ nc = (nc \div BlockSize) * BlockSize + (nc % BlockSize)
           /\ nc % BlockSize \in 0..(BlockSize - 1)
<1>1. BlockSize \in Nat \ {0}
  BY ConfigFacts
<1> DEFINE d == nc \div BlockSize
<1>2. d \in Int /\ d * BlockSize <= nc /\ nc < d * BlockSize + BlockSize
      /\ nc = d * BlockSize + (nc % BlockSize) /\ nc % BlockSize \in 0..(BlockSize - 1)
  BY <1>1, DivFacts
<1> HIDE DEF d
<1>3. (d + 1) * BlockSize = d * BlockSize + BlockSize /\ (d + 1) - 1 = d /\ d * BlockSize \in Int
  BY <1>1, <1>2, MulFacts
<1> QED
  BY <1>1, <1>2, <1>3 DEF d

(* set_block_hash on the partial blocks of the requests freed: another block *)

(* keeps what it had.                                                        *)
LEMMA MarkedIs ==
    ASSUME NEW hs, NEW E, NEW nc, NEW nt, NEW b \in Block
    PROVE  \/ /\ Marked(hs, E, nc, nt)[b] = hs[b]
              /\ \A r \in E : \A t \in PartialTargets(r, nc[r], nt[r]) : t[1] # b
           \/ \E r \in E : \E t \in PartialTargets(r, nc[r], nt[r]) :
                t[1] = b /\ Marked(hs, E, nc, nt)[b] = <<"partial", Last(t[2])>>
<1> DEFINE T == UNION {PartialTargets(r, nc[r], nt[r]) : r \in E}
<1>1. Marked(hs, E, nc, nt)[b] = IF \E t \in T : t[1] = b
            THEN <<"partial", Last((CHOOSE t \in T : t[1] = b)[2])>>
            ELSE hs[b]
  BY DEF Marked
<1>2. CASE \E t \in T : t[1] = b
  <2>1. PICK t \in T : t[1] = b /\ t = CHOOSE x \in T : x[1] = b
    BY <1>2
  <2> QED
    BY <1>1, <1>2, <2>1
<1>3. CASE ~ \E t \in T : t[1] = b
  BY <1>1, <1>3
<1> QED
  BY <1>2, <1>3

(* _index_partial_block's target is the block after the full ones.           *)
LEMMA PartialPlace ==
    ASSUME NEW r, NEW nc, NEW nt, NEW t \in PartialTargets(r, nc, nt)
    PROVE  LET j == nc \div BlockSize + 1 IN
           /\ j <= Len(blocks[r]) /\ t[1] = blocks[r][j]
           /\ t[2] = SubHashes(r, j, (nc % BlockSize) \div SubSize, nt) /\ Len(t[2]) > 0
  BY DEF PartialTargets
(* What schedule() does, whether it admits a request or serves running ones: *)
(* work[r] is scheduled for r in R, whose table keeps its blocks, takes hits *)
(* and takes fresh blocks; the first cap[r] tokens may be cached.            *)
NewPlace(r, j, from, fresh) ==
    LET b == blocks'[r][j] IN
    \/ b \in fresh
    \/ b \notin fresh /\ j \in 1..Len(blocks[r]) /\ b = blocks[r][j] /\ from = nComp[r]
    \/ b \notin fresh /\ hash[b] = <<"full", Prefix(r, j * BlockSize)>> /\ j * BlockSize <= from
Schedules(R, work, fresh, cap, copies) ==
    /\ R \in SUBSET Req /\ DOMAIN work = R /\ fresh \in SUBSET FreeBlocks /\ Len(steps) < Depth
    /\ match' = NoMatch /\ UNCHANGED <<nTok, kv>> /\ note' = [q \in Req |-> note'[q]]
    /\ \A q \in Req \ R : /\ blocks'[q] = blocks[q] /\ nComp'[q] = nComp[q]
                          /\ nOut'[q] = nOut[q] /\ note'[q] = note[q] /\ status'[q] = status[q]
    /\ \A r \in R :
          /\ status[r] # "done" /\ status'[r] = "running"
          /\ work[r].from \in Nat /\ work[r].num \in Int /\ work[r].spec \in 0..MaxSpec
          /\ work[r].num > work[r].spec /\ cap[r] <= work[r].from + work[r].num - work[r].spec
          /\ cap[r] \in Int /\ work[r].table = blocks'[r]
          /\ nComp'[r] = work[r].from + work[r].num
          /\ nOut'[r] = IF Async /\ work[r].emit THEN nOut[r] + 1 ELSE nOut[r]
          /\ note'[r] = ScheduleNote(r, work[r].from)
          /\ \A j \in 1..Len(blocks'[r]) : NewPlace(r, j, work[r].from, fresh)
    /\ \A r, q \in R : \A j \in 1..Len(blocks'[r]) : \A l \in 1..Len(blocks'[q]) :
          blocks'[r][j] = blocks'[q][l] /\ blocks'[r][j] \in fresh => r = q /\ j = l
    /\ hash' = Cached(EvictedHash(fresh), R, blocks', cap)
    /\ lists' = EvictedLists(fresh)
    /\ steps' = Append(steps, [work |-> work, copies |-> copies, ran |-> FALSE,
                               acc |-> [r \in R |-> 0]])

(* An admission is such a step.                                              *)
LEMMA AdmitSchedules ==
    ASSUME RefInv, HashInv, Admit, UNCHANGED config
    PROVE  LET r == match.req
               L == Len(match.hits)
               from == L * BlockSize + match.num * SubSize
               num == MinOf(nTok[r] - from, ChunkMax)
               n == CeilDiv(from + num, BlockSize) - L
               copies(t) == IF match.src = NoBlock THEN {}
                            ELSE {[src |-> match.src, dst |-> t[L + 1], num |-> match.num * SubSize]}
           IN  \E new \in Injection(1..n, FreeBlocks \ Range(match.hits)) :
                 LET t == match.hits \o new IN
                 /\ Schedules({r}, [q \in {r} |-> Work(r, from, num, 0, t)], Range(new),
                              [q \in {r} |-> from + num], copies(t))
                 /\ blocks'[r] = t /\ t \in Seq(Block) /\ Len(t) = L + n
                 /\ \A j \in 1..L : t[j] = match.hits[j] /\ t[j] \notin Range(new)
                 /\ \A j \in (L + 1)..(L + n) : t[j] \in Range(new)
<1> USE DEF RefInv
<1> DEFINE r == match.req
           hits == match.hits
           L == Len(hits)
           from == L * BlockSize + match.num * SubSize
           num == MinOf(nTok[r] - from, ChunkMax)
           n == CeilDiv(from + num, BlockSize) - L
           copies(t) == IF match.src = NoBlock THEN {}
                        ELSE {[src |-> match.src, dst |-> t[L + 1], num |-> match.num * SubSize]}
<1>1. match # NoMatch /\ match' = NoMatch /\ UNCHANGED <<nTok, kv>>
  BY DEF Admit
<1>2. /\ r \in Req /\ hits \in Seq(Block) /\ from \in Nat /\ num \in Nat \ {0}
      /\ from + num <= nTok[r] /\ n \in Nat \ {0} /\ match.num \in Int /\ match.num >= 0
  <2>1. match \in Match /\ match.num >= 0
    BY <1>1 DEF Types, MatchFits
  <2> QED
    BY <1>1, <2>1, AdmitNumbers DEF Match
<1>3. PICK new \in Picks(n, Range(hits)) :
          LET t == hits \o new
              w == Work(r, from, num, 0, t)
          IN
          /\ blocks' = [blocks EXCEPT ![r] = t]
          /\ lists' = EvictedLists(Range(new))
          /\ hash' = Cached(EvictedHash(Range(new)), {r}, blocks', [q \in {r} |-> from + num])
          /\ note' = [note EXCEPT ![r] = ScheduleNote(r, from)]
          /\ nComp' = [nComp EXCEPT ![r] = from + num]
          /\ nOut' = [nOut EXCEPT ![r] = IF Async /\ w.emit THEN @ + 1 ELSE @]
          /\ status' = [status EXCEPT ![r] = "running"]
          /\ steps' = Append(steps, [work |-> [q \in {r} |-> w], copies |-> copies(t),
                                     ran |-> FALSE, acc |-> [q \in {r} |-> 0]])
  BY DEF Admit
<1> DEFINE t == hits \o new
           w == Work(r, from, num, 0, t)
           work == [q \in {r} |-> w]
           cap == [q \in {r} |-> from + num]
           fresh == Range(new)
<1>4. /\ new \in Injection(1..n, FreeBlocks \ Range(hits)) /\ new \in [1..n -> Block]
      /\ fresh \in SUBSET FreeBlocks /\ fresh \cap Range(hits) = {}
      /\ \A i, k \in 1..n : new[i] = new[k] => i = k
  BY <1>3 DEF Picks, Injection, IsInjective, FreeBlocks, Range
<1>5. new \in Seq(Block) /\ Len(new) = n
  BY <1>2, <1>4
<1>6. /\ blocks' = [blocks EXCEPT ![r] = t]
      /\ lists' = EvictedLists(fresh)
      /\ hash' = Cached(EvictedHash(fresh), {r}, blocks', cap)
      /\ note' = [note EXCEPT ![r] = ScheduleNote(r, from)]
      /\ nComp' = [nComp EXCEPT ![r] = from + num]
      /\ nOut' = [nOut EXCEPT ![r] = IF Async /\ w.emit THEN @ + 1 ELSE @]
      /\ status' = [status EXCEPT ![r] = "running"]
      /\ steps' = Append(steps, [work |-> work, copies |-> copies(t),
                                     ran |-> FALSE, acc |-> [q \in {r} |-> 0]])
  BY <1>3
<1>7. /\ w.from = from /\ w.num = num /\ w.spec = 0 /\ w.table = t
  BY DEF Work
<1>20. /\ t \in Seq(Block) /\ L \in Nat /\ Len(t) = L + n
       /\ \A j \in 1..L : t[j] = hits[j]
       /\ \A i \in 1..n : t[L + i] = new[i]
  <2> HIDE DEF n, from, num, w, work, cap, fresh, copies, hits
  <2>1. hits \in Seq(Block) /\ new \in Seq(Block) /\ Len(new) = n
    BY <1>2, <1>5
  <2>2. /\ t \in Seq(Block) /\ Len(hits) \in Nat /\ Len(t) = Len(hits) + Len(new)
        /\ \A i \in 1..Len(hits) : t[i] = hits[i]
        /\ \A i \in 1..Len(new) : t[Len(hits) + i] = new[i]
    BY ONLY <2>1
  <2> HIDE DEF t
  <2> QED
    BY <2>1, <2>2
<1> HIDE DEF r, hits, from, num, n, t, w, fresh
<1>8. \A j \in 1..L : t[j] = hits[j] /\ t[j] \notin fresh
  <2>1. \A j \in 1..L : hits[j] \in Range(hits)
    BY <1>2 DEF Range, L
  <2> QED
    BY <1>4, <1>20, <2>1
<1>9. \A j \in (L + 1)..(L + n) : j - L \in 1..n /\ t[j] = new[j - L] /\ t[j] \in fresh
  <2> SUFFICES ASSUME NEW j \in (L + 1)..(L + n)
               PROVE  j - L \in 1..n /\ t[j] = new[j - L] /\ t[j] \in fresh
    OBVIOUS
  <2>1. j - L \in 1..n /\ j = L + (j - L)
    BY <1>2, <1>20
  <2>2. t[j] = new[j - L]
    BY <1>20, <2>1
  <2> QED
    BY <1>4, <2>1, <2>2 DEF fresh, Range
<1>10. \A j \in 1..Len(t) : j \in 1..L \/ j \in (L + 1)..(L + n)
  BY <1>2, <1>20
<1> HIDE DEF L
<1>11. blocks'[r] = t /\ \A q \in Req \ {r} : blocks'[q] = blocks[q] /\ nComp'[q] = nComp[q]
            /\ nOut'[q] = nOut[q] /\ status'[q] = status[q]
  BY <1>2, <1>6 DEF Types
<1>12. note'[r] = ScheduleNote(r, from) /\ note' = [q \in Req |-> note'[q]] /\ \A q \in Req \ {r} : note'[q] = note[q]
  BY <1>2, <1>6 DEF HashInv, Noted
<1>13. nComp'[r] = from + num /\ status'[r] = "running" /\ status[r] # "done"
       /\ nOut'[r] = IF Async /\ w.emit THEN nOut[r] + 1 ELSE nOut[r]
  <2>1. status[r] = "waiting"
    BY <1>1 DEF MatchFits, r
  <2> QED
    BY <1>2, <1>6, <2>1 DEF Types
<1>14. ASSUME NEW j \in 1..Len(t) PROVE NewPlace(r, j, from, fresh)
  <2>1. CASE j \in (L + 1)..(L + n)
    BY <1>9, <1>11, <2>1 DEF NewPlace
  <2>2. CASE j \in 1..L
    <3>1. t[j] = hits[j] /\ t[j] \notin fresh
      BY <1>8, <2>2
    <3>2. hash[hits[j]] = <<"full", Prefix(r, j * BlockSize)>>
      BY <1>1, <2>2 DEF HashInv, HitsCached, hits, r, L
    <3>3. j * BlockSize <= from
      <4>1. SubSize \in Nat /\ BlockSize \in Nat
        BY ConfigFacts DEF Types
      <4>2. j \in Int /\ L \in Int /\ j <= L
        BY <1>20, <2>2
      <4>3. j * BlockSize <= L * BlockSize /\ match.num * SubSize >= 0
            /\ L * BlockSize \in Int /\ match.num * SubSize \in Int /\ j * BlockSize \in Int
        BY <1>2, <4>1, <4>2, MulFacts
      <4> QED
        BY <4>3 DEF from
    <3> QED
      BY <1>11, <3>1, <3>2, <3>3 DEF NewPlace
  <2> QED
    BY <1>10, <2>1, <2>2
<1>15. ASSUME NEW j \in 1..Len(t), NEW l \in 1..Len(t), t[j] = t[l], t[j] \in fresh PROVE j = l
  <2>1. j \in (L + 1)..(L + n) /\ l \in (L + 1)..(L + n)
    BY <1>8, <1>10, <1>15
  <2>2. new[j - L] = new[l - L] /\ j - L \in 1..n /\ l - L \in 1..n
    BY <1>9, <1>15, <2>1
  <2>3. j - L = l - L
    BY <1>4, <2>2
  <2> QED
    BY <1>20, <2>1, <2>3
<1>16. Len(steps) < Depth
  BY <1>1 DEF HashInv, Flights
<1>17. MaxSpec \in Nat /\ 0 \in 0..MaxSpec
  BY ConfigFacts DEF Types
<1>18. Schedules({r}, work, fresh, cap, copies(t))
  <2>1. work[r] = w /\ DOMAIN work = {r} /\ cap[r] = from + num
    OBVIOUS
  <2> HIDE DEF work, cap, copies
  <2>2. steps' = Append(steps, [work |-> work, copies |-> copies(t), ran |-> FALSE,
                               acc |-> [q \in {r} |-> 0]])
    BY <1>6
  <2>3. /\ work[r].from \in Nat /\ work[r].num \in Int /\ work[r].spec \in 0..MaxSpec
        /\ work[r].num > work[r].spec /\ cap[r] <= work[r].from + work[r].num - work[r].spec
        /\ cap[r] \in Int /\ work[r].table = blocks'[r]
        /\ nComp'[r] = work[r].from + work[r].num
        /\ nOut'[r] = IF Async /\ work[r].emit THEN nOut[r] + 1 ELSE nOut[r]
        /\ note'[r] = ScheduleNote(r, work[r].from)
    BY <1>2, <1>7, <1>11, <1>12, <1>13, <1>17, <2>1
  <2>4. \A j \in 1..Len(blocks'[r]) : NewPlace(r, j, work[r].from, fresh)
    BY <1>7, <1>11, <1>14, <2>1
  <2>5. \A j \in 1..Len(blocks'[r]) : \A l \in 1..Len(blocks'[r]) :
          blocks'[r][j] = blocks'[r][l] /\ blocks'[r][j] \in fresh => j = l
    BY <1>11, <1>15
  <2> QED
    BY <1>1, <1>2, <1>4, <1>6, <1>11, <1>12, <1>13, <1>16, <2>1, <2>2, <2>3, <2>4, <2>5 DEF Schedules
<1>19. /\ \A j \in 1..L : t[j] = match.hits[j] /\ t[j] \notin Range(new)
       /\ \A j \in (L + 1)..(L + n) : t[j] \in Range(new)
  BY <1>8, <1>9 DEF fresh, hits
<1> HIDE DEF work, cap, copies
<1> QED
  BY <1>4, <1>11, <1>18, <1>19, <1>20 DEF r, hits, L, from, num, n, t, w, work, cap, copies, fresh

(* The running loop's step is one too: R, spec, num, growing and new are     *)
(* those of ScheduleRunning.                                                 *)
LEMMA RunningSchedules ==
    ASSUME RefInv, HashInv, ScheduleRunning, UNCHANGED config
    PROVE  \E R \in Batches : \E num \in [R -> Int] : \E spec \in [R -> 0..MaxSpec] :
             \E fresh \in SUBSET FreeBlocks :
           LET growing == {r \in R : Needed(r, num[r]) > 0}
               work == [r \in R |-> Work(r, nComp[r], num[r], spec[r], blocks'[r])]
               cap == [r \in R |-> Cacheable(r, nComp[r] + num[r])]
           IN  /\ Schedules(R, work, fresh, cap, {})
               /\ \A r \in R : /\ status[r] = "running"
                               /\ num[r] - spec[r] <= NumNew(r) /\ Needed(r, num[r]) <= 1
                               /\ blocks'[r] \in Seq(Block)
                               /\ Len(blocks'[r]) = Len(blocks[r]) + Needed(r, num[r])
                               /\ \A j \in 1..Len(blocks[r]) : blocks'[r][j] = blocks[r][j]
<1> USE DEF RefInv
<1>1. match = NoMatch /\ Len(steps) < Depth /\ UNCHANGED <<status, nTok, match, kv>>
  BY DEF ScheduleRunning, CanSchedule
<1>2. PICK R \in Batches : \E spec \in [R -> 0..MaxSpec] :
       LET num == [r \in R |-> IF is_prefill(r) THEN MinOf(NumNew(r), ChunkMax)
                               ELSE NumNew(r) + spec[r]]
           growing == {r \in R : Needed(r, num[r]) > 0}
       IN
       /\ \A r \in R : /\ is_prefill(r) => spec[r] = 0
                       /\ nComp[r] + num[r] <= Len(Tokens[r])
                       /\ Needed(r, num[r]) <= 1
       /\ \E new \in Injection(growing, FreeBlocks) :
          LET table == [r \in Req |-> IF r \in growing THEN Append(blocks[r], new[r])
                                      ELSE blocks[r]]
              work == [r \in R |-> Work(r, nComp[r], num[r], spec[r], table[r])]
          IN
          /\ blocks' = table
          /\ refCnt' = [b \in Block |-> IF b \in Range(new) THEN 1 ELSE refCnt[b]]
          /\ lists' = EvictedLists(Range(new))
          /\ hash' = Cached(EvictedHash(Range(new)), R, table,
                            [r \in R |-> Cacheable(r, nComp[r] + num[r])])
          /\ note' = [r \in Req |-> IF r \in R THEN ScheduleNote(r, nComp[r]) ELSE note[r]]
          /\ nComp' = [r \in Req |-> IF r \in R THEN nComp[r] + num[r] ELSE nComp[r]]
          /\ nOut' = [r \in Req |-> IF Async /\ r \in R /\ work[r].emit
                                    THEN nOut[r] + 1 ELSE nOut[r]]
          /\ steps' = Append(steps, [work |-> work, copies |-> {}, ran |-> FALSE,
                                     acc |-> [r \in R |-> 0]])
  BY DEF ScheduleRunning
<1>3. /\ R \in SUBSET Req /\ \A r \in R : status[r] = "running"
      /\ \A r \in R : is_prefill(r) \/ NumNew(r) > 0
  BY DEF Batches, Running, Schedulable
<1>4. PICK spec \in [R -> 0..MaxSpec] :
       LET num == [r \in R |-> IF is_prefill(r) THEN MinOf(NumNew(r), ChunkMax)
                               ELSE NumNew(r) + spec[r]]
           growing == {r \in R : Needed(r, num[r]) > 0}
       IN
       /\ \A r \in R : (is_prefill(r) => spec[r] = 0) /\ Needed(r, num[r]) <= 1
       /\ \E new \in Injection(growing, FreeBlocks) :
          LET table == [r \in Req |-> IF r \in growing THEN Append(blocks[r], new[r])
                                      ELSE blocks[r]]
              work == [r \in R |-> Work(r, nComp[r], num[r], spec[r], table[r])]
          IN
          /\ blocks' = table
          /\ lists' = EvictedLists(Range(new))
          /\ hash' = Cached(EvictedHash(Range(new)), R, table,
                            [r \in R |-> Cacheable(r, nComp[r] + num[r])])
          /\ note' = [r \in Req |-> IF r \in R THEN ScheduleNote(r, nComp[r]) ELSE note[r]]
          /\ nComp' = [r \in Req |-> IF r \in R THEN nComp[r] + num[r] ELSE nComp[r]]
          /\ nOut' = [r \in Req |-> IF Async /\ r \in R /\ work[r].emit
                                    THEN nOut[r] + 1 ELSE nOut[r]]
          /\ steps' = Append(steps, [work |-> work, copies |-> {}, ran |-> FALSE,
                                     acc |-> [r \in R |-> 0]])
  BY <1>2
<1> DEFINE num == [r \in R |-> IF is_prefill(r) THEN MinOf(NumNew(r), ChunkMax)
                               ELSE NumNew(r) + spec[r]]
           growing == {r \in R : Needed(r, num[r]) > 0}
           cap == [r \in R |-> Cacheable(r, nComp[r] + num[r])]
<1>5. PICK new \in Injection(growing, FreeBlocks) :
          LET table == [r \in Req |-> IF r \in growing THEN Append(blocks[r], new[r])
                                      ELSE blocks[r]]
              work == [r \in R |-> Work(r, nComp[r], num[r], spec[r], table[r])]
          IN
          /\ blocks' = table
          /\ lists' = EvictedLists(Range(new))
          /\ hash' = Cached(EvictedHash(Range(new)), R, table, cap)
          /\ note' = [r \in Req |-> IF r \in R THEN ScheduleNote(r, nComp[r]) ELSE note[r]]
          /\ nComp' = [r \in Req |-> IF r \in R THEN nComp[r] + num[r] ELSE nComp[r]]
          /\ nOut' = [r \in Req |-> IF Async /\ r \in R /\ work[r].emit
                                    THEN nOut[r] + 1 ELSE nOut[r]]
          /\ steps' = Append(steps, [work |-> work, copies |-> {}, ran |-> FALSE,
                                     acc |-> [r \in R |-> 0]])
  BY <1>4
<1> DEFINE table == [r \in Req |-> IF r \in growing THEN Append(blocks[r], new[r]) ELSE blocks[r]]
           work == [r \in R |-> Work(r, nComp[r], num[r], spec[r], table[r])]
           fresh == Range(new)
<1>6. /\ blocks' = table /\ lists' = EvictedLists(fresh)
      /\ hash' = Cached(EvictedHash(fresh), R, table, cap)
      /\ note' = [r \in Req |-> IF r \in R THEN ScheduleNote(r, nComp[r]) ELSE note[r]]
      /\ nComp' = [r \in Req |-> IF r \in R THEN nComp[r] + num[r] ELSE nComp[r]]
      /\ nOut' = [r \in Req |-> IF Async /\ r \in R /\ work[r].emit THEN nOut[r] + 1 ELSE nOut[r]]
      /\ steps' = Append(steps, [work |-> work, copies |-> {}, ran |-> FALSE,
                                     acc |-> [r \in R |-> 0]])
  BY <1>5
<1>7. \A r \in R : (is_prefill(r) => spec[r] = 0) /\ Needed(r, num[r]) <= 1
  BY <1>4
<1>8. ASSUME NEW r \in R
      PROVE  /\ num[r] \in Int /\ spec[r] \in 0..MaxSpec /\ num[r] > spec[r]
             /\ num[r] - spec[r] <= NumNew(r)
             /\ cap[r] \in Int /\ cap[r] <= nComp[r] + num[r] - spec[r]
  <2>1. nTok[r] \in Nat /\ nOut[r] \in Int /\ nComp[r] \in Int /\ ChunkMax \in Nat \ {0}
        /\ MaxSpec \in Nat /\ nOut[r] >= 0
    BY <1>3, ConfigFacts DEF Types, HashInv, Flights
  <2>2. spec[r] \in 0..MaxSpec
    BY <1>4
  <2>3. cap[r] = MinOf(nComp[r] + num[r], nTok[r])
    BY DEF Cacheable
  <2>4. CASE is_prefill(r)
    <3>1. spec[r] = 0 /\ num[r] = MinOf(NumNew(r), ChunkMax)
      BY <1>7, <2>4
    <3> HIDE DEF num, cap
    <3> QED
      BY <2>1, <2>2, <2>3, <2>4, <3>1 DEF NumNew, MinOf, is_prefill
  <2>5. CASE ~is_prefill(r)
    <3>1. NumNew(r) > 0 /\ num[r] = NumNew(r) + spec[r]
      BY <1>3, <2>5
    <3> HIDE DEF num, cap
    <3> QED
      BY <2>1, <2>2, <2>3, <3>1 DEF NumNew, MinOf
  <2> QED
    BY <2>4, <2>5
<1>9. /\ growing \in SUBSET R /\ new \in [growing -> FreeBlocks]
      /\ \A q, r \in growing : new[q] = new[r] => q = r
  <2> HIDE DEF growing
  <2>1. new \in [growing -> FreeBlocks] /\ \A q, r \in growing : new[q] = new[r] => q = r
    BY <1>5 DEF Injection, IsInjective
  <2> QED
    BY <2>1 DEF growing
<1>10. fresh \in SUBSET FreeBlocks /\ \A r \in growing : new[r] \in fresh
  BY <1>9 DEF Range
<1>11. ASSUME NEW r \in R PROVE r \in growing <=> Needed(r, num[r]) = 1
  <2>1. Needed(r, num[r]) \in Int /\ Needed(r, num[r]) <= 1
    <3>1. BlockSize \in Nat \ {0} /\ nComp[r] \in Int /\ num[r] \in Int /\ Len(blocks[r]) \in Nat
      <4>1. blocks[r] \in Seq(Block)
        BY <1>3 DEF Types
      <4> QED
        BY <1>3, <1>8, <4>1, ConfigFacts DEF Types
    <3> HIDE DEF num
    <3>2. nComp[r] + num[r] + BlockSize - 1 \in Int
      BY <3>1
    <3>3. CeilDiv(nComp[r] + num[r], BlockSize) \in Int
      BY <3>1, <3>2, DivFacts DEF CeilDiv
    <3>4. Needed(r, num[r]) \in Int
      BY <3>1, <3>3 DEF Needed
    <3> QED
      BY <1>7, <3>4 DEF num
  <2> HIDE DEF num
  <2> QED
    BY <2>1 DEF growing
<1>12. ASSUME NEW r \in R, r \notin growing PROVE Needed(r, num[r]) = 0
  <2>1. ~(Needed(r, num[r]) > 0)
    BY <1>12
  <2> HIDE DEF num, growing
  <2> QED
    BY <1>11, <1>12, <2>1 DEF Needed
<1> HIDE DEF num, growing, cap, work, fresh
<1>13. ASSUME NEW r \in Req
       PROVE  /\ blocks'[r] \in Seq(Block) /\ Len(blocks[r]) \in Nat
              /\ \A j \in 1..Len(blocks[r]) : blocks'[r][j] = blocks[r][j]
              /\ r \in growing => /\ Len(blocks'[r]) = Len(blocks[r]) + 1
                                  /\ blocks'[r][Len(blocks[r]) + 1] = new[r]
              /\ r \notin growing => blocks'[r] = blocks[r]
  <2>1. blocks[r] \in Seq(Block) /\ Len(blocks[r]) \in Nat
    BY DEF Types
  <2>2. CASE r \in growing
    <3>1. blocks'[r] = Append(blocks[r], new[r])
      BY <1>6, <2>2
    <3>2. new[r] \in Block
      BY <1>9, <2>2 DEF FreeBlocks
    <3> QED
      BY <2>1, <2>2, <3>1, <3>2, AppendFacts
  <2>3. CASE r \notin growing
    <3>1. blocks'[r] = blocks[r]
      BY <1>6, <2>3
    <3> QED
      BY <2>1, <2>3, <3>1
  <2> QED
    BY <2>2, <2>3
<1>14. ASSUME NEW r \in Req, NEW j \in 1..Len(blocks[r]) PROVE blocks[r][j] \notin fresh
  BY <1>10, <1>14, FreeFacts
<1>15. ASSUME NEW r \in R, NEW j \in 1..Len(blocks'[r])
       PROVE  /\ NewPlace(r, j, nComp[r], fresh)
              /\ blocks'[r][j] \in fresh => r \in growing /\ blocks'[r][j] = new[r] /\ j = Len(blocks[r]) + 1
  <2>0. r \in Req
    BY <1>3
  <2>1. CASE j \in 1..Len(blocks[r])
    <3>1. blocks'[r][j] = blocks[r][j] /\ blocks'[r][j] \notin fresh
      BY <1>13, <1>14, <2>0, <2>1
    <3> QED
      BY <2>1, <3>1 DEF NewPlace
  <2>2. CASE j \notin 1..Len(blocks[r])
    <3>1. r \in growing /\ j = Len(blocks[r]) + 1
      BY <1>13, <2>0, <2>2
    <3>2. blocks'[r][j] = new[r] /\ new[r] \in fresh
      BY <1>10, <1>13, <2>0, <3>1
    <3> QED
      BY <3>1, <3>2 DEF NewPlace
  <2> QED
    BY <2>1, <2>2
<1>16. \A r, q \in R : \A j \in 1..Len(blocks'[r]) : \A l \in 1..Len(blocks'[q]) :
          blocks'[r][j] = blocks'[q][l] /\ blocks'[r][j] \in fresh => r = q /\ j = l
  <2> SUFFICES ASSUME NEW r \in R, NEW q \in R, NEW j \in 1..Len(blocks'[r]), NEW l \in 1..Len(blocks'[q]),
                      blocks'[r][j] = blocks'[q][l], blocks'[r][j] \in fresh
               PROVE  r = q /\ j = l
    OBVIOUS
  <2>1. r \in growing /\ blocks'[r][j] = new[r] /\ j = Len(blocks[r]) + 1
    BY <1>15
  <2>2. q \in growing /\ blocks'[q][l] = new[q] /\ l = Len(blocks[q]) + 1
    BY <1>15
  <2>3. r = q
    BY <1>9, <2>1, <2>2
  <2> QED
    BY <2>1, <2>2, <2>3
<1>17. \A r \in R : /\ work[r].from = nComp[r] /\ work[r].num = num[r] /\ work[r].spec = spec[r]
                    /\ work[r].table = blocks'[r]
  BY <1>3, <1>6 DEF work, Work
<1>18. Schedules(R, work, fresh, cap, {})
  <2>1. ASSUME NEW r \in R
        PROVE  /\ status[r] # "done" /\ status'[r] = "running"
               /\ work[r].from \in Nat /\ work[r].num \in Int /\ work[r].spec \in 0..MaxSpec
               /\ work[r].num > work[r].spec /\ cap[r] <= work[r].from + work[r].num - work[r].spec
               /\ cap[r] \in Int /\ work[r].table = blocks'[r]
               /\ nComp'[r] = work[r].from + work[r].num
               /\ nOut'[r] = IF Async /\ work[r].emit THEN nOut[r] + 1 ELSE nOut[r]
               /\ note'[r] = ScheduleNote(r, work[r].from)
               /\ \A j \in 1..Len(blocks'[r]) : NewPlace(r, j, work[r].from, fresh)
    <3>1. r \in Req /\ nComp[r] \in Nat
      BY <1>3 DEF Types, HashInv, Flights
    <3>2. nComp'[r] = nComp[r] + num[r] /\ note'[r] = ScheduleNote(r, nComp[r])
          /\ nOut'[r] = IF Async /\ work[r].emit THEN nOut[r] + 1 ELSE nOut[r]
      BY <1>6, <3>1
    <3> QED
      BY <1>1, <1>3, <1>8, <1>15, <1>17, <3>1, <3>2
  <2>2. ASSUME NEW q \in Req \ R
        PROVE  /\ blocks'[q] = blocks[q] /\ nComp'[q] = nComp[q]
               /\ nOut'[q] = nOut[q] /\ note'[q] = note[q] /\ status'[q] = status[q]
    BY <1>1, <1>6, <1>9, <1>13
  <2>3. DOMAIN work = R /\ note' = [q \in Req |-> note'[q]] /\ hash' = Cached(EvictedHash(fresh), R, blocks', cap)
    BY <1>6 DEF work
  <2> QED
    BY <1>1, <1>3, <1>6, <1>10, <1>16, <2>1, <2>2, <2>3 DEF Schedules
<1>19. ASSUME NEW r \in R
       PROVE  /\ status[r] = "running"
              /\ num[r] - spec[r] <= NumNew(r) /\ Needed(r, num[r]) <= 1
              /\ blocks'[r] \in Seq(Block)
              /\ Len(blocks'[r]) = Len(blocks[r]) + Needed(r, num[r])
              /\ \A j \in 1..Len(blocks[r]) : blocks'[r][j] = blocks[r][j]
  <2>1. r \in Req /\ status[r] = "running"
    BY <1>3
  <2>2. Len(blocks'[r]) = Len(blocks[r]) + Needed(r, num[r])
    <3>1. CASE r \in growing
      BY <1>11, <1>13, <2>1, <3>1
    <3>2. CASE r \notin growing
      BY <1>12, <1>13, <2>1, <3>2
    <3> QED
      BY <3>1, <3>2
  <2> QED
    BY <1>7, <1>8, <1>13, <2>1, <2>2 DEF num
<1>20. num \in [R -> Int]
  <2>1. num = [r \in R |-> num[r]]
    BY DEF num
  <2> QED
    BY <1>8, <2>1
<1>21. work = [r \in R |-> Work(r, nComp[r], num[r], spec[r], blocks'[r])]
  <2>1. table = blocks'
    BY <1>6
  <2> HIDE DEF table
  <2>2. work = [r \in R |-> Work(r, nComp[r], num[r], spec[r], table[r])]
    BY DEF work
  <2> QED
    BY <2>1, <2>2
<1>22. cap = [r \in R |-> Cacheable(r, nComp[r] + num[r])]
  BY DEF cap
<1>23. Schedules(R, [r \in R |-> Work(r, nComp[r], num[r], spec[r], blocks'[r])], fresh,
                 [r \in R |-> Cacheable(r, nComp[r] + num[r])], {})
  BY <1>18, <1>21, <1>22
<1> HIDE DEF table
<1> QED
  BY <1>10, <1>19, <1>20, <1>23, ZenonT(40)

(* The tables after a schedule: a fresh block was in none, a block that is   *)
(* still or again without a hash is in one place.                            *)
LEMMA SchedulesPlaces ==
    ASSUME RefInv, RefInv', HashInv, NEW R, NEW work, NEW fresh, NEW cap, NEW copies,
           Schedules(R, work, fresh, cap, copies)
    PROVE  /\ \A r \in Req : \A j \in 1..Len(blocks[r]) : blocks[r][j] \notin fresh
           /\ \A r \in Req : \A j \in 1..Len(blocks'[r]) :
                 blocks'[r][j] \in Block /\ (blocks'[r][j] \in fresh => r \in R)
           /\ \A r, q \in Req : \A j \in 1..Len(blocks'[r]) : \A l \in 1..Len(blocks'[q]) :
                 blocks'[r][j] = blocks'[q][l] /\ EvictedHash(fresh)[blocks'[r][j]] = NoHash
                     => r = q /\ j = l
<1>1. R \in SUBSET Req /\ fresh \in SUBSET FreeBlocks
  BY DEF Schedules
<1>3. ASSUME NEW r \in R, NEW j \in 1..Len(blocks'[r]) PROVE NewPlace(r, j, work[r].from, fresh)
  BY DEF Schedules
<1>4. ASSUME NEW q \in Req \ R PROVE blocks'[q] = blocks[q]
  BY DEF Schedules
<1>5. \A r, q \in R : \A j \in 1..Len(blocks'[r]) : \A l \in 1..Len(blocks'[q]) :
          blocks'[r][j] = blocks'[q][l] /\ blocks'[r][j] \in fresh => r = q /\ j = l
  BY DEF Schedules
<1> DEFINE E == EvictedHash(fresh)
<1>12. ASSUME NEW b \in Block PROVE E[b] = IF b \in fresh THEN NoHash ELSE hash[b]
  BY DEF EvictedHash
<1>13. ASSUME NEW r \in Req, NEW j \in 1..Len(blocks[r])
       PROVE  blocks[r][j] \notin fresh
  BY <1>1, <1>13, FreeFacts
<1>14. ASSUME NEW r \in Req, NEW j \in 1..Len(blocks'[r])
       PROVE  /\ blocks'[r][j] \in Block
              /\ blocks'[r][j] \in fresh => r \in R
              /\ blocks'[r][j] \notin fresh /\ hash[blocks'[r][j]] = NoHash =>
                    j \in 1..Len(blocks[r]) /\ blocks'[r][j] = blocks[r][j]
  <2>1. blocks'[r] \in Seq(Block)
    BY DEF RefInv, Types
  <2>2. blocks'[r][j] \in Block
    BY <2>1
  <2>3. CASE r \in R
    BY <1>3, <2>2, <2>3, FullIsHash DEF NewPlace
  <2>4. CASE r \notin R
    BY <1>4, <1>13, <2>2, <2>4
  <2> QED
    BY <2>3, <2>4
<1> HIDE DEF E
<1>15. ASSUME NEW r \in Req, NEW q \in Req, NEW j \in 1..Len(blocks'[r]), NEW l \in 1..Len(blocks'[q]),
              blocks'[r][j] = blocks'[q][l], E[blocks'[r][j]] = NoHash
       PROVE  r = q /\ j = l
  <2>1. CASE blocks'[r][j] \in fresh
    BY <1>5, <1>14, <1>15, <2>1
  <2>2. CASE blocks'[r][j] \notin fresh
    <3>1. hash[blocks'[r][j]] = NoHash
      BY <1>12, <1>14, <1>15, <2>2
    <3>2. /\ j \in 1..Len(blocks[r]) /\ blocks'[r][j] = blocks[r][j]
          /\ l \in 1..Len(blocks[q]) /\ blocks'[q][l] = blocks[q][l]
      BY <1>14, <1>15, <2>2, <3>1
    <3> QED
      BY <1>15, <3>1, <3>2, ZenonT(40) DEF HashInv, Sole
  <2> QED
    BY <2>1, <2>2
<1> QED
  BY <1>13, <1>14, <1>15 DEF E

(* The schedule side keeps the hashes' invariant: only a block of the step,  *)

(* without a hash and hence in one place, gets one, and that place is        *)
(* computed when the step is.                                                *)
LEMMA SchedulesHashes ==
    ASSUME RefInv, RefInv', HashInv, UNCHANGED config, NEW R, NEW work, NEW fresh, NEW cap, NEW copies,
           Schedules(R, work, fresh, cap, copies)
    PROVE  HashInv'
<1> DEFINE st == [work |-> work, copies |-> copies, ran |-> FALSE, acc |-> [r \in R |-> 0]]
           n == Len(steps)
<1>1. /\ R \in SUBSET Req /\ DOMAIN work = R /\ fresh \in SUBSET FreeBlocks /\ n < Depth
      /\ match' = NoMatch /\ fresh \in SUBSET Block /\ steps' = Append(steps, st)
      /\ hash' = Cached(EvictedHash(fresh), R, blocks', cap)
  BY DEF Schedules, FreeBlocks
<1>2. ASSUME NEW r \in R
      PROVE  /\ status[r] # "done"
             /\ work[r].from \in Nat /\ work[r].num \in Int /\ work[r].spec \in 0..MaxSpec
             /\ work[r].num > work[r].spec /\ cap[r] <= work[r].from + work[r].num - work[r].spec
             /\ cap[r] \in Int /\ nComp'[r] = work[r].from + work[r].num
             /\ nOut'[r] = IF Async /\ work[r].emit THEN nOut[r] + 1 ELSE nOut[r]
             /\ note'[r] = ScheduleNote(r, work[r].from)
  BY DEF Schedules
<1>3. ASSUME NEW r \in R, NEW j \in 1..Len(blocks'[r]) PROVE NewPlace(r, j, work[r].from, fresh)
  BY DEF Schedules
<1>4. ASSUME NEW q \in Req \ R
      PROVE  /\ blocks'[q] = blocks[q] /\ nComp'[q] = nComp[q]
             /\ nOut'[q] = nOut[q] /\ note'[q] = note[q] /\ status'[q] = status[q]
  BY DEF Schedules
<1>5. \A r, q \in R : \A j \in 1..Len(blocks'[r]) : \A l \in 1..Len(blocks'[q]) :
          blocks'[r][j] = blocks'[q][l] /\ blocks'[r][j] \in fresh => r = q /\ j = l
  BY DEF Schedules
<1>6. /\ steps \in Seq(Step) /\ steps' \in Seq(Step) /\ n \in Nat /\ Len(steps') = n + 1
      /\ (\A i \in 1..n : steps'[i] = steps[i]) /\ steps'[n + 1] = st
      /\ st.work = work /\ st.acc = [r \in R |-> 0]
  <2> DEFINE S == {steps[i] : i \in 1..n} \cup {st}
  <2>1. steps \in Seq(Step) /\ steps' \in Seq(Step) /\ n \in Nat
    BY DEF RefInv, Types
  <2>2. steps \in Seq(S) /\ st \in S
    BY <2>1
  <2> HIDE DEF S
  <2>3. st.work = work /\ st.acc = [r \in R |-> 0]
    OBVIOUS
  <2> HIDE DEF st, n
  <2> QED
    BY <1>1, <2>1, <2>2, <2>3, AppendFacts DEF n
<1> HIDE DEF st, n
<1>7. /\ Depth \in {1, 2} /\ MaxSpec \in Nat /\ (n > 0 => MaxSpec = 0 /\ n = 1 /\ Depth = 2)
      /\ (Async <=> Depth = 2) /\ (Async' <=> Async) /\ MaxSpec' = MaxSpec /\ Depth' = Depth
      /\ BlockSize \in Nat /\ BlockSize' = BlockSize
  BY <1>1, <1>6, DepthFacts, ConfigSame, ConfigFacts DEF RefInv, Types
<1>20. note' = [q \in Req |-> note'[q]]
  BY DEF Schedules
<1>21. ASSUME NEW r \in R PROVE work[r].spec \in Nat /\ work[r].from + work[r].num - work[r].spec \in Int
  BY <1>2, <1>7
<1>8. ASSUME NEW r \in Req PROVE nComp[r] \in Nat /\ nOut[r] \in Nat
  BY DEF RefInv, Types, HashInv, Flights
<1>9. ASSUME NEW i \in 1..n, NEW r \in DOMAIN steps[i].work
      PROVE  steps[i].work[r].spec = 0 /\ steps[i].acc[r] = 0
  BY <1>6, <1>7, <1>9 DEF HashInv, Flights, n
<1>10. Noted'
  <2>1. ASSUME NEW r \in R PROVE note'[r] \in Int
    <3>0. work[r].from \in Int /\ BlockSize \in Nat \ {0}
      BY <1>2, ConfigFacts DEF RefInv, Types
    <3>1. work[r].from \div BlockSize \in Int
      BY <3>0, DivFacts
    <3> QED
      BY <1>1, <1>2, <3>1 DEF ScheduleNote, HashInv, Noted
  <2>2. \A r \in Req : note'[r] \in Int
    BY <1>4, <2>1 DEF HashInv, Noted
  <2> QED
    BY <1>20, <2>2 DEF Noted
<1>11. Flights'
  <2>1. ASSUME NEW i \in 1..Len(steps'), NEW r \in DOMAIN steps'[i].work
        PROVE  /\ steps'[i].work[r].spec \in 0..MaxSpec
               /\ steps'[i].acc[r] \in 0..steps'[i].work[r].spec
               /\ status'[r] # "done" => nComp'[r] >= steps'[i].work[r].spec
    <3>1. CASE i = n + 1
      <4>1. r \in R /\ steps'[i].work[r] = work[r] /\ steps'[i].acc[r] = 0
        BY <1>1, <1>6, <3>1
      <4> QED
        BY <1>2, <1>7, <4>1
    <3>2. CASE i \in 1..n
      <4>1. steps'[i] = steps[i] /\ steps[i].work[r].spec = 0 /\ steps[i].acc[r] = 0
        BY <1>6, <1>9, <3>2
      <4>2. r \in Req
        BY <1>6, <3>2, <4>1 DEF Step
      <4>3. nComp'[r] >= 0
        BY <1>2, <1>4, <1>7, <1>8, <4>2
      <4> QED
        BY <1>7, <4>1, <4>3
    <3> QED
      BY <1>6, <3>1, <3>2
  <2>2. ASSUME NEW r \in Req
        PROVE  /\ nOut'[r] >= 0 /\ nComp'[r] >= 0
               /\ Async /\ status'[r] # "done" => nOut'[r] >= Emits(r, 1)' + Emits(r, 2)'
    <3>1. nComp'[r] >= 0
      BY <1>2, <1>4, <1>7, <1>8
    <3>2. nOut'[r] >= 0
      BY <1>2, <1>4, <1>8
    <3>3. ASSUME Async, status'[r] # "done" PROVE nOut'[r] >= Emits(r, 1)' + Emits(r, 2)'
      <4>1. status[r] # "done"
        BY <1>2, <1>4, <3>3
      <4>2. nOut[r] >= Emits(r, 1) + Emits(r, 2)
        BY <3>3, <4>1 DEF HashInv, Flights
      <4>3. n = 0 \/ n = 1
        BY <1>6, <1>7
      <4> DEFINE e == IF r \in R /\ work[r].emit THEN 1 ELSE 0
      <4>4. nOut'[r] = nOut[r] + e
        BY <1>2, <1>4, <1>8, <3>3
      <4>5. ASSUME n = 0 PROVE Emits(r, 1)' = e /\ Emits(r, 2)' = 0
        <5>1. Len(steps') = 1 /\ steps'[1] = st
          BY <1>6, <4>5
        <5> QED
          BY <1>1, <1>6, <5>1 DEF Emits
      <4>6. ASSUME n = 1 PROVE Emits(r, 1)' = Emits(r, 1) /\ Emits(r, 2)' = e /\ Emits(r, 2) = 0
        <5>1. Len(steps') = 2 /\ steps'[1] = steps[1] /\ steps'[2] = st /\ Len(steps) = 1
          BY <1>6, <4>6 DEF n
        <5> QED
          BY <1>1, <1>6, <5>1 DEF Emits
      <4>7. Emits(r, 1) \in {0, 1} /\ Emits(r, 2) \in {0, 1} /\ e \in {0, 1}
        BY DEF Emits
      <4> HIDE DEF e
      <4> QED
        BY <1>8, <4>2, <4>3, <4>4, <4>5, <4>6, <4>7
    <3> QED
      BY <3>1, <3>2, <3>3
  <2>3. Len(steps') <= Depth
    BY <1>1, <1>6, <1>7
  <2> QED
    BY <1>1, <1>7, <2>1, <2>2, <2>3 DEF Flights
<1> DEFINE E == EvictedHash(fresh)
<1>12. ASSUME NEW b \in Block PROVE E[b] = IF b \in fresh THEN NoHash ELSE hash[b]
  BY DEF EvictedHash
<1>14. ASSUME NEW r \in Req, NEW j \in 1..Len(blocks'[r]) PROVE blocks'[r][j] \in Block
  BY SchedulesPlaces
<1> HIDE DEF E
<1>15. ASSUME NEW r \in Req, NEW q \in Req, NEW j \in 1..Len(blocks'[r]), NEW l \in 1..Len(blocks'[q]),
              blocks'[r][j] = blocks'[q][l], E[blocks'[r][j]] = NoHash
       PROVE  r = q /\ j = l
  BY <1>15, SchedulesPlaces DEF E
<1>16. ASSUME NEW b \in Block
       PROVE  /\ E[b] # NoHash => hash'[b] = E[b]
              /\ E[b] = NoHash => \/ hash'[b] = NoHash
                                  \/ \E r \in R : \E j \in 1..Len(blocks'[r]) :
                                       blocks'[r][j] = b /\ j * BlockSize <= cap[r]
  BY <1>1, CachedIs DEF E
<1>17. Sole'
  <2> SUFFICES ASSUME NEW r \in Req, NEW q \in Req, NEW j \in 1..Len(blocks'[r]), NEW l \in 1..Len(blocks'[q]),
                      blocks'[r][j] = blocks'[q][l], hash'[blocks'[r][j]] = NoHash
               PROVE  r = q /\ j = l
    BY DEF Sole
  <2>1. E[blocks'[r][j]] = NoHash
    BY <1>14, <1>16
  <2> QED
    BY <1>15, <2>1
<1>18. HashedIsComputed'
  <2> SUFFICES ASSUME NEW r \in Req, NEW j \in 1..Len(blocks'[r]), hash'[blocks'[r][j]] # NoHash
               PROVE  /\ j * BlockSize <= nComp'[r]
                      /\ \A i \in 1..Len(steps') : r \in DOMAIN steps'[i].work =>
                            j * BlockSize <= nComp'[r] - steps'[i].work[r].spec
    BY <1>7 DEF HashedIsComputed
  <2> DEFINE b == blocks'[r][j]
  <2>0. b \in Block /\ j \in Int /\ j * BlockSize \in Int
    <3>1. b \in Block /\ j \in Int
      BY <1>14
    <3> QED
      BY <1>7, <3>1, MulFacts
  <2>1. ASSUME r \in R, j * BlockSize <= work[r].from + work[r].num - work[r].spec
        PROVE  /\ j * BlockSize <= nComp'[r]
               /\ \A i \in 1..Len(steps') : r \in DOMAIN steps'[i].work =>
                     j * BlockSize <= nComp'[r] - steps'[i].work[r].spec
    <3>1. j * BlockSize <= nComp'[r] /\ nComp'[r] \in Int
      BY <1>2, <1>7, <2>0, <2>1, SMTT(40)
    <3>2. ASSUME NEW i \in 1..n, r \in DOMAIN steps'[i].work
          PROVE  j * BlockSize <= nComp'[r] - steps'[i].work[r].spec
      BY <1>6, <1>9, <2>0, <3>1, <3>2
    <3>3. j * BlockSize <= nComp'[r] - steps'[n + 1].work[r].spec
      BY <1>2, <1>6, <2>1
    <3>4. \A i \in 1..Len(steps') : i \in 1..n \/ i = n + 1
      BY <1>6
    <3> QED
      BY <3>1, <3>2, <3>3, <3>4
  <2>2. CASE E[b] = NoHash
    <3>1. PICK q \in R : \E l \in 1..Len(blocks'[q]) : blocks'[q][l] = b /\ l * BlockSize <= cap[q]
      BY <1>16, <2>0, <2>2
    <3>2. q = r /\ j * BlockSize <= cap[r]
      BY <1>1, <1>15, <2>2, <3>1
    <3>3. j * BlockSize <= work[r].from + work[r].num - work[r].spec
      <4>1. cap[r] \in Int /\ cap[r] <= work[r].from + work[r].num - work[r].spec
            /\ work[r].from + work[r].num - work[r].spec \in Int
        BY <1>2, <1>21, <3>1, <3>2
      <4> QED
        BY <2>0, <3>2, <4>1
    <3> QED
      BY <2>1, <3>1, <3>2, <3>3
  <2>3. CASE E[b] # NoHash
    <3>1. b \notin fresh /\ hash[b] # NoHash
      BY <1>12, <2>0, <2>3
    <3>2. CASE r \in R
      <4>1. j * BlockSize <= work[r].from
        <5>1. CASE j \in 1..Len(blocks[r]) /\ b = blocks[r][j] /\ work[r].from = nComp[r]
          BY <3>1, <5>1 DEF HashInv, HashedIsComputed
        <5>2. CASE j * BlockSize <= work[r].from
          BY <5>2
        <5> QED
          BY <1>3, <3>1, <3>2, <5>1, <5>2 DEF NewPlace
      <4>2. j * BlockSize <= work[r].from + work[r].num - work[r].spec
        BY <1>2, <1>21, <2>0, <3>2, <4>1
      <4> QED
        BY <2>1, <3>2, <4>2
    <3>3. CASE r \notin R
      <4>1. blocks'[r] = blocks[r] /\ nComp'[r] = nComp[r]
        BY <1>4, <3>3
      <4>2. j * BlockSize <= nComp[r]
        BY <3>1, <4>1 DEF HashInv, HashedIsComputed
      <4>3. ASSUME NEW i \in 1..Len(steps'), r \in DOMAIN steps'[i].work
            PROVE  steps'[i].work[r].spec = 0
        <5>1. i # n + 1
          BY <1>1, <1>6, <3>3, <4>3
        <5>2. i \in 1..n
          BY <1>6, <5>1
        <5> QED
          BY <1>6, <1>9, <4>3, <5>2
      <4> QED
        BY <1>8, <2>0, <4>1, <4>2, <4>3
    <3> QED
      BY <3>2, <3>3
  <2> QED
    BY <2>2, <2>3
<1>19. HitsCached'
  BY <1>1 DEF HitsCached
<1> QED
  BY <1>10, <1>11, <1>17, <1>18, <1>19 DEF HashInv
(* What Sole and HashedIsComputed say of a hash table hs and of counts nc.   *)
SoleIn(hs) ==
    \A r, q \in Req : \A j \in 1..Len(blocks[r]) : \A l \in 1..Len(blocks[q]) :
        blocks[r][j] = blocks[q][l] /\ hs[blocks[r][j]] = NoHash => r = q /\ j = l
WithinIn(hs, nc) ==
    \A r \in Req : \A j \in 1..Len(blocks[r]) :
        hs[blocks[r][j]] # NoHash => j * BlockSize <= nc[r]

(* The partial block of a request is open and in no other place.             *)
LEMMA PartialIsOpen ==
    ASSUME Types, NEW hs, NEW r \in Req, NEW nc \in Nat, NEW nt,
           \A j \in 1..Len(blocks[r]) : hs[blocks[r][j]] # NoHash => j * BlockSize <= nc,
           NEW t \in PartialTargets(r, nc, nt)
    PROVE  LET j == nc \div BlockSize + 1 IN
           /\ j \in 1..Len(blocks[r]) /\ t[1] = blocks[r][j] /\ t[1] \in Block /\ hs[t[1]] = NoHash
<1> DEFINE j == nc \div BlockSize + 1
<1>1. /\ BlockSize \in Nat \ {0} /\ config \in Configs /\ nc \in Int
      /\ blocks[r] \in Seq(Block) /\ Len(blocks[r]) \in Nat
  BY ConfigFacts DEF Types
<1>2. j \in Int /\ j * BlockSize > nc
  BY <1>1, OpenPlace
<1>3. j >= 1
  <2>1. 0 \in Int /\ 0 * BlockSize <= nc
    BY <1>1
  <2>2. 0 <= nc \div BlockSize /\ nc \div BlockSize \in Int
    BY <1>1, <2>1, DivBounds, DivFacts
  <2> QED
    BY <2>2
<1>4. j <= Len(blocks[r]) /\ t[1] = blocks[r][j]
  BY PartialPlace
<1> HIDE DEF j
<1>5. j \in 1..Len(blocks[r])
  BY <1>1, <1>2, <1>3, <1>4
<1>6. j * BlockSize \in Int
  BY <1>1, <1>2, MulFacts
<1>7. hs[t[1]] = NoHash
  BY <1>1, <1>2, <1>4, <1>5, <1>6
<1>8. t[1] \in Block
  BY <1>1, <1>4, <1>5
<1> QED
  BY <1>4, <1>5, <1>7, <1>8 DEF j

(* free() marks no block that stays in a table.                              *)
LEMMA MarkedTables ==
    ASSUME Types, NEW hs, NEW nc, \A r \in Req : nc[r] \in Nat, NEW nt, NEW E \in SUBSET Req,
           SoleIn(hs), WithinIn(hs, nc), NEW q \in Req \ E, NEW l \in 1..Len(blocks[q])
    PROVE  Marked(hs, E, nc, nt)[blocks[q][l]] = hs[blocks[q][l]]
<1> DEFINE b == blocks[q][l]
<1>1. b \in Block
  <2>1. blocks[q] \in Seq(Block)
    BY DEF Types
  <2> QED
    BY <2>1
<1>2. ASSUME NEW r \in E, NEW t \in PartialTargets(r, nc[r], nt[r]), t[1] = b PROVE FALSE
  <2>1. /\ r \in Req /\ nc[r] \in Nat
        /\ \A j \in 1..Len(blocks[r]) : hs[blocks[r][j]] # NoHash => j * BlockSize <= nc[r]
    BY DEF WithinIn
  <2>2. PICK j \in 1..Len(blocks[r]) : t[1] = blocks[r][j] /\ hs[t[1]] = NoHash
    BY <2>1, PartialIsOpen
  <2> QED
    BY <1>2, <2>1, <2>2, ZenonT(40) DEF SoleIn
<1> HIDE DEF b
<1>3. Marked(hs, E, nc, nt)[b] = hs[b]
  BY <1>1, <1>2, MarkedIs
<1> QED
  BY <1>3 DEF b

(* A freed table leaves the hashes of the other tables alone.                *)
LEMMA FreesHashes ==
    ASSUME RefInv, UNCHANGED config, NEW hs, NEW nc, \A r \in Req : nc[r] \in Nat, NEW nt,
           NEW E \in SUBSET Req, SoleIn(hs), WithinIn(hs, nc),
           hash' = Marked(hs, E, nc, nt),
           \A q \in Req : blocks'[q] = IF q \in E THEN <<>> ELSE blocks[q]
    PROVE  /\ Sole'
           /\ \A r \in Req : \A j \in 1..Len(blocks'[r]) :
                 hash'[blocks'[r][j]] # NoHash => r \notin E /\ j * BlockSize <= nc[r]
<1>1. ASSUME NEW r \in Req, NEW j \in 1..Len(blocks'[r])
      PROVE  /\ r \in Req \ E /\ j \in 1..Len(blocks[r]) /\ blocks'[r] = blocks[r]
             /\ hash'[blocks'[r][j]] = hs[blocks[r][j]]
  <2>1. r \notin E
    BY <1>1
  <2>2. blocks'[r] = blocks[r]
    BY <2>1
  <2>3. Marked(hs, E, nc, nt)[blocks[r][j]] = hs[blocks[r][j]]
    BY <2>1, <2>2, MarkedTables DEF RefInv
  <2> QED
    BY <2>1, <2>2, <2>3
<1>2. Sole'
  <2> SUFFICES ASSUME NEW r \in Req, NEW q \in Req, NEW j \in 1..Len(blocks'[r]), NEW l \in 1..Len(blocks'[q]),
                      blocks'[r][j] = blocks'[q][l], hash'[blocks'[r][j]] = NoHash
               PROVE  r = q /\ j = l
    BY DEF Sole
  <2> QED
    BY <1>1 DEF SoleIn
<1>3. ASSUME NEW r \in Req, NEW j \in 1..Len(blocks'[r]), hash'[blocks'[r][j]] # NoHash
      PROVE  r \notin E /\ j * BlockSize <= nc[r]
  BY <1>1, <1>3 DEF WithinIn
<1> QED
  BY <1>2, <1>3

(* Where the hashes, the tables and the steps stay, so does the invariant.   *)
LEMMA HashSame ==
    ASSUME HashInv, UNCHANGED <<config, status, nComp, nOut, blocks, hash, note, steps>>,
           match' # NoMatch => Len(steps) < Depth, HitsCached'
    PROVE  HashInv'
<1>1. Depth' = Depth /\ MaxSpec' = MaxSpec /\ BlockSize' = BlockSize /\ Async' = Async
  BY ConfigSame
<1>2. \A r : Emits(r, 1)' = Emits(r, 1) /\ Emits(r, 2)' = Emits(r, 2)
  BY DEF Emits
<1>3. Flights'
  BY <1>1, <1>2 DEF HashInv, Flights
<1> QED
  BY <1>1, <1>3 DEF HashInv, Noted, Sole, HashedIsComputed

(* The lookup: the hits it takes are cached.                                 *)
LEMMA TryMatchHashes ==
    ASSUME RefInv, HashInv, UNCHANGED config, NEW r \in Req, TryMatch(r)
    PROVE  HashInv'
<1> DEFINE k == NumHits(r)
<1>1. CanSchedule /\ UNCHANGED <<status, nTok, nComp, nOut, blocks, hash, note, steps>>
  BY DEF TryMatch, reqVars
<1>2. PICK hits \in {f \in [1..k -> Block] : \A j \in 1..k : f[j] \in HitBlocks(r, j)} :
         match'.req = r /\ match'.hits = hits
  <2>1. PICK hits \in {f \in [1..k -> Block] : \A j \in 1..k : f[j] \in HitBlocks(r, j)} :
         \/ match' = [req |-> r, hits |-> hits, src |-> NoBlock, num |-> 0]
         \/ \E m \in SubMatches(r, k) :
              match' = [req |-> r, hits |-> hits, src |-> m[1], num |-> m[2]]
    BY DEF TryMatch
  <2>2. match'.req = r /\ match'.hits = hits
    BY <2>1
  <2> HIDE DEF k
  <2> QED
    BY <2>2
<1>3. k \in Nat
  BY HitFacts DEF RefInv
<1> HIDE DEF k
<1>4. Len(hits) = k /\ \A j \in 1..k : hash[hits[j]] = <<"full", Prefix(r, j * BlockSize)>>
  BY <1>2, <1>3 DEF HitBlocks
<1>5. HitsCached'
  BY <1>1, <1>2, <1>4, ConfigSame DEF HitsCached
<1> QED
  BY <1>1, <1>5, HashSame DEF CanSchedule

(* release_sub_block_match gives the handle back.                            *)
LEMMA ReleaseMatchHashes ==
    ASSUME HashInv, UNCHANGED config, ReleaseMatch
    PROVE  HashInv'
<1>1. match' = NoMatch /\ UNCHANGED <<status, nTok, nComp, nOut, blocks, hash, note, steps>>
  BY DEF ReleaseMatch, reqVars
<1>2. HitsCached'
  BY <1>1 DEF HitsCached
<1> QED
  BY <1>1, <1>2, HashSame

(* reset_prefix_cache forgets every hash when no table is held.              *)
LEMMA ResetHashes ==
    ASSUME RefInv, HashInv, UNCHANGED config, ResetPrefixCache
    PROVE  HashInv'
<1>1. /\ UNCHANGED <<status, nTok, nComp, nOut, blocks, match, steps>> /\ CanSchedule
      /\ note' = [r \in Req |-> NoNote] /\ \A b \in Block : b \in FreeBlocks
  BY DEF ResetPrefixCache, reqVars, FreeBlocks
<1>2. ASSUME NEW r \in Req, NEW j \in 1..Len(blocks[r]) PROVE FALSE
  <2>1. blocks[r] \in Seq(Block)
    BY DEF RefInv, Types
  <2>2. blocks[r][j] \in FreeBlocks
    BY <1>1, <2>1
  <2> QED
    BY <1>2, <2>2, FreeFacts
<1>3. Depth' = Depth /\ MaxSpec' = MaxSpec /\ Async' = Async
  BY ConfigSame
<1>4. \A r : Emits(r, 1)' = Emits(r, 1) /\ Emits(r, 2)' = Emits(r, 2)
  BY <1>1 DEF Emits
<1>5. Flights'
  BY <1>1, <1>3, <1>4 DEF HashInv, Flights
<1>6. Sole' /\ HashedIsComputed' /\ HitsCached'
  BY <1>1, <1>2 DEF Sole, HashedIsComputed, HitsCached, CanSchedule
<1>7. Noted'
  BY <1>1 DEF Noted, NoNote
<1> QED
  BY <1>5, <1>6, <1>7 DEF HashInv

(* free() of one request, between steps or, aborted, with one in flight.     *)
LEMMA FreeHashes ==
    ASSUME RefInv, HashInv, UNCHANGED <<config, nOut, match, steps>>, match = NoMatch,
           NEW r \in Req, FreeRequest(r), NEW to \in {"waiting", "done"},
           status' = [status EXCEPT ![r] = to], nComp' \in [Req -> Int],
           \A q \in Req : q # r => nComp'[q] = nComp[q],
           \/ to = "done" /\ nComp'[r] = nComp[r]
           \/ to = "waiting" /\ status[r] # "done" /\ nComp'[r] = 0 /\ Len(steps) < Depth
    PROVE  HashInv'
<1> DEFINE E == {r}
<1>1. /\ blocks' = [blocks EXCEPT ![r] = <<>>] /\ note' = [note EXCEPT ![r] = NoNote]
      /\ hash' = Marked(hash, E, nComp, nTok)
  BY DEF FreeRequest
<1>0. E \in SUBSET Req /\ \A q : q \in E <=> q = r
  OBVIOUS
<1>2. /\ \A q \in Req : blocks'[q] = IF q \in E THEN <<>> ELSE blocks[q]
      /\ \A q \in Req : status'[q] = IF q = r THEN to ELSE status[q]
  BY <1>1 DEF RefInv, Types
<1> HIDE DEF E
<1>3. \A q \in Req : nComp[q] \in Nat
  BY DEF RefInv, Types, HashInv, Flights
<1>4. SoleIn(hash) /\ WithinIn(hash, nComp)
  BY DEF HashInv, Sole, HashedIsComputed, SoleIn, WithinIn
<1>5. /\ Sole'
      /\ \A q \in Req : \A j \in 1..Len(blocks'[q]) :
            hash'[blocks'[q][j]] # NoHash => q \notin E /\ j * BlockSize <= nComp[q]
  <2>1. UNCHANGED config /\ hash' = Marked(hash, E, nComp, nTok)
    BY <1>1
  <2> QED
    BY <1>0, <1>2, <1>3, <1>4, <2>1, FreesHashes
<1>6. Depth' = Depth /\ MaxSpec' = MaxSpec /\ BlockSize' = BlockSize /\ Async' = Async /\ BlockSize \in Nat
  BY ConfigSame, ConfigFacts DEF RefInv, Types
<1>7. HashedIsComputed'
  <2> SUFFICES ASSUME NEW q \in Req, NEW j \in 1..Len(blocks'[q]), hash'[blocks'[q][j]] # NoHash
               PROVE  /\ j * BlockSize <= nComp'[q]
                      /\ \A i \in 1..Len(steps') : q \in DOMAIN steps'[i].work =>
                            j * BlockSize <= nComp'[q] - steps'[i].work[q].spec
    BY <1>6 DEF HashedIsComputed
  <2>1. q # r /\ j * BlockSize <= nComp[q] /\ nComp'[q] = nComp[q] /\ blocks'[q] = blocks[q]
    BY <1>0, <1>2, <1>5
  <2>2. hash'[blocks'[q][j]] = hash[blocks[q][j]]
    <3>1. q \in Req \ E /\ j \in 1..Len(blocks[q])
      BY <1>0, <2>1
    <3>2. Types
      BY DEF RefInv
    <3>3. Marked(hash, E, nComp, nTok)[blocks[q][j]] = hash[blocks[q][j]]
      BY <1>0, <1>3, <1>4, <3>1, <3>2, MarkedTables, SMTT(40)
    <3> QED
      BY <1>1, <2>1, <3>3
  <2>3. \A i \in 1..Len(steps) : q \in DOMAIN steps[i].work =>
            j * BlockSize <= nComp[q] - steps[i].work[q].spec
    BY <2>1, <2>2 DEF HashInv, HashedIsComputed
  <2> QED
    BY <2>1, <2>3
<1>8. Flights'
  <2>1. \A q : Emits(q, 1)' = Emits(q, 1) /\ Emits(q, 2)' = Emits(q, 2)
    BY DEF Emits
  <2>2. ASSUME NEW i \in 1..Len(steps), NEW q \in DOMAIN steps[i].work, status'[q] # "done"
        PROVE  nComp'[q] >= steps[i].work[q].spec
    <3>0. q \in Req
      BY DEF RefInv, Types, Step
    <3>1. CASE q # r
      BY <1>2, <2>2, <3>0, <3>1 DEF HashInv, Flights
    <3>2. CASE q = r
      <4>1. to = "waiting" /\ nComp'[r] = 0 /\ Len(steps) < Depth
        BY <1>2, <2>2, <3>2
      <4>2. Len(steps) \in Nat /\ Len(steps) > 0
        BY DEF RefInv, Types
      <4>3. MaxSpec = 0
        BY <4>1, <4>2, DepthFacts DEF RefInv, Types
      <4>4. steps[i].work[q].spec = 0
        BY <4>3 DEF HashInv, Flights
      <4> QED
        BY <3>2, <4>1, <4>4
    <3> QED
      BY <3>1, <3>2
  <2>3. ASSUME NEW q \in Req
        PROVE  /\ nOut[q] >= 0 /\ nComp'[q] >= 0
               /\ Async /\ status'[q] # "done" => nOut[q] >= Emits(q, 1) + Emits(q, 2)
    <3>1. nComp'[q] >= 0
      BY <1>3
    <3>2. status'[q] # "done" => status[q] # "done" \/ (q = r /\ to = "waiting")
      BY <1>2
    <3>3. q = r /\ to = "waiting" => status[q] # "done"
      OBVIOUS
    <3> QED
      BY <3>1, <3>2, <3>3 DEF HashInv, Flights
  <2> QED
    BY <1>6, <2>1, <2>2, <2>3 DEF HashInv, Flights
<1>9. Noted' /\ HitsCached'
  BY <1>1 DEF HashInv, Noted, NoNote, HitsCached
<1> QED
  BY <1>5, <1>7, <1>8, <1>9 DEF HashInv

(* _preempt_request frees the victim.                                        *)
LEMMA PreemptHashes ==
    ASSUME RefInv, HashInv, UNCHANGED config, NEW r \in Req, Preempt(r)
    PROVE  HashInv'
<1>1. nComp' \in [Req -> Int] /\ nComp'[r] = 0 /\ \A q \in Req : q # r => nComp'[q] = nComp[q]
  BY DEF Preempt, RefInv, Types
<1>2. Len(steps) < Depth /\ match = NoMatch /\ status[r] # "done"
      /\ UNCHANGED <<nOut, match, steps>> /\ FreeRequest(r)
      /\ status' = [status EXCEPT ![r] = "waiting"]
  BY DEF Preempt, CanSchedule, Running
<1> QED
  BY <1>1, <1>2, FreeHashes

(* An abort frees the request, under async scheduling with its step in       *)

(* flight.                                                                   *)
LEMMA AbortHashes ==
    ASSUME RefInv, HashInv, UNCHANGED config, NEW r \in Req, Abort(r)
    PROVE  HashInv'
<1>1. nComp' \in [Req -> Int] /\ \A q \in Req : nComp'[q] = nComp[q]
  BY DEF Abort, RefInv, Types
<1>2. match = NoMatch /\ UNCHANGED <<nOut, match, steps>> /\ FreeRequest(r)
      /\ status' = [status EXCEPT ![r] = "done"]
  BY DEF Abort
<1> QED
  BY <1>1, <1>2, FreeHashes

(* The worker accepts no more drafts than the step has.                      *)
LEMMA ExecuteHashes ==
    ASSUME RefInv, HashInv, UNCHANGED config, Execute
    PROVE  HashInv'
<1>1. UNCHANGED <<status, nTok, nComp, nOut, blocks, hash, note, match>>
  BY DEF Execute, reqVars, poolVars
<1>2. PICK i \in 1..Len(steps) : \E acc \in [DOMAIN steps[i].work -> 0..MaxSpec] :
         /\ \A r \in DOMAIN acc : acc[r] <= steps[i].work[r].spec
         /\ steps' = [steps EXCEPT ![i].ran = TRUE, ![i].acc = acc]
  BY DEF Execute
<1>3. PICK acc \in [DOMAIN steps[i].work -> 0..MaxSpec] :
         /\ \A r \in DOMAIN acc : acc[r] <= steps[i].work[r].spec
         /\ steps' = [steps EXCEPT ![i].ran = TRUE, ![i].acc = acc]
  BY <1>2
<1>4. steps \in Seq(Step) /\ Len(steps) \in Nat /\ steps[i] \in Step
  BY DEF RefInv, Types
<1>5. /\ Len(steps') = Len(steps)
      /\ \A k \in 1..Len(steps) : /\ steps'[k].work = steps[k].work
                                  /\ k # i => steps'[k].acc = steps[k].acc
                                  /\ k = i => steps'[k].acc = acc
  BY <1>3, <1>4 DEF Step
<1>6. Depth' = Depth /\ MaxSpec' = MaxSpec /\ BlockSize' = BlockSize /\ Async' = Async /\ MaxSpec \in Nat
  BY ConfigSame, ConfigFacts DEF RefInv, Types
<1>7. \A r : Emits(r, 1)' = Emits(r, 1) /\ Emits(r, 2)' = Emits(r, 2)
  BY <1>4, <1>5 DEF Emits
<1>8. Flights'
  <2>1. ASSUME NEW k \in 1..Len(steps), NEW r \in DOMAIN steps[k].work
        PROVE  steps'[k].acc[r] \in 0..steps[k].work[r].spec
    <3>1. steps[k].work[r].spec \in 0..MaxSpec /\ steps[k].acc[r] \in 0..steps[k].work[r].spec
      BY DEF HashInv, Flights
    <3>2. CASE k = i
      <4>1. acc[r] \in 0..MaxSpec /\ acc[r] <= steps[k].work[r].spec /\ steps'[k].acc = acc
        BY <1>3, <1>5, <3>2
      <4> QED
        BY <1>6, <3>1, <4>1
    <3> QED
      BY <1>5, <3>1, <3>2
  <2> QED
    BY <1>1, <1>5, <1>6, <1>7, <2>1 DEF HashInv, Flights
<1>9. HashedIsComputed'
  BY <1>1, <1>5, <1>6 DEF HashInv, HashedIsComputed
<1>10. HitsCached'
  BY <1>1, ConfigSame DEF HashInv, HitsCached
<1> QED
  BY <1>1, <1>8, <1>9, <1>10 DEF HashInv, Noted, Sole
(* update_from_output, member by member: the requests stopped, the hash      *)
(* table hs after the step's tokens are cached, what is freed and indexed.   *)
Updates(stop, R, hs) ==
    LET w == steps[1].work
        out == {r \in DOMAIN w : status[r] # "done" /\ w[r].emit}
        E == stop \cap Running
    IN
    /\ stop \in SUBSET out /\ R \in SUBSET out
    /\ match = NoMatch /\ match' = NoMatch /\ steps' = Tail(steps) /\ UNCHANGED kv
    /\ note' = [r \in Req |-> NoNote] /\ steps # <<>> /\ steps[1].ran
    /\ \A r \in out : nTok'[r] >= Len(Tokens[r]) => r \in stop
    /\ \A r \in Req :
          /\ status'[r] = IF r \in stop THEN "done" ELSE status[r]
          /\ nTok'[r] = IF r \in out THEN nTok[r] + 1 + steps[1].acc[r] ELSE nTok[r]
          /\ nComp'[r] = nComp[r] - (IF r \in DOMAIN w /\ status[r] # "done" /\ nComp[r] > 0
                                     THEN w[r].spec - steps[1].acc[r] ELSE 0)
          /\ nOut'[r] = IF Async /\ r \in out THEN nOut[r] - 1 ELSE nOut[r]
          /\ blocks'[r] = IF r \in E THEN <<>> ELSE blocks[r]
    /\ hs = IF Async THEN Cached(hash, R, blocks, [r \in Req |-> nComp'[r] - nOut'[r]]) ELSE hash
    /\ hash' = Marked(hs, E, nComp', nTok')
    /\ lists' = Indexed(lists, UNION {FinalTargets(r, hs, nComp'[r], nTok'[r]) :
                                        r \in E \cup {q \in Req \ E : note[q] # NoNote}})

(* update_from_output, stated as one relation between a state and the next.  *)
LEMMA UpdateUpdates ==
    ASSUME RefInv, UpdateFromOutput
    PROVE  \E stop, R, hs : Updates(stop, R, hs)
<1> DEFINE step == Head(steps)
           live == {r \in DOMAIN step.work : status[r] # "done"}
           out == {r \in live : step.work[r].emit}
           nt == [r \in Req |-> IF r \in out THEN nTok[r] + 1 + step.acc[r] ELSE nTok[r]]
           rejected(r) == IF r \in live /\ nComp[r] > 0
                          THEN step.work[r].spec - step.acc[r] ELSE 0
           nc == [r \in Req |-> nComp[r] - rejected(r)]
           no == [r \in Req |-> IF Async /\ r \in out THEN nOut[r] - 1 ELSE nOut[r]]
           full == {r \in out : nt[r] >= Len(Tokens[r])}
           hs == IF Async THEN Cached(hash, out \cap Running, blocks, [r \in Req |-> nc[r] - no[r]])
                 ELSE hash
<1>1. match = NoMatch /\ match' = NoMatch /\ steps' = Tail(steps) /\ Len(steps) > 0 /\ step.ran
      /\ UNCHANGED kv /\ note' = [r \in Req |-> NoNote]
  BY DEF UpdateFromOutput
<1>2. PICK stop \in SUBSET out :
         LET ended == stop \cap Running IN
         /\ full \subseteq stop
         /\ nTok' = nt /\ nComp' = nc /\ nOut' = no
         /\ status' = [r \in Req |-> IF r \in stop THEN "done" ELSE status[r]]
         /\ hash' = Marked(hs, ended, nc, nt)
         /\ lists' = Indexed(lists,
                UNION {FinalTargets(r, hs, nc[r], nt[r]) : r \in ended \cup {q \in Req \ ended : note[q] # NoNote}})
         /\ blocks' = [r \in Req |-> IF r \in ended THEN <<>> ELSE blocks[r]]
  BY DEF UpdateFromOutput
<1>3. steps # <<>> /\ step = steps[1] /\ out \subseteq Req
  <2>1. steps \in Seq(Step) /\ steps # <<>>
    BY <1>1 DEF RefInv, Types
  <2>2. step \in Step /\ step = steps[1]
    BY <2>1
  <2> HIDE DEF step
  <2> QED
    BY <2>1, <2>2 DEF Step
<1> DEFINE E == stop \cap Running
           R == out \cap Running
<1>4. /\ hash' = Marked(hs, E, nComp', nTok')
      /\ lists' = Indexed(lists, UNION {FinalTargets(r, hs, nComp'[r], nTok'[r]) :
                                        r \in E \cup {q \in Req \ E : note[q] # NoNote}})
      /\ hs = IF Async THEN Cached(hash, R, blocks, [r \in Req |-> nComp'[r] - nOut'[r]]) ELSE hash
  <2>1. nTok' = nt /\ nComp' = nc /\ nOut' = no
    BY <1>2
  <2> HIDE DEF nt, nc, no, out
  <2> QED
    BY <1>2, <2>1
<1>5. \A r \in Req :
          /\ status'[r] = IF r \in stop THEN "done" ELSE status[r]
          /\ nTok'[r] = IF r \in out THEN nTok[r] + 1 + step.acc[r] ELSE nTok[r]
          /\ nComp'[r] = nComp[r] - rejected(r)
          /\ nOut'[r] = IF Async /\ r \in out THEN nOut[r] - 1 ELSE nOut[r]
          /\ blocks'[r] = IF r \in E THEN <<>> ELSE blocks[r]
  <2> HIDE DEF out, live, step
  <2> QED
    BY <1>2
<1>6. \A r \in out : nTok'[r] >= Len(Tokens[r]) => r \in stop
  <2>1. \A r \in out : nt[r] >= Len(Tokens[r]) => r \in stop
    BY <1>2
  <2> QED
    BY <1>2, <2>1
<1>7. out = {r \in DOMAIN step.work : status[r] # "done" /\ step.work[r].emit}
  OBVIOUS
<1>8. \A r : rejected(r) = IF r \in DOMAIN step.work /\ status[r] # "done" /\ nComp[r] > 0
                           THEN step.work[r].spec - step.acc[r] ELSE 0
  OBVIOUS
<1>9. stop \in SUBSET out /\ R \in SUBSET out /\ step.ran /\ E = stop \cap Running
  BY <1>1
<1> HIDE DEF nt, nc, no, hs, full, out, live, R, E, rejected, step
<1>10. Updates(stop, R, hs)
  BY <1>1, <1>3, <1>4, <1>5, <1>6, <1>7, <1>8, <1>9 DEF Updates
<1> QED
  BY <1>10

(* update_from_output caches computed blocks only, and takes back only what  *)
(* no hash relies on.                                                        *)
LEMMA UpdateHashes ==
    ASSUME RefInv, HashInv, UNCHANGED config, NEW stop, NEW R, NEW hs, Updates(stop, R, hs)
    PROVE  /\ HashInv' /\ SoleIn(hs) /\ WithinIn(hs, nComp') /\ \A r \in Req : nComp'[r] \in Nat
           /\ \A b \in Block : hash[b] # NoHash => hs[b] = hash[b]
<1> DEFINE n == Len(steps)
           w == steps[1].work
           out == {r \in DOMAIN w : status[r] # "done" /\ w[r].emit}
           E == stop \cap Running
<1>1. /\ steps \in Seq(Step) /\ n \in Nat \ {0} /\ Len(steps') = n - 1
      /\ \A i \in 1..(n - 1) : steps'[i] = steps[i + 1]
  <2>1. steps \in Seq(Step) /\ steps # <<>> /\ steps' = Tail(steps)
    BY DEF Updates, RefInv, Types
  <2> QED
    BY <2>1, HeadTailFacts
<1>2. /\ match' = NoMatch /\ note' = [r \in Req |-> NoNote] /\ stop \in SUBSET out /\ R \in SUBSET out
      /\ hs = IF Async THEN Cached(hash, R, blocks, [r \in Req |-> nComp'[r] - nOut'[r]]) ELSE hash
      /\ hash' = Marked(hs, E, nComp', nTok')
  BY DEF Updates
<1>3. ASSUME NEW r \in Req
      PROVE  /\ status'[r] = IF r \in stop THEN "done" ELSE status[r]
             /\ nComp'[r] = nComp[r] - (IF r \in DOMAIN w /\ status[r] # "done" /\ nComp[r] > 0
                                     THEN w[r].spec - steps[1].acc[r] ELSE 0)
             /\ nOut'[r] = IF Async /\ r \in out THEN nOut[r] - 1 ELSE nOut[r]
             /\ blocks'[r] = IF r \in E THEN <<>> ELSE blocks[r]
  BY DEF Updates
<1>4. ASSUME NEW i \in 1..n
      PROVE  steps[i] \in Step /\ DOMAIN steps[i].work \subseteq Req
  BY <1>1 DEF Step
<1>5. 1 \in 1..n /\ DOMAIN w \subseteq Req /\ out \subseteq Req /\ out \subseteq DOMAIN w
  BY <1>1, <1>4
<1>6. /\ Depth \in {1, 2} /\ MaxSpec \in Nat /\ n <= Depth /\ (n > 1 => MaxSpec = 0 /\ n = 2 /\ Async)
      /\ (Async <=> Depth = 2) /\ (Async' <=> Async) /\ MaxSpec' = MaxSpec /\ Depth' = Depth
      /\ BlockSize \in Nat /\ BlockSize' = BlockSize
  <2>1. /\ UNCHANGED config /\ config \in Configs /\ n <= Depth /\ n \in Nat
    BY <1>1 DEF RefInv, Types, HashInv, Flights
  <2>2. /\ Depth \in {1, 2} /\ MaxSpec \in Nat /\ BlockSize \in Nat
    BY <2>1, ConfigFacts
  <2>3. (Async' <=> Async) /\ MaxSpec' = MaxSpec /\ Depth' = Depth /\ BlockSize' = BlockSize
    BY <2>1, ConfigSame
  <2>4. (Async <=> Depth = 2) /\ (Async => MaxSpec = 0)
    BY <2>1, DepthFacts
  <2> HIDE DEF n
  <2> QED
    BY <2>1, <2>2, <2>3, <2>4
<1>7. ASSUME NEW r \in Req PROVE nComp[r] \in Nat /\ nOut[r] \in Nat
  BY DEF RefInv, Types, HashInv, Flights
<1>8. ASSUME NEW r \in DOMAIN w
      PROVE  /\ w[r].spec \in Nat /\ steps[1].acc[r] \in 0..w[r].spec
             /\ status[r] # "done" => nComp[r] >= w[r].spec
  BY <1>5, <1>6 DEF HashInv, Flights
<1>9. ASSUME NEW r \in Req
      PROVE  /\ nComp'[r] \in Nat
             /\ r \notin DOMAIN w \/ status[r] = "done" => nComp'[r] = nComp[r]
             /\ r \in DOMAIN w /\ status[r] # "done" => nComp'[r] >= nComp[r] - w[r].spec
  <2>1. CASE r \in DOMAIN w /\ status[r] # "done" /\ nComp[r] > 0
    BY <1>3, <1>7, <1>8, <2>1
  <2>2. CASE r \in DOMAIN w /\ status[r] # "done" /\ ~(nComp[r] > 0)
    BY <1>3, <1>7, <1>8, <2>2
  <2>3. CASE r \notin DOMAIN w \/ status[r] = "done"
    BY <1>3, <1>7, <2>3
  <2> QED
    BY <2>1, <2>2, <2>3
<1>10. ASSUME NEW r \in Req, Async, status[r] # "done"
       PROVE  nOut[r] >= Emits(r, 1) + Emits(r, 2) /\ Emits(r, 1) \in Nat /\ Emits(r, 2) \in Nat
              /\ (r \in out => Emits(r, 1) = 1)
  BY <1>5, <1>10 DEF HashInv, Flights, Emits
<1>11. ASSUME NEW r \in Req PROVE nOut'[r] \in Nat
  <2>1. CASE Async /\ r \in out
    BY <1>3, <1>7, <1>10, <2>1
  <2> QED
    BY <1>3, <1>7, <2>1
<1> HIDE DEF n, w, out, E
<1>12. ASSUME NEW b \in Block
       PROVE  /\ hash[b] # NoHash => hs[b] = hash[b]
              /\ hash[b] = NoHash /\ hs[b] # NoHash =>
                   \E r \in R : \E j \in 1..Len(blocks[r]) :
                     blocks[r][j] = b /\ j * BlockSize <= nComp'[r] - nOut'[r]
  <2>1. CASE Async
    <3> DEFINE c == [r \in Req |-> nComp'[r] - nOut'[r]]
    <3>1. hs = Cached(hash, R, blocks, c)
      BY <1>2, <2>1
    <3>2. \A r \in R : c[r] = nComp'[r] - nOut'[r]
      BY <1>2, <1>5
    <3> HIDE DEF c
    <3> QED
      BY <3>1, <3>2, CachedIs
  <2>2. CASE ~Async
    BY <1>2, <2>2
  <2> QED
    BY <2>1, <2>2
<1>13. ASSUME NEW r \in Req, NEW j \in 1..Len(blocks[r]) PROVE blocks[r][j] \in Block /\ j \in Int
  <2>1. blocks[r] \in Seq(Block)
    BY DEF RefInv, Types
  <2> QED
    BY <2>1
<1>14. SoleIn(hs)
  <2> SUFFICES ASSUME NEW r \in Req, NEW q \in Req, NEW j \in 1..Len(blocks[r]), NEW l \in 1..Len(blocks[q]),
                      blocks[r][j] = blocks[q][l], hs[blocks[r][j]] = NoHash
               PROVE  r = q /\ j = l
    BY DEF SoleIn
  <2>1. hash[blocks[r][j]] = NoHash
    BY <1>12, <1>13
  <2> QED
    BY <2>1 DEF HashInv, Sole
<1>15. WithinIn(hs, nComp')
  <2> SUFFICES ASSUME NEW r \in Req, NEW j \in 1..Len(blocks[r]), hs[blocks[r][j]] # NoHash
               PROVE  j * BlockSize <= nComp'[r]
    BY DEF WithinIn
  <2>0. blocks[r][j] \in Block /\ j * BlockSize \in Int
    BY <1>6, <1>13, MulFacts
  <2>1. CASE hash[blocks[r][j]] # NoHash
    <3>1. j * BlockSize <= nComp[r] /\ (r \in DOMAIN w => j * BlockSize <= nComp[r] - w[r].spec)
      BY <1>5, <2>1 DEF HashInv, HashedIsComputed, w, n
    <3>2. CASE r \in DOMAIN w /\ status[r] # "done"
      BY <1>7, <1>8, <1>9, <2>0, <3>1, <3>2
    <3>3. CASE r \notin DOMAIN w \/ status[r] = "done"
      BY <1>9, <3>1, <3>3
    <3> QED
      BY <3>2, <3>3
  <2>2. CASE hash[blocks[r][j]] = NoHash
    <3>1. PICK q \in R : \E l \in 1..Len(blocks[q]) :
             blocks[q][l] = blocks[r][j] /\ l * BlockSize <= nComp'[q] - nOut'[q]
      BY <1>12, <2>0, <2>2
    <3>2. q \in Req
      BY <1>2, <1>5
    <3>3. q = r /\ j * BlockSize <= nComp'[r] - nOut'[r]
      BY <2>2, <3>1, <3>2 DEF HashInv, Sole
    <3> QED
      BY <1>9, <1>11, <2>0, <3>3
  <2> QED
    BY <2>1, <2>2
<1>16. /\ Sole'
       /\ \A r \in Req : \A j \in 1..Len(blocks'[r]) :
             hash'[blocks'[r][j]] # NoHash => r \notin E /\ j * BlockSize <= nComp'[r]
  <2>1. /\ \A r \in Req : nComp'[r] \in Nat
        /\ E \in SUBSET Req /\ hash' = Marked(hs, E, nComp', nTok')
        /\ \A q \in Req : blocks'[q] = IF q \in E THEN <<>> ELSE blocks[q]
    BY <1>2, <1>3, <1>9 DEF E, Running
  <2> QED
    BY <1>14, <1>15, <2>1, FreesHashes
<1>17. ASSUME NEW i \in 1..(n - 1), NEW r \in DOMAIN steps'[i].work
       PROVE  /\ r \in Req /\ steps'[i].work[r].spec = 0 /\ steps'[i].acc[r] = 0
  <2>1. i + 1 \in 1..n /\ steps'[i] = steps[i + 1] /\ MaxSpec = 0
    BY <1>1, <1>6
  <2> QED
    BY <1>4, <2>1 DEF HashInv, Flights, n
<1>18. HashedIsComputed'
  <2> SUFFICES ASSUME NEW r \in Req, NEW j \in 1..Len(blocks'[r]), hash'[blocks'[r][j]] # NoHash
               PROVE  /\ j * BlockSize <= nComp'[r]
                      /\ \A i \in 1..Len(steps') : r \in DOMAIN steps'[i].work =>
                            j * BlockSize <= nComp'[r] - steps'[i].work[r].spec
    BY <1>6 DEF HashedIsComputed
  <2>1. j * BlockSize <= nComp'[r]
    BY <1>16
  <2> QED
    BY <1>1, <1>9, <1>17, <2>1
<1>19. Flights'
  <2>1. ASSUME NEW i \in 1..Len(steps'), NEW r \in DOMAIN steps'[i].work
        PROVE  /\ steps'[i].work[r].spec \in 0..MaxSpec
               /\ steps'[i].acc[r] \in 0..steps'[i].work[r].spec
               /\ status'[r] # "done" => nComp'[r] >= steps'[i].work[r].spec
    BY <1>1, <1>6, <1>9, <1>17
  <2>2. ASSUME NEW r \in Req, Async, status'[r] # "done"
        PROVE  nOut'[r] >= Emits(r, 1)' + Emits(r, 2)'
    <3>1. status[r] # "done"
      BY <1>3, <2>2
    <3>2. Emits(r, 2)' = 0 /\ Emits(r, 1)' = Emits(r, 2)
      <4>1. n = 1 \/ n = 2
        BY <1>1, <1>6
      <4>2. CASE n = 1
        BY <1>1, <4>2 DEF Emits, n
      <4>3. CASE n = 2
        <5>1. Len(steps') = 1 /\ steps'[1] = steps[2] /\ Len(steps) = 2
          BY <1>1, <4>3 DEF n
        <5> QED
          BY <5>1 DEF Emits
      <4> QED
        BY <4>1, <4>2, <4>3
    <3>3. r \notin out => Emits(r, 1) = 0
      BY <3>1 DEF Emits, out, w
    <3> QED
      BY <1>3, <1>7, <1>10, <2>2, <3>1, <3>2, <3>3
  <2>3. Len(steps') <= Depth
    BY <1>1, <1>6
  <2>4. \A r \in Req : nOut'[r] >= 0 /\ nComp'[r] >= 0
    BY <1>9, <1>11
  <2> QED
    BY <1>2, <1>6, <2>1, <2>2, <2>3, <2>4 DEF Flights
<1>20. Noted' /\ HitsCached'
  BY <1>2 DEF Noted, NoNote, HitsCached
<1>21. HashInv'
  BY <1>16, <1>18, <1>19, <1>20 DEF HashInv
<1> QED
  BY <1>9, <1>12, <1>14, <1>15, <1>21

(* A waiting request is admitted.                                            *)
LEMMA AdmitHashes ==
    ASSUME RefInv, RefInv', HashInv, UNCHANGED config, Admit
    PROVE  HashInv'
<1>1. \E R, work, fresh, cap, copies : Schedules(R, work, fresh, cap, copies)
  BY AdmitSchedules
<1> QED
  BY <1>1, SchedulesHashes

(* The running loop schedules a batch.                                       *)
LEMMA RunningHashes ==
    ASSUME RefInv, RefInv', HashInv, UNCHANGED config, ScheduleRunning
    PROVE  HashInv'
<1>1. \E R, work, fresh, cap, copies : Schedules(R, work, fresh, cap, copies)
  BY RunningSchedules
<1> QED
  BY <1>1, SchedulesHashes

(* At start nothing is cached.                                               *)
LEMMA InitHashes == Init => HashInv
<1> SUFFICES ASSUME Init PROVE HashInv
  OBVIOUS
<1> USE DEF Init
<1>1. Depth \in {1, 2}
  BY ConfigFacts
<1>2. Len(steps) = 0 /\ 1..Len(steps) = {}
  OBVIOUS
<1>3. \A r : Emits(r, 1) = 0 /\ Emits(r, 2) = 0
  BY <1>2 DEF Emits
<1>4. Flights
  BY <1>1, <1>2, <1>3 DEF Flights
<1> QED
  BY <1>2, <1>4 DEF HashInv, Noted, NoNote, Sole, HashedIsComputed, HitsCached

(* A step that changes nothing.                                              *)
LEMMA StutterHashes ==
    ASSUME HashInv, UNCHANGED vars
    PROVE  HashInv'
<1>1. UNCHANGED <<config, status, nComp, nOut, blocks, hash, note, steps, match>>
  BY DEF vars
<1>2. HitsCached'
  BY <1>1, ConfigSame DEF HashInv, HitsCached
<1>3. match' # NoMatch => Len(steps) < Depth
  BY <1>1 DEF HashInv, Flights
<1> QED
  BY <1>1, <1>2, <1>3, HashSame

(* The invariant of the hashes holds in every reachable state, drafts and    *)

(* two steps in flight included.                                             *)
THEOREM HashInvariance == Spec => []HashInv
<1>1. RefInv /\ RefInv' /\ HashInv /\ [Next]_vars => HashInv'
  <2> SUFFICES ASSUME RefInv, RefInv', HashInv, [Next]_vars PROVE HashInv'
    OBVIOUS
  <2>1. CASE UNCHANGED vars
    BY <2>1, StutterHashes
  <2>2. ASSUME UNCHANGED config, UpdateFromOutput PROVE HashInv'
    BY <2>2, UpdateUpdates, UpdateHashes
  <2>3. CASE Next
    BY <2>2, <2>3, TryMatchHashes, ReleaseMatchHashes, AdmitHashes, RunningHashes, PreemptHashes,
       AbortHashes, ExecuteHashes, ResetHashes DEF Next
  <2> QED
    BY <2>1, <2>3
<1> QED
  BY <1>1, InitHashes, RefInvariance, PTL DEF Spec

(* set_block_hash never overwrites a hash.                                   *)
THEOREM PartialUnhashed == Spec => []PartialIsUnhashed
<1>1. RefInv /\ HashInv => PartialIsUnhashed
  <2> SUFFICES ASSUME RefInv, HashInv, NEW r \in Running, NEW t \in PartialTargets(r, nComp[r], nTok[r])
               PROVE  hash[t[1]] = NoHash
    BY DEF PartialIsUnhashed
  <2>1. /\ r \in Req /\ nComp[r] \in Nat /\ Types
        /\ \A j \in 1..Len(blocks[r]) : hash[blocks[r][j]] # NoHash => j * BlockSize <= nComp[r]
    BY DEF Running, RefInv, Types, HashInv, Flights, HashedIsComputed
  <2> QED
    BY <2>1, PartialIsOpen
<1> QED
  BY <1>1, RefInvariance, HashInvariance, PTL
-----------------------------------------------------------------------------
(* Contents, with one step at a time and no drafts.                          *)

(* Slot s of block b will hold v when the step in flight has run: what the   *)
(* forward pass writes there or, failing that, what is staged there, copied  *)
(* or left.                                                                  *)
Writes(W, b, s, r, p) ==
    /\ r \in DOMAIN W /\ p \in (W[r].from + 1)..(W[r].from + W[r].num)
    /\ W[r].table[BlockOf(p)] = b /\ SlotOf(p) = s
Copies(o, b, s) == o.dst = b /\ s <= o.num
Staged(C, b, s, v) ==
    \/ (\A o \in C : ~Copies(o, b, s)) /\ kv[b][s] = v
    \/ \E o \in C : /\ Copies(o, b, s) /\ kv[o.src][s] = v
                    /\ \A u \in C : Copies(u, b, s) => u = o
WillHold(b, s, v) ==
    IF steps = <<>> \/ steps[1].ran THEN kv[b][s] = v
    ELSE \/ \E r \in Req : \E p \in Int :
              /\ Writes(steps[1].work, b, s, r, p) /\ v = Prefix(r, p)
              /\ \A q \in Req : \A x \in Int : Writes(steps[1].work, b, s, q, x) => Prefix(q, x) = v
         \/ /\ \A r \in Req : \A p \in Int : ~Writes(steps[1].work, b, s, r, p)
            /\ Staged(steps[1].copies, b, s, v)

(* While a match is arbitrated nothing is in flight; indexing is pending     *)
(* only while a step is.                                                     *)
Lockstep ==
    /\ match # NoMatch => steps = <<>>
    /\ \A r \in Req : nOut[r] = 0
    /\ steps = <<>> => \A r \in Req : note[r] = NoNote

(* A running request has computed no token it does not have, and has the     *)
(* blocks of the computed ones, none to spare.                               *)
Numbers ==
    \A r \in Req :
        /\ nTok[r] <= Len(Tokens[r])
        /\ status[r] # "done" => nTok[r] < Len(Tokens[r])
        /\ status[r] = "running" =>
              /\ nComp[r] \in 1..nTok[r]
              /\ nComp[r] <= Len(blocks[r]) * BlockSize
              /\ Len(blocks[r]) * BlockSize < nComp[r] + BlockSize

(* The hashes of a table: full blocks have theirs, the last may be open.     *)
TableHashes ==
    \A r \in Req : \A j \in 1..Len(blocks[r]) :
        hash[blocks[r][j]] = IF j * BlockSize <= nComp[r]
                             THEN <<"full", Prefix(r, j * BlockSize)>> ELSE NoHash

(* What is indexed of b is the beginning of block j of r's stream, and b has *)
(* it, now and when the step in flight has run.                              *)
ListsOf(b, r, j) ==
    /\ Len(lists[b]) <= PerBlock
    /\ (j - 1) * BlockSize + Len(lists[b]) * SubSize <= Len(Tokens[r])
    /\ \A i \in 1..Len(lists[b]) : lists[b][i] = Prefix(r, (j - 1) * BlockSize + i * SubSize)
    /\ \A s \in 1..(Len(lists[b]) * SubSize) :
          /\ kv[b][s] = Prefix(r, (j - 1) * BlockSize + s)
          /\ WillHold(b, s, Prefix(r, (j - 1) * BlockSize + s))

(* b is cached as block j of r's stream and will hold it.                    *)
Whole(b, r, j) ==
    /\ j * BlockSize <= Len(Tokens[r]) /\ hash[b] = <<"full", Prefix(r, j * BlockSize)>>
    /\ \A s \in 1..BlockSize : WillHold(b, s, Prefix(r, (j - 1) * BlockSize + s))

(* Every block with a hash is part of some request's stream.                 *)
Hashed ==
    \A b \in Block : hash[b] # NoHash =>
        \E r \in Req : \E j \in Nat \ {0} :
            ListsOf(b, r, j) /\ (Whole(b, r, j) \/ hash[b][1] = "partial")

(* What is indexed of an open block is its request's, and computed; a block  *)
(* neither hashed nor in a table is not indexed.                             *)
OpenLists ==
    \A r \in Req : \A j \in 1..Len(blocks[r]) :
        LET b == blocks[r][j] IN
        hash[b] = NoHash =>
            ListsOf(b, r, j) /\ (j - 1) * BlockSize + Len(lists[b]) * SubSize <= nComp[r]
LooseLists ==
    /\ lists \in [Block -> Seq(Seq(Nat))]
    /\ \A b \in Block : hash[b] = NoHash =>
          lists[b] = <<>> \/ \E r \in Req : \E j \in 1..Len(blocks[r]) : blocks[r][j] = b

(* A full block not indexed whole is covered by a note.                      *)
NoteCovers ==
    /\ \A r \in Req : note[r] = NoNote \/ note[r] \in Nat
    /\ \A b \in Block : hash[b][1] = "full" =>
          \/ Len(lists[b]) = PerBlock
          \/ \E r \in Req : \E j \in 1..Len(blocks[r]) :
                blocks[r][j] = b /\ note[r] # NoNote /\ note[r] < j

(* The KV of the computed tokens, and that of the match's source.            *)
OwnKV ==
    \A r \in Running : \A p \in 1..nComp[r] :
        WillHold(blocks[r][BlockOf(p)], SlotOf(p), Prefix(r, p))
MatchKV ==
    match # NoMatch =>
        /\ match.num <= PerBlock - 1 /\ (match.src = NoBlock => match.num = 0)
        /\ match.src # NoBlock => \A s \in 1..(match.num * SubSize) :
              kv[match.src][s] = Prefix(match.req, Len(match.hits) * BlockSize + s)

ReuseInv ==
    /\ Lockstep /\ Numbers /\ TableHashes /\ Hashed /\ OpenLists /\ LooseLists /\ NoteCovers
    /\ OwnKV /\ MatchKV
-----------------------------------------------------------------------------
(* Positions.                                                                *)

(* A position is in its block, at its slot.                                  *)
LEMMA PlaceFacts ==
    ASSUME config \in Configs, NEW p \in Nat \ {0}
    PROVE  /\ BlockOf(p) \in Nat \ {0} /\ SlotOf(p) \in 1..BlockSize
           /\ p = (BlockOf(p) - 1) * BlockSize + SlotOf(p)
           /\ p <= BlockOf(p) * BlockSize
           /\ \A n \in Nat : p <= n * BlockSize => BlockOf(p) <= n
<1> DEFINE a == p - 1
           d == a \div BlockSize
           m == a % BlockSize
<1>1. BlockSize \in Nat \ {0} /\ a \in Int /\ a >= 0 /\ BlockSize \in Nat
  BY ConfigFacts
<1>2. d \in Int /\ m \in 0..(BlockSize - 1) /\ a = d * BlockSize + m /\ a < d * BlockSize + BlockSize
  BY <1>1, DivFacts
<1>3. d >= 0
  <2>1. 0 \in Int /\ 0 * BlockSize <= a
    BY <1>1
  <2> QED
    BY <1>1, <2>1, DivBounds
<1>4. BlockOf(p) = d + 1 /\ SlotOf(p) = m + 1
  BY DEF BlockOf, SlotOf
<1>5. ASSUME NEW n \in Nat, p <= n * BlockSize PROVE d < n
  <2>1. n * BlockSize \in Int /\ a < n * BlockSize
    BY <1>1, <1>5
  <2> QED
    BY <1>1, <2>1, DivBounds
<1>6. a + 1 = p
  OBVIOUS
<1> HIDE DEF a, d, m
<1>7. (d + 1) * BlockSize = d * BlockSize + BlockSize /\ (d + 1) - 1 = d /\ d * BlockSize \in Int
  BY <1>1, <1>2, MulFacts
<1> QED
  BY <1>1, <1>2, <1>3, <1>4, <1>5, <1>6, <1>7

(* The block and the slot determine the position.                            *)
LEMMA PlaceOf ==
    ASSUME config \in Configs, NEW j \in Nat \ {0}, NEW s \in 1..BlockSize
    PROVE  /\ (j - 1) * BlockSize + s \in Nat \ {0}
           /\ BlockOf((j - 1) * BlockSize + s) = j /\ SlotOf((j - 1) * BlockSize + s) = s
<1> DEFINE x == (j - 1) * BlockSize
           p == x + s
           d == BlockOf(p)
<1>1. BlockSize \in Nat \ {0} /\ x \in Nat /\ j * BlockSize = x + BlockSize
  <2>1. BlockSize \in Nat \ {0} /\ j \in Int /\ j - 1 \in Int /\ j - 1 >= 0 /\ BlockSize \in Nat
    BY ConfigFacts
  <2> QED
    BY <2>1, MulFacts
<1>2. p \in Nat \ {0}
  BY <1>1
<1> HIDE DEF p
<1>3. /\ d \in Nat \ {0} /\ SlotOf(p) \in 1..BlockSize /\ p = (d - 1) * BlockSize + SlotOf(p)
      /\ (p <= j * BlockSize => d <= j)
  BY <1>2, PlaceFacts
<1>4. d <= j
  BY <1>1, <1>3 DEF p
<1> HIDE DEF d
<1>5. ASSUME d < j PROVE FALSE
  <2>1. d <= j - 1 /\ d \in Int /\ j - 1 \in Int /\ BlockSize \in Nat
    BY <1>1, <1>3, <1>5
  <2>2. d * BlockSize <= x /\ (d - 1) * BlockSize = d * BlockSize - BlockSize /\ d * BlockSize \in Int
    BY <2>1, MulFacts
  <2> QED
    BY <1>1, <1>3, <2>2 DEF p
<1>6. d = j
  BY <1>3, <1>4, <1>5
<1>7. p = x + s
  BY DEF p
<1>8. p = x + SlotOf(p)
  BY <1>3, <1>6
<1> HIDE DEF x
<1>9. SlotOf(p) = s
  BY <1>1, <1>3, <1>7, <1>8
<1> QED
  BY <1>2, <1>6, <1>9 DEF p, d, x

(* Equal prefixes are of equal length and have equal prefixes.               *)
LEMMA PrefixAgree ==
    ASSUME config \in Configs, NEW r \in Req, NEW q \in Req,
           NEW n \in 0..Len(Tokens[r]), NEW m \in 0..Len(Tokens[q]), Prefix(r, n) = Prefix(q, m)
    PROVE  n = m /\ \A k \in 0..n : Prefix(r, k) = Prefix(q, k)
<1>1. Tokens[r] \in Seq(Nat) /\ Tokens[q] \in Seq(Nat)
  BY ConfigFacts
<1>2. /\ Len(Prefix(r, n)) = n /\ \A k \in 0..n : SubSeq(Prefix(r, n), 1, k) = Prefix(r, k)
  BY <1>1, PrefixFacts DEF Prefix
<1>3. /\ Len(Prefix(q, m)) = m /\ \A k \in 0..m : SubSeq(Prefix(q, m), 1, k) = Prefix(q, k)
  BY <1>1, PrefixFacts DEF Prefix
<1> QED
  BY <1>2, <1>3

(* The cache once the steps in flight have run, when there is at most one.   *)
LEMMA SettledIs ==
    /\ steps = <<>> => Settled = kv
    /\ Len(steps) = 1 => Settled = IF steps[1].ran THEN kv
                             ELSE Forwarded(Copied(kv, steps[1]), steps[1], steps[1].acc)
<1> DEFINE n == Len(steps)
           Eq(f) == f = [i \in 0..n |->
                IF i = 0 THEN kv
                ELSE IF steps[i].ran THEN f[i - 1]
                ELSE Forwarded(Copied(f[i - 1], steps[i]), steps[i], steps[i].acc)]
           after == CHOOSE f : Eq(f)
<1>1. Settled = after[n]
  BY DEF Settled
<1>2. ASSUME steps = <<>> PROVE Settled = kv
  <2>1. n = 0 /\ 0..n = {0}
    BY <1>2
  <2>2. Eq([i \in 0..n |-> kv])
    BY <2>1
  <2>3. Eq(after)
    BY <2>2
  <2> HIDE DEF after
  <2>4. after[0] = kv
    BY <2>1, <2>3
  <2> QED
    BY <1>1, <2>1, <2>4
<1>3. ASSUME n = 1
      PROVE  Settled = IF steps[1].ran THEN kv
                       ELSE Forwarded(Copied(kv, steps[1]), steps[1], steps[1].acc)
  <2> DEFINE v == IF steps[1].ran THEN kv
                  ELSE Forwarded(Copied(kv, steps[1]), steps[1], steps[1].acc)
             f == [i \in 0..n |-> IF i = 0 THEN kv ELSE v]
  <2>1. 0..n = {0, 1}
    BY <1>3
  <2>2. Eq(f)
    <3>1. f[0] = kv /\ f[1] = v
      BY <2>1
    <3> DEFINE g == [i \in 0..n |-> IF i = 0 THEN kv
                ELSE IF steps[i].ran THEN f[i - 1]
                ELSE Forwarded(Copied(f[i - 1], steps[i]), steps[i], steps[i].acc)]
    <3>2. g[0] = kv /\ g[1] = v
      <4> HIDE DEF f
      <4> QED
        BY <2>1, <3>1
    <3>3. f = [i \in {0, 1} |-> f[i]] /\ g = [i \in {0, 1} |-> g[i]]
      BY <2>1
    <3> HIDE DEF f, g, v
    <3>4. f = g
      BY <3>1, <3>2, <3>3
    <3> QED
      BY <3>4 DEF g
  <2> HIDE DEF f
  <2>3. Eq(after)
    BY <2>2
  <2> HIDE DEF after
  <2>4. after[0] = kv
    BY <2>1, <2>3
  <2>5. after[1] = v
    BY <2>1, <2>3, <2>4
  <2> QED
    BY <1>1, <1>3, <2>5
<1> QED
  BY <1>2, <1>3

(* Sub-blocks of a block, in tokens.                                         *)
LEMMA GrainFacts ==
    ASSUME config \in Configs, NEW j \in Nat \ {0}, NEW g \in 0..PerBlock
    PROVE  /\ (j - 1) * BlockSize \in Nat /\ j * BlockSize = (j - 1) * BlockSize + BlockSize
           /\ g * SubSize \in 0..BlockSize /\ (g < PerBlock => g * SubSize <= BlockSize - SubSize)
           /\ \A i \in 1..g : i * SubSize \in 1..(g * SubSize)
           /\ ((j - 1) * PerBlock + g) * SubSize = (j - 1) * BlockSize + g * SubSize
           /\ PerBlock * SubSize = BlockSize
<1> DEFINE S == SubSize
           P == PerBlock
<1>1. S \in Nat \ {0} /\ P \in Nat \ {0, 1} /\ BlockSize = S * P /\ S \in Nat /\ P \in Nat
      /\ BlockSize \in Nat
  BY ConfigFacts DEF BlockSize
<1> HIDE DEF S, P
<1>2. /\ (j - 1) * BlockSize \in Nat /\ j * BlockSize = (j - 1) * BlockSize + BlockSize
  <2>1. j \in Int /\ j - 1 \in Int /\ j - 1 >= 0
    OBVIOUS
  <2> QED
    BY <1>1, <2>1, MulFacts
<1>3. P * S = BlockSize
  BY <1>1
<1>4. g \in Int /\ g >= 0 /\ g <= P /\ P \in Int
  BY <1>1 DEF P
<1>5. g * S <= P * S /\ g * S >= 0 /\ g * S \in Int /\ P * S \in Int
  BY <1>1, <1>4, MulFacts
<1>6. g < P => g * S <= BlockSize - S
  <2>1. g < P => (g + 1) * S <= P * S
    <3>1. g < P => g + 1 <= P
      BY <1>4
    <3>2. g + 1 \in Int
      BY <1>4
    <3> QED
      BY <1>1, <1>4, <3>1, <3>2, MulFacts
  <2>2. (g + 1) * S = g * S + S
    BY <1>1, <1>4, MulFacts
  <2> QED
    BY <1>1, <1>3, <1>5, <2>1, <2>2
<1>7. ASSUME NEW i \in 1..g PROVE i * S \in 1..(g * S)
  <2>1. i \in Int /\ i <= g /\ 1 <= i /\ 1 \in Int
    BY <1>4
  <2>2. i * S <= g * S /\ 1 * S <= i * S /\ i * S \in Int
    BY <1>1, <1>4, <2>1, MulFacts
  <2> QED
    BY <1>1, <1>5, <2>2
<1>8. ((j - 1) * P + g) * S = (j - 1) * BlockSize + g * S
  <2> DEFINE x == (j - 1) * P
  <2>1. x \in Int /\ x * S = (j - 1) * BlockSize
    BY <1>1
  <2> HIDE DEF x
  <2>2. (x + g) * S = x * S + g * S
    BY <1>1, <1>4, <2>1, MulFacts
  <2> QED
    BY <2>1, <2>2 DEF x
<1> QED
  BY <1>1, <1>2, <1>3, <1>5, <1>6, <1>7, <1>8 DEF S, P

(* The hashes of g sub-blocks of block j, g being what the tokens give.      *)
SubChain(r, j, g) == [i \in 1..g |-> Prefix(r, (j - 1) * BlockSize + i * SubSize)]

(* _get_or_compute_sub_hashes: how many hashes there are, and of which       *)

(* prefixes.                                                                 *)
LEMMA SubHashesAre ==
    ASSUME config \in Configs, NEW r \in Req, NEW j \in Nat \ {0}, NEW n \in 0..PerBlock, NEW nt \in Nat
    PROVE  \E g \in 0..n :
             /\ SubHashes(r, j, n, nt) = SubChain(r, j, g)
             /\ g > 0 => (j - 1) * BlockSize + g * SubSize <= nt
             /\ (j - 1) * BlockSize + n * SubSize <= nt => g = n
<1> DEFINE first == (j - 1) * PerBlock
           d == nt \div SubSize
           last == MinOf(first + n, d)
           g == IF last > first THEN last - first ELSE 0
<1>0. PerBlock \in Nat /\ SubSize \in Nat \ {0} /\ nt \in Int /\ SubSize \in Nat
  BY ConfigFacts
<1>1. first \in Nat /\ d \in Int /\ d * SubSize <= nt
  <2>1. j - 1 \in Nat
    OBVIOUS
  <2> QED
    BY <1>0, <2>1, DivFacts
<1>2. SubHashes(r, j, n, nt) = [i \in 1..g |-> Prefix(r, (first + i) * SubSize)]
  BY DEF SubHashes
<1>3. ASSUME NEW q \in Int, q * SubSize <= nt PROVE q <= d
  BY <1>0, <1>3, DivBounds
<1>4. n \in Nat /\ n <= PerBlock
  BY <1>0
<1>5. ASSUME NEW i \in 0..PerBlock
      PROVE  (first + i) * SubSize = (j - 1) * BlockSize + i * SubSize
  BY GrainFacts
<1> HIDE DEF d, first
<1>6. g \in 0..n /\ (g > 0 => first + g <= d) /\ (first + n <= d => g = n)
  <2>1. last \in Int /\ last <= first + n /\ last <= d /\ (first + n <= d => last = first + n)
    BY <1>1, <1>4 DEF MinOf
  <2> HIDE DEF last
  <2> QED
    BY <1>1, <1>4, <2>1
<1> HIDE DEF g
<1>7. \A i \in 1..g : (first + i) * SubSize = (j - 1) * BlockSize + i * SubSize
  BY <1>0, <1>4, <1>5, <1>6
<1>8. SubHashes(r, j, n, nt) = SubChain(r, j, g)
  BY <1>2, <1>7 DEF SubChain
<1>9. ASSUME g > 0 PROVE (j - 1) * BlockSize + g * SubSize <= nt
  <2>1. first + g \in Int /\ first + g <= d
    BY <1>1, <1>4, <1>6, <1>9
  <2>2. (first + g) * SubSize <= d * SubSize /\ (first + g) * SubSize \in Int /\ d * SubSize \in Int
    BY <1>0, <1>1, <2>1, MulFacts
  <2>3. (first + g) * SubSize = (j - 1) * BlockSize + g * SubSize
    BY <1>0, <1>4, <1>5, <1>6
  <2> QED
    BY <1>1, <2>2, <2>3
<1>10. ASSUME (j - 1) * BlockSize + n * SubSize <= nt PROVE g = n
  <2>1. (first + n) * SubSize <= nt /\ first + n \in Int
    BY <1>1, <1>4, <1>5, <1>10
  <2> QED
    BY <1>3, <1>6, <2>1
<1> QED
  BY <1>6, <1>8, <1>9, <1>10

(* One step at a time: at most one is in flight, without drafts.             *)
LEMMA PlainFacts ==
    ASSUME RefInv, HashInv, Plain
    PROVE  /\ config \in Configs /\ Depth = 1 /\ ~Async /\ Len(steps) \in Nat
           /\ steps = <<>> \/ Len(steps) = 1
           /\ Len(steps) = 1 => steps # <<>> /\ steps[1] \in Step /\ 1 \in 1..Len(steps)
           /\ Len(steps) < Depth => steps = <<>>
           /\ \A i \in 1..Len(steps) : \A r \in DOMAIN steps[i].work :
                 r \in Req /\ steps[i].work[r].spec = 0 /\ steps[i].acc[r] = 0
<1>1. config \in Configs /\ Depth = 1 /\ MaxSpec = 0 /\ ~Async /\ steps \in Seq(Step)
  BY DepthFacts DEF RefInv, Types, Plain
<1>2. Len(steps) \in Nat /\ Len(steps) <= 1
  BY <1>1 DEF HashInv, Flights
<1>3. ASSUME NEW i \in 1..Len(steps), NEW r \in DOMAIN steps[i].work
      PROVE  r \in Req /\ steps[i].work[r].spec = 0 /\ steps[i].acc[r] = 0
  <2>1. steps[i].work[r].spec \in 0..MaxSpec /\ steps[i].acc[r] \in 0..steps[i].work[r].spec
    BY DEF HashInv, Flights
  <2>2. r \in Req
    BY <1>1 DEF Step
  <2> QED
    BY <1>1, <2>1, <2>2
<1>4. Len(steps) = 0 => steps = <<>>
  BY <1>1, EmptySeq
<1>5. Len(steps) = 1 => steps # <<>>
  <2>1. Len(<<>>) = 0
    BY EmptySeq
  <2> QED
    BY <2>1
<1>6. Len(steps) = 1 => steps[1] \in Step /\ 1 \in 1..Len(steps)
  BY <1>1
<1>7. \A n \in Nat : n <= 1 => n = 0 \/ n = 1
  OBVIOUS
<1>8. \A n \in Nat : n < 1 => n = 0
  OBVIOUS
<1> QED
  BY <1>1, <1>2, <1>3, <1>4, <1>5, <1>6, <1>7, <1>8

(* What will be there is what the forward pass leaves there.                 *)
LEMMA RunIs ==
    ASSUME config \in Configs, NEW st \in Step, steps # <<>>, steps[1] = st, ~st.ran, NEW acc,
           \A r \in DOMAIN st.work : st.work[r].spec = 0 /\ acc[r] = 0,
           NEW b \in Block, NEW s \in 1..BlockSize, NEW v, WillHold(b, s, v)
    PROVE  Forwarded(Copied(kv, st), st, acc)[b][s] = v
<1> DEFINE c == Copied(kv, st)
           writes == UNION {{<<r, p>> : p \in (st.work[r].from + 1)
                                          ..(st.work[r].from + st.work[r].num)} :
                           r \in DOMAIN st.work}
           at(w) == st.work[w[1]].table[BlockOf(w[2])] = b /\ SlotOf(w[2]) = s
           value(w) == LET e == st.work[w[1]] IN
                    IF w[2] <= e.from + e.num - e.spec + acc[w[1]]
                    THEN Prefix(w[1], w[2]) ELSE Junk
<1>1. Forwarded(c, st, acc)[b][s] = IF \E w \in writes : at(w) THEN value(CHOOSE w \in writes : at(w))
                                    ELSE c[b][s]
  BY DEF Forwarded
<1>2. /\ DOMAIN st.work \subseteq Req
      /\ \A r \in DOMAIN st.work : st.work[r].from \in Int /\ st.work[r].num \in Int
  BY DEF Step, Item
<1>3. ASSUME NEW w \in writes, at(w)
      PROVE  w[1] \in Req /\ w[2] \in Int /\ Writes(st.work, b, s, w[1], w[2]) /\ value(w) = Prefix(w[1], w[2])
  <2>1. PICK r \in DOMAIN st.work : \E p \in (st.work[r].from + 1)..(st.work[r].from + st.work[r].num) :
          w = <<r, p>>
    OBVIOUS
  <2>2. PICK p \in (st.work[r].from + 1)..(st.work[r].from + st.work[r].num) : w = <<r, p>>
    BY <2>1
  <2>3. w[1] = r /\ w[2] = p /\ r \in Req /\ p \in Int /\ p <= st.work[r].from + st.work[r].num
    BY <1>2, <2>2
  <2>4. Writes(st.work, b, s, w[1], w[2])
    BY <1>3, <2>1, <2>2, <2>3 DEF Writes
  <2>5. value(w) = Prefix(w[1], w[2])
    BY <1>2, <2>1, <2>3
  <2> QED
    BY <2>3, <2>4, <2>5
<1>4. ASSUME NEW r \in Req, NEW p \in Int, Writes(st.work, b, s, r, p)
      PROVE  <<r, p>> \in writes /\ at(<<r, p>>)
  BY <1>4 DEF Writes
<1>5. c[b][s] = IF \E w \in CopiedSlots(st, b) : w[2] = s
                THEN kv[(CHOOSE w \in CopiedSlots(st, b) : w[2] = s)[1].src][s] ELSE kv[b][s]
  BY DEF Copied
<1>6. ASSUME NEW w \in CopiedSlots(st, b), w[2] = s
      PROVE  w[1] \in st.copies /\ Copies(w[1], b, s)
  BY <1>6 DEF CopiedSlots, Copies
<1>7. ASSUME NEW o \in st.copies, Copies(o, b, s)
      PROVE  <<o, s>> \in CopiedSlots(st, b)
  BY <1>7 DEF CopiedSlots, Copies
<1> HIDE DEF writes, at, value, c
<1>8. CASE \E r \in Req : \E p \in Int : Writes(st.work, b, s, r, p) /\ v = Prefix(r, p)
                /\ \A q \in Req : \A x \in Int : Writes(st.work, b, s, q, x) => Prefix(q, x) = v
  <2>1. \E w \in writes : at(w)
    BY <1>4, <1>8
  <2>2. PICK w \in writes : at(w) /\ w = CHOOSE x \in writes : at(x)
    BY <2>1
  <2>3. value(w) = v
    BY <1>3, <1>8, <2>2
  <2> QED
    BY <1>1, <2>1, <2>2, <2>3 DEF c
<1>9. CASE (\A r \in Req : \A p \in Int : ~Writes(st.work, b, s, r, p)) /\ Staged(st.copies, b, s, v)
  <2>1. Forwarded(c, st, acc)[b][s] = c[b][s]
    BY <1>1, <1>3, <1>9
  <2>2. CASE (\A o \in st.copies : ~Copies(o, b, s)) /\ kv[b][s] = v
    BY <1>5, <1>6, <1>9, <2>1, <2>2 DEF c
  <2>3. CASE \E o \in st.copies : Copies(o, b, s) /\ kv[o.src][s] = v
                     /\ \A u \in st.copies : Copies(u, b, s) => u = o
    <3>1. PICK o \in st.copies : Copies(o, b, s) /\ kv[o.src][s] = v
                     /\ \A u \in st.copies : Copies(u, b, s) => u = o
      BY <2>3
    <3>2. \E w \in CopiedSlots(st, b) : w[2] = s
      BY <1>7, <3>1
    <3>3. PICK w \in CopiedSlots(st, b) : w[2] = s /\ w = CHOOSE x \in CopiedSlots(st, b) : x[2] = s
      BY <3>2
    <3>4. w[1] = o
      BY <1>6, <3>1, <3>3
    <3> QED
      BY <1>5, <2>1, <3>1, <3>2, <3>3, <3>4 DEF c
  <2> QED
    BY <1>9, <2>2, <2>3 DEF Staged
<1> QED
  BY <1>8, <1>9 DEF WillHold

(* What will be there is there once the steps in flight have run.            *)
LEMMA WillSettle ==
    ASSUME RefInv, HashInv, Plain, NEW b \in Block, NEW s \in 1..BlockSize, NEW v, WillHold(b, s, v)
    PROVE  Settled[b][s] = v
<1>1. CASE steps = <<>>
  BY <1>1, SettledIs DEF WillHold
<1>2. CASE Len(steps) = 1 /\ steps[1].ran
  BY <1>2, SettledIs DEF WillHold
<1>3. CASE Len(steps) = 1 /\ ~steps[1].ran
  <2>1. steps \in Seq(Step) /\ config \in Configs
    BY DEF RefInv, Types
  <2>2. steps[1] \in Step /\ steps # <<>> /\ 1 \in 1..Len(steps)
    BY <1>3, PlainFacts
  <2>3. \A r \in DOMAIN steps[1].work : steps[1].work[r].spec = 0 /\ steps[1].acc[r] = 0
    BY <2>2, PlainFacts
  <2>4. Forwarded(Copied(kv, steps[1]), steps[1], steps[1].acc)[b][s] = v
    BY <1>3, <2>1, <2>2, <2>3, RunIs
  <2> QED
    BY <1>3, <2>4, SettledIs
<1> QED
  BY <1>1, <1>2, <1>3, PlainFacts

(* The lists, whatever request of that prefix one thinks of.                 *)
LEMMA WholeAgree ==
    ASSUME config \in Configs, ReuseInv, NEW b \in Block, NEW r \in Req, NEW j \in Nat \ {0},
           j * BlockSize <= Len(Tokens[r]), hash[b] = <<"full", Prefix(r, j * BlockSize)>>
    PROVE  ListsOf(b, r, j) /\ Whole(b, r, j)
<1>1. PICK q \in Req : \E l \in Nat \ {0} : ListsOf(b, q, l) /\ (Whole(b, q, l) \/ hash[b][1] = "partial")
  BY FullIsHash DEF ReuseInv, Hashed
<1>2. PICK l \in Nat \ {0} : ListsOf(b, q, l) /\ Whole(b, q, l)
  BY <1>1
<1>3. l * BlockSize <= Len(Tokens[q]) /\ Prefix(r, j * BlockSize) = Prefix(q, l * BlockSize)
  BY <1>2 DEF Whole
<1>4. BlockSize \in Nat \ {0} /\ BlockSize \in Nat /\ Tokens[r] \in Seq(Nat) /\ Tokens[q] \in Seq(Nat)
  BY ConfigFacts
<1>5. j * BlockSize \in 0..Len(Tokens[r]) /\ l * BlockSize \in 0..Len(Tokens[q])
  <2>1. j \in Int /\ j >= 0 /\ l \in Int /\ l >= 0
    OBVIOUS
  <2>2. j * BlockSize >= 0 /\ l * BlockSize >= 0 /\ j * BlockSize \in Int /\ l * BlockSize \in Int
    BY <1>4, <2>1, MulFacts
  <2>3. Len(Tokens[r]) \in Nat /\ Len(Tokens[q]) \in Nat
    BY <1>4
  <2> QED
    BY <1>3, <2>2, <2>3
<1>6. j * BlockSize = l * BlockSize /\ \A k \in 0..(j * BlockSize) : Prefix(r, k) = Prefix(q, k)
  BY <1>3, <1>5, PrefixAgree
<1>7. j = l
  <2>1. j \in Int /\ l \in Int
    OBVIOUS
  <2>2. ASSUME NEW x \in Int, NEW y \in Int, x * BlockSize = y * BlockSize, x < y PROVE FALSE
    <3>1. x + 1 <= y /\ x + 1 \in Int
      BY <2>2
    <3>2. (x + 1) * BlockSize <= y * BlockSize /\ (x + 1) * BlockSize = x * BlockSize + BlockSize
          /\ x * BlockSize \in Int
      BY <1>4, <3>1, MulFacts
    <3> QED
      BY <1>4, <2>2, <3>2
  <2> QED
    BY <1>6, <2>1, <2>2
<1> DEFINE L == Len(lists[b])
           x == (j - 1) * BlockSize
<1>8. L \in 0..PerBlock
  <2>1. lists[b] \in Seq(Seq(Nat)) /\ PerBlock \in Nat
    BY ConfigFacts DEF ReuseInv, LooseLists
  <2> QED
    BY <1>2, <2>1 DEF ListsOf
<1>9. /\ x \in Nat /\ j * BlockSize = x + BlockSize /\ L * SubSize \in 0..BlockSize
      /\ \A i \in 1..L : i * SubSize \in 1..(L * SubSize)
  BY <1>8, GrainFacts
<1>10. /\ L <= PerBlock
       /\ \A i \in 1..L : lists[b][i] = Prefix(q, x + i * SubSize)
       /\ \A s \in 1..(L * SubSize) : kv[b][s] = Prefix(q, x + s) /\ WillHold(b, s, Prefix(q, x + s))
       /\ \A s \in 1..BlockSize : WillHold(b, s, Prefix(q, x + s))
  BY <1>2, <1>7 DEF ListsOf, Whole
<1> HIDE DEF L, x
<1>11. \A s \in 1..BlockSize : x + s \in 0..(j * BlockSize)
  BY <1>4, <1>9
<1>12. \A s \in 1..(L * SubSize) : s \in 1..BlockSize
  BY <1>4, <1>9
<1>13. x + L * SubSize <= Len(Tokens[r])
  BY <1>4, <1>5, <1>9
<1>14. \A i \in 1..L : lists[b][i] = Prefix(r, x + i * SubSize)
  BY <1>6, <1>9, <1>10, <1>11, <1>12
<1>15. \A s \in 1..(L * SubSize) : kv[b][s] = Prefix(r, x + s) /\ WillHold(b, s, Prefix(r, x + s))
  BY <1>6, <1>10, <1>11, <1>12
<1>16. \A s \in 1..BlockSize : WillHold(b, s, Prefix(r, x + s))
  BY <1>6, <1>10, <1>11
<1> QED
  BY <1>10, <1>13, <1>14, <1>15, <1>16 DEF L, x, ListsOf, Whole

(* Where only the match changes, or a step runs.                             *)
LEMMA ReuseSame ==
    ASSUME ReuseInv, config \in Configs,
           UNCHANGED <<config, status, nTok, nComp, nOut, blocks, hash, lists, note>>,
           blocks \in [Req -> Seq(Block)],
           \A b \in Block : \A s \in 1..BlockSize : \A v : WillHold(b, s, v) => WillHold(b, s, v)',
           \/ kv' = kv
           \/ \A b \in Block : \A s \in 1..BlockSize : \A v : WillHold(b, s, v) => kv'[b][s] = v,
           Lockstep', MatchKV'
    PROVE  ReuseInv'
<1>1. /\ SubSize' = SubSize /\ PerBlock' = PerBlock /\ BlockSize' = BlockSize /\ Tokens' = Tokens
      /\ \A r, p : Prefix(r, p)' = Prefix(r, p)
      /\ \A p : BlockOf(p)' = BlockOf(p) /\ SlotOf(p)' = SlotOf(p)
  BY ConfigSame
<1>2. ASSUME NEW b \in Block, NEW r, NEW j, ListsOf(b, r, j) PROVE ListsOf(b, r, j)'
  <2>1. Len(lists[b]) \in 0..PerBlock
    <3>1. lists[b] \in Seq(Seq(Nat)) /\ PerBlock \in Nat
      BY ConfigFacts DEF ReuseInv, LooseLists
    <3> QED
      BY <1>2, <3>1 DEF ListsOf
  <2>2. Len(lists[b]) * SubSize \in 0..BlockSize /\ BlockSize \in Nat
    <3>1. 1 \in Nat \ {0}
      OBVIOUS
    <3> QED
      BY <2>1, <3>1, GrainFacts, ConfigFacts
  <2>3. \A s \in 1..(Len(lists[b]) * SubSize) : s \in 1..BlockSize
    BY <2>2
  <2> QED
    BY <1>1, <1>2, <2>3 DEF ListsOf
<1>3. ASSUME NEW b \in Block, NEW r, NEW j, Whole(b, r, j) PROVE Whole(b, r, j)'
  BY <1>1, <1>3 DEF Whole
<1>4. Numbers' /\ TableHashes' /\ LooseLists' /\ NoteCovers'
  BY <1>1 DEF ReuseInv, Numbers, TableHashes, LooseLists, NoteCovers
<1>5. Hashed'
  BY <1>2, <1>3 DEF ReuseInv, Hashed
<1>6. OpenLists'
  <2>1. \A r \in Req : \A j \in 1..Len(blocks[r]) : blocks[r][j] \in Block
    OBVIOUS
  <2> QED
    BY <1>1, <1>2, <2>1 DEF ReuseInv, OpenLists
<1>7. OwnKV'
  <2> SUFFICES ASSUME NEW r \in Running, NEW p \in 1..nComp[r]
               PROVE  WillHold(blocks[r][BlockOf(p)], SlotOf(p), Prefix(r, p))'
    BY <1>1 DEF OwnKV, Running
  <2>1. r \in Req /\ nComp[r] \in Nat /\ nComp[r] <= Len(blocks[r]) * BlockSize
        /\ blocks[r] \in Seq(Block) /\ Len(blocks[r]) \in Nat
    BY DEF Running, ReuseInv, Numbers
  <2>2. p \in Nat \ {0} /\ p <= Len(blocks[r]) * BlockSize
    <3>1. Len(blocks[r]) * BlockSize \in Int
      BY <2>1, ConfigFacts
    <3> QED
      BY <2>1, <3>1
  <2>3. BlockOf(p) \in 1..Len(blocks[r]) /\ SlotOf(p) \in 1..BlockSize
    BY <2>1, <2>2, PlaceFacts
  <2> DEFINE b == blocks[r][BlockOf(p)]
             s == SlotOf(p)
             v == Prefix(r, p)
  <2>4. b \in Block /\ WillHold(b, s, v)
    BY <2>1, <2>3 DEF ReuseInv, OwnKV
  <2>5. b' = b /\ s' = s /\ v' = v
    BY <1>1
  <2> HIDE DEF b, s, v
  <2>6. ASSUME NEW x, NEW y, NEW z, x = b, y = s, z = v PROVE WillHold(x, y, z)'
    BY <2>3, <2>4, <2>6 DEF s
  <2> QED
    BY <2>5, <2>6 DEF b, s, v
<1> QED
  BY <1>4, <1>5, <1>6, <1>7 DEF ReuseInv

(* The forward pass makes the cache what the step in flight promised.        *)
LEMMA ExecuteReuse ==
    ASSUME RefInv, HashInv, Plain, ReuseInv, UNCHANGED config, Execute
    PROVE  ReuseInv'
<1>1. UNCHANGED <<status, nTok, nComp, nOut, blocks, hash, lists, note, match>>
  BY DEF Execute, reqVars, poolVars
<1>2. PICK i \in 1..Len(steps) : \E acc \in [DOMAIN steps[i].work -> 0..MaxSpec] :
          /\ ~steps[i].ran
          /\ \A r \in DOMAIN acc : acc[r] <= steps[i].work[r].spec
          /\ kv' = Forwarded(Copied(kv, steps[i]), steps[i], acc)
          /\ steps' = [steps EXCEPT ![i].ran = TRUE, ![i].acc = acc]
  BY DEF Execute
<1>3. PICK acc \in [DOMAIN steps[i].work -> 0..MaxSpec] :
          /\ ~steps[i].ran
          /\ kv' = Forwarded(Copied(kv, steps[i]), steps[i], acc)
          /\ steps' = [steps EXCEPT ![i].ran = TRUE, ![i].acc = acc]
  BY <1>2
<1>4. i = 1 /\ Len(steps) = 1 /\ MaxSpec = 0 /\ steps \in Seq(Step) /\ steps[1] \in Step
  <2>1. Len(steps) = 1 /\ i = 1
    BY PlainFacts
  <2>2. MaxSpec = 0 /\ steps \in Seq(Step)
    BY DEF Plain, RefInv, Types
  <2> QED
    BY <2>1, <2>2
<1>5. acc = steps[1].acc
  <2>1. PICK R \in SUBSET Req : steps[1].work \in [R -> Item] /\ steps[1].acc \in [R -> Nat]
    BY <1>4 DEF Step
  <2>2. \A r \in R : acc[r] = 0 /\ steps[1].acc[r] = 0
    BY <1>3, <1>4, <2>1, PlainFacts
  <2>3. acc \in [R -> Nat]
    BY <1>3, <1>4, <2>1
  <2> QED
    BY <2>1, <2>2, <2>3
<1>6. ~steps[1].ran /\ kv' = Forwarded(Copied(kv, steps[1]), steps[1], steps[1].acc)
  BY <1>3, <1>4, <1>5
<1>7. Len(steps') = 1 /\ steps'[1].ran
  BY <1>3, <1>4 DEF Step
<1>8. ASSUME NEW b \in Block, NEW s \in 1..BlockSize, NEW v, WillHold(b, s, v)
      PROVE  kv'[b][s] = v /\ WillHold(b, s, v)'
  <2>1. config \in Configs /\ steps # <<>> /\ 1 \in 1..Len(steps)
    BY <1>4, PlainFacts
  <2>2. \A r \in DOMAIN steps[1].work : steps[1].work[r].spec = 0 /\ steps[1].acc[r] = 0
    BY <2>1, PlainFacts
  <2>3. kv'[b][s] = v
    BY <1>4, <1>6, <1>8, <2>1, <2>2, RunIs
  <2> QED
    BY <1>7, <2>3 DEF WillHold
<1>9. steps # <<>> /\ steps' # <<>> /\ match = NoMatch
  BY <1>4, <1>7 DEF ReuseInv, Lockstep
<1>10. Lockstep' /\ MatchKV'
  BY <1>1, <1>9 DEF ReuseInv, Lockstep, MatchKV
<1> QED
  BY <1>1, <1>8, <1>10, ReuseSame DEF RefInv, Types

(* release_sub_block_match touches no content.                               *)
LEMMA ReleaseReuse ==
    ASSUME RefInv, HashInv, Plain, ReuseInv, UNCHANGED config, ReleaseMatch
    PROVE  ReuseInv'
<1>1. match' = NoMatch /\ UNCHANGED <<status, nTok, nComp, nOut, blocks, hash, lists, note, steps, kv>>
  BY DEF ReleaseMatch, reqVars
<1>2. \A b \in Block : \A s \in 1..BlockSize : \A v : WillHold(b, s, v) => WillHold(b, s, v)'
  BY <1>1, ConfigSame DEF WillHold, Writes, Staged
<1>3. Lockstep' /\ MatchKV'
  BY <1>1 DEF ReuseInv, Lockstep, MatchKV
<1> QED
  BY <1>1, <1>2, <1>3, ReuseSame DEF RefInv, Types

(* A step that changes nothing.                                              *)
LEMMA StutterReuse ==
    ASSUME RefInv, ReuseInv, UNCHANGED vars
    PROVE  ReuseInv'
<1>1. UNCHANGED <<config, status, nTok, nComp, nOut, blocks, hash, lists, note, steps, kv, match>>
  BY DEF vars
<1>2. \A b \in Block : \A s \in 1..BlockSize : \A v : WillHold(b, s, v) => WillHold(b, s, v)'
  BY <1>1, ConfigSame DEF WillHold, Writes, Staged
<1>3. Lockstep' /\ MatchKV'
  BY <1>1, ConfigSame DEF ReuseInv, Lockstep, MatchKV
<1> QED
  BY <1>1, <1>2, <1>3, ReuseSame DEF RefInv, Types

(* Nothing is cached, nothing indexed: at the start and after a reset.       *)
Empty ==
    /\ steps = <<>> /\ match = NoMatch /\ Numbers
    /\ \A r \in Req : blocks[r] = <<>> /\ status[r] # "running" /\ nOut[r] = 0 /\ note[r] = NoNote
    /\ hash = [b \in Block |-> NoHash] /\ lists = [b \in Block |-> <<>>]

(* With nothing cached, indexed or running there is nothing to get wrong.    *)
LEMMA EmptyReuse == Empty => ReuseInv
<1> SUFFICES ASSUME Empty PROVE ReuseInv
  OBVIOUS
<1> USE DEF Empty
<1>1. \A b \in Block : hash[b] = NoHash /\ lists[b] = <<>> /\ hash[b][1] = "none"
  BY DEF NoHash
<1>2. \A r \in Req : Len(blocks[r]) = 0
  OBVIOUS
<1>3. lists \in [Block -> Seq(Seq(Nat))]
  OBVIOUS
<1> QED
  BY <1>1, <1>2, <1>3 DEF ReuseInv, Lockstep, TableHashes, Hashed, OpenLists, LooseLists, NoteCovers,
       OwnKV, Running, MatchKV

(* So it is at start.                                                        *)
LEMMA InitReuse == Init => ReuseInv
<1> SUFFICES ASSUME Init PROVE ReuseInv
  OBVIOUS
<1>1. /\ config \in Configs /\ steps = <<>> /\ match = NoMatch /\ nTok = PromptLen
      /\ \A r \in Req : blocks[r] = <<>> /\ status[r] = "waiting" /\ nOut[r] = 0 /\ note[r] = NoNote
      /\ hash = [b \in Block |-> NoHash] /\ lists = [b \in Block |-> <<>>]
  BY DEF Init
<1>2. \A r \in Req : PromptLen[r] \in 1..(Len(Tokens[r]) - 1) /\ Len(Tokens[r]) \in Nat
  <2>1. Tokens \in [Req -> Seq(Nat)]
    BY <1>1, ConfigFacts
  <2> QED
    BY <1>1, <2>1, ConfigsAssumption DEF PromptLen, Tokens
<1>3. Numbers
  BY <1>1, <1>2 DEF Numbers
<1>4. \A r \in Req : blocks[r] = <<>> /\ status[r] # "running" /\ nOut[r] = 0 /\ note[r] = NoNote
  BY <1>1
<1> QED
  BY <1>1, <1>3, <1>4, EmptyReuse DEF Empty

(* So it is after reset_prefix_cache.                                        *)
LEMMA ResetReuse ==
    ASSUME RefInv, RefInv', HashInv, Plain, ReuseInv, UNCHANGED config, ResetPrefixCache
    PROVE  ReuseInv'
<1>1. /\ UNCHANGED <<status, nTok, nComp, nOut, blocks, match, steps>> /\ CanSchedule
      /\ note' = [r \in Req |-> NoNote] /\ \A b \in Block : b \in FreeBlocks
      /\ hash' = [b \in Block |-> NoHash] /\ lists' = [b \in Block |-> <<>>]
  BY DEF ResetPrefixCache, reqVars, FreeBlocks
<1>2. ASSUME NEW r \in Req PROVE blocks[r] = <<>>
  <2>1. blocks[r] \in Seq(Block)
    BY DEF RefInv, Types
  <2>2. ASSUME NEW j \in 1..Len(blocks[r]) PROVE FALSE
    <3>1. blocks[r][j] \in FreeBlocks
      BY <1>1, <2>1
    <3> QED
      BY <3>1, FreeFacts
  <2>3. Len(blocks[r]) = 0
    BY <2>1, <2>2
  <2> QED
    BY <2>1, <2>3
<1>3. steps = <<>> /\ match = NoMatch /\ config \in Configs
  BY <1>1, PlainFacts DEF CanSchedule
<1>4. ASSUME NEW r \in Req PROVE status[r] # "running"
  <2> SUFFICES ASSUME status[r] = "running" PROVE FALSE
    OBVIOUS
  <2>1. nComp[r] \in Nat \ {0} /\ nComp[r] <= Len(blocks[r]) * BlockSize /\ Len(blocks[r]) = 0
    BY <1>2 DEF ReuseInv, Numbers, RefInv, Types
  <2>2. 0 * BlockSize = 0
    BY <1>3, ConfigFacts
  <2> QED
    BY <2>1, <2>2
<1>5. Numbers'
  BY <1>1, <1>4, ConfigSame DEF ReuseInv, Numbers
<1>6. Empty'
  <2>1. \A r \in Req : nOut[r] = 0
    BY DEF ReuseInv, Lockstep
  <2> QED
    BY <1>1, <1>2, <1>3, <1>4, <1>5, <2>1 DEF Empty
<1> QED
  BY <1>6, EmptyReuse, PTL

(* What is indexed is of some request's stream.                              *)
LEMMA Listed ==
    ASSUME ReuseInv, NEW b \in Block, lists[b] # <<>>
    PROVE  \E r \in Req : \E j \in Nat \ {0} : ListsOf(b, r, j)
<1>1. CASE hash[b] # NoHash
  BY <1>1 DEF ReuseInv, Hashed
<1>2. CASE hash[b] = NoHash
  <2>1. PICK r \in Req : \E j \in 1..Len(blocks[r]) : blocks[r][j] = b
    BY <1>2 DEF ReuseInv, LooseLists
  <2>2. PICK j \in 1..Len(blocks[r]) : blocks[r][j] = b
    BY <2>1
  <2>3. ListsOf(b, r, j) /\ j \in Nat \ {0}
    BY <1>2, <2>2, SMTT(40) DEF ReuseInv, OpenLists
  <2> QED
    BY <2>3
<1> QED
  BY <1>1, <1>2

(* A block longest_match finds holds the sub-blocks it was found for.        *)
LEMMA SubMatchKV ==
    ASSUME RefInv, HashInv, Plain, ReuseInv, NEW r \in Req, NEW k \in Nat, k * BlockSize < nTok[r],
           NEW m \in SubMatches(r, k)
    PROVE  /\ m[2] <= PerBlock - 1
           /\ \A s \in 1..(m[2] * SubSize) : kv[m[1]][s] = Prefix(r, k * BlockSize + s)
<1> DEFINE query == SubHashes(r, k + 1, PerBlock - 1, nTok[r])
           depths == {d \in 1..Len(query) : \A i \in 1..d : Holders(query[i]) # {}}
           allowed == (nTok[r] - 1 - k * BlockSize) \div SubSize
           d == Max(depths)
           x == k * BlockSize
<1>1. /\ config \in Configs /\ SubSize \in Nat \ {0} /\ PerBlock \in Nat \ {0, 1} /\ BlockSize \in Nat \ {0}
      /\ nTok[r] \in Nat /\ nTok[r] <= Len(Tokens[r]) /\ Tokens[r] \in Seq(Nat)
  BY ConfigFacts DEF RefInv, Types, ReuseInv, Numbers
<1>2. m[1] \in Block /\ m[2] \in Nat \ {0}
  BY SubMatchFacts DEF RefInv
<1>3. k + 1 \in Nat \ {0} /\ PerBlock - 1 \in 0..PerBlock /\ (k + 1) - 1 = k
  BY <1>1
<1>4. PICK g \in 0..(PerBlock - 1) :
         query = SubChain(r, k + 1, g) /\ (g > 0 => x + g * SubSize <= nTok[r])
  <2>1. \E g \in 0..(PerBlock - 1) :
         query = SubChain(r, k + 1, g) /\ (g > 0 => ((k + 1) - 1) * BlockSize + g * SubSize <= nTok[r])
    BY <1>1, <1>3, SubHashesAre
  <2> QED
    BY <1>3, <2>1
<1>5. depths # {} /\ m \in Holders(query[d]) \X {MinOf(d, allowed)}
  BY DEF SubMatches, Sources
<1>6. g \in Nat /\ g <= PerBlock - 1 /\ Len(query) = g /\ \A i \in 1..g : query[i] = Prefix(r, x + i * SubSize)
  <2>1. g \in Nat /\ g <= PerBlock - 1
    BY <1>1
  <2>2. query = [i \in 1..g |-> Prefix(r, x + i * SubSize)]
    BY <1>3, <1>4 DEF SubChain
  <2> HIDE DEF query, x
  <2> QED
    BY <2>1, <2>2
<1>7. d \in depths
  <2>1. depths \in SUBSET Int /\ (\A e \in depths : e <= g) /\ g \in Int
    <3> HIDE DEF query
    <3> QED
      BY <1>6
  <2> HIDE DEF depths
  <2> QED
    BY <1>5, <2>1, MaxFacts
<1>8. d \in 1..g
  BY <1>6, <1>7
<1> HIDE DEF query, depths, d, allowed
<1>9. m[1] \in Holders(Prefix(r, x + d * SubSize)) /\ m[2] = MinOf(d, allowed)
  BY <1>5, <1>6, <1>8
<1>10. m[2] <= d /\ d \in Nat /\ d <= PerBlock - 1
  <2>1. d \in Nat /\ d <= PerBlock - 1
    BY <1>1, <1>6, <1>8
  <2>2. \A u, v \in Int : (IF u < v THEN u ELSE v) <= u
    OBVIOUS
  <2>3. allowed \in Int
    <3>1. nTok[r] - 1 - k * BlockSize \in Int
      BY <1>1
    <3> QED
      BY <1>1, <3>1, DivFacts DEF allowed
  <2> QED
    BY <1>9, <2>1, <2>2, <2>3 DEF MinOf
<1> DEFINE b == m[1]
           L == Len(lists[b])
<1>11. lists[b] \in Seq(Seq(Nat)) /\ L \in Nat
  BY <1>2 DEF ReuseInv, LooseLists
<1>12. PICK i \in 1..L : lists[b][i] = Prefix(r, x + d * SubSize)
  <2> DEFINE h == Prefix(r, x + d * SubSize)
  <2>1. h \in Range(lists[b])
    BY <1>9 DEF Holders
  <2> HIDE DEF h
  <2>2. \E i \in DOMAIN lists[b] : lists[b][i] = h
    BY <2>1 DEF Range
  <2>3. DOMAIN lists[b] = 1..L
    BY <1>11
  <2> QED
    BY <2>2, <2>3 DEF h
<1>13. lists[b] # <<>>
  <2>1. L # 0 /\ Len(<<>>) = 0
    BY <1>11, EmptySeq
  <2> QED
    BY <2>1
<1>14. PICK q \in Req : \E l \in Nat \ {0} : ListsOf(b, q, l)
  BY <1>2, <1>13, Listed
<1>15. PICK l \in Nat \ {0} : ListsOf(b, q, l)
  BY <1>14
<1> DEFINE y == (l - 1) * BlockSize
<1>16. /\ L <= PerBlock /\ y + L * SubSize <= Len(Tokens[q])
       /\ lists[b][i] = Prefix(q, y + i * SubSize)
       /\ \A s \in 1..(L * SubSize) : kv[b][s] = Prefix(q, y + s)
  BY <1>15 DEF ListsOf
<1>17. L \in 0..PerBlock /\ d \in 0..PerBlock /\ g \in 0..PerBlock
  <2>1. L \in Nat /\ L <= PerBlock
    BY <1>11, <1>16
  <2> HIDE DEF L, x, y
  <2> QED
    BY <1>1, <1>6, <1>10, <2>1
<1>18. /\ y \in Nat /\ L * SubSize \in 0..BlockSize /\ i * SubSize \in 1..(L * SubSize)
  BY <1>1, <1>17, GrainFacts
<1>19. /\ x \in Nat /\ d * SubSize \in 1..(g * SubSize) /\ g * SubSize \in 0..BlockSize
  <2>1. ((k + 1) - 1) * BlockSize \in Nat /\ d * SubSize \in 1..(g * SubSize) /\ g * SubSize \in 0..BlockSize
    BY <1>1, <1>3, <1>8, <1>17, GrainFacts
  <2> QED
    BY <1>3, <2>1
<1>20. Tokens[q] \in Seq(Nat) /\ Len(Tokens[q]) \in Nat /\ Len(Tokens[r]) \in Nat
  BY <1>1, ConfigFacts
<1> DEFINE ds == d * SubSize
           is == i * SubSize
<1>21. /\ x + ds \in 0..Len(Tokens[r]) /\ y + is \in 0..Len(Tokens[q])
       /\ ds \in 1..BlockSize /\ is \in 1..BlockSize
  <2>1. g > 0
    BY <1>6, <1>8
  <2> DEFINE gs == g * SubSize
             Ls == L * SubSize
  <2>2. x + gs <= nTok[r] /\ y + Ls <= Len(Tokens[q]) /\ y \in Nat /\ Ls \in 0..BlockSize
        /\ is \in 1..Ls /\ x \in Nat /\ ds \in 1..gs /\ gs \in 0..BlockSize
    BY <1>4, <1>16, <1>18, <1>19, <2>1
  <2> DEFINE T == Len(Tokens[r])
             U == Len(Tokens[q])
             N == nTok[r]
             B == BlockSize
  <2>3. N \in Nat /\ N <= T /\ T \in Nat /\ U \in Nat /\ B \in Nat
    BY <1>1, <1>20
  <2> HIDE DEF x, y, ds, is, gs, Ls, T, U, N, B
  <2>4. x + gs <= N /\ y + Ls <= U /\ y \in Nat /\ Ls \in 0..B
        /\ is \in 1..Ls /\ x \in Nat /\ ds \in 1..gs /\ gs \in 0..B
    BY <2>2 DEF N, U, B
  <2>5. x + ds \in 0..T /\ y + is \in 0..U /\ ds \in 1..B /\ is \in 1..B
    BY <2>3, <2>4
  <2> QED
    BY <2>5 DEF T, U, B
<1>22. x + ds = y + is /\ \A e \in 0..(x + ds) : Prefix(r, e) = Prefix(q, e)
  <2>1. Prefix(r, x + ds) = Prefix(q, y + is)
    BY <1>12, <1>16
  <2> HIDE DEF x, y, ds, is
  <2> QED
    BY <1>1, <1>21, <2>1, PrefixAgree
<1>23. k = l - 1 /\ x = y /\ ds = is
  <2>1. BlockOf(((k + 1) - 1) * BlockSize + ds) = k + 1 /\ SlotOf(((k + 1) - 1) * BlockSize + ds) = ds
    BY <1>1, <1>3, <1>21, PlaceOf
  <2>2. BlockOf(y + is) = l /\ SlotOf(y + is) = is
    BY <1>1, <1>21, PlaceOf
  <2>3. BlockOf(x + ds) = k + 1 /\ SlotOf(x + ds) = ds
    BY <1>3, <2>1
  <2> HIDE DEF ds, is
  <2> QED
    BY <1>3, <1>22, <2>2, <2>3
<1>24. ASSUME NEW s \in 1..(m[2] * SubSize) PROVE kv[b][s] = Prefix(r, x + s)
  <2>1. m[2] \in Int /\ d \in Int /\ SubSize \in Nat
    BY <1>1, <1>2, <1>10
  <2>2. m[2] * SubSize <= ds /\ m[2] * SubSize \in Int
    BY <1>10, <2>1, MulFacts
  <2> HIDE DEF x, y, ds, is
  <2>3. s \in 1..(L * SubSize) /\ x + s \in 0..(x + ds)
    BY <1>18, <1>19, <1>21, <1>23, <2>2, SMTT(40) DEF ds, is
  <2> QED
    BY <1>16, <1>22, <1>23, <2>3
<1>25. m[2] <= PerBlock - 1
  <2>1. m[2] \in Int /\ PerBlock \in Int
    BY <1>1, <1>2
  <2> QED
    BY <1>10, <2>1
<1> HIDE DEF d
<1> QED
  BY <1>24, <1>25

(* The lookup: its source holds the matched sub-blocks.                      *)
LEMMA TryMatchReuse ==
    ASSUME RefInv, HashInv, Plain, ReuseInv, UNCHANGED config, NEW r \in Req, TryMatch(r)
    PROVE  ReuseInv'
<1> DEFINE k == NumHits(r)
<1>1. CanSchedule /\ UNCHANGED <<status, nTok, nComp, nOut, blocks, hash, lists, note, steps, kv>>
  BY DEF TryMatch, reqVars
<1>2. PICK hits \in [1..k -> Block] :
         \/ match' = [req |-> r, hits |-> hits, src |-> NoBlock, num |-> 0]
         \/ \E m \in SubMatches(r, k) :
              match' = [req |-> r, hits |-> hits, src |-> m[1], num |-> m[2]]
  BY DEF TryMatch
<1>3. k \in Nat /\ k * BlockSize < nTok[r]
  BY HitFacts DEF RefInv
<1> HIDE DEF k
<1>4. hits \in Seq(Block) /\ Len(hits) = k
  BY <1>2, <1>3
<1>5. steps = <<>> /\ config \in Configs
  BY <1>1, PlainFacts DEF CanSchedule
<1>6. PerBlock \in Nat \ {0, 1} /\ SubSize \in Nat
  BY <1>5, ConfigFacts
<1>7. MatchKV'
  <2>1. CASE match' = [req |-> r, hits |-> hits, src |-> NoBlock, num |-> 0]
    <3>1. match'.num = 0 /\ match'.src = NoBlock
      BY <2>1
    <3>2. PerBlock' = PerBlock
      BY ConfigSame
    <3> QED
      BY <1>6, <3>1, <3>2 DEF MatchKV
  <2>2. ASSUME NEW m \in SubMatches(r, k), match' = [req |-> r, hits |-> hits, src |-> m[1], num |-> m[2]]
        PROVE  MatchKV'
    <3>1. match'.num = m[2] /\ match'.src = m[1] /\ match'.req = r /\ match'.hits = hits
      BY <2>2
    <3>2. m[1] \in Block /\ m[1] # NoBlock
      BY <1>3, SubMatchFacts, NamesAssumption DEF RefInv
    <3>3. /\ m[2] <= PerBlock - 1
          /\ \A s \in 1..(m[2] * SubSize) : kv[m[1]][s] = Prefix(r, k * BlockSize + s)
      BY <1>3, SubMatchKV
    <3> QED
      BY <1>1, <1>4, <3>1, <3>2, <3>3, ConfigSame DEF MatchKV
  <2> QED
    BY <1>2, <2>1, <2>2
<1>8. Lockstep'
  BY <1>1, <1>5 DEF ReuseInv, Lockstep
<1>9. \A b \in Block : \A s \in 1..BlockSize : \A v : WillHold(b, s, v) => WillHold(b, s, v)'
  BY <1>1, <1>5 DEF WillHold
<1> QED
  BY <1>1, <1>7, <1>8, <1>9, ReuseSame DEF RefInv, Types
-----------------------------------------------------------------------------
(* schedule(): what it leaves in the cache is right.                         *)

(* What a schedule does without drafts: whole sequences fit, the tables only *)
(* grow, fresh blocks come after the computed tokens, and those are in the   *)
(* cache, or copied there, before the forward pass.                          *)
Served(R, work, fresh, cap, copies) ==
    /\ \A o \in copies : o.dst \in fresh
    /\ \A r \in R :
          /\ cap[r] = work[r].from + work[r].num /\ cap[r] <= nTok[r]
          /\ cap[r] <= Len(blocks'[r]) * BlockSize
          /\ Len(blocks'[r]) * BlockSize < cap[r] + BlockSize
          /\ \A j \in 1..Len(blocks[r]) : j \in 1..Len(blocks'[r]) /\ blocks'[r][j] = blocks[r][j]
          /\ \A j \in 1..Len(blocks'[r]) : blocks'[r][j] \in fresh => j * BlockSize > work[r].from
          /\ \A p \in 1..work[r].from : Staged(copies, blocks'[r][BlockOf(p)], SlotOf(p), Prefix(r, p))

(* schedule() keeps the invariant: what it caches will be computed by the    *)

(* step it makes, what it hands out is taken out of the index, and what it   *)
(* copies is right.                                                          *)
LEMMA ServedReuse ==
    ASSUME RefInv, RefInv', HashInv, Plain, ReuseInv, UNCHANGED config,
           NEW R, NEW work, NEW fresh, NEW cap, NEW copies,
           Schedules(R, work, fresh, cap, copies), Served(R, work, fresh, cap, copies)
    PROVE  ReuseInv'
<1> DEFINE st == [work |-> work, copies |-> copies, ran |-> FALSE, acc |-> [r \in R |-> 0]]
           E == EvictedHash(fresh)
           B == BlockSize
<1>1. /\ R \in SUBSET Req /\ DOMAIN work = R /\ fresh \in SUBSET FreeBlocks /\ fresh \in SUBSET Block
      /\ match' = NoMatch /\ UNCHANGED <<nTok, kv>> /\ steps' = Append(steps, st)
      /\ hash' = Cached(E, R, blocks', cap) /\ lists' = EvictedLists(fresh)
  BY DEF Schedules, FreeBlocks
<1>2. /\ steps = <<>> /\ config \in Configs /\ ~Async /\ BlockSize \in Nat \ {0} /\ BlockSize \in Nat
      /\ SubSize \in Nat /\ PerBlock \in Nat
  BY PlainFacts, ConfigFacts DEF Schedules
<1>3. Len(steps') = 1 /\ steps'[1] = st /\ steps' # <<>> /\ st.work = work /\ st.copies = copies /\ ~st.ran
  <2>1. st.work = work /\ st.copies = copies /\ ~st.ran
    OBVIOUS
  <2> HIDE DEF st
  <2>2. steps' = <<st>>
    BY <1>1, <1>2
  <2> QED
    BY <2>1, <2>2
<1> HIDE DEF st
<1>4. /\ SubSize' = SubSize /\ PerBlock' = PerBlock /\ BlockSize' = BlockSize /\ Tokens' = Tokens
      /\ \A r, p : Prefix(r, p)' = Prefix(r, p)
      /\ \A p : BlockOf(p)' = BlockOf(p) /\ SlotOf(p)' = SlotOf(p)
  BY ConfigSame
<1>5. ASSUME NEW r \in R
      PROVE  /\ status'[r] = "running" /\ work[r].from \in Nat /\ work[r].num \in Nat \ {0}
             /\ work[r].table = blocks'[r] /\ nComp'[r] = cap[r] /\ nOut'[r] = nOut[r]
             /\ note'[r] = ScheduleNote(r, work[r].from)
             /\ cap[r] = work[r].from + work[r].num /\ cap[r] <= nTok[r] /\ cap[r] \in Nat \ {0}
             /\ cap[r] <= Len(blocks'[r]) * BlockSize
             /\ Len(blocks'[r]) * BlockSize < cap[r] + BlockSize
  <2>1. /\ status'[r] = "running" /\ work[r].from \in Nat /\ work[r].num \in Int
        /\ work[r].spec \in 0..MaxSpec /\ work[r].num > work[r].spec
        /\ work[r].table = blocks'[r] /\ nComp'[r] = work[r].from + work[r].num
        /\ nOut'[r] = IF Async /\ work[r].emit THEN nOut[r] + 1 ELSE nOut[r]
        /\ note'[r] = ScheduleNote(r, work[r].from)
    BY DEF Schedules
  <2>2. /\ cap[r] = work[r].from + work[r].num /\ cap[r] <= nTok[r]
        /\ cap[r] <= Len(blocks'[r]) * BlockSize
        /\ Len(blocks'[r]) * BlockSize < cap[r] + BlockSize
    BY DEF Served
  <2>3. MaxSpec \in Nat
    BY <1>2, ConfigFacts
  <2>4. work[r].num \in Nat \ {0} /\ work[r].from + work[r].num \in Nat \ {0}
    BY <2>1, <2>3
  <2> QED
    BY <1>2, <2>1, <2>2, <2>4
<1>6. ASSUME NEW r \in R, NEW j \in 1..Len(blocks'[r]) PROVE NewPlace(r, j, work[r].from, fresh)
  BY DEF Schedules
<1>7. ASSUME NEW q \in Req \ R
      PROVE  /\ blocks'[q] = blocks[q] /\ nComp'[q] = nComp[q]
             /\ nOut'[q] = nOut[q] /\ note'[q] = note[q] /\ status'[q] = status[q]
  BY DEF Schedules
<1>8. ASSUME NEW r \in Req, NEW j \in 1..Len(blocks[r]) PROVE blocks[r][j] \notin fresh
  BY SchedulesPlaces
<1>9. ASSUME NEW r \in Req, NEW j \in 1..Len(blocks'[r])
      PROVE  blocks'[r][j] \in Block /\ j \in Nat \ {0}
  BY SchedulesPlaces
<1>10. ASSUME NEW r \in Req, NEW q \in Req, NEW j \in 1..Len(blocks'[r]), NEW l \in 1..Len(blocks'[q]),
              blocks'[r][j] = blocks'[q][l], E[blocks'[r][j]] = NoHash
       PROVE  r = q /\ j = l
  BY <1>10, SchedulesPlaces
<1>11. ASSUME NEW b \in Block PROVE E[b] = IF b \in fresh THEN NoHash ELSE hash[b]
  BY DEF EvictedHash
<1>12. ASSUME NEW r \in Req
       PROVE  /\ Len(blocks[r]) \in Nat /\ Len(blocks'[r]) \in Nat /\ note[r] = NoNote
              /\ nComp[r] \in Nat /\ nTok[r] \in Nat /\ Len(Tokens[r]) \in Nat /\ nTok[r] <= Len(Tokens[r])
  <2>1. /\ blocks[r] \in Seq(Block) /\ blocks'[r] \in Seq(Block) /\ nComp[r] \in Nat /\ nTok[r] \in Nat
        /\ note[r] = NoNote /\ nTok[r] <= Len(Tokens[r])
    BY <1>2 DEF RefInv, Types, ReuseInv, Lockstep, Numbers, HashInv, Flights
  <2>2. Tokens[r] \in Seq(Nat)
    BY <1>2, ConfigFacts
  <2> QED
    BY <2>1, <2>2
<1>13. ASSUME NEW b, NEW s, NEW v, kv[b][s] = v PROVE WillHold(b, s, v)
  BY <1>2, <1>13 DEF WillHold
<1>14. ASSUME NEW b, NEW s, NEW v, WillHold(b, s, v) PROVE kv[b][s] = v
  BY <1>2, <1>14 DEF WillHold
<1> HIDE DEF E, B
(* The forward pass writes in blocks without a hash, each in one place.      *)
<1>15. ASSUME NEW b, NEW s, NEW r \in Req, NEW p \in Int, Writes(work, b, s, r, p)
       PROVE  /\ r \in R /\ p \in Nat \ {0} /\ p > work[r].from /\ p <= cap[r]
              /\ BlockOf(p) \in 1..Len(blocks'[r]) /\ blocks'[r][BlockOf(p)] = b
              /\ SlotOf(p) = s /\ p = (BlockOf(p) - 1) * BlockSize + s
              /\ b \in Block /\ E[b] = NoHash
  <2>1. /\ r \in R /\ p \in (work[r].from + 1)..(work[r].from + work[r].num)
        /\ work[r].table[BlockOf(p)] = b /\ SlotOf(p) = s
    BY <1>1, <1>15 DEF Writes
  <2>2. p \in Nat \ {0} /\ p > work[r].from /\ p <= cap[r]
    BY <1>5, <2>1
  <2>3. Len(blocks'[r]) \in Nat /\ p <= Len(blocks'[r]) * BlockSize
    <3>1. Len(blocks'[r]) * BlockSize \in Int
      BY <1>2, <1>12
    <3> QED
      BY <1>5, <1>12, <2>1, <2>2, <3>1
  <2> DEFINE j == BlockOf(p)
  <2>4. j \in Nat \ {0} /\ p = (j - 1) * BlockSize + s /\ p <= j * BlockSize /\ j <= Len(blocks'[r])
    BY <1>2, <2>1, <2>2, <2>3, PlaceFacts
  <2>5. j \in 1..Len(blocks'[r]) /\ blocks'[r][j] = b
    BY <1>5, <2>1, <2>3, <2>4
  <2> HIDE DEF j
  <2>6. b \in Block /\ j * BlockSize \in Int /\ j * BlockSize > work[r].from
    <3>1. j * BlockSize \in Int
      BY <1>2, <2>4
    <3> QED
      BY <1>5, <1>9, <2>1, <2>2, <2>4, <2>5, <3>1
  <2>7. E[b] = NoHash
    <3>1. CASE b \in fresh
      BY <1>11, <2>6, <3>1
    <3>2. CASE b \notin fresh /\ j \in 1..Len(blocks[r]) /\ b = blocks[r][j] /\ work[r].from = nComp[r]
      <4>1. ~(j * BlockSize <= nComp[r])
        BY <1>12, <2>6, <3>2
      <4>2. hash[b] = NoHash
        BY <3>2, <4>1 DEF ReuseInv, TableHashes
      <4> QED
        BY <1>11, <2>6, <3>2, <4>2
    <3>3. CASE j * BlockSize <= work[r].from
      BY <1>5, <2>1, <2>6, <3>3
    <3> QED
      BY <1>6, <2>1, <2>5, <3>1, <3>2, <3>3 DEF NewPlace
  <2> QED
    BY <2>1, <2>2, <2>4, <2>5, <2>6, <2>7 DEF j
(* Elsewhere the cache stays what it is.                                     *)
<1>16. ASSUME NEW b \in Block, b \notin fresh, NEW s, NEW v, kv[b][s] = v,
              \A r \in R : \A p \in Int : ~Writes(work, b, s, r, p)
       PROVE  WillHold(b, s, v)'
  <2>1. \A r \in Req : \A p \in Int : ~Writes(work, b, s, r, p)
    BY <1>15, <1>16
  <2>2. \A r \in Req : \A p \in Int : ~(Writes(work, b, s, r, p)')
    BY <1>4, <2>1 DEF Writes
  <2>3. \A o \in copies : ~Copies(o, b, s)
    BY <1>16 DEF Served, Copies
  <2>4. Staged(copies, b, s, v)'
    BY <1>1, <1>16, <2>3 DEF Staged
  <2> QED
    BY <1>3, <2>2, <2>4 DEF WillHold
<1>17. ASSUME NEW b \in Block, E[b] # NoHash, NEW s, NEW v, kv[b][s] = v
       PROVE  WillHold(b, s, v)'
  <2>1. b \notin fresh
    BY <1>11, <1>17
  <2> QED
    BY <1>1, <1>15, <1>16, <1>17, <2>1
<1>18. ASSUME NEW r \in Req \ R, NEW j \in 1..Len(blocks[r]), hash[blocks[r][j]] = NoHash,
              NEW s, NEW v, kv[blocks[r][j]][s] = v
       PROVE  WillHold(blocks[r][j], s, v)'
  <2> DEFINE b == blocks[r][j]
  <2>1. b \notin fresh /\ blocks'[r] = blocks[r] /\ b \in Block
    BY <1>7, <1>8, <1>9
  <2>2. E[b] = NoHash
    BY <1>11, <1>18, <2>1
  <2>3. ASSUME NEW q \in R, NEW p \in Int, Writes(work, b, s, q, p) PROVE FALSE
    <3>1. BlockOf(p) \in 1..Len(blocks'[q]) /\ blocks'[q][BlockOf(p)] = b /\ q \in Req
      BY <1>1, <1>15, <2>3
    <3> QED
      BY <1>10, <2>1, <2>2, <3>1
  <2>5. ASSUME NEW x, x = b PROVE WillHold(x, s, v)'
    BY <1>16, <1>18, <2>1, <2>3, <2>5
  <2>6. blocks'[r][j] = b
    BY <2>1
  <2> HIDE DEF b
  <2> QED
    BY <2>5, <2>6 DEF b
(* The scheduled requests have all they count as computed.                   *)
<1>19. ASSUME NEW r \in R, NEW j \in 1..Len(blocks'[r]), NEW s \in 1..BlockSize,
              (j - 1) * BlockSize + s <= cap[r], NEW b, b = blocks'[r][j], NEW v,
              v = Prefix(r, (j - 1) * BlockSize + s)
       PROVE  WillHold(b, s, v)'
  <2> DEFINE p == (j - 1) * BlockSize + s
  <2>1. j \in Nat \ {0} /\ b \in Block /\ r \in Req
    BY <1>1, <1>9, <1>19
  <2>2. p \in Nat \ {0} /\ BlockOf(p) = j /\ SlotOf(p) = s
    BY <1>2, <2>1, PlaceOf
  <2>3. p <= cap[r] /\ v = Prefix(r, p)
    BY <1>19
  <2> HIDE DEF p
  <2>4. p > work[r].from => Writes(work, b, s, r, p)
    <3>1. p > work[r].from => p \in (work[r].from + 1)..(work[r].from + work[r].num)
      BY <1>5, <2>2, <2>3
    <3>2. work[r].table[BlockOf(p)] = b
      BY <1>5, <1>19, <2>2
    <3> QED
      BY <1>1, <2>2, <3>1, <3>2 DEF Writes
  <2>5. ASSUME NEW q \in Req, NEW x \in Int, Writes(work, b, s, q, x) PROVE q = r /\ x = p
    <3>1. /\ BlockOf(x) \in 1..Len(blocks'[q]) /\ blocks'[q][BlockOf(x)] = b /\ E[b] = NoHash
          /\ x = (BlockOf(x) - 1) * BlockSize + s
      BY <1>15, <2>5
    <3>2. q = r /\ BlockOf(x) = j
      BY <1>10, <1>19, <2>1, <3>1
    <3> QED
      BY <3>1, <3>2 DEF p
  <2>6. \A q \in Req : \A x \in Int : Writes(work, b, s, q, x)' <=> Writes(work, b, s, q, x)
    BY <1>4 DEF Writes
  <2>7. CASE \E q \in Req : \E x \in Int : Writes(work, b, s, q, x)
    <3>1. Writes(work, b, s, r, p)
      BY <2>5, <2>7
    <3>2. ASSUME NEW x \in Int, x = p PROVE WillHold(b, s, v)'
      <4>1. Writes(work, b, s, r, x)'
        BY <2>1, <2>6, <3>1, <3>2
      <4>2. Prefix(r, x)' = v
        BY <1>4, <2>3, <3>2
      <4>3. \A q \in Req : \A y \in Int : Writes(work, b, s, q, y)' => Prefix(q, y)' = v
        BY <1>4, <2>3, <2>5, <2>6
      <4> QED
        BY <1>3, <2>1, <4>1, <4>2, <4>3 DEF WillHold
    <3>3. p \in Int
      BY <2>2
    <3> QED
      BY <3>2, <3>3
  <2>8. CASE ~ \E q \in Req : \E x \in Int : Writes(work, b, s, q, x)
    <3>1. p \in 1..work[r].from
      BY <1>5, <2>1, <2>2, <2>4, <2>8
    <3>2. Staged(copies, b, s, v)
      BY <1>19, <2>2, <2>3, <3>1 DEF Served
    <3>3. Staged(copies, b, s, v)'
      BY <1>1, <3>2 DEF Staged
    <3> QED
      BY <1>3, <2>6, <2>8, <3>3 DEF WillHold
  <2> QED
    BY <2>7, <2>8
(* The index: a fresh block's list is dropped, the others stay.              *)
<1>20. ASSUME NEW b \in Block PROVE lists'[b] = IF b \in fresh THEN <<>> ELSE lists[b]
  <2>1. lists'[b] = IF b \in fresh /\ hash[b] # NoHash THEN <<>> ELSE lists[b]
    BY <1>1 DEF EvictedLists
  <2>2. b \in fresh /\ hash[b] = NoHash => lists[b] = <<>>
    BY <1>8 DEF ReuseInv, LooseLists
  <2> QED
    BY <2>1, <2>2
<1>21. ASSUME NEW b \in Block
       PROVE  /\ Len(lists[b]) \in Nat
              /\ Len(lists[b]) <= PerBlock =>
                    /\ Len(lists[b]) * SubSize \in 0..BlockSize
                    /\ \A s \in 1..(Len(lists[b]) * SubSize) : s \in 1..BlockSize
  <2>1. lists[b] \in Seq(Seq(Nat))
    BY DEF ReuseInv, LooseLists
  <2>2. Len(lists[b]) \in Nat
    BY <2>1
  <2>3. ASSUME Len(lists[b]) <= PerBlock PROVE Len(lists[b]) * SubSize \in 0..BlockSize
    <3>1. 1 \in Nat \ {0} /\ Len(lists[b]) \in 0..PerBlock
      BY <1>2, <2>2, <2>3
    <3> QED
      BY <1>2, <3>1, GrainFacts
  <2> QED
    BY <1>2, <2>2, <2>3
<1>22. ASSUME NEW b \in Block, b \notin fresh, NEW r \in Req, NEW j, ListsOf(b, r, j),
              \A s \in 1..(Len(lists[b]) * SubSize) : \A v :
                 v = Prefix(r, (j - 1) * BlockSize + s) => WillHold(b, s, v)'
       PROVE  ListsOf(b, r, j)'
  <2>1. lists'[b] = lists[b] /\ kv' = kv
    BY <1>1, <1>20, <1>22
  <2> QED
    BY <1>4, <1>22, <2>1 DEF ListsOf
<1>23. ASSUME NEW b \in Block, E[b] # NoHash, NEW r \in Req, NEW j, ListsOf(b, r, j)
       PROVE  ListsOf(b, r, j)'
  <2>1. b \notin fresh
    BY <1>11, <1>23
  <2>2. ASSUME NEW s \in 1..(Len(lists[b]) * SubSize), NEW v, v = Prefix(r, (j - 1) * BlockSize + s)
        PROVE  WillHold(b, s, v)'
    <3>1. kv[b][s] = v
      BY <1>23, <2>2 DEF ListsOf
    <3> QED
      BY <1>17, <1>23, <3>1
  <2> QED
    BY <1>22, <1>23, <2>1, <2>2
(* A block still or again without a hash is open: its place is not whole     *)
(* before the step, and what is indexed of it is computed.                   *)
<1>24. ASSUME NEW r \in R, NEW j \in 1..Len(blocks'[r]), E[blocks'[r][j]] = NoHash
       PROVE  /\ j * BlockSize > work[r].from
              /\ blocks'[r][j] \notin fresh =>
                    /\ j \in 1..Len(blocks[r]) /\ blocks'[r][j] = blocks[r][j]
                    /\ hash[blocks[r][j]] = NoHash /\ work[r].from = nComp[r]
  <2>1. r \in Req /\ blocks'[r][j] \in Block /\ j * BlockSize \in Int /\ nComp[r] \in Nat
    <3>1. r \in Req
      BY <1>1
    <3>2. j \in Nat
      BY <1>9, <3>1
    <3> QED
      BY <1>2, <1>9, <1>12, <3>1, <3>2
  <2>2. CASE blocks'[r][j] \in fresh
    BY <2>2 DEF Served
  <2>3. CASE blocks'[r][j] \notin fresh
    <3>1. hash[blocks'[r][j]] = NoHash
      BY <1>11, <1>24, <2>1, <2>3
    <3>2. j \in 1..Len(blocks[r]) /\ blocks'[r][j] = blocks[r][j] /\ work[r].from = nComp[r]
      BY <1>6, <2>3, <3>1, FullIsHash DEF NewPlace
    <3>3. ~(j * BlockSize <= nComp[r])
      BY <2>1, <3>1, <3>2, FullIsHash DEF ReuseInv, TableHashes
    <3> QED
      BY <2>1, <3>1, <3>2, <3>3
  <2> QED
    BY <2>2, <2>3
<1>25. ASSUME NEW r \in R, NEW j \in 1..Len(blocks'[r]), NEW b, b = blocks'[r][j], E[b] = NoHash
       PROVE  /\ ListsOf(b, r, j)' /\ Len(lists'[b]) \in Nat
              /\ (j - 1) * BlockSize + Len(lists'[b]) * SubSize <= cap[r]
  <2>1. r \in Req /\ b \in Block /\ j \in Nat \ {0} /\ j <= Len(blocks'[r])
    BY <1>1, <1>9, <1>12, <1>25
  <2>2. (j - 1) * BlockSize \in Nat /\ (j - 1) * BlockSize < cap[r]
    <3> DEFINE n == Len(blocks'[r])
               B1 == BlockSize
    <3>1. n \in Nat /\ B1 \in Nat /\ n * B1 < cap[r] + B1 /\ cap[r] \in Nat /\ j - 1 \in Nat /\ j - 1 <= n - 1
      BY <1>2, <1>5, <1>12, <2>1
    <3> HIDE DEF n, B1
    <3>2. (n - 1) * B1 = n * B1 - B1 /\ n * B1 \in Int /\ n - 1 \in Int
      BY <3>1, MulFacts
    <3>3. (j - 1) * B1 <= (n - 1) * B1 /\ (j - 1) * B1 \in Int /\ (j - 1) * B1 >= 0
      <4>1. j - 1 \in Int /\ j - 1 >= 0
        BY <3>1
      <4> DEFINE k == j - 1
                 m == n - 1
      <4>2. k \in Int /\ m \in Int /\ k <= m /\ k >= 0
        BY <3>1, <3>2
      <4> HIDE DEF k, m
      <4>3. k * B1 <= m * B1 /\ k * B1 \in Int /\ k * B1 >= 0
        BY <3>1, <4>2, MulFacts
      <4> QED
        BY <4>3 DEF k, m
    <3> DEFINE x == (j - 1) * B1
               y == n * B1
               z == (n - 1) * B1
    <3>4. x \in Int /\ x >= 0 /\ x <= z /\ z = y - B1 /\ y < cap[r] + B1 /\ y \in Int
      BY <3>1, <3>2, <3>3
    <3> HIDE DEF x, y, z
    <3>5. x \in Nat /\ x < cap[r]
      BY <3>1, <3>4
    <3> QED
      BY <3>5 DEF x, B1
  <2>3. cap[r] <= Len(Tokens[r]) /\ cap[r] \in Nat /\ Len(Tokens[r]) \in Nat
    <3>1. nTok[r] \in Nat /\ Len(Tokens[r]) \in Nat /\ nTok[r] <= Len(Tokens[r]) /\ cap[r] \in Nat /\ cap[r] <= nTok[r]
      BY <1>5, <1>12, <2>1
    <3> QED
      BY <3>1
  <2>4. CASE b \in fresh
    <3>1. lists'[b] = <<>> /\ Len(lists'[b]) = 0
      BY <1>20, <2>1, <2>4
    <3>2. Len(lists'[b]) * SubSize = 0
      BY <1>2, <3>1
    <3>3. (j - 1) * BlockSize + 0 <= Len(Tokens[r]) /\ (j - 1) * BlockSize + 0 <= cap[r]
      BY <2>2, <2>3
    <3>4. 0 <= PerBlock
      BY <1>2
    <3>5. 1..0 = {}
      OBVIOUS
    <3> QED
      BY <1>4, <3>1, <3>2, <3>3, <3>4, <3>5 DEF ListsOf
  <2>5. CASE b \notin fresh
    <3>1. j \in 1..Len(blocks[r]) /\ b = blocks[r][j] /\ hash[b] = NoHash /\ work[r].from = nComp[r]
      BY <1>24, <1>25, <2>5
    <3>2. ListsOf(b, r, j) /\ (j - 1) * BlockSize + Len(lists[b]) * SubSize <= nComp[r]
      BY <2>1, <3>1 DEF ReuseInv, OpenLists
    <3>3. /\ Len(lists[b]) \in Nat /\ Len(lists[b]) * SubSize \in 0..BlockSize
          /\ \A s \in 1..(Len(lists[b]) * SubSize) : s \in 1..BlockSize
      BY <1>21, <2>1, <3>2 DEF ListsOf
    <3> DEFINE x == (j - 1) * BlockSize
               m == Len(lists[b]) * SubSize
    <3>4. x \in Nat /\ m \in Nat /\ x + m <= cap[r]
      <4>1. x \in Nat /\ m \in Nat /\ x + m <= nComp[r] /\ nComp[r] \in Nat
        BY <1>2, <1>12, <2>1, <2>2, <3>2, <3>3
      <4>2. nComp[r] <= cap[r]
        BY <1>5, <3>1
      <4> HIDE DEF x, m
      <4> QED
        BY <2>3, <4>1, <4>2
    <3>5. ASSUME NEW s \in 1..m, NEW v, v = Prefix(r, x + s) PROVE WillHold(b, s, v)'
      <4>1. s \in 1..BlockSize
        BY <3>3
      <4>2. x + s <= cap[r]
        <5> HIDE DEF x, m
        <5> QED
          BY <2>3, <3>4
      <4> QED
        BY <1>19, <1>25, <3>5, <4>1, <4>2
    <3>6. ListsOf(b, r, j)'
      BY <1>22, <2>1, <2>5, <3>2, <3>5
    <3>7. lists'[b] = lists[b]
      BY <1>20, <2>1, <2>5
    <3> QED
      BY <3>3, <3>4, <3>6, <3>7
  <2> QED
    BY <2>4, <2>5
(* The hashes.                                                               *)
<1>26. ASSUME NEW b \in Block
       PROVE  /\ E[b] # NoHash => hash'[b] = E[b] /\ hash'[b] = hash[b] /\ b \notin fresh
              /\ E[b] = NoHash =>
                   \/ /\ hash'[b] = NoHash
                      /\ \A r \in R : \A j \in 1..Len(blocks'[r]) :
                           blocks'[r][j] = b => ~(j * BlockSize <= cap[r])
                   \/ \E r \in R : \E j \in 1..Len(blocks'[r]) :
                        /\ blocks'[r][j] = b /\ j * BlockSize <= cap[r]
                        /\ hash'[b] = <<"full", Prefix(r, j * BlockSize)>>
  BY <1>1, <1>11, CachedIs
<1>27. Lockstep' /\ MatchKV'
  <2>1. \A r \in Req : nOut'[r] = 0
    BY <1>5, <1>7 DEF ReuseInv, Lockstep
  <2> QED
    BY <1>1, <1>3, <2>1 DEF Lockstep, MatchKV
<1>28. Numbers'
  <2> SUFFICES ASSUME NEW r \in Req
               PROVE  /\ nTok'[r] <= Len(Tokens'[r])
                      /\ status'[r] # "done" => nTok'[r] < Len(Tokens'[r])
                      /\ status'[r] = "running" =>
                          /\ nComp'[r] \in 1..nTok'[r]
                          /\ nComp'[r] <= Len(blocks'[r]) * BlockSize'
                          /\ Len(blocks'[r]) * BlockSize' < nComp'[r] + BlockSize'
    BY DEF Numbers
  <2>1. CASE r \in R
    <3>1. status[r] # "done"
      BY <2>1 DEF Schedules
    <3>2. nTok[r] <= Len(Tokens[r]) /\ nTok[r] < Len(Tokens[r])
      BY <3>1 DEF ReuseInv, Numbers
    <3>3. cap[r] \in 1..nTok[r]
      <4>1. cap[r] \in Nat \ {0} /\ cap[r] <= nTok[r] /\ nTok[r] \in Nat
        BY <1>5, <1>12, <2>1
      <4> QED
        BY <4>1
    <3>4. nComp'[r] = cap[r] /\ cap[r] <= Len(blocks'[r]) * BlockSize /\ Len(blocks'[r]) * BlockSize < cap[r] + BlockSize
      BY <1>5, <2>1
    <3> QED
      BY <1>1, <1>4, <3>2, <3>3, <3>4
  <2>2. CASE r \notin R
    BY <1>1, <1>4, <1>7, <2>2 DEF ReuseInv, Numbers
  <2> QED
    BY <2>1, <2>2
<1>29. TableHashes'
  <2> SUFFICES ASSUME NEW r \in Req, NEW j \in 1..Len(blocks'[r]), NEW b, b = blocks'[r][j]
               PROVE  hash'[b] = IF j * BlockSize <= nComp'[r]
                                 THEN <<"full", Prefix(r, j * BlockSize)>> ELSE NoHash
    BY <1>4 DEF TableHashes
  <2>1. b \in Block /\ j \in Nat \ {0} /\ j * BlockSize \in Int
    BY <1>2, <1>9
  <2>2. CASE r \in R
    <3>1. /\ nComp'[r] = cap[r] /\ cap[r] \in Nat /\ work[r].from \in Nat /\ work[r].from <= cap[r]
      BY <1>5, <2>2
    <3>2. CASE E[b] = NoHash
      <4>1. CASE hash'[b] = NoHash /\ ~(j * BlockSize <= cap[r])
        BY <3>1, <4>1
      <4>2. CASE \E q \in R : \E l \in 1..Len(blocks'[q]) :
                    /\ blocks'[q][l] = b /\ l * BlockSize <= cap[q]
                    /\ hash'[b] = <<"full", Prefix(q, l * BlockSize)>>
        <5>1. PICK q \in R : \E l \in 1..Len(blocks'[q]) :
                    /\ blocks'[q][l] = b /\ l * BlockSize <= cap[q]
                    /\ hash'[b] = <<"full", Prefix(q, l * BlockSize)>>
          BY <4>2
        <5>2. PICK l \in 1..Len(blocks'[q]) :
                    /\ blocks'[q][l] = b /\ l * BlockSize <= cap[q]
                    /\ hash'[b] = <<"full", Prefix(q, l * BlockSize)>>
          BY <5>1
        <5>3. r = q /\ j = l
          BY <1>1, <1>10, <3>2, <5>2
        <5> QED
          BY <3>1, <5>2, <5>3
      <4> QED
        BY <1>26, <2>1, <2>2, <3>2, <4>1, <4>2
    <3>3. CASE E[b] # NoHash
      <4>1. b \notin fresh /\ hash'[b] = hash[b] /\ hash[b] # NoHash
        BY <1>26, <2>1, <3>3
      <4>2. CASE j \in 1..Len(blocks[r]) /\ b = blocks[r][j] /\ work[r].from = nComp[r]
        <5>1. hash[b] = IF j * BlockSize <= nComp[r] THEN <<"full", Prefix(r, j * BlockSize)>> ELSE NoHash
          BY <4>2 DEF ReuseInv, TableHashes
        <5>2. j * BlockSize <= work[r].from
          BY <4>1, <4>2, <5>1
        <5>3. j * BlockSize <= cap[r]
          BY <2>1, <3>1, <5>2
        <5> QED
          BY <3>1, <4>1, <4>2, <5>1, <5>2, <5>3
      <4>3. CASE hash[b] = <<"full", Prefix(r, j * BlockSize)>> /\ j * BlockSize <= work[r].from
        <5>1. j * BlockSize <= cap[r]
          BY <2>1, <3>1, <4>3
        <5> QED
          BY <3>1, <4>1, <4>3, <5>1
      <4> QED
        BY <1>6, <2>2, <4>1, <4>2, <4>3 DEF NewPlace
    <3> QED
      BY <3>2, <3>3
  <2>3. CASE r \notin R
    <3>1. /\ blocks'[r] = blocks[r] /\ nComp'[r] = nComp[r] /\ b = blocks[r][j] /\ j \in 1..Len(blocks[r])
          /\ b \notin fresh
      BY <1>7, <1>8, <2>3
    <3>2. hash[b] = IF j * BlockSize <= nComp[r] THEN <<"full", Prefix(r, j * BlockSize)>> ELSE NoHash
      BY <3>1 DEF ReuseInv, TableHashes
    <3>3. E[b] = hash[b]
      BY <1>11, <2>1, <3>1
    <3>4. hash'[b] = hash[b]
      <4>1. CASE E[b] # NoHash
        BY <1>26, <2>1, <4>1
      <4>2. CASE E[b] = NoHash
        <5>1. ASSUME NEW q \in R, NEW l \in 1..Len(blocks'[q]), blocks'[q][l] = b PROVE FALSE
          BY <1>1, <1>10, <2>3, <4>2, <5>1
        <5> QED
          BY <1>26, <2>1, <3>3, <4>2, <5>1
      <4> QED
        BY <4>1, <4>2
    <3> QED
      BY <3>1, <3>2, <3>4
  <2> QED
    BY <2>2, <2>3
<1>30. Hashed'
  <2> SUFFICES ASSUME NEW b \in Block, hash'[b] # NoHash
               PROVE  \E r \in Req : \E j \in Nat \ {0} :
                        ListsOf(b, r, j)' /\ (Whole(b, r, j)' \/ hash'[b][1] = "partial")
    BY DEF Hashed
  <2>1. CASE E[b] # NoHash
    <3>1. hash'[b] = hash[b] /\ hash[b] # NoHash
      BY <1>26, <2>1
    <3>2. PICK r \in Req, j \in Nat \ {0} : ListsOf(b, r, j) /\ (Whole(b, r, j) \/ hash[b][1] = "partial")
      BY <3>1 DEF ReuseInv, Hashed
    <3>3. ListsOf(b, r, j)'
      BY <1>23, <2>1, <3>2
    <3>4. ASSUME Whole(b, r, j) PROVE Whole(b, r, j)'
      <4>1. ASSUME NEW s \in 1..BlockSize, NEW v, v = Prefix(r, (j - 1) * BlockSize + s) PROVE WillHold(b, s, v)'
        <5>1. kv[b][s] = v
          BY <1>14, <3>4, <4>1 DEF Whole
        <5> QED
          BY <1>17, <2>1, <5>1
      <4> QED
        BY <1>4, <3>1, <3>4, <4>1 DEF Whole
    <3> QED
      BY <3>1, <3>2, <3>3, <3>4
  <2>2. CASE E[b] = NoHash
    <3>0. PICK r \in R : \E j \in 1..Len(blocks'[r]) :
                        /\ blocks'[r][j] = b /\ j * BlockSize <= cap[r]
                        /\ hash'[b] = <<"full", Prefix(r, j * BlockSize)>>
      BY <1>26, <2>2
    <3>1. PICK j \in 1..Len(blocks'[r]) :
                        /\ blocks'[r][j] = b /\ j * BlockSize <= cap[r]
                        /\ hash'[b] = <<"full", Prefix(r, j * BlockSize)>>
      BY <3>0
    <3>2. r \in Req /\ j \in Nat \ {0} /\ ListsOf(b, r, j)'
      BY <1>1, <1>9, <1>25, <2>2, <3>1
    <3>3. /\ j * BlockSize \in Int /\ cap[r] \in Nat /\ j * BlockSize = (j - 1) * BlockSize + BlockSize
          /\ (j - 1) * BlockSize \in Nat
      <4>1. 0 \in 0..PerBlock
        BY <1>2
      <4> QED
        BY <1>2, <1>5, <3>2, <4>1, GrainFacts
    <3>4. j * BlockSize <= Len(Tokens[r])
      <4>1. cap[r] <= nTok[r] /\ nTok[r] \in Nat /\ Len(Tokens[r]) \in Nat /\ nTok[r] <= Len(Tokens[r])
        BY <1>5, <1>12, <3>2
      <4> QED
        BY <3>1, <3>3, <4>1
    <3>5. ASSUME NEW s \in 1..BlockSize, NEW v, v = Prefix(r, (j - 1) * BlockSize + s) PROVE WillHold(b, s, v)'
      <4>1. (j - 1) * BlockSize + s <= cap[r]
        <5> DEFINE x == (j - 1) * BlockSize
                   y == j * BlockSize
        <5>1. x \in Nat /\ y = x + BlockSize /\ y <= cap[r] /\ BlockSize \in Nat /\ cap[r] \in Nat
          BY <1>2, <3>1, <3>3
        <5> HIDE DEF x, y
        <5>2. x + s <= cap[r]
          BY <5>1
        <5> QED
          BY <5>2 DEF x
      <4> QED
        BY <1>19, <3>1, <3>5, <4>1
    <3>6. Whole(b, r, j)'
      BY <1>4, <3>1, <3>4, <3>5 DEF Whole
    <3> QED
      BY <3>2, <3>6
  <2> QED
    BY <2>1, <2>2
<1>31. OpenLists'
  <2> SUFFICES ASSUME NEW r \in Req, NEW j \in 1..Len(blocks'[r]), NEW b, b = blocks'[r][j], hash'[b] = NoHash
               PROVE  /\ ListsOf(b, r, j)'
                      /\ (j - 1) * BlockSize + Len(lists'[b]) * SubSize <= nComp'[r]
    BY <1>4 DEF OpenLists
  <2>1. b \in Block /\ E[b] = NoHash
    BY <1>9, <1>26
  <2>2. CASE r \in R
    BY <1>5, <1>25, <2>1, <2>2
  <2>3. CASE r \notin R
    <3>1. /\ blocks'[r] = blocks[r] /\ nComp'[r] = nComp[r] /\ b = blocks[r][j] /\ j \in 1..Len(blocks[r])
          /\ b \notin fresh /\ r \in Req \ R
      BY <1>7, <1>8, <2>3
    <3>2. hash[b] = NoHash /\ lists'[b] = lists[b]
      BY <1>11, <1>20, <2>1, <3>1
    <3>3. ListsOf(b, r, j) /\ (j - 1) * BlockSize + Len(lists[b]) * SubSize <= nComp[r]
      BY <3>1, <3>2 DEF ReuseInv, OpenLists
    <3>4. ASSUME NEW s \in 1..(Len(lists[b]) * SubSize), NEW v, v = Prefix(r, (j - 1) * BlockSize + s)
          PROVE  WillHold(b, s, v)'
      <4>1. kv[b][s] = v
        BY <3>3, <3>4 DEF ListsOf
      <4>2. WillHold(blocks[r][j], s, v)'
        BY <1>18, <3>1, <3>2, <4>1
      <4>3. blocks'[r][j] = b
        BY <3>1
      <4> QED
        BY <4>2, <4>3
    <3> QED
      BY <1>22, <2>1, <3>1, <3>2, <3>3, <3>4
  <2> QED
    BY <2>2, <2>3
<1>32. LooseLists'
  <2>1. lists' \in [Block -> Seq(Seq(Nat))]
    <3>1. lists \in [Block -> Seq(Seq(Nat))] /\ <<>> \in Seq(Seq(Nat))
      BY DEF ReuseInv, LooseLists
    <3> QED
      BY <1>1, <3>1 DEF EvictedLists
  <2>2. ASSUME NEW b \in Block, hash'[b] = NoHash, lists'[b] # <<>>
        PROVE  \E r \in Req : \E j \in 1..Len(blocks'[r]) : blocks'[r][j] = b
    <3>1. E[b] = NoHash /\ b \notin fresh /\ lists[b] # <<>>
      BY <1>20, <1>26, <2>2
    <3>2. hash[b] = NoHash
      BY <1>11, <3>1
    <3>3. PICK r \in Req : \E j \in 1..Len(blocks[r]) : blocks[r][j] = b
      BY <3>1, <3>2 DEF ReuseInv, LooseLists
    <3>4. PICK j \in 1..Len(blocks[r]) : blocks[r][j] = b
      BY <3>3
    <3>5. CASE r \in R
      BY <3>4, <3>5 DEF Served
    <3>6. CASE r \notin R
      BY <1>7, <3>4, <3>6
    <3> QED
      BY <3>5, <3>6
  <2> QED
    BY <2>1, <2>2 DEF LooseLists
<1>33. NoteCovers'
  <2> SUFFICES ASSUME NEW b \in Block, hash'[b][1] = "full"
               PROVE  \/ Len(lists'[b]) = PerBlock
                      \/ \E r \in Req : \E j \in 1..Len(blocks'[r]) :
                           blocks'[r][j] = b /\ note'[r] # NoNote /\ note'[r] < j
    <3>1. ASSUME NEW r \in Req PROVE note'[r] = NoNote \/ note'[r] \in Nat
      <4>1. CASE r \in R
        <5>1. note'[r] = work[r].from \div BlockSize /\ work[r].from \in Nat
          BY <1>5, <1>12, <4>1 DEF ScheduleNote
        <5> DEFINE f == work[r].from
                   B1 == BlockSize
        <5>2. f \in Int /\ B1 \in Nat \ {0} /\ 0 * B1 <= f /\ 0 \in Int
          BY <1>2, <5>1
        <5> HIDE DEF f, B1
        <5>3. f \div B1 \in Int /\ 0 <= f \div B1
          BY <5>2, DivFacts, DivBounds
        <5> QED
          BY <5>1, <5>3 DEF f, B1
      <4>2. CASE r \notin R
        BY <1>7, <1>12, <4>2
      <4> QED
        BY <4>1, <4>2
    <3> QED
      BY <1>4, <3>1 DEF NoteCovers
  <2>1. CASE E[b] # NoHash
    <3>1. hash'[b] = hash[b] /\ lists'[b] = lists[b]
      BY <1>20, <1>26, <2>1
    <3> QED
      BY <1>12, <3>1 DEF ReuseInv, NoteCovers
  <2>2. CASE E[b] = NoHash
    <3>0. hash'[b] # NoHash
      BY DEF NoHash
    <3>1. PICK r \in R : \E j \in 1..Len(blocks'[r]) : blocks'[r][j] = b
      BY <1>26, <2>2, <3>0
    <3>2. PICK j \in 1..Len(blocks'[r]) : blocks'[r][j] = b
      BY <3>1
    <3>3. r \in Req /\ j \in Int /\ work[r].from \in Nat /\ j * BlockSize > work[r].from
      BY <1>1, <1>5, <1>9, <1>24, <2>2, <3>2
    <3>4. note'[r] = work[r].from \div BlockSize
      BY <1>5, <1>12, <3>3 DEF ScheduleNote
    <3> DEFINE f == work[r].from
               d == f \div BlockSize
    <3>5. d \in Int /\ d >= 0 /\ d < j
      <4> DEFINE B1 == BlockSize
      <4>1. f \in Int /\ B1 \in Nat \ {0} /\ f < j * B1 /\ 0 * B1 <= f /\ 0 \in Int
        <5>1. j * B1 \in Int
          BY <1>2, <3>3
        <5> QED
          BY <1>2, <3>3, <5>1
      <4> HIDE DEF f, B1
      <4>2. f \div B1 \in Int /\ 0 <= f \div B1 /\ f \div B1 < j
        BY <3>3, <4>1, DivFacts, DivBounds
      <4> QED
        BY <4>2 DEF B1
    <3> HIDE DEF d
    <3>6. d # NoNote
      BY <3>5 DEF NoNote
    <3> QED
      BY <3>2, <3>3, <3>4, <3>5, <3>6 DEF d
  <2> QED
    BY <2>1, <2>2
<1>34. OwnKV'
  <2> SUFFICES ASSUME NEW r \in Req, status'[r] = "running", NEW p \in 1..nComp'[r],
                      NEW b, b = blocks'[r][BlockOf(p)], NEW s, s = SlotOf(p), NEW v, v = Prefix(r, p)
               PROVE  WillHold(b, s, v)'
    <3>1. ASSUME NEW r \in Running', NEW p \in 1..nComp'[r]
          PROVE  WillHold(blocks[r][BlockOf(p)], SlotOf(p), Prefix(r, p))'
      <4>1. r \in Req /\ status'[r] = "running"
        BY DEF Running
      <4>2. /\ blocks'[r][BlockOf(p)'] = blocks'[r][BlockOf(p)] /\ SlotOf(p)' = SlotOf(p)
            /\ Prefix(r, p)' = Prefix(r, p)
        BY <1>4
      <4> QED
        BY <4>1, <4>2
    <3> QED
      BY <3>1 DEF OwnKV
  <2>1. /\ nComp'[r] \in Nat /\ nComp'[r] <= Len(blocks'[r]) * BlockSize /\ Len(blocks'[r]) \in Nat
        /\ Len(blocks'[r]) * BlockSize \in Nat
    BY <1>2, <1>4, <1>5, <1>7, <1>12, <1>28 DEF Numbers
  <2>2. p \in Nat \ {0} /\ p <= nComp'[r]
    BY <2>1
  <2>3. p <= Len(blocks'[r]) * BlockSize
    BY <2>1, <2>2
  <2>0. /\ BlockOf(p) \in Nat \ {0} /\ BlockOf(p) <= Len(blocks'[r])
        /\ SlotOf(p) \in 1..BlockSize /\ p = (BlockOf(p) - 1) * BlockSize + SlotOf(p)
    BY <1>2, <2>1, <2>2, <2>3, PlaceFacts
  <2>7. PICK j \in Nat \ {0} : j = BlockOf(p)
    BY <2>0
  <2>4. j \in 1..Len(blocks'[r]) /\ s \in 1..BlockSize /\ p = (j - 1) * BlockSize + s /\ b = blocks'[r][j]
    BY <2>0, <2>1, <2>7
  <2>5. CASE r \in R
    <3>1. (j - 1) * BlockSize + s <= cap[r] /\ v = Prefix(r, (j - 1) * BlockSize + s)
      BY <1>5, <2>2, <2>4, <2>5
    <3> QED
      BY <1>19, <2>4, <2>5, <3>1
  <2>6. CASE r \notin R
    <3>1. /\ blocks'[r] = blocks[r] /\ nComp'[r] = nComp[r] /\ status[r] = "running"
          /\ b = blocks[r][j] /\ j \in 1..Len(blocks[r]) /\ b \notin fresh /\ r \in Req \ R /\ b \in Block
      BY <1>7, <1>8, <1>9, <2>4, <2>6
    <3>2. WillHold(b, s, v)
      BY <3>1 DEF ReuseInv, OwnKV, Running
    <3>3. kv[b][s] = v
      BY <1>14, <3>2
    <3>4. CASE hash[b] = NoHash
      <4>1. WillHold(blocks[r][j], s, v)'
        BY <1>18, <3>1, <3>3, <3>4
      <4>2. blocks'[r][j] = b
        BY <3>1
      <4> QED
        BY <4>1, <4>2
    <3>5. CASE hash[b] # NoHash
      BY <1>11, <1>17, <3>1, <3>3, <3>5
    <3> QED
      BY <3>4, <3>5
  <2> QED
    BY <2>5, <2>6
<1> QED
  BY <1>27, <1>28, <1>29, <1>30, <1>31, <1>32, <1>33, <1>34 DEF ReuseInv

(* The blocks a number of tokens takes: room for them, none to spare.        *)
LEMMA CeilFacts ==
    ASSUME NEW a \in Nat, NEW b \in Nat \ {0}
    PROVE  CeilDiv(a, b) \in Int /\ a <= CeilDiv(a, b) * b /\ CeilDiv(a, b) * b < a + b
<1> DEFINE x == a + b - 1
           d == x \div b
<1>1. x \in Int /\ b \in Int
  OBVIOUS
<1> HIDE DEF x
<1>2. d \in Int /\ d * b <= x /\ x < d * b + b
  BY <1>1, DivFacts
<1> HIDE DEF d
<1>3. d * b \in Int
  BY <1>1, <1>2
<1> DEFINE y == d * b
<1>4. y \in Int /\ y <= x /\ x < y + b
  BY <1>2, <1>3
<1> HIDE DEF y
<1>5. a <= y /\ y < a + b
  BY <1>4 DEF x
<1>6. CeilDiv(a, b) = d
  BY DEF CeilDiv, d, x
<1> QED
  BY <1>2, <1>5, <1>6 DEF y

(* An admission: the hits hold the request's KV as full blocks do, and the   *)

(* rest of what it counts as computed is copied to the block after them.     *)
LEMMA AdmitReuse ==
    ASSUME RefInv, RefInv', HashInv, Plain, ReuseInv, UNCHANGED config, Admit
    PROVE  ReuseInv'
<1> DEFINE r == match.req
           L == Len(match.hits)
           m == match.num * SubSize
           x == L * BlockSize
           from == x + m
           num == MinOf(nTok[r] - from, ChunkMax)
           n == CeilDiv(from + num, BlockSize) - L
           copies(t) == IF match.src = NoBlock THEN {}
                        ELSE {[src |-> match.src, dst |-> t[L + 1], num |-> m]}
<1>1. match # NoMatch
  BY DEF Admit
<1>2. /\ r \in Req /\ match.hits \in Seq(Block) /\ from \in Nat /\ num \in Nat \ {0}
      /\ from + num <= nTok[r] /\ n \in Nat \ {0} /\ match.num \in Nat /\ match \in Match
  <2>1. match \in Match /\ match.num >= 0
    BY <1>1 DEF RefInv, Types, MatchFits
  <2> QED
    BY <1>1, <2>1, AdmitNumbers DEF RefInv, Match
<1>3. PICK new \in Injection(1..n, FreeBlocks \ Range(match.hits)) :
                 LET t == match.hits \o new IN
                 /\ Schedules({r}, [q \in {r} |-> Work(r, from, num, 0, t)], Range(new),
                              [q \in {r} |-> from + num], copies(t))
                 /\ blocks'[r] = t /\ t \in Seq(Block) /\ Len(t) = L + n
                 /\ \A j \in 1..L : t[j] = match.hits[j] /\ t[j] \notin Range(new)
                 /\ \A j \in (L + 1)..(L + n) : t[j] \in Range(new)
  BY AdmitSchedules
<1> DEFINE t == match.hits \o new
           work == [q \in {r} |-> Work(r, from, num, 0, t)]
           fresh == Range(new)
           cap == [q \in {r} |-> from + num]
<1>4. /\ Schedules({r}, work, fresh, cap, copies(t))
      /\ blocks'[r] = t /\ t \in Seq(Block) /\ Len(t) = L + n
      /\ \A j \in 1..L : t[j] = match.hits[j] /\ t[j] \notin fresh
      /\ \A j \in (L + 1)..(L + n) : t[j] \in fresh
  BY <1>3
<1>5. /\ config \in Configs /\ BlockSize \in Nat \ {0} /\ BlockSize \in Nat /\ SubSize \in Nat \ {0} /\ SubSize \in Nat
      /\ PerBlock \in Nat \ {0, 1} /\ steps = <<>> /\ L \in Nat
  <2>1. config \in Configs /\ steps = <<>>
    BY <1>1, PlainFacts DEF ReuseInv, Lockstep
  <2>2. L \in Nat
    BY <1>2
  <2> QED
    BY <2>1, <2>2, ConfigFacts
<1>6. work[r].from = from /\ work[r].num = num /\ cap[r] = from + num
  BY DEF Work
<1>7. /\ match.num <= PerBlock - 1 /\ (match.src = NoBlock => match.num = 0)
      /\ match.src # NoBlock => \A s \in 1..m : kv[match.src][s] = Prefix(r, x + s)
  BY <1>1 DEF ReuseInv, MatchKV
<1>8. /\ x \in Nat /\ m \in Nat /\ m < BlockSize /\ (L + 1) * BlockSize = x + BlockSize
      /\ (match.num = 0 => m = 0)
  <2>1. L + 1 \in Nat \ {0} /\ match.num \in 0..PerBlock /\ match.num < PerBlock
    <3> DEFINE k == match.num
    <3>1. L \in Nat /\ k \in Nat /\ k <= PerBlock - 1 /\ PerBlock \in Nat
      BY <1>2, <1>5, <1>7
    <3> HIDE DEF L, k
    <3>2. L + 1 \in Nat \ {0} /\ k \in 0..PerBlock /\ k < PerBlock
      BY <3>1
    <3> QED
      BY <3>2 DEF k
  <2>2. /\ ((L + 1) - 1) * BlockSize \in Nat /\ (L + 1) * BlockSize = ((L + 1) - 1) * BlockSize + BlockSize
        /\ m \in 0..BlockSize /\ m <= BlockSize - SubSize
    BY <1>5, <2>1, GrainFacts
  <2>3. (L + 1) - 1 = L
    BY <1>5
  <2> HIDE DEF L, m
  <2>4. x \in Nat /\ (L + 1) * BlockSize = x + BlockSize
    BY <2>2, <2>3
  <2>5. m \in Nat /\ m < BlockSize
    BY <1>5, <2>2
  <2>6. match.num = 0 => m = 0
    BY <1>5 DEF m
  <2> QED
    BY <2>4, <2>5, <2>6
<1>9. blocks[r] = <<>> /\ Len(blocks[r]) = 0
  BY <1>1, <1>2 DEF RefInv, TablesOfRunning, MatchFits
<1>10. /\ from + num <= Len(t) * BlockSize /\ Len(t) * BlockSize < from + num + BlockSize
  <2> DEFINE a == from + num
  <2>1. a \in Nat
    BY <1>2
  <2>2. Len(t) = CeilDiv(a, BlockSize)
    <3>1. CeilDiv(a, BlockSize) \in Int
      BY <1>5, <2>1, CeilFacts
    <3> HIDE DEF a, L, t
    <3>2. Len(t) = L + (CeilDiv(a, BlockSize) - L)
      BY <1>4 DEF n, a
    <3> QED
      BY <1>5, <3>1, <3>2
  <2> HIDE DEF a, t
  <2>3. a <= CeilDiv(a, BlockSize) * BlockSize /\ CeilDiv(a, BlockSize) * BlockSize < a + BlockSize
    BY <1>5, <2>1, CeilFacts
  <2> QED
    BY <2>2, <2>3 DEF a
<1>11. \A o \in copies(t) : o.dst \in fresh
  <2>1. L + 1 \in (L + 1)..(L + n)
    <3> HIDE DEF L, n
    <3> QED
      BY <1>2, <1>5
  <2> QED
    BY <1>4, <2>1
<1> HIDE DEF L, m, x, n, num, t, fresh
<1>12. ASSUME NEW j \in 1..Len(t), t[j] \in fresh PROVE j * BlockSize > from
  <2>1. j \in Nat /\ j >= L + 1
    BY <1>2, <1>4, <1>5, <1>12
  <2>2. j * BlockSize >= (L + 1) * BlockSize /\ j * BlockSize \in Int
    <3>1. j \in Int /\ L + 1 \in Int /\ L + 1 <= j
      BY <1>5, <2>1
    <3> QED
      BY <1>5, <3>1, MulFacts
  <2> QED
    BY <1>5, <1>8, <2>2
<1>13. ASSUME NEW p \in 1..from PROVE Staged(copies(t), t[BlockOf(p)], SlotOf(p), Prefix(r, p))
  <2> DEFINE j == BlockOf(p)
             s == SlotOf(p)
  <2>1. p \in Nat \ {0} /\ p <= from
    BY <1>2
  <2>2. /\ j \in Nat \ {0} /\ s \in 1..BlockSize /\ p = (j - 1) * BlockSize + s
        /\ (p <= L * BlockSize => j <= L) /\ (p <= (L + 1) * BlockSize => j <= L + 1)
        /\ p <= j * BlockSize
    <3>1. L \in Nat /\ L + 1 \in Nat
      BY <1>5
    <3> QED
      BY <1>5, <2>1, <3>1, PlaceFacts
  <2> HIDE DEF j, s
  <2>3. CASE p <= x
    <3>1. j \in 1..L /\ t[j] = match.hits[j] /\ t[j] \notin fresh
      BY <1>4, <1>5, <2>2, <2>3 DEF x
    <3> DEFINE b == match.hits[j]
    <3>2. b \in Block /\ hash[b] = <<"full", Prefix(r, j * BlockSize)>>
      <4>1. j \in 1..Len(match.hits)
        BY <3>1 DEF L
      <4>2. b \in Block
        BY <1>2, <4>1
      <4> QED
        BY <1>1, <4>1, <4>2 DEF HashInv, HitsCached
    <3>3. j * BlockSize <= Len(Tokens[r])
      <4>1. j * BlockSize <= x /\ j * BlockSize \in Int
        <5>1. j \in Int /\ L \in Int /\ j <= L
          BY <1>5, <3>1
        <5> QED
          BY <1>5, <5>1, MulFacts DEF x
      <4>2. nTok[r] <= Len(Tokens[r]) /\ nTok[r] \in Nat
        BY <1>2 DEF ReuseInv, Numbers, RefInv, Types
      <4>3. Len(Tokens[r]) \in Nat
        BY <1>2, <1>5, ConfigFacts
      <4>4. x <= nTok[r]
        BY <1>2, <1>8, <4>2
      <4> QED
        BY <1>8, <4>1, <4>2, <4>3, <4>4
    <3> HIDE DEF b
    <3>4. Whole(b, r, j)
      BY <1>2, <1>5, <2>2, <3>2, <3>3, WholeAgree
    <3>5. WillHold(b, s, Prefix(r, p))
      BY <2>2, <3>4 DEF Whole
    <3>6. kv[b][s] = Prefix(r, p)
      BY <1>5, <3>5 DEF WillHold
    <3>7. \A o \in copies(t) : ~Copies(o, t[j], s)
      BY <1>11, <3>1 DEF Copies
    <3> QED
      BY <3>1, <3>6, <3>7 DEF Staged, b, j, s
  <2>4. CASE ~(p <= x)
    <3>1. p <= x + BlockSize
      BY <1>5, <1>8, <2>1
    <3>2. j = L + 1
      <4>1. j <= L + 1
        BY <1>8, <2>2, <3>1
      <4>2. ~(j <= L)
        <5> SUFFICES ASSUME j <= L PROVE FALSE
          OBVIOUS
        <5>1. j \in Int /\ L \in Int
          BY <1>5, <2>2
        <5>2. j * BlockSize <= x /\ j * BlockSize \in Int
          BY <1>5, <5>1, MulFacts DEF x
        <5> QED
          BY <1>8, <2>1, <2>2, <2>4, <5>2
      <4> QED
        BY <1>5, <2>2, <4>1, <4>2
    <3>3. p = x + s /\ s \in 1..m /\ m > 0
      <4>1. (L + 1) - 1 = L
        BY <1>5
      <4>2. p = x + s
        BY <2>2, <3>2, <4>1 DEF x
      <4> QED
        BY <1>5, <1>8, <2>1, <2>2, <4>2
    <3>4. match.src # NoBlock /\ kv[match.src][s] = Prefix(r, p)
      BY <1>7, <1>8, <3>3
    <3> DEFINE o == [src |-> match.src, dst |-> t[L + 1], num |-> m]
    <3>5. copies(t) = {o}
      BY <3>4
    <3>6. o.src = match.src /\ o.dst = t[j] /\ s <= o.num
      BY <1>8, <3>2, <3>3
    <3> HIDE DEF o, copies
    <3>7. Staged(copies(t), t[j], s, Prefix(r, p))
      BY <3>4, <3>5, <3>6 DEF Staged, Copies
    <3> QED
      BY <3>7 DEF j, s
  <2> QED
    BY <2>3, <2>4
<1>14. Served({r}, work, fresh, cap, copies(t))
  <2> HIDE DEF work, cap, copies
  <2>1. \A j \in 1..Len(blocks[r]) : FALSE
    BY <1>9
  <2>2. /\ cap[r] = work[r].from + work[r].num /\ cap[r] <= nTok[r]
        /\ cap[r] <= Len(blocks'[r]) * BlockSize
        /\ Len(blocks'[r]) * BlockSize < cap[r] + BlockSize
    <3> HIDE DEF from
    <3> QED
      BY <1>2, <1>4, <1>6, <1>10
  <2> QED
    BY <1>4, <1>6, <1>11, <1>12, <1>13, <2>1, <2>2 DEF Served
<1> HIDE DEF work, cap, copies
<1> QED
  BY <1>4, <1>14, ServedReuse

(* The running loop: the tables have the computed tokens and grow by the     *)

(* block the next ones need.                                                 *)
LEMMA RunningReuse ==
    ASSUME RefInv, RefInv', HashInv, Plain, ReuseInv, UNCHANGED config, ScheduleRunning
    PROVE  ReuseInv'
<1>1. PICK R \in Batches : \E num \in [R -> Int] : \E spec \in [R -> 0..MaxSpec] :
             \E fresh \in SUBSET FreeBlocks :
           LET work == [r \in R |-> Work(r, nComp[r], num[r], spec[r], blocks'[r])]
               cap == [r \in R |-> Cacheable(r, nComp[r] + num[r])]
           IN  /\ Schedules(R, work, fresh, cap, {})
               /\ \A r \in R : /\ status[r] = "running"
                               /\ num[r] - spec[r] <= NumNew(r) /\ Needed(r, num[r]) <= 1
                               /\ blocks'[r] \in Seq(Block)
                               /\ Len(blocks'[r]) = Len(blocks[r]) + Needed(r, num[r])
                               /\ \A j \in 1..Len(blocks[r]) : blocks'[r][j] = blocks[r][j]
  BY RunningSchedules
<1>2. PICK num \in [R -> Int], spec \in [R -> 0..MaxSpec], fresh \in SUBSET FreeBlocks :
           LET work == [r \in R |-> Work(r, nComp[r], num[r], spec[r], blocks'[r])]
               cap == [r \in R |-> Cacheable(r, nComp[r] + num[r])]
           IN  /\ Schedules(R, work, fresh, cap, {})
               /\ \A r \in R : /\ status[r] = "running"
                               /\ num[r] - spec[r] <= NumNew(r) /\ Needed(r, num[r]) <= 1
                               /\ blocks'[r] \in Seq(Block)
                               /\ Len(blocks'[r]) = Len(blocks[r]) + Needed(r, num[r])
                               /\ \A j \in 1..Len(blocks[r]) : blocks'[r][j] = blocks[r][j]
  BY <1>1
<1> DEFINE work == [r \in R |-> Work(r, nComp[r], num[r], spec[r], blocks'[r])]
           cap == [r \in R |-> Cacheable(r, nComp[r] + num[r])]
<1>3. Schedules(R, work, fresh, cap, {})
  BY <1>2
<1>4. /\ config \in Configs /\ BlockSize \in Nat \ {0} /\ BlockSize \in Nat /\ steps = <<>> /\ MaxSpec = 0
  <2>1. config \in Configs /\ steps = <<>> /\ MaxSpec = 0
    BY <1>3, PlainFacts DEF Plain, Schedules
  <2> QED
    BY <2>1, ConfigFacts
<1>5. ASSUME NEW r \in R
      PROVE  /\ r \in Req /\ status[r] = "running" /\ nComp[r] \in Nat /\ num[r] \in Nat \ {0}
             /\ work[r].from = nComp[r] /\ work[r].num = num[r]
             /\ cap[r] = nComp[r] + num[r] /\ cap[r] <= nTok[r]
             /\ Len(blocks[r]) \in Nat /\ Len(blocks'[r]) = Len(blocks[r]) + Needed(r, num[r])
             /\ \A j \in 1..Len(blocks[r]) : blocks'[r][j] = blocks[r][j]
             /\ nComp[r] <= Len(blocks[r]) * BlockSize
             /\ Len(blocks[r]) * BlockSize < nComp[r] + BlockSize
  <2>1. /\ r \in Req /\ status[r] = "running" /\ num[r] \in Int /\ spec[r] \in 0..MaxSpec
        /\ num[r] - spec[r] <= NumNew(r)
        /\ Len(blocks'[r]) = Len(blocks[r]) + Needed(r, num[r])
        /\ \A j \in 1..Len(blocks[r]) : blocks'[r][j] = blocks[r][j]
    BY <1>2 DEF Schedules
  <2>2. work[r].from = nComp[r] /\ work[r].num = num[r] /\ work[r].spec = spec[r]
        /\ cap[r] = Cacheable(r, nComp[r] + num[r])
    BY DEF Work
  <2>3. work[r].num > work[r].spec
    BY <1>3 DEF Schedules
  <2>4. /\ nTok[r] \in Nat /\ nComp[r] \in Nat /\ nOut[r] = 0 /\ blocks[r] \in Seq(Block)
        /\ nComp[r] <= Len(blocks[r]) * BlockSize
        /\ Len(blocks[r]) * BlockSize < nComp[r] + BlockSize
    <3>1. nTok[r] \in Nat /\ nComp[r] \in Int /\ blocks[r] \in Seq(Block)
      BY <2>1 DEF RefInv, Types
    <3>2. nComp[r] >= 0
      BY <2>1 DEF HashInv, Flights
    <3> QED
      BY <2>1, <3>1, <3>2 DEF ReuseInv, Numbers, Lockstep
  <2>5. spec[r] = 0
    BY <1>4, <2>1
  <2>6. num[r] \in Nat \ {0}
    BY <2>1, <2>2, <2>3, <2>5
  <2>7. num[r] <= nTok[r] - nComp[r]
    BY <2>1, <2>4, <2>5 DEF NumNew
  <2>8. Cacheable(r, nComp[r] + num[r]) = nComp[r] + num[r] /\ nComp[r] + num[r] <= nTok[r]
    <3> DEFINE a == nComp[r]
               c == num[r]
               n == nTok[r]
    <3>1. a \in Nat /\ c \in Nat /\ n \in Nat /\ c <= n - a
      BY <2>4, <2>6, <2>7
    <3>2. Cacheable(r, a + c) = IF a + c < n THEN a + c ELSE n
      BY DEF Cacheable, MinOf
    <3> HIDE DEF a, c, n
    <3>3. a + c <= n /\ (IF a + c < n THEN a + c ELSE n) = a + c
      BY <3>1
    <3> QED
      BY <3>2, <3>3 DEF a, c, n
  <2> HIDE DEF work, cap
  <2> QED
    BY <2>1, <2>2, <2>4, <2>6, <2>8
<1> HIDE DEF work, cap
<1>6. ASSUME NEW r \in R
      PROVE  /\ cap[r] <= Len(blocks'[r]) * BlockSize
             /\ Len(blocks'[r]) * BlockSize < cap[r] + BlockSize
             /\ Len(blocks[r]) <= Len(blocks'[r]) /\ Len(blocks'[r]) \in Nat
  <2> DEFINE a == nComp[r] + num[r]
             c == CeilDiv(a, BlockSize)
             l == Len(blocks[r])
             l2 == Len(blocks'[r])
             B == BlockSize
  <2>1. a \in Nat /\ l \in Nat /\ cap[r] = a
    BY <1>5
  <2>2. c \in Int /\ a <= c * B /\ c * B < a + B
    <3> HIDE DEF a
    <3> QED
      BY <1>4, <2>1, CeilFacts
  <2>3. l2 = l + (IF c - l > 0 THEN c - l ELSE 0)
    BY <1>5 DEF Needed
  <2>4. nComp[r] <= l * B /\ l * B < nComp[r] + B /\ a > nComp[r] /\ nComp[r] \in Nat /\ B \in Nat
    BY <1>4, <1>5
  <2> HIDE DEF a, c, l, l2, B
  <2>5. l * B \in Int /\ c * B \in Int /\ (c <= l => c * B <= l * B)
    BY <2>1, <2>2, <2>4, MulFacts
  <2>6. a <= l2 * B /\ l2 * B < a + B /\ l <= l2 /\ l2 \in Nat
    <3>1. CASE c - l > 0
      <4>1. l2 = c
        BY <2>1, <2>2, <2>3, <3>1
      <4> QED
        BY <2>1, <2>2, <3>1, <4>1
    <3>2. CASE ~(c - l > 0)
      <4>1. l2 = l /\ c <= l
        BY <2>1, <2>2, <2>3, <3>2
      <4> DEFINE y == l * B
                 z == c * B
                 k == nComp[r]
      <4>2. y \in Int /\ z \in Int /\ z <= y /\ a <= z /\ y < k + B /\ k < a /\ k \in Nat
        BY <2>2, <2>4, <2>5, <4>1
      <4> HIDE DEF y, z, k
      <4>3. a <= y /\ y < a + B
        BY <2>1, <2>4, <4>2
      <4> QED
        BY <2>1, <4>1, <4>3 DEF y
    <3> QED
      BY <3>1, <3>2
  <2> QED
    BY <2>1, <2>6 DEF l, l2, B
<1>7. ASSUME NEW r \in R, NEW j \in 1..Len(blocks'[r]), blocks'[r][j] \in fresh
      PROVE  j * BlockSize > work[r].from
  <2>0. \A q \in Req : \A i \in 1..Len(blocks[q]) : blocks[q][i] \notin fresh
    BY <1>3, SchedulesPlaces
  <2>1. ~(j \in 1..Len(blocks[r]))
    BY <1>5, <1>7, <2>0
  <2>2. j \in Nat /\ j >= Len(blocks[r]) + 1
    BY <1>5, <1>6, <2>1
  <2> DEFINE l == Len(blocks[r])
             k == nComp[r]
             B == BlockSize
  <2>3. l \in Nat /\ B \in Nat \ {0} /\ k \in Nat /\ k <= l * B /\ j >= l + 1 /\ work[r].from = k
    BY <1>4, <1>5, <2>2
  <2> HIDE DEF l, k, B
  <2>4. (l + 1) * B = l * B + B /\ l * B \in Int
    BY <2>3, MulFacts
  <2>5. (l + 1) * B <= j * B /\ j * B \in Int
    <3>1. l + 1 \in Int /\ j \in Int /\ l + 1 <= j /\ B \in Nat
      BY <2>2, <2>3
    <3> QED
      BY <3>1, MulFacts
  <2>6. k < j * B
    <3> DEFINE y == l * B
               z == j * B
    <3>1. y \in Int /\ z \in Int /\ y + B <= z /\ k <= y
      BY <2>3, <2>4, <2>5
    <3> HIDE DEF y, z
    <3>2. k < z
      BY <2>3, <3>1
    <3> QED
      BY <3>2 DEF z
  <2> QED
    BY <2>3, <2>5, <2>6 DEF B
<1>8. ASSUME NEW r \in R, NEW p \in 1..work[r].from
      PROVE  Staged({}, blocks'[r][BlockOf(p)], SlotOf(p), Prefix(r, p))
  <2>1. p \in Nat \ {0} /\ p \in 1..nComp[r] /\ Len(blocks[r]) * BlockSize \in Int
    BY <1>4, <1>5
  <2>2. p <= Len(blocks[r]) * BlockSize
    BY <1>5, <2>1
  <2>3. BlockOf(p) \in 1..Len(blocks[r])
    <3>1. Len(blocks[r]) \in Nat
      BY <1>5
    <3>2. BlockOf(p) \in Nat \ {0} /\ BlockOf(p) <= Len(blocks[r])
      BY <1>4, <2>1, <2>2, <3>1, PlaceFacts
    <3> QED
      BY <3>1, <3>2
  <2>4. blocks'[r][BlockOf(p)] = blocks[r][BlockOf(p)]
    BY <1>5, <2>3
  <2>5. WillHold(blocks[r][BlockOf(p)], SlotOf(p), Prefix(r, p))
    BY <1>5, <2>1 DEF ReuseInv, OwnKV, Running
  <2>6. kv[blocks[r][BlockOf(p)]][SlotOf(p)] = Prefix(r, p)
    BY <1>4, <2>5 DEF WillHold
  <2> QED
    BY <2>4, <2>6 DEF Staged
<1>9. ASSUME NEW r \in R, NEW j \in 1..Len(blocks[r])
      PROVE  j \in 1..Len(blocks'[r]) /\ blocks'[r][j] = blocks[r][j]
  BY <1>5, <1>6
<1>10. Served(R, work, fresh, cap, {})
  BY <1>5, <1>6, <1>7, <1>8, <1>9 DEF Served
<1> QED
  BY <1>3, <1>10, ServedReuse

-----------------------------------------------------------------------------
(* Indexing: what the lists become.                                          *)

(* The hashes of the first sub-blocks of a block.                            *)
LEMMA ChainFacts ==
    ASSUME config \in Configs, NEW r \in Req, NEW j \in Nat \ {0}, NEW g \in 0..PerBlock,
           (j - 1) * BlockSize + g * SubSize <= Len(Tokens[r])
    PROVE  /\ SubChain(r, j, g) \in Seq(Seq(Nat)) /\ Len(SubChain(r, j, g)) = g
           /\ \A i \in 1..g : SubChain(r, j, g)[i] = Prefix(r, (j - 1) * BlockSize + i * SubSize)
<1>1. /\ (j - 1) * BlockSize \in Nat /\ \A i \in 1..g : i * SubSize \in 1..(g * SubSize)
      /\ g * SubSize \in 0..BlockSize /\ BlockSize \in Nat /\ PerBlock \in Nat
  BY GrainFacts, ConfigFacts
<1>2. Tokens[r] \in Seq(Nat) /\ Len(Tokens[r]) \in Nat /\ g \in Nat
  BY <1>1, ConfigFacts
<1>3. ASSUME NEW i \in 1..g PROVE Prefix(r, (j - 1) * BlockSize + i * SubSize) \in Seq(Nat)
  <2> DEFINE x == (j - 1) * BlockSize
             y == i * SubSize
             z == g * SubSize
  <2>1. x \in Nat /\ y \in 1..z /\ z \in Nat /\ x + z <= Len(Tokens[r])
    BY <1>1
  <2> HIDE DEF x, y, z
  <2>2. x + y \in 0..Len(Tokens[r])
    BY <1>2, <2>1
  <2>3. SubSeq(Tokens[r], 1, x + y) \in Seq(Nat)
    BY <1>2, <2>2, PrefixFacts
  <2> QED
    BY <2>3 DEF Prefix, x, y
<1> QED
  BY <1>2, <1>3 DEF SubChain

(* A list that is such a beginning grows into a longer one.                  *)
LEMMA Grown ==
    ASSUME config \in Configs, NEW r \in Req, NEW j \in Nat \ {0}, NEW g \in 0..PerBlock,
           (j - 1) * BlockSize + g * SubSize <= Len(Tokens[r]),
           NEW u \in Seq(Seq(Nat)), Len(u) < g,
           \A i \in 1..Len(u) : u[i] = Prefix(r, (j - 1) * BlockSize + i * SubSize)
    PROVE  u \o SubSeq(SubChain(r, j, g), Len(u) + 1, Len(SubChain(r, j, g))) = SubChain(r, j, g)
<1> DEFINE w == SubChain(r, j, g)
           k == Len(u)
           t == SubSeq(w, k + 1, Len(w))
<1>1. /\ w \in Seq(Seq(Nat)) /\ Len(w) = g
      /\ \A i \in 1..g : w[i] = Prefix(r, (j - 1) * BlockSize + i * SubSize)
  BY ChainFacts
<1> HIDE DEF w
<1>2. k \in Nat /\ g \in Nat /\ k < g /\ k \in 0..Len(w)
  <2>1. PerBlock \in Nat
    BY ConfigFacts
  <2> QED
    BY <1>1, <2>1
<1>3. t \in Seq(Seq(Nat)) /\ Len(t) = g - k /\ \A i \in 1..Len(t) : t[i] = w[k + i]
  BY <1>1, <1>2, SuffixFacts
<1> HIDE DEF t
<1>4. \A i \in 1..k : w[i] = u[i]
  BY <1>1, <1>2
<1>5. Len(w) = k + Len(t)
  BY <1>1, <1>2, <1>3
<1>6. u \o t = w
  BY <1>1, <1>3, <1>4, <1>5, ConcatIs
<1> QED
  BY <1>6 DEF w, t

(* SubBlockIndex.update on a set of targets, seen from one block: nothing,   *)

(* or the growth by one of its targets when they are of one length.          *)
LEMMA IndexedIs ==
    ASSUME NEW S, NEW b \in Block, NEW g, g \in Nat,
           \A t \in S : t[1] = b => Len(t[2]) = g
    PROVE  \/ /\ \A t \in S : t[1] # b
              /\ Indexed(lists, S)[b] = lists[b]
           \/ \E t \in S :
              /\ t[1] = b
              /\ Indexed(lists, S)[b] = IF Len(t[2]) > Len(lists[b])
                                        THEN lists[b] \o SubSeq(t[2], Len(lists[b]) + 1, Len(t[2]))
                                        ELSE lists[b]
<1> DEFINE T == {t[2] : t \in {u \in S : u[1] = b}}
           f == Indexed(lists, S)[b]
<1>1. f = IF T = {} THEN lists[b]
          ELSE LET new == Longest(T) IN
             IF Len(new) > Len(lists[b])
             THEN lists[b] \o SubSeq(new, Len(lists[b]) + 1, Len(new))
             ELSE lists[b]
  BY DEF Indexed
<1>2. CASE T = {}
  <2>1. \A t \in S : t[1] # b
    BY <1>2
  <2> QED
    BY <1>1, <1>2, <2>1
<1>3. CASE T # {}
  <2>1. \A s \in T : Len(s) = g
    OBVIOUS
  <2>2. \E s \in T : \A t \in T : Len(t) <= Len(s)
    BY <1>3, <2>1
  <2> HIDE DEF T
  <2>3. Longest(T) \in T
    BY <2>2 DEF Longest
  <2>4. PICK t \in S : t[1] = b /\ Longest(T) = t[2]
    BY <2>3 DEF T
  <2> QED
    BY <1>1, <1>3, <2>4
<1> QED
  BY <1>2, <1>3

(* The request's numbers where it has a block.                               *)
LEMMA RunningFacts ==
    ASSUME RefInv, HashInv, Plain, ReuseInv, NEW r \in Req, NEW j \in 1..Len(blocks[r])
    PROVE  /\ config \in Configs /\ status[r] = "running" /\ j \in Nat \ {0} /\ Len(blocks[r]) \in Nat
           /\ blocks[r][j] \in Block /\ nComp[r] \in Nat /\ nTok[r] \in Nat /\ nComp[r] <= nTok[r]
           /\ Len(Tokens[r]) \in Nat /\ nTok[r] <= Len(Tokens[r])
           /\ hash[blocks[r][j]] = IF j * BlockSize <= nComp[r]
                                   THEN <<"full", Prefix(r, j * BlockSize)>> ELSE NoHash
<1>1. config \in Configs /\ blocks[r] \in Seq(Block) /\ nTok[r] \in Nat
  BY DEF RefInv, Types
<1>2. j \in Nat \ {0} /\ Len(blocks[r]) \in Nat /\ blocks[r][j] \in Block /\ blocks[r] # <<>>
  BY <1>1
<1>3. status[r] = "running"
  BY <1>2 DEF RefInv, TablesOfRunning
<1>4. nComp[r] \in 1..nTok[r] /\ nTok[r] <= Len(Tokens[r])
  BY <1>3 DEF ReuseInv, Numbers
<1>5. nComp[r] \in Nat /\ nComp[r] <= nTok[r]
  BY <1>1, <1>4
<1>6. Len(Tokens[r]) \in Nat
  <2>1. Tokens[r] \in Seq(Nat)
    BY <1>1, ConfigFacts
  <2> QED
    BY <2>1
<1> QED
  BY <1>1, <1>2, <1>3, <1>4, <1>5, <1>6 DEF ReuseInv, TableHashes

(* _index_partial_block: the place after the full blocks and its computed    *)

(* sub-blocks.                                                               *)
LEMMA PartialNumbers ==
    ASSUME config \in Configs, NEW r \in Req, NEW nc \in Nat, NEW nt \in Nat, nc <= nt
    PROVE  LET j == nc \div BlockSize + 1
               g == (nc % BlockSize) \div SubSize
           IN  /\ j \in Nat \ {0} /\ g \in 0..PerBlock /\ (j - 1) * BlockSize + g * SubSize <= nc
               /\ ~(j * BlockSize <= nc) /\ SubHashes(r, j, g, nt) = SubChain(r, j, g)
               /\ \A l \in Nat \ {0} : \A n \in 1..PerBlock :
                     ~(l * BlockSize <= nc) /\ (l - 1) * BlockSize + n * SubSize <= nc => l = j /\ n <= g
<1> DEFINE d == nc \div BlockSize
           e == nc % BlockSize
           j == d + 1
           g == e \div SubSize
<1>1. /\ SubSize \in Nat \ {0} /\ SubSize \in Nat /\ PerBlock \in Nat /\ BlockSize \in Nat \ {0}
      /\ BlockSize \in Nat /\ nc \in Int
  BY ConfigFacts
<1>2. /\ d \in Int /\ e \in 0..(BlockSize - 1) /\ nc = d * BlockSize + e
      /\ d * BlockSize <= nc /\ nc < d * BlockSize + BlockSize
  BY <1>1, DivFacts
<1>3. d \in Nat /\ \A q \in Int : (q * BlockSize <= nc => q <= d) /\ (nc < q * BlockSize => d < q)
  <2>1. \A q \in Int : (q * BlockSize <= nc => q <= d) /\ (nc < q * BlockSize => d < q)
    BY <1>1, DivBounds
  <2>2. 0 \in Int /\ 0 * BlockSize <= nc
    BY <1>1
  <2> HIDE DEF d
  <2> QED
    BY <1>2, <2>1, <2>2
<1> HIDE DEF d, e
<1>4. /\ g \in Int /\ g * SubSize <= e /\ e \in Int
      /\ \A q \in Int : q * SubSize <= e => q <= g
  <2>1. e \in Int
    BY <1>1, <1>2
  <2> QED
    BY <1>1, <2>1, DivFacts, DivBounds
<1>5. g >= 0 /\ g < PerBlock
  <2>1. 0 \in Int /\ 0 * SubSize <= e
    BY <1>1, <1>2
  <2>2. 0 <= g
    BY <1>4, <2>1
  <2>3. ASSUME PerBlock <= g PROVE FALSE
    <3>1. PerBlock * SubSize <= g * SubSize /\ g * SubSize \in Int /\ PerBlock \in Int
      <4> HIDE DEF g
      <4>1. PerBlock \in Int
        BY <1>1
      <4> QED
        BY <1>1, <1>4, <2>3, <4>1, MulFacts
    <3>2. PerBlock * SubSize = BlockSize
      BY <1>1 DEF BlockSize
    <3> HIDE DEF g
    <3> QED
      BY <1>1, <1>2, <1>4, <3>1, <3>2
  <2> HIDE DEF g
  <2> QED
    BY <1>1, <1>4, <2>2, <2>3
<1> HIDE DEF g
<1>6. j \in Nat \ {0} /\ g \in 0..PerBlock /\ j - 1 = d
  BY <1>1, <1>3, <1>4, <1>5
<1>7. (j - 1) * BlockSize + g * SubSize <= nc /\ ~(j * BlockSize <= nc)
  <2> DEFINE x == d * BlockSize
             y == g * SubSize
  <2>1. x \in Int /\ y \in Int /\ nc = x + e /\ y <= e /\ nc < x + BlockSize /\ (d + 1) * BlockSize = x + BlockSize
    BY <1>1, <1>2, <1>3, <1>4, MulFacts
  <2> HIDE DEF x, y
  <2>2. x + y <= nc /\ ~(x + BlockSize <= nc)
    BY <1>1, <1>4, <2>1
  <2> QED
    BY <1>6, <2>1, <2>2 DEF x, y
<1>8. SubHashes(r, j, g, nt) = SubChain(r, j, g)
  <2> DEFINE z == (j - 1) * BlockSize + g * SubSize
  <2>1. z \in Int
    <3>1. j - 1 \in Int /\ g \in Int
      BY <1>4, <1>6
    <3> QED
      BY <1>1, <3>1
  <2>2. z <= nt
    <3>1. z <= nc
      BY <1>7
    <3> HIDE DEF z
    <3> QED
      BY <2>1, <3>1
  <2> HIDE DEF j
  <2> QED
    BY <1>6, <2>2, SubHashesAre
<1>9. ASSUME NEW l \in Nat \ {0}, NEW n \in 1..PerBlock,
             ~(l * BlockSize <= nc), (l - 1) * BlockSize + n * SubSize <= nc
      PROVE  l = j /\ n <= g
  <2> DEFINE x == (l - 1) * BlockSize
             y == n * SubSize
  <2>1. x \in Int /\ y \in Int /\ y >= 0 /\ x + y <= nc /\ l * BlockSize \in Int
    <3>1. n \in Nat /\ l - 1 \in Nat
      BY <1>1
    <3> QED
      BY <1>1, <1>9, <3>1
  <2>2. x <= nc /\ nc < l * BlockSize
    <3> HIDE DEF x, y
    <3> QED
      BY <1>1, <1>9, <2>1
  <2>3. l - 1 <= d /\ d < l
    <3>1. l - 1 \in Int /\ l \in Int
      OBVIOUS
    <3> QED
      BY <1>3, <2>2, <3>1
  <2>4. l = j /\ l - 1 = d
    BY <1>3, <2>3
  <2>5. y <= e
    <3>1. x = d * BlockSize
      BY <2>4
    <3> HIDE DEF x, y
    <3> QED
      BY <1>2, <1>4, <2>1, <3>1
  <2>6. n \in Int
    BY <1>1
  <2> QED
    BY <1>4, <2>4, <2>5, <2>6
<1> QED
  BY <1>6, <1>7, <1>8, <1>9 DEF d, e, g

(* What is indexed when a request's pending work is done is computed: all of *)

(* a full block, or the beginning of the open one.                           *)
LEMMA Targets ==
    ASSUME RefInv, HashInv, Plain, ReuseInv, NEW r \in Req, NEW nt \in Nat, nTok[r] <= nt,
           NEW t \in FinalTargets(r, hash, nComp[r], nt)
    PROVE  \E j \in 1..Len(blocks[r]) : \E g \in 1..PerBlock :
             /\ t[1] = blocks[r][j] /\ t[2] = SubChain(r, j, g)
             /\ (j - 1) * BlockSize + g * SubSize <= nComp[r]
             /\ \/ hash[t[1]] # NoHash /\ g = PerBlock
                \/ hash[t[1]] = NoHash /\ t \in PartialTargets(r, nComp[r], nt)
<1>1. /\ config \in Configs /\ PerBlock \in Nat \ {0, 1} /\ Len(blocks[r]) \in Nat
      /\ nComp[r] \in Nat
  <2>1. config \in Configs /\ blocks[r] \in Seq(Block) /\ nComp[r] \in Int
    BY DEF RefInv, Types
  <2>2. nComp[r] >= 0
    BY DEF HashInv, Flights
  <2> QED
    BY <2>1, <2>2, ConfigFacts
<1>2. CASE t \in PendingTargets(r, hash, nt)
  <2>1. note[r] \in Nat /\ t \in FullTargets(r, hash, nt, note[r])
    BY <1>2 DEF PendingTargets, ReuseInv, NoteCovers
  <2>2. PICK j \in (note[r] + 1)..Len(blocks[r]) :
           hash[blocks[r][j]] # NoHash /\ t = <<blocks[r][j], SubHashes(r, j, PerBlock, nt)>>
    BY <2>1 DEF FullTargets
  <2>3. j \in 1..Len(blocks[r])
    BY <1>1, <2>1, <2>2
  <2>4. /\ j \in Nat \ {0} /\ j * BlockSize <= nComp[r] /\ nComp[r] <= nTok[r] /\ nTok[r] \in Nat
    BY <2>2, <2>3, RunningFacts
  <2>5. PerBlock \in 0..PerBlock /\ PerBlock \in 1..PerBlock
    BY <1>1
  <2>6. (j - 1) * BlockSize + PerBlock * SubSize = j * BlockSize /\ j * BlockSize \in Nat
    <3>1. /\ (j - 1) * BlockSize \in Nat /\ j * BlockSize = (j - 1) * BlockSize + BlockSize
          /\ PerBlock * SubSize = BlockSize /\ BlockSize \in Nat
      BY <1>1, <2>4, <2>5, GrainFacts, ConfigFacts
    <3> DEFINE x == (j - 1) * BlockSize
    <3>2. x \in Nat /\ j * BlockSize = x + BlockSize
      BY <3>1
    <3> HIDE DEF x
    <3>3. j * BlockSize \in Nat
      BY <3>1, <3>2
    <3> QED
      BY <3>1, <3>3
  <2>7. j * BlockSize <= nt
    BY <1>1, <2>4, <2>6
  <2>8. SubHashes(r, j, PerBlock, nt) = SubChain(r, j, PerBlock)
    <3>1. \E g \in 0..PerBlock :
             /\ SubHashes(r, j, PerBlock, nt) = SubChain(r, j, g)
             /\ (j - 1) * BlockSize + PerBlock * SubSize <= nt => g = PerBlock
      BY <1>1, <2>4, <2>5, SubHashesAre, ZenonT(40)
    <3>2. (j - 1) * BlockSize + PerBlock * SubSize <= nt
      BY <2>6, <2>7
    <3> QED
      BY <3>1, <3>2
  <2>9. t[1] = blocks[r][j] /\ t[2] = SubChain(r, j, PerBlock)
    BY <2>2, <2>8
  <2> QED
    BY <2>2, <2>3, <2>4, <2>5, <2>6, <2>9
<1>3. CASE t \in PartialTargets(r, nComp[r], nt)
  <2> DEFINE nc == nComp[r]
             j == nc \div BlockSize + 1
             g == (nc % BlockSize) \div SubSize
  <2>1. j <= Len(blocks[r]) /\ t[1] = blocks[r][j] /\ t[2] = SubHashes(r, j, g, nt) /\ Len(t[2]) > 0
    BY <1>3, PartialPlace
  <2>2. nc \div BlockSize \in Nat
    <3>1. nc \in Int /\ BlockSize \in Nat \ {0} /\ 0 \in Int /\ 0 * BlockSize <= nc
      BY <1>1, ConfigFacts
    <3> HIDE DEF nc
    <3>2. nc \div BlockSize \in Int /\ 0 <= nc \div BlockSize
      BY <3>1, DivFacts, DivBounds
    <3> QED
      BY <3>2
  <2>3. j \in 1..Len(blocks[r])
    BY <1>1, <2>1, <2>2
  <2>4. nc \in Nat /\ nc <= nt
    <3>1. nc \in Nat /\ nc <= nTok[r] /\ nTok[r] \in Nat
      BY <2>3, RunningFacts
    <3> HIDE DEF nc
    <3> QED
      BY <3>1
  <2>5. /\ j \in Nat \ {0} /\ g \in 0..PerBlock /\ (j - 1) * BlockSize + g * SubSize <= nc
        /\ ~(j * BlockSize <= nc) /\ SubHashes(r, j, g, nt) = SubChain(r, j, g)
    BY <1>1, <2>4, PartialNumbers
  <2>6. hash[blocks[r][j]] = NoHash
    BY <2>3, <2>5, RunningFacts
  <2> HIDE DEF j, g
  <2>7. g \in 1..PerBlock
    <3>1. g # 0
      <4> SUFFICES ASSUME g = 0 PROVE FALSE
        OBVIOUS
      <4>1. SubChain(r, j, g) = <<>>
        BY DEF SubChain
      <4> QED
        BY <2>1, <2>5, <4>1
    <3> QED
      BY <1>1, <2>5, <3>1
  <2> QED
    BY <1>3, <2>1, <2>3, <2>5, <2>6, <2>7
<1> QED
  BY <1>2, <1>3 DEF FinalTargets

(* free() and update_from_output, in one step at a time and no drafts: the   *)
(* tables of E go, the pending indexing of E and N is done.                  *)
Finishes(E, N) ==
    /\ E \in SUBSET Req /\ N \in SUBSET Req
    /\ match' = NoMatch /\ UNCHANGED <<config, kv>>
    /\ steps = <<>> \/ steps[1].ran
    /\ steps' = <<>> \/ steps'[1].ran
    /\ \A q \in Req :
          /\ nTok'[q] \in Nat /\ nTok[q] <= nTok'[q] /\ nTok'[q] <= Len(Tokens[q])
          /\ status'[q] # "done" => nTok'[q] < Len(Tokens[q])
          /\ status'[q] = "running" => status[q] = "running" /\ q \notin E
          /\ blocks'[q] = IF q \in E THEN <<>> ELSE blocks[q]
          /\ q \notin E => nComp'[q] = nComp[q]
          /\ note'[q] = NoNote \/ note'[q] = note[q]
          /\ q \notin E \cup N => note'[q] = note[q]
    /\ hash' = Marked(hash, E, nComp, nTok')
    /\ lists' = Indexed(lists, UNION {FinalTargets(r, hash, nComp[r], nTok'[r]) : r \in E \cup N})

(* Freeing and indexing keep the invariant: what is indexed has been         *)

(* computed, and a freed partial block keeps its entries under a synthetic   *)
(* hash.                                                                     *)
LEMMA FinishReuse ==
    ASSUME RefInv, HashInv, Plain, ReuseInv, Lockstep', NEW E, NEW N, Finishes(E, N)
    PROVE  ReuseInv'
<1> DEFINE S == UNION {FinalTargets(r, hash, nComp[r], nTok'[r]) : r \in E \cup N}
<1>1. /\ E \in SUBSET Req /\ N \in SUBSET Req /\ match' = NoMatch /\ UNCHANGED <<config, kv>>
      /\ hash' = Marked(hash, E, nComp, nTok') /\ lists' = Indexed(lists, S)
  BY DEF Finishes
<1>2. ASSUME NEW q \in Req
      PROVE  /\ nTok'[q] \in Nat /\ nTok[q] <= nTok'[q] /\ nTok'[q] <= Len(Tokens[q])
             /\ status'[q] # "done" => nTok'[q] < Len(Tokens[q])
             /\ status'[q] = "running" => status[q] = "running" /\ q \notin E
             /\ blocks'[q] = IF q \in E THEN <<>> ELSE blocks[q]
             /\ q \notin E => nComp'[q] = nComp[q]
             /\ note'[q] = NoNote \/ note'[q] = note[q]
             /\ q \notin E \cup N => note'[q] = note[q]
  BY DEF Finishes
<1>3. /\ SubSize' = SubSize /\ PerBlock' = PerBlock /\ BlockSize' = BlockSize /\ Tokens' = Tokens
      /\ \A r, p : Prefix(r, p)' = Prefix(r, p)
      /\ \A p : BlockOf(p)' = BlockOf(p) /\ SlotOf(p)' = SlotOf(p)
  BY <1>1, ConfigSame
<1>4. /\ config \in Configs /\ PerBlock \in Nat \ {0, 1} /\ PerBlock \in Nat /\ SubSize \in Nat \ {0}
      /\ BlockSize \in Nat
  BY PlainFacts, ConfigFacts
(* The cache is settled before and after.                                    *)
<1>5. ASSUME NEW b, NEW s, NEW v
      PROVE  (WillHold(b, s, v) <=> kv[b][s] = v) /\ (WillHold(b, s, v)' <=> kv[b][s] = v)
  BY <1>1 DEF WillHold, Finishes
<1>6. ASSUME NEW b, NEW r, NEW j, ListsOf(b, r, j), lists'[b] = lists[b] PROVE ListsOf(b, r, j)'
  BY <1>1, <1>3, <1>5, <1>6 DEF ListsOf
<1>7. ASSUME NEW b, NEW r, NEW j, Whole(b, r, j), hash'[b] = hash[b] PROVE Whole(b, r, j)'
  BY <1>3, <1>5, <1>7 DEF Whole
<1>8. ASSUME NEW b \in Block PROVE lists[b] \in Seq(Seq(Nat)) /\ Len(lists[b]) \in Nat
  BY DEF ReuseInv, LooseLists
(* The targets.                                                              *)
<1> DEFINE At(t, r, j, g) ==
               /\ j \in 1..Len(blocks[r]) /\ t[1] = blocks[r][j] /\ t[2] = SubChain(r, j, g)
               /\ (j - 1) * BlockSize + g * SubSize <= nComp[r]
               /\ \/ hash[t[1]] # NoHash /\ g = PerBlock
                  \/ hash[t[1]] = NoHash /\ t \in PartialTargets(r, nComp[r], nTok'[r])
<1>9. ASSUME NEW t \in S PROVE \E r \in E \cup N, j \in Nat, g \in 1..PerBlock : At(t, r, j, g)
  <2>1. PICK r \in E \cup N : t \in FinalTargets(r, hash, nComp[r], nTok'[r])
    OBVIOUS
  <2>2. r \in Req /\ nTok'[r] \in Nat /\ nTok[r] <= nTok'[r]
    BY <1>1, <1>2
  <2> DEFINE nt == nTok'[r]
  <2>3. nt \in Nat /\ nTok[r] <= nt /\ t \in FinalTargets(r, hash, nComp[r], nt)
    BY <2>1, <2>2
  <2> HIDE DEF nt
  <2>4. \E j \in 1..Len(blocks[r]) : \E g \in 1..PerBlock :
             /\ t[1] = blocks[r][j] /\ t[2] = SubChain(r, j, g)
             /\ (j - 1) * BlockSize + g * SubSize <= nComp[r]
             /\ \/ hash[t[1]] # NoHash /\ g = PerBlock
                \/ hash[t[1]] = NoHash /\ t \in PartialTargets(r, nComp[r], nt)
    BY <2>2, <2>3, Targets
  <2>5. \E j \in 1..Len(blocks[r]) : \E g \in 1..PerBlock : At(t, r, j, g)
    BY <2>4 DEF nt
  <2> QED
    BY <2>5
<1> HIDE DEF S
<1>10. ASSUME NEW r \in E \cup N, NEW j \in 1..Len(blocks[r]), NEW g \in 1..PerBlock,
              (j - 1) * BlockSize + g * SubSize <= nComp[r]
       PROVE  /\ r \in Req /\ j \in Nat \ {0} /\ g \in 0..PerBlock /\ g \in Nat /\ (j - 1) * BlockSize \in Nat
              /\ g * SubSize \in 0..BlockSize
              /\ (j - 1) * BlockSize + g * SubSize <= Len(Tokens[r])
              /\ SubChain(r, j, g) \in Seq(Seq(Nat)) /\ Len(SubChain(r, j, g)) = g
              /\ \A i \in 1..g : SubChain(r, j, g)[i] = Prefix(r, (j - 1) * BlockSize + i * SubSize)
              /\ \A s \in 1..(g * SubSize) : kv[blocks[r][j]][s] = Prefix(r, (j - 1) * BlockSize + s)
  <2>1. r \in Req
    BY <1>1
  <2>2. /\ j \in Nat \ {0} /\ nComp[r] \in Nat /\ nTok[r] \in Nat /\ nComp[r] <= nTok[r]
        /\ Len(Tokens[r]) \in Nat /\ nTok[r] <= Len(Tokens[r]) /\ status[r] = "running"
    BY <2>1, RunningFacts
  <2>3. g \in 0..PerBlock /\ g \in Nat
    BY <1>4
  <2>4. (j - 1) * BlockSize \in Nat /\ g * SubSize \in 0..BlockSize
    BY <1>4, <2>2, <2>3, GrainFacts
  <2>5. (j - 1) * BlockSize + g * SubSize <= Len(Tokens[r])
    <3> DEFINE x == (j - 1) * BlockSize
               y == g * SubSize
    <3>1. x \in Nat /\ y \in Nat /\ x + y <= nComp[r]
      BY <1>4, <1>10, <2>4
    <3> HIDE DEF x, y
    <3>2. x + y <= Len(Tokens[r])
      BY <2>2, <3>1
    <3> QED
      BY <3>2 DEF x, y
  <2>6. ASSUME NEW s \in 1..(g * SubSize) PROVE kv[blocks[r][j]][s] = Prefix(r, (j - 1) * BlockSize + s)
    <3> DEFINE p == (j - 1) * BlockSize + s
    <3>1. s \in 1..BlockSize
      BY <1>4, <2>4
    <3>2. p \in Nat \ {0} /\ BlockOf(p) = j /\ SlotOf(p) = s
      BY <1>4, <2>2, <3>1, PlaceOf
    <3>3. p <= nComp[r]
      <4> DEFINE x == (j - 1) * BlockSize
                 y == g * SubSize
      <4>1. x \in Nat /\ y \in Nat /\ x + y <= nComp[r] /\ s \in 1..y
        BY <1>4, <1>10, <2>4
      <4> HIDE DEF x, y
      <4>2. x + s <= nComp[r]
        BY <2>2, <4>1
      <4> QED
        BY <4>2 DEF x
    <3> HIDE DEF p
    <3>4. p \in 1..nComp[r]
      BY <2>2, <3>2, <3>3
    <3>5. WillHold(blocks[r][BlockOf(p)], SlotOf(p), Prefix(r, p))
      BY <2>1, <2>2, <3>4 DEF ReuseInv, OwnKV, Running
    <3>6. kv[blocks[r][j]][s] = Prefix(r, p)
      BY <1>5, <3>2, <3>5
    <3> QED
      BY <3>6 DEF p
  <2>7. /\ SubChain(r, j, g) \in Seq(Seq(Nat)) /\ Len(SubChain(r, j, g)) = g
        /\ \A i \in 1..g : SubChain(r, j, g)[i] = Prefix(r, (j - 1) * BlockSize + i * SubSize)
    BY <1>4, <2>1, <2>2, <2>3, <2>5, ChainFacts
  <2> QED
    BY <2>1, <2>2, <2>3, <2>4, <2>5, <2>6, <2>7
<1>11. ASSUME NEW r \in Req, NEW q \in Req, NEW j \in 1..Len(blocks[r]), NEW l \in 1..Len(blocks[q]),
              blocks[r][j] = blocks[q][l], hash[blocks[r][j]] = NoHash
       PROVE  r = q /\ j = l
  BY <1>11 DEF HashInv, Sole
(* The targets of one block are of one length: the block is full, or it has  *)
(* one place.                                                                *)
<1>12. ASSUME NEW b, NEW t \in S, NEW u \in S, t[1] = b, u[1] = b
       PROVE  Len(t[2]) \in Nat /\ Len(u[2]) = Len(t[2])
  <2>3. PICK r \in E \cup N, j \in Nat, g \in 1..PerBlock : At(t, r, j, g)
    BY <1>9
  <2>6. PICK q \in E \cup N, l \in Nat, h \in 1..PerBlock : At(u, q, l, h)
    BY <1>9
  <2>7. /\ r \in Req /\ g \in Nat /\ Len(SubChain(r, j, g)) = g
    BY <1>10, <2>3
  <2>8. /\ q \in Req /\ Len(SubChain(q, l, h)) = h
    BY <1>10, <2>6
  <2>9. CASE hash[b] # NoHash
    BY <1>12, <2>3, <2>6, <2>7, <2>8, <2>9
  <2>10. CASE hash[b] = NoHash
    <3>1. r = q
      BY <1>11, <1>12, <2>3, <2>6, <2>7, <2>8, <2>10
    <3>2. t \in PartialTargets(r, nComp[r], nTok'[r]) /\ u \in PartialTargets(r, nComp[r], nTok'[r])
      BY <1>12, <2>3, <2>6, <2>10, <3>1
    <3>3. t = u
      BY <3>2 DEF PartialTargets
    <3> QED
      BY <2>3, <2>7, <3>3
  <2> QED
    BY <2>9, <2>10
<1>13. ASSUME NEW b \in Block, \A t \in S : t[1] # b PROVE lists'[b] = lists[b]
  <2>1. 0 \in Nat
    OBVIOUS
  <2> QED
    BY <1>1, <1>13, <2>1, IndexedIs
(* A block that is a target is indexed further, to what is computed of it.   *)
<1>14. ASSUME NEW b \in Block, NEW t0 \in S, t0[1] = b
       PROVE  \E r \in E \cup N, j \in Nat :
                /\ j \in 1..Len(blocks[r]) /\ blocks[r][j] = b
                /\ ListsOf(b, r, j)' /\ lists'[b] \in Seq(Seq(Nat))
                /\ hash[b] # NoHash => Len(lists'[b]) = PerBlock /\ Whole(b, r, j)
                /\ hash[b] = NoHash =>
                      /\ (j - 1) * BlockSize + Len(lists'[b]) * SubSize <= nComp[r]
                      /\ \E t \in PartialTargets(r, nComp[r], nTok'[r]) : t[1] = b
  <2> DEFINE n == Len(t0[2])
  <2>1. n \in Nat /\ \A u \in S : u[1] = b => Len(u[2]) = n
    BY <1>12, <1>14
  <2> HIDE DEF n
  <2>2. PICK t \in S : t[1] = b /\ lists'[b] = IF Len(t[2]) > Len(lists[b])
                                        THEN lists[b] \o SubSeq(t[2], Len(lists[b]) + 1, Len(t[2]))
                                        ELSE lists[b]
    BY <1>1, <1>14, <2>1, IndexedIs
  <2>3. PICK r \in E \cup N, j \in Nat, g \in 1..PerBlock : At(t, r, j, g)
    BY <1>9
  <2> DEFINE w == SubChain(r, j, g)
             k == Len(lists[b])
             x == (j - 1) * BlockSize
             y == g * SubSize
  <2>4. /\ r \in Req /\ j \in Nat \ {0} /\ g \in 0..PerBlock /\ g \in Nat /\ x \in Nat /\ y \in 0..BlockSize
        /\ x + y <= Len(Tokens[r]) /\ w \in Seq(Seq(Nat)) /\ Len(w) = g
        /\ \A i \in 1..g : w[i] = Prefix(r, x + i * SubSize)
        /\ \A s \in 1..y : kv[b][s] = Prefix(r, x + s)
    <3>1. j \in 1..Len(blocks[r]) /\ blocks[r][j] = b /\ x + y <= nComp[r]
      BY <2>2, <2>3
    <3>2. /\ r \in Req /\ j \in Nat \ {0} /\ g \in 0..PerBlock /\ g \in Nat /\ x \in Nat /\ y \in 0..BlockSize
          /\ x + y <= Len(Tokens[r]) /\ w \in Seq(Seq(Nat)) /\ Len(w) = g
          /\ \A i \in 1..g : w[i] = Prefix(r, x + i * SubSize)
          /\ \A s \in 1..y : kv[blocks[r][j]][s] = Prefix(r, x + s)
      BY <1>10, <3>1
    <3> QED
      BY <3>1, <3>2
  <2>5. ListsOf(b, r, j) /\ (hash[b] # NoHash => Whole(b, r, j))
        /\ (hash[b] = NoHash => x + k * SubSize <= nComp[r])
    <3>1. CASE hash[b] # NoHash
      <4>1. /\ hash[b] = <<"full", Prefix(r, j * BlockSize)>> /\ j * BlockSize <= nComp[r]
            /\ nComp[r] \in Nat /\ nTok[r] \in Nat /\ nComp[r] <= nTok[r]
            /\ Len(Tokens[r]) \in Nat /\ nTok[r] <= Len(Tokens[r])
        BY <2>2, <2>3, <2>4, <3>1, RunningFacts, ZenonT(40)
      <4>2. j * BlockSize <= Len(Tokens[r])
        <5>1. j * BlockSize \in Int
          BY <1>4, <2>4
        <5> QED
          BY <4>1, <5>1
      <4> QED
        BY <1>4, <2>4, <3>1, <4>1, <4>2, WholeAgree
    <3>2. CASE hash[b] = NoHash
      BY <2>2, <2>3, <2>4, <3>2 DEF ReuseInv, OpenLists
    <3> QED
      BY <3>1, <3>2
  <2>6. lists[b] \in Seq(Seq(Nat)) /\ k \in Nat /\ k <= PerBlock
        /\ \A i \in 1..k : lists[b][i] = Prefix(r, x + i * SubSize)
    BY <1>8, <2>5 DEF ListsOf
  <2>7. CASE g > k
    <3>1. lists'[b] = w
      <4>1. Len(lists[b]) < g
        BY <2>4, <2>6, <2>7
      <4>2. lists[b] \o SubSeq(w, Len(lists[b]) + 1, Len(w)) = w
        BY <1>4, <2>4, <2>6, <4>1, Grown
      <4>3. t[2] = w
        BY <2>3
      <4> QED
        BY <2>2, <2>4, <2>7, <4>2, <4>3
    <3>2. Len(lists'[b]) = g /\ lists'[b] \in Seq(Seq(Nat))
      BY <2>4, <3>1
    <3>3. g <= PerBlock
      BY <1>4, <2>4
    <3> HIDE DEF w
    <3>4. ASSUME NEW s \in 1..y, NEW v, v = Prefix(r, x + s) PROVE kv'[b][s] = v /\ WillHold(b, s, v)'
      BY <1>1, <1>5, <2>4, <3>4
    <3>5. ListsOf(b, r, j)'
      BY <1>3, <2>4, <3>1, <3>2, <3>3, <3>4 DEF ListsOf
    <3>6. (hash[b] # NoHash => g = PerBlock) /\ x + y <= nComp[r]
      BY <2>2, <2>3
    <3> QED
      BY <2>2, <2>3, <2>5, <3>2, <3>5, <3>6
  <2>8. CASE ~(g > k)
    <3>1. lists'[b] = lists[b]
      <4>1. Len(t[2]) = g
        BY <2>3, <2>4
      <4> QED
        BY <2>2, <2>8, <4>1
    <3>2. ListsOf(b, r, j)'
      BY <1>6, <2>5, <3>1
    <3>3. hash[b] # NoHash => k = PerBlock
      <4>1. hash[b] # NoHash => g = PerBlock
        BY <2>2, <2>3
      <4> QED
        BY <1>4, <2>4, <2>6, <2>8, <4>1
    <3> QED
      BY <2>2, <2>3, <2>5, <2>6, <3>1, <3>2, <3>3
  <2> QED
    BY <2>7, <2>8
(* The hashes: a freed partial block is marked.                              *)
<1>15. ASSUME NEW b \in Block
       PROVE  \/ /\ hash'[b] = hash[b]
                 /\ \A r \in E : \A t \in PartialTargets(r, nComp[r], nTok'[r]) : t[1] # b
              \/ /\ hash'[b] # NoHash /\ hash'[b][1] = "partial" /\ hash[b] = NoHash
                 /\ \E t \in S : t[1] = b
                 /\ \E r \in E : \E j \in 1..Len(blocks[r]) : blocks[r][j] = b
  <2>1. CASE \E r \in E : \E t \in PartialTargets(r, nComp[r], nTok'[r]) :
               t[1] = b /\ hash'[b] = <<"partial", Last(t[2])>>
    <3>1. PICK r \in E : \E t \in PartialTargets(r, nComp[r], nTok'[r]) :
               t[1] = b /\ hash'[b] = <<"partial", Last(t[2])>>
      BY <2>1
    <3>2. PICK t \in PartialTargets(r, nComp[r], nTok'[r]) :
               t[1] = b /\ hash'[b] = <<"partial", Last(t[2])>>
      BY <3>1
    <3>3. r \in Req /\ nComp[r] \in Nat
      BY <1>1 DEF RefInv, Types, HashInv, Flights
    <3>4. \A j \in 1..Len(blocks[r]) : hash[blocks[r][j]] # NoHash => j * BlockSize <= nComp[r]
      BY <3>3 DEF ReuseInv, TableHashes
    <3> DEFINE nc == nComp[r]
               nt == nTok'[r]
    <3>5. /\ nc \div BlockSize + 1 \in 1..Len(blocks[r]) /\ t[1] = blocks[r][nc \div BlockSize + 1]
          /\ hash[t[1]] = NoHash
      <4>1. Types /\ nc \in Nat /\ t \in PartialTargets(r, nc, nt)
            /\ \A j \in 1..Len(blocks[r]) : hash[blocks[r][j]] # NoHash => j * BlockSize <= nc
        BY <3>2, <3>3, <3>4 DEF RefInv
      <4> HIDE DEF nc, nt
      <4> QED
        BY <3>3, <4>1, PartialIsOpen, SMTT(40)
    <3>6. t \in S
      BY <3>2 DEF S, FinalTargets
    <3> QED
      BY <3>2, <3>5, <3>6, FullIsHash
  <2>2. CASE /\ Marked(hash, E, nComp, nTok')[b] = hash[b]
             /\ \A r \in E : \A t \in PartialTargets(r, nComp[r], nTok'[r]) : t[1] # b
    BY <1>1, <2>2
  <2> QED
    BY <1>1, <2>1, <2>2, MarkedIs
<1>16. MatchKV' /\ Numbers'
  <2>1. MatchKV'
    BY <1>1 DEF MatchKV
  <2>2. ASSUME NEW r \in Req, status'[r] = "running"
        PROVE  /\ nComp'[r] \in 1..nTok'[r] /\ nComp'[r] <= Len(blocks'[r]) * BlockSize
               /\ Len(blocks'[r]) * BlockSize < nComp'[r] + BlockSize
    <3>1. status[r] = "running" /\ blocks'[r] = blocks[r] /\ nComp'[r] = nComp[r]
          /\ nTok'[r] \in Nat /\ nTok[r] <= nTok'[r]
      BY <1>2, <2>2
    <3>2. nTok[r] \in Nat
      BY DEF RefInv, Types
    <3>3. nComp[r] \in 1..nTok[r] /\ nComp[r] <= Len(blocks[r]) * BlockSize
          /\ Len(blocks[r]) * BlockSize < nComp[r] + BlockSize
      BY <3>1 DEF ReuseInv, Numbers
    <3>4. nComp[r] \in 1..nTok'[r]
      BY <3>1, <3>2, <3>3
    <3> QED
      BY <3>1, <3>3, <3>4
  <2> QED
    BY <1>2, <1>3, <2>1, <2>2 DEF Numbers
<1>17. ASSUME NEW r \in Req, NEW j \in 1..Len(blocks'[r])
       PROVE  /\ r \notin E /\ blocks'[r] = blocks[r] /\ nComp'[r] = nComp[r] /\ blocks[r][j] \in Block
              /\ j \in 1..Len(blocks[r]) /\ j \in Nat \ {0} /\ hash'[blocks[r][j]] = hash[blocks[r][j]]
  <2>1. r \notin E
    BY <1>2
  <2>2. blocks'[r] = blocks[r] /\ nComp'[r] = nComp[r] /\ j \in 1..Len(blocks[r])
    BY <1>2, <2>1
  <2>3. blocks[r][j] \in Block /\ j \in Nat \ {0}
    BY <2>2, RunningFacts
  <2>4. hash'[blocks[r][j]] = hash[blocks[r][j]]
    BY <1>1, <1>11, <1>15, <2>1, <2>2, <2>3
  <2> QED
    BY <2>1, <2>2, <2>3, <2>4
<1>18. TableHashes'
  <2> SUFFICES ASSUME NEW r \in Req, NEW j \in 1..Len(blocks'[r])
               PROVE  hash'[blocks'[r][j]] = IF j * BlockSize <= nComp'[r]
                                 THEN <<"full", Prefix(r, j * BlockSize)>> ELSE NoHash
    BY <1>3 DEF TableHashes
  <2> QED
    BY <1>17 DEF ReuseInv, TableHashes
<1>19. Hashed'
  <2> SUFFICES ASSUME NEW b \in Block, hash'[b] # NoHash
               PROVE  \E r \in Req : \E j \in Nat \ {0} :
                        ListsOf(b, r, j)' /\ (Whole(b, r, j)' \/ hash'[b][1] = "partial")
    BY DEF Hashed
  <2>1. CASE \E t \in S : t[1] = b
    <3>1. PICK r \in E \cup N, j \in Nat :
                /\ j \in 1..Len(blocks[r]) /\ blocks[r][j] = b
                /\ ListsOf(b, r, j)'
                /\ hash[b] # NoHash => Whole(b, r, j)
      BY <1>14, <2>1
    <3>2. r \in Req /\ j \in Nat \ {0}
      BY <1>1, <3>1
    <3>3. hash'[b][1] = "partial" \/ (hash'[b] = hash[b] /\ hash[b] # NoHash)
      BY <1>15
    <3> QED
      BY <1>7, <3>1, <3>2, <3>3
  <2>2. CASE ~ \E t \in S : t[1] = b
    <3>1. hash'[b] = hash[b] /\ lists'[b] = lists[b]
      BY <1>13, <1>15, <2>2
    <3>2. PICK r \in Req, j \in Nat \ {0} : ListsOf(b, r, j) /\ (Whole(b, r, j) \/ hash[b][1] = "partial")
      BY <3>1 DEF ReuseInv, Hashed
    <3> QED
      BY <1>6, <1>7, <3>1, <3>2
  <2> QED
    BY <2>1, <2>2
<1>20. OpenLists'
  <2> SUFFICES ASSUME NEW r \in Req, NEW j \in 1..Len(blocks'[r]), NEW b, b = blocks'[r][j], hash'[b] = NoHash
               PROVE  /\ ListsOf(b, r, j)'
                      /\ (j - 1) * BlockSize + Len(lists'[b]) * SubSize <= nComp'[r]
    BY <1>3 DEF OpenLists
  <2>1. /\ b = blocks[r][j] /\ nComp'[r] = nComp[r] /\ b \in Block /\ j \in 1..Len(blocks[r]) /\ hash[b] = NoHash
    BY <1>17
  <2>2. CASE \E t \in S : t[1] = b
    <3>1. PICK q \in E \cup N, l \in Nat :
                /\ l \in 1..Len(blocks[q]) /\ blocks[q][l] = b
                /\ ListsOf(b, q, l)'
                /\ (l - 1) * BlockSize + Len(lists'[b]) * SubSize <= nComp[q]
      BY <1>14, <2>1, <2>2
    <3>2. q = r /\ l = j
      BY <1>1, <1>11, <2>1, <3>1
    <3> QED
      BY <2>1, <3>1, <3>2
  <2>3. CASE ~ \E t \in S : t[1] = b
    <3>1. lists'[b] = lists[b]
      BY <1>13, <2>1, <2>3
    <3>2. ListsOf(b, r, j) /\ (j - 1) * BlockSize + Len(lists[b]) * SubSize <= nComp[r]
      BY <2>1 DEF ReuseInv, OpenLists
    <3> QED
      BY <1>6, <2>1, <3>1, <3>2
  <2> QED
    BY <2>2, <2>3
<1>21. LooseLists'
  <2>1. lists' \in [Block -> Seq(Seq(Nat))]
    <3>1. lists' = [b \in Block |-> lists'[b]]
      BY <1>1 DEF Indexed
    <3>2. ASSUME NEW b \in Block PROVE lists'[b] \in Seq(Seq(Nat))
      BY <1>8, <1>13, <1>14
    <3> QED
      BY <3>1, <3>2
  <2>2. ASSUME NEW b \in Block, hash'[b] = NoHash, lists'[b] # <<>>
        PROVE  \E r \in Req : \E j \in 1..Len(blocks'[r]) : blocks'[r][j] = b
    <3>1. hash[b] = NoHash /\ \A r \in E : \A t \in PartialTargets(r, nComp[r], nTok'[r]) : t[1] # b
      BY <1>15, <2>2
    <3>2. \E r \in Req \ E, j \in Nat : j \in 1..Len(blocks[r]) /\ blocks[r][j] = b
      <4>1. CASE \E t \in S : t[1] = b
        <5>1. PICK r \in E \cup N, j \in Nat :
                /\ j \in 1..Len(blocks[r]) /\ blocks[r][j] = b
                /\ \E t \in PartialTargets(r, nComp[r], nTok'[r]) : t[1] = b
          BY <1>14, <3>1, <4>1
        <5> QED
          BY <1>1, <3>1, <5>1
      <4>2. CASE ~ \E t \in S : t[1] = b
        <5>1. lists[b] # <<>>
          BY <1>13, <2>2, <4>2
        <5>2. PICK r \in Req : \E j \in 1..Len(blocks[r]) : blocks[r][j] = b
          BY <3>1, <5>1 DEF ReuseInv, LooseLists
        <5>3. PICK j \in 1..Len(blocks[r]) : blocks[r][j] = b
          BY <5>2
        <5>4. /\ j \in Nat \ {0} /\ nComp[r] \in Nat /\ nTok[r] \in Nat /\ nComp[r] <= nTok[r]
              /\ ~(j * BlockSize <= nComp[r])
          BY <3>1, <5>3, RunningFacts, FullIsHash
        <5>5. ASSUME r \in E PROVE FALSE
          <6> DEFINE n == Len(lists[b])
                     nc == nComp[r]
                     nt == nTok'[r]
                     d == nc \div BlockSize + 1
                     g == (nc % BlockSize) \div SubSize
          <6>1. ListsOf(b, r, j) /\ (j - 1) * BlockSize + n * SubSize <= nc
            BY <3>1, <5>3 DEF ReuseInv, OpenLists
          <6>2. n \in 1..PerBlock
            <7>1. n \in Nat /\ n <= PerBlock /\ lists[b] \in Seq(Seq(Nat))
              BY <1>8, <6>1 DEF ListsOf
            <7>2. n # 0
              BY <5>1, <7>1
            <7> HIDE DEF n
            <7> QED
              BY <1>4, <7>1, <7>2
          <6>3. nt \in Nat /\ nc <= nt /\ nc \in Nat
            <7>1. nt \in Nat /\ nTok[r] <= nt
              BY <1>2
            <7> HIDE DEF nt
            <7> QED
              BY <5>4, <7>1
          <6> HIDE DEF n, nc, nt
          <6>4. /\ g \in 0..PerBlock /\ SubHashes(r, d, g, nt) = SubChain(r, d, g)
                /\ \A l \in Nat \ {0} : \A m \in 1..PerBlock :
                     ~(l * BlockSize <= nc) /\ (l - 1) * BlockSize + m * SubSize <= nc => l = d /\ m <= g
            BY <1>4, <6>3, PartialNumbers
          <6>5. j = d /\ n <= g
            BY <5>4, <6>1, <6>2, <6>4 DEF nc
          <6> DEFINE t == <<blocks[r][d], SubHashes(r, d, g, nt)>>
          <6>6. Len(SubHashes(r, d, g, nt)) > 0
            <7> HIDE DEF g, d
            <7>1. g \in Nat /\ g > 0
              BY <1>4, <6>2, <6>4, <6>5
            <7>2. Len(SubChain(r, d, g)) = g
              BY <7>1 DEF SubChain
            <7> QED
              BY <6>4, <7>1, <7>2
          <6>7. d <= Len(blocks[r])
            BY <5>3, <6>5
          <6>8. t \in PartialTargets(r, nc, nt)
            BY <6>6, <6>7 DEF PartialTargets
          <6> QED
            BY <3>1, <5>3, <5>5, <6>5, <6>8 DEF nc, nt
        <5> QED
          BY <5>3, <5>4, <5>5
      <4> QED
        BY <4>1, <4>2
    <3> QED
      BY <1>2, <3>2
  <2> QED
    BY <2>1, <2>2 DEF LooseLists
<1>22. NoteCovers'
  <2>1. ASSUME NEW r \in Req PROVE note'[r] = NoNote \/ note'[r] \in Nat
    BY <1>2 DEF ReuseInv, NoteCovers
  <2>2. ASSUME NEW b \in Block, hash'[b][1] = "full"
        PROVE  \/ Len(lists'[b]) = PerBlock
               \/ \E r \in Req : \E j \in 1..Len(blocks'[r]) :
                    blocks'[r][j] = b /\ note'[r] # NoNote /\ note'[r] < j
    <3>1. hash'[b] = hash[b]
      BY <1>15, <2>2
    <3>2. hash[b] # NoHash /\ hash[b][1] = "full"
      BY <2>2, <3>1 DEF NoHash
    <3>3. CASE \E t \in S : t[1] = b
      BY <1>14, <3>2, <3>3
    <3>4. CASE ~ \E t \in S : t[1] = b
      <4>1. lists'[b] = lists[b]
        BY <1>13, <3>4
      <4>2. CASE Len(lists[b]) = PerBlock
        BY <4>1, <4>2
      <4>3. CASE \E r \in Req : \E j \in 1..Len(blocks[r]) :
                    blocks[r][j] = b /\ note[r] # NoNote /\ note[r] < j
        <5>1. PICK r \in Req : \E j \in 1..Len(blocks[r]) :
                    blocks[r][j] = b /\ note[r] # NoNote /\ note[r] < j
          BY <4>3
        <5>2. PICK j \in 1..Len(blocks[r]) : blocks[r][j] = b /\ note[r] # NoNote /\ note[r] < j
          BY <5>1
        <5>3. r \notin E \cup N
          <6> SUFFICES ASSUME r \in E \cup N PROVE FALSE
            OBVIOUS
          <6>1. note[r] \in Nat
            BY <5>2 DEF ReuseInv, NoteCovers
          <6>2. j \in (note[r] + 1)..Len(blocks[r])
            <7>1. j \in Nat /\ Len(blocks[r]) \in Nat
              BY RunningFacts
            <7> QED
              BY <5>2, <6>1, <7>1
          <6> DEFINE t == <<blocks[r][j], SubHashes(r, j, PerBlock, nTok'[r])>>
          <6>3. t \in FullTargets(r, hash, nTok'[r], note[r])
            BY <3>2, <5>2, <6>2 DEF FullTargets
          <6>4. t \in FinalTargets(r, hash, nComp[r], nTok'[r]) /\ t[1] = b
            BY <5>2, <6>3 DEF FinalTargets, PendingTargets
          <6> HIDE DEF t
          <6>5. t \in S
            BY <6>4 DEF S
          <6> QED
            BY <3>4, <6>4, <6>5
        <5>4. blocks'[r] = blocks[r] /\ note'[r] = note[r]
          BY <1>2, <5>3
        <5> QED
          BY <5>2, <5>4
      <4> QED
        BY <3>2, <4>2, <4>3 DEF ReuseInv, NoteCovers
    <3> QED
      BY <3>3, <3>4
  <2> QED
    BY <1>3, <2>1, <2>2 DEF NoteCovers
<1>23. OwnKV'
  <2> SUFFICES ASSUME NEW r \in Req, status'[r] = "running", NEW p \in 1..nComp'[r]
               PROVE  kv[blocks'[r][BlockOf(p)]][SlotOf(p)] = Prefix(r, p)
    <3>1. ASSUME NEW r \in Running', NEW p \in 1..nComp'[r]
          PROVE  WillHold(blocks[r][BlockOf(p)], SlotOf(p), Prefix(r, p))'
      <4>1. r \in Req /\ status'[r] = "running"
        BY DEF Running
      <4>2. /\ blocks'[r][BlockOf(p)'] = blocks'[r][BlockOf(p)] /\ SlotOf(p)' = SlotOf(p)
            /\ Prefix(r, p)' = Prefix(r, p)
        BY <1>3
      <4>3. ASSUME NEW b, b = blocks'[r][BlockOf(p)], NEW s, s = SlotOf(p), NEW v, v = Prefix(r, p)
            PROVE  WillHold(b, s, v)'
        BY <1>5, <4>1, <4>3
      <4> QED
        BY <4>2, <4>3
    <3> QED
      BY <3>1 DEF OwnKV
  <2>1. status[r] = "running" /\ blocks'[r] = blocks[r] /\ nComp'[r] = nComp[r]
    BY <1>2
  <2>2. WillHold(blocks[r][BlockOf(p)], SlotOf(p), Prefix(r, p))
    BY <2>1 DEF ReuseInv, OwnKV, Running
  <2> QED
    BY <1>5, <2>1, <2>2
<1> QED
  BY <1>16, <1>18, <1>19, <1>20, <1>21, <1>22, <1>23 DEF ReuseInv

(* free() on one request.                                                    *)
LEMMA FreeReuse ==
    ASSUME RefInv, HashInv, Plain, ReuseInv, UNCHANGED <<config, nTok, nOut, match, steps, kv>>,
           match = NoMatch, steps = <<>> \/ steps[1].ran, NEW r \in Req, FreeRequest(r),
           NEW to \in {"waiting", "done"}, status' = [status EXCEPT ![r] = to],
           to = "waiting" => status[r] # "done", \A q \in Req \ {r} : nComp'[q] = nComp[q]
    PROVE  ReuseInv'
<1>1. /\ hash' = Marked(hash, {r}, nComp, nTok)
      /\ lists' = Indexed(lists, FinalTargets(r, hash, nComp[r], nTok[r]))
      /\ blocks' = [blocks EXCEPT ![r] = <<>>] /\ note' = [note EXCEPT ![r] = NoNote]
  BY DEF FreeRequest
<1>2. /\ blocks \in [Req -> Seq(Block)] /\ status \in [Req -> {"waiting", "running", "done"}]
      /\ nTok \in [Req -> Nat \ {0}] /\ note \in [Req -> Int]
  BY DEF RefInv, Types, HashInv, Noted
<1>3. Lockstep'
  <2>1. ASSUME steps = <<>>, NEW q \in Req PROVE note'[q] = NoNote
    BY <1>1, <1>2, <2>1 DEF ReuseInv, Lockstep
  <2> QED
    BY <2>1 DEF ReuseInv, Lockstep
<1>4. UNION {FinalTargets(q, hash, nComp[q], nTok'[q]) : q \in {r} \cup {}}
        = FinalTargets(r, hash, nComp[r], nTok[r])
  OBVIOUS
<1>5. ASSUME NEW q \in Req
      PROVE  /\ nTok'[q] \in Nat /\ nTok[q] <= nTok'[q] /\ nTok'[q] <= Len(Tokens[q])
             /\ status'[q] # "done" => nTok'[q] < Len(Tokens[q])
             /\ status'[q] = "running" => status[q] = "running" /\ q \notin {r}
             /\ blocks'[q] = IF q \in {r} THEN <<>> ELSE blocks[q]
             /\ q \notin {r} => nComp'[q] = nComp[q]
             /\ note'[q] = NoNote \/ note'[q] = note[q]
             /\ q \notin {r} \cup {} => note'[q] = note[q]
  <2>1. status'[q] # "done" => status[q] # "done"
    BY <1>2
  <2>2. nTok[q] <= Len(Tokens[q]) /\ (status[q] # "done" => nTok[q] < Len(Tokens[q]))
    BY DEF ReuseInv, Numbers
  <2>3. nTok[q] \in Nat /\ nTok[q] <= nTok[q]
    BY <1>2
  <2> QED
    BY <1>1, <1>2, <2>1, <2>2, <2>3
<1>6. Finishes({r}, {})
  <2> DEFINE E == {r}
             N == {}
             S == UNION {FinalTargets(q, hash, nComp[q], nTok'[q]) : q \in E \cup N}
  <2>1. hash' = Marked(hash, E, nComp, nTok') /\ lists' = Indexed(lists, S)
    BY <1>1, <1>4
  <2>2. E \in SUBSET Req /\ N \in SUBSET Req
    OBVIOUS
  <2> HIDE DEF S
  <2>3. Finishes(E, N)
    BY <1>5, <2>1, <2>2 DEF Finishes, S
  <2> QED
    BY <2>3
<1> QED
  BY <1>3, <1>6, FinishReuse

(* A preemption frees between two steps.                                     *)
LEMMA PreemptReuse ==
    ASSUME RefInv, HashInv, Plain, ReuseInv, UNCHANGED config, NEW r \in Req, Preempt(r)
    PROVE  ReuseInv'
<1>1. steps = <<>> /\ match = NoMatch /\ status[r] = "running"
  BY PlainFacts DEF Preempt, CanSchedule, Running
<1>2. /\ FreeRequest(r) /\ status' = [status EXCEPT ![r] = "waiting"]
      /\ UNCHANGED <<nTok, nOut, match, steps, kv>> /\ nComp' = [nComp EXCEPT ![r] = 0]
  BY DEF Preempt
<1>3. \A q \in Req \ {r} : nComp'[q] = nComp[q]
  BY <1>2 DEF RefInv, Types
<1> QED
  BY <1>1, <1>2, <1>3, FreeReuse

(* An abort frees when no step runs: what is indexed is in the cache.        *)
LEMMA AbortReuse ==
    ASSUME RefInv, HashInv, Plain, ReuseInv, UNCHANGED config, NEW r \in Req, Abort(r)
    PROVE  ReuseInv'
<1>1. steps = <<>> \/ steps[1].ran
  BY PlainFacts DEF Abort
<1> QED
  BY <1>1, FreeReuse DEF Abort

(* update_from_output processes the one step there is.                       *)
LEMMA UpdateReuse ==
    ASSUME RefInv, RefInv', HashInv, Plain, ReuseInv, UNCHANGED config, UpdateFromOutput
    PROVE  ReuseInv'
<1>1. PICK stop, R, hs : Updates(stop, R, hs)
  BY UpdateUpdates
<1> DEFINE w == steps[1].work
           out == {r \in DOMAIN w : status[r] # "done" /\ w[r].emit}
           E == stop \cap Running
           N == {q \in Req \ E : note[q] # NoNote}
<1>2. /\ stop \in SUBSET out /\ match' = NoMatch /\ steps' = Tail(steps) /\ UNCHANGED kv
      /\ note' = [r \in Req |-> NoNote] /\ steps # <<>> /\ steps[1].ran
      /\ \A r \in out : nTok'[r] >= Len(Tokens[r]) => r \in stop
      /\ \A r \in Req :
          /\ status'[r] = IF r \in stop THEN "done" ELSE status[r]
          /\ nTok'[r] = IF r \in out THEN nTok[r] + 1 + steps[1].acc[r] ELSE nTok[r]
          /\ nComp'[r] = nComp[r] - (IF r \in DOMAIN w /\ status[r] # "done" /\ nComp[r] > 0
                                     THEN w[r].spec - steps[1].acc[r] ELSE 0)
          /\ nOut'[r] = IF Async /\ r \in out THEN nOut[r] - 1 ELSE nOut[r]
          /\ blocks'[r] = IF r \in E THEN <<>> ELSE blocks[r]
      /\ hs = IF Async THEN Cached(hash, R, blocks, [r \in Req |-> nComp'[r] - nOut'[r]]) ELSE hash
      /\ hash' = Marked(hs, E, nComp', nTok')
      /\ lists' = Indexed(lists, UNION {FinalTargets(r, hs, nComp'[r], nTok'[r]) : r \in E \cup N})
  BY <1>1 DEF Updates
<1>3. /\ ~Async /\ Len(steps) = 1 /\ config \in Configs
      /\ \A r \in DOMAIN w : r \in Req /\ w[r].spec = 0 /\ steps[1].acc[r] = 0
  <2>1. ~Async /\ Len(steps) = 1 /\ 1 \in 1..Len(steps) /\ config \in Configs
    BY <1>2, PlainFacts
  <2> QED
    BY <2>1, PlainFacts
<1>4. steps' = <<>>
  <2>1. steps \in Seq(Step)
    BY DEF RefInv, Types
  <2>2. Tail(steps) \in Seq(Step) /\ Len(Tail(steps)) = 0
    BY <1>2, <1>3, <2>1, HeadTailFacts
  <2> QED
    BY <1>2, <2>2
<1>5. nComp' = nComp
  <2>1. nComp \in [Req -> Int] /\ nComp' \in [Req -> Int]
    BY DEF RefInv, Types
  <2>2. \A r \in Req : nComp'[r] = nComp[r]
    <3>1. ASSUME NEW r \in Req PROVE nComp'[r] = nComp[r]
      <4>1. nComp[r] \in Int
        BY <2>1
      <4>2. CASE r \in DOMAIN w /\ status[r] # "done" /\ nComp[r] > 0
        BY <1>2, <1>3, <4>1, <4>2
      <4>3. CASE ~(r \in DOMAIN w /\ status[r] # "done" /\ nComp[r] > 0)
        BY <1>2, <4>1, <4>3
      <4> QED
        BY <4>2, <4>3
    <3> QED
      BY <3>1
  <2> QED
    BY <2>1, <2>2
<1>6. hs = hash /\ E \in SUBSET Req /\ N \in SUBSET Req /\ E \subseteq stop
  BY <1>2, <1>3 DEF Running
<1>7. ASSUME NEW q \in Req
      PROVE  /\ nTok'[q] \in Nat /\ nTok[q] <= nTok'[q] /\ nTok'[q] <= Len(Tokens[q])
             /\ status'[q] # "done" => nTok'[q] < Len(Tokens[q])
             /\ status'[q] = "running" => status[q] = "running" /\ q \notin E
             /\ nOut'[q] = nOut[q]
  <2>1. /\ nTok[q] \in Nat /\ nTok[q] <= Len(Tokens[q])
        /\ status[q] # "done" => nTok[q] < Len(Tokens[q])
    BY DEF RefInv, Types, ReuseInv, Numbers
  <2>2. Len(Tokens[q]) \in Nat
    <3>1. Tokens[q] \in Seq(Nat)
      BY <1>3, ConfigFacts
    <3> QED
      BY <3>1
  <2>3. CASE q \in out
    <3>1. nTok'[q] = nTok[q] + 1 /\ status[q] # "done"
      <4>1. steps[1].acc[q] = 0
        BY <1>3, <2>3
      <4> QED
        BY <1>2, <2>1, <2>3, <4>1
    <3>2. status'[q] # "done" => ~(nTok'[q] >= Len(Tokens[q]))
      BY <1>2, <2>3
    <3>3. status'[q] = "running" => status[q] = "running" /\ q \notin E
      BY <1>2, <1>6
    <3> QED
      BY <1>2, <1>3, <2>1, <2>2, <3>1, <3>2, <3>3
  <2>4. CASE q \notin out
    <3>1. nTok'[q] = nTok[q] /\ nOut'[q] = nOut[q] /\ q \notin stop
      BY <1>2, <2>4
    <3>2. status'[q] = status[q]
      BY <1>2, <3>1
    <3> QED
      BY <1>6, <2>1, <3>1, <3>2
  <2> QED
    BY <2>3, <2>4
<1>8. Lockstep'
  BY <1>2, <1>4, <1>7 DEF ReuseInv, Lockstep
<1> HIDE DEF out, w
<1>9. Finishes(E, N)
  <2>1. \A q \in Req : note'[q] = NoNote /\ (q \notin E \cup N => note[q] = NoNote)
    BY <1>2
  <2>2. \A q \in Req : blocks'[q] = IF q \in E THEN <<>> ELSE blocks[q]
    BY <1>2
  <2>3. /\ hs = hash /\ nComp' = nComp /\ hash' = Marked(hs, E, nComp', nTok')
        /\ lists' = Indexed(lists, UNION {FinalTargets(r, hs, nComp'[r], nTok'[r]) : r \in E \cup N})
    BY <1>2, <1>5, <1>6
  <2> DEFINE F(r) == FinalTargets(r, hs, nComp'[r], nTok'[r])
             G(r) == FinalTargets(r, hash, nComp[r], nTok'[r])
             S == UNION {F(r) : r \in E \cup N}
             T == UNION {G(r) : r \in E \cup N}
  <2> HIDE DEF E, N
  <2>4. \A r : F(r) = G(r)
    BY <2>3
  <2>5. lists' = Indexed(lists, S)
    BY <2>3
  <2>6. S = T
    <3> HIDE DEF F, G
    <3> QED
      BY <2>4
  <2>7. lists' = Indexed(lists, T)
    <3> HIDE DEF S, T
    <3> QED
      BY <2>5, <2>6
  <2>8. hash' = Marked(hash, E, nComp, nTok')
    BY <2>3
  <2> QED
    BY <1>2, <1>4, <1>5, <1>6, <1>7, <2>1, <2>2, <2>7, <2>8 DEF Finishes
<1> QED
  BY <1>8, <1>9, FinishReuse

(* The invariant of reuse holds in every reachable state of a deployment     *)

(* with one step at a time and no drafts.                                    *)
THEOREM ReuseInvariance == Spec => [](Plain => ReuseInv)
<1>1. RefInv /\ RefInv' /\ HashInv /\ (Plain => ReuseInv) /\ [Next]_vars => (Plain => ReuseInv)'
  <2> SUFFICES ASSUME RefInv, RefInv', HashInv, Plain => ReuseInv, [Next]_vars, Plain' PROVE ReuseInv'
    OBVIOUS
  <2>1. UNCHANGED config
    BY DEF Next, vars
  <2>2. Plain /\ ReuseInv
    BY <2>1, ConfigSame
  <2>3. CASE UNCHANGED vars
    BY <2>2, <2>3, StutterReuse
  <2>4. CASE Next
    BY <2>1, <2>2, <2>4, TryMatchReuse, ReleaseReuse, AdmitReuse, RunningReuse, PreemptReuse,
       AbortReuse, ExecuteReuse, UpdateReuse, ResetReuse DEF Next
  <2> QED
    BY <2>3, <2>4
<1>2. Init => (Plain => ReuseInv)
  BY InitReuse
<1> QED
  BY <1>1, <1>2, RefInvariance, HashInvariance, PTL DEF Spec

(* Full-block hashes and the index agree: set_block_hash never overwrites a  *)

(* hash and, once do_pending_indexing has run, a block cached as full is     *)
(* indexed to its last sub-block.                                            *)
THEOREM HashesIndexed == Spec => []HashesMatchIndex
<1>1. (Plain => ReuseInv) => CachedIsIndexed
  BY DEF ReuseInv, NoteCovers, CachedIsIndexed
<1> QED
  BY <1>1, PartialUnhashed, ReuseInvariance, PTL DEF HashesMatchIndex

(* Where a sub-block's hash belongs: its length tells its depth.             *)
LEMMA DepthOfHash ==
    ASSUME config \in Configs, NEW j \in Nat \ {0}, NEW i \in 1..PerBlock, NEW n,
           n = (j - 1) * BlockSize + i * SubSize
    PROVE  (n \div SubSize - 1) % PerBlock = i - 1
<1> DEFINE k == (j - 1) * PerBlock
           c == k + i
           e == c * SubSize
<1>1. SubSize \in Nat \ {0} /\ PerBlock \in Nat \ {0} /\ i \in 0..PerBlock
  BY ConfigFacts
<1>2. e = (j - 1) * BlockSize + i * SubSize
  BY <1>1, GrainFacts
<1>3. k \in Int
  BY <1>1
<1>4. n = e /\ c \in Int
  BY <1>2, <1>3
<1>5. n \div SubSize = c
  <2> HIDE DEF c
  <2>1. e \in Int /\ 0 \in 0..(SubSize - 1) /\ n = c * SubSize + 0 /\ n \in Int
    BY <1>1, <1>4
  <2> QED
    BY <1>1, <1>4, <2>1, DivUnique
<1>6. c - 1 = k + (i - 1) /\ c - 1 \in Int /\ i - 1 \in 0..(PerBlock - 1) /\ j - 1 \in Int
  <2> HIDE DEF k
  <2> QED
    BY <1>1, <1>3
<1>7. (c - 1) % PerBlock = i - 1
  BY <1>1, <1>6, DivUnique
<1> HIDE DEF c
<1> QED
  BY <1>5, <1>7

(* An indexed sub-block is where its hash says, in the cache and when the    *)
(* step in flight has run.                                                   *)
LEMMA ListedHolds ==
    ASSUME RefInv, HashInv, Plain, ReuseInv, NEW b \in Block, NEW i \in 1..Len(lists[b])
    PROVE  /\ (Len(lists[b][i]) \div SubSize - 1) % PerBlock = i - 1
           /\ Holds(kv, b, i, lists[b][i]) /\ Holds(Settled, b, i, lists[b][i])
<1>1. config \in Configs /\ lists[b] \in Seq(Seq(Nat)) /\ Len(lists[b]) \in Nat /\ lists[b] # <<>>
  <2>1. config \in Configs /\ lists[b] \in Seq(Seq(Nat))
    BY PlainFacts DEF ReuseInv, LooseLists
  <2> QED
    BY <2>1
<1>2. PICK r \in Req, j \in Nat \ {0} : ListsOf(b, r, j)
  BY <1>1, Listed
<1> DEFINE g == Len(lists[b])
           x == (j - 1) * BlockSize
           y == i * SubSize
           n == x + y
           z == (i - 1) * SubSize
<1>3. /\ g \in 0..PerBlock /\ i \in 1..PerBlock /\ SubSize \in Nat \ {0} /\ BlockSize \in Nat \ {0}
      /\ PerBlock \in Nat
  BY <1>1, <1>2, ConfigFacts DEF ListsOf
<1>4. /\ x \in Nat /\ g * SubSize \in 0..BlockSize /\ y \in 1..(g * SubSize)
  BY <1>1, <1>3, GrainFacts
<1>5. Tokens[r] \in Seq(Nat) /\ Len(Tokens[r]) \in Nat /\ x + g * SubSize <= Len(Tokens[r])
  <2>1. Tokens[r] \in Seq(Nat)
    BY <1>1, ConfigFacts
  <2> QED
    BY <1>2, <2>1 DEF ListsOf
<1>6. z = y - SubSize /\ z >= 0 /\ z \in Int
  <2>1. i \in Int /\ i - 1 >= 0 /\ i - 1 \in Int /\ SubSize \in Nat
    BY <1>3
  <2> QED
    BY <2>1, MulFacts
<1>7. n \in 0..Len(Tokens[r]) /\ lists[b][i] = Prefix(r, n)
  <2>1. lists[b][i] = Prefix(r, n)
    BY <1>2 DEF ListsOf
  <2> DEFINE G == g * SubSize
  <2>2. G \in 0..BlockSize /\ y \in 1..G /\ x + G <= Len(Tokens[r])
    BY <1>4, <1>5
  <2> HIDE DEF G, x, y
  <2> QED
    BY <1>4, <1>5, <2>1, <2>2, <1>3
<1>8. Len(lists[b][i]) = n /\ \A k \in 0..n : SubSeq(lists[b][i], 1, k) = Prefix(r, k)
  <2> HIDE DEF n
  <2> QED
    BY <1>5, <1>7, PrefixFacts DEF Prefix
<1>9. (n \div SubSize - 1) % PerBlock = i - 1
  BY <1>1, <1>3, DepthOfHash
<1>10. ASSUME NEW t \in 1..SubSize
       PROVE  /\ kv[b][z + t] = SubSeq(lists[b][i], 1, n - SubSize + t)
              /\ Settled[b][z + t] = SubSeq(lists[b][i], 1, n - SubSize + t)
  <2> DEFINE G == g * SubSize
             s == z + t
             v == Prefix(r, x + s)
  <2>1. s \in 1..G /\ s \in 1..BlockSize /\ n - SubSize + t = x + s /\ x + s \in 0..n
    <3>1. G \in 0..BlockSize /\ y \in 1..G
      BY <1>4
    <3> HIDE DEF G, x, y, z
    <3> QED
      BY <1>3, <1>4, <1>6, <3>1
  <2>2. SubSeq(lists[b][i], 1, n - SubSize + t) = v
    <3> HIDE DEF n, s, x
    <3> QED
      BY <1>8, <2>1
  <2>3. kv[b][s] = v /\ WillHold(b, s, v)
    <3>1. \A u \in 1..G : kv[b][u] = Prefix(r, x + u) /\ WillHold(b, u, Prefix(r, x + u))
      BY <1>2 DEF ListsOf
    <3> HIDE DEF G, s, x
    <3> QED
      BY <2>1, <3>1
  <2> HIDE DEF s, v, G
  <2>4. Settled[b][s] = v
    BY <2>1, <2>3, WillSettle
  <2> QED
    BY <2>2, <2>3, <2>4 DEF s
<1> HIDE DEF n
<1>11. Holds(kv, b, i, lists[b][i]) /\ Holds(Settled, b, i, lists[b][i])
  BY <1>8, <1>10 DEF Holds
<1> QED
  BY <1>8, <1>9, <1>11

(* The index is sound: a block indexed under a hash at depth k holds the     *)

(* k-th sub-block of that prefix, in the cache already and still when the    *)
(* step in flight has run.                                                   *)
THEOREM IndexIsSound == Spec => []IndexSound
<1>1. RefInv /\ HashInv /\ (Plain => ReuseInv) => IndexSound
  BY ListedHolds DEF IndexSound
<1> QED
  BY <1>1, RefInvariance, HashInvariance, ReuseInvariance, PTL

(* Prefix caching never changes what is computed: a block get_computed_blocks*)

(* can hit holds the KV of the prefix its hash stands for, and every         *)
(* position a running request counts as computed holds that request's own.   *)
THEOREM ReuseIsSound == Spec => []ReuseSound
<1>1. ASSUME RefInv, HashInv, Plain, ReuseInv PROVE HashSound
  <2> SUFFICES ASSUME NEW b \in Block, hash[b][1] = "full", NEW s \in 1..BlockSize
               PROVE  Settled[b][s] = SubSeq(hash[b][2], 1, Len(hash[b][2]) - BlockSize + s)
    BY DEF HashSound
  <2>1. hash[b] # NoHash /\ config \in Configs
    BY <1>1, PlainFacts DEF NoHash
  <2>2. PICK r \in Req, j \in Nat \ {0} : Whole(b, r, j)
    BY <1>1, <2>1 DEF ReuseInv, Hashed
  <2> DEFINE x == (j - 1) * BlockSize
             n == j * BlockSize
             v == Prefix(r, x + s)
  <2>3. /\ hash[b][2] = Prefix(r, n) /\ n <= Len(Tokens[r]) /\ WillHold(b, s, v)
    BY <2>2 DEF Whole
  <2>4. x \in Nat /\ n = x + BlockSize /\ BlockSize \in Nat \ {0}
    <3>1. PerBlock \in 0..PerBlock /\ BlockSize \in Nat \ {0}
      BY <2>1, ConfigFacts
    <3> QED
      BY <2>1, <3>1, GrainFacts
  <2>5. Tokens[r] \in Seq(Nat) /\ Len(Tokens[r]) \in Nat
    <3>1. Tokens[r] \in Seq(Nat)
      BY <2>1, ConfigFacts
    <3> QED
      BY <3>1
  <2> HIDE DEF x, n, v
  <2>6. n \in 0..Len(Tokens[r]) /\ n - BlockSize + s = x + s /\ x + s \in 0..n
    BY <2>3, <2>4, <2>5
  <2>7. Len(hash[b][2]) = n /\ SubSeq(hash[b][2], 1, x + s) = v
    BY <2>3, <2>5, <2>6, PrefixFacts DEF Prefix, v
  <2>8. Settled[b][s] = v
    BY <1>1, <2>3, WillSettle
  <2> QED
    BY <2>6, <2>7, <2>8
<1>2. ASSUME RefInv, HashInv, Plain, ReuseInv PROVE ComputedIsOwn
  <2> SUFFICES ASSUME NEW r \in Running, NEW p \in 1..MinOf(nComp[r], nTok[r])
               PROVE  Settled[blocks[r][BlockOf(p)]][SlotOf(p)] = Prefix(r, p)
    BY DEF ComputedIsOwn
  <2>1. /\ r \in Req /\ status[r] = "running" /\ nComp[r] \in Int /\ nTok[r] \in Int
        /\ blocks[r] \in Seq(Block) /\ config \in Configs
    BY <1>2, PlainFacts DEF Running, RefInv, Types
  <2>2. p \in Nat \ {0} /\ p \in 1..nComp[r]
    BY <2>1 DEF MinOf
  <2>3. nComp[r] <= Len(blocks[r]) * BlockSize /\ Len(blocks[r]) \in Nat
    BY <1>2, <2>1 DEF ReuseInv, Numbers
  <2>4. BlockSize \in Nat
    BY <2>1, ConfigFacts
  <2> DEFINE m == Len(blocks[r]) * BlockSize
             d == BlockOf(p)
             s == SlotOf(p)
  <2>5. d \in 1..Len(blocks[r]) /\ s \in 1..BlockSize
    <3>1. d \in Nat \ {0} /\ s \in 1..BlockSize /\ (p <= m => d <= Len(blocks[r]))
      BY <2>1, <2>2, <2>3, PlaceFacts
    <3>2. m \in Int
      BY <2>3, <2>4
    <3> HIDE DEF m, d, s
    <3>3. p <= m
      BY <2>1, <2>2, <2>3, <3>2 DEF m
    <3> QED
      BY <2>3, <3>1, <3>3
  <2>6. WillHold(blocks[r][d], s, Prefix(r, p))
    BY <1>2, <2>2 DEF ReuseInv, OwnKV
  <2> HIDE DEF d, s
  <2>7. blocks[r][d] \in Block
    BY <2>1, <2>5
  <2>8. Settled[blocks[r][d]][s] = Prefix(r, p)
    BY <1>2, <2>5, <2>6, <2>7, WillSettle
  <2> QED
    BY <2>8 DEF d, s
<1>3. RefInv /\ HashInv /\ (Plain => ReuseInv) => ReuseSound
  BY <1>1, <1>2 DEF ReuseSound
<1> QED
  BY <1>3, RefInvariance, HashInvariance, ReuseInvariance, PTL

=============================================================================
