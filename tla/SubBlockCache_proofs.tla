-------------------------- MODULE SubBlockCache_proofs --------------------------
(***************************************************************************)
(* Proofs about the sub-block cache manager, for every set of blocks, every *)
(* finite set of requests and every deployment ConfigsAssumption admits.    *)
(*                                                                          *)
(* References: the count vLLM's pool keeps on a block is the number of its  *)
(* owners.  By itself that is not inductive.  Admission adds one reference  *)
(* per block of a table, so the request must have had none (only a running  *)
(* request has a table); it turns the handle's reference into the copy      *)
(* operation's, whose destination is the block after the hits, so the table *)
(* must be longer than they are (a match leaves a token to compute); and    *)
(* release_copy_ops drops one reference per operation, so a step has one at *)
(* most.                                                                    *)
(***************************************************************************)
EXTENDS SubBlockCache, SeqLemmas

(* What a scheduled request, a copy operation, a step and a match handle are. *)
Item == [from : Int, num : Int, spec : Int, table : Seq(Block), emit : BOOLEAN]
Copy == [src : Block, dst : Block, num : Int]
Step == {st \in [work : UNION {[R -> Item] : R \in SUBSET Req},
                 copies : {C \in SUBSET Copy : IsFiniteSet(C) /\ \A o, p \in C : o = p},
                 ran : BOOLEAN, acc : UNION {[R -> Nat] : R \in SUBSET Req}] :
           DOMAIN st.acc = DOMAIN st.work}
Match == [req : Req, hits : Seq(Block), src : Block \cup {NoBlock}, num : Int]

(* The types the counts rest on.                                             *)
Types ==
    /\ config \in Configs
    /\ status \in [Req -> {"waiting", "running", "done"}]
    /\ nTok \in [Req -> Nat \ {0}] /\ nComp \in [Req -> Int] /\ nOut \in [Req -> Int]
    /\ blocks \in [Req -> Seq(Block)] /\ refCnt \in [Block -> Int]
    /\ match \in Match \cup {NoMatch} /\ steps \in Seq(Step)

(* Only a running request has a block table.                                 *)
TablesOfRunning == \A r \in Req : status[r] # "running" => blocks[r] = <<>>

(* The match handle is of a waiting request and leaves it a token to compute. *)
MatchFits ==
    match # NoMatch =>
        /\ status[match.req] = "waiting"
        /\ match.num >= 0 /\ (match.src # NoBlock => match.num >= 1)
        /\ Len(match.hits) * BlockSize + match.num * SubSize < nTok[match.req]

(* The owners of a block's references, and the count of them.                *)
Owners(b) == {r \in Req : b \in Range(blocks[r])}
Handle(b) == IF match # NoMatch /\ match.src = b THEN 1 ELSE 0
Copiers(b) == {i \in 1..Len(steps) : \E op \in steps[i].copies : op.src = b}
Counted == \A b \in Block : refCnt[b] = Cardinality(Owners(b)) + Handle(b) + Cardinality(Copiers(b))

(* The inductive invariant.                                                  *)
RefInv == Types /\ TablesOfRunning /\ MatchFits /\ Counted

-----------------------------------------------------------------------------
(* A deployment's numbers.                                                   *)
LEMMA ConfigFacts ==
    ASSUME config \in Configs
    PROVE  /\ SubSize \in Nat \ {0} /\ PerBlock \in Nat \ {0, 1} /\ BlockSize \in Nat \ {0}
           /\ ChunkMax \in Nat \ {0} /\ MaxSpec \in Nat /\ Depth \in {1, 2}
           /\ PromptLen \in [Req -> Nat \ {0}] /\ Tokens \in [Req -> Seq(Nat)]
<1>1. /\ SubSize \in Nat \ {0} /\ PerBlock \in Nat \ {0, 1} /\ Depth \in {1, 2}
      /\ ChunkMax \in SubSize..(SubSize * PerBlock)
      /\ MaxSpec \in 0..(SubSize * PerBlock - 1)
      /\ PromptLen \in [Req -> Nat] /\ Tokens \in [Req -> Seq(Nat)]
      /\ \A r \in Req : PromptLen[r] \in 1..(Len(Tokens[r]) - 1)
  BY ConfigsAssumption DEF SubSize, PerBlock, Depth, ChunkMax, MaxSpec, PromptLen, Tokens
<1>2. SubSize * PerBlock \in Nat \ {0}
  BY <1>1
<1>3. \A r \in Req : PromptLen[r] \in Nat \ {0}
  BY <1>1
<1> QED
  BY <1>1, <1>2, <1>3 DEF BlockSize

(* The owners of a block are finitely many.                                  *)
LEMMA CountsFinite ==
    ASSUME steps \in Seq(Step), NEW b
    PROVE  /\ IsFiniteSet(Owners(b)) /\ Cardinality(Owners(b)) \in Nat
           /\ IsFiniteSet(Copiers(b)) /\ Cardinality(Copiers(b)) \in Nat
<1>1. Owners(b) \in SUBSET Req /\ IsFiniteSet(Req)
  BY NamesAssumption DEF Owners
<1>2. Copiers(b) \in SUBSET (1..Len(steps)) /\ IsFiniteSet(1..Len(steps))
  BY IntervalCardinality DEF Copiers
<1> QED
  BY <1>1, <1>2, FS_Subset, FS_CardinalityType

(* get_computed_blocks never covers the last token.                          *)
LEMMA HitFacts ==
    ASSUME Types, NEW r \in Req
    PROVE  NumHits(r) \in Nat /\ NumHits(r) * BlockSize < nTok[r]
<1> DEFINE x == (nTok[r] - 1) \div BlockSize
           N == {n \in 0..x : \A j \in 1..n : HitBlocks(r, j) # {}}
<1>1. nTok[r] - 1 \in Nat /\ BlockSize \in Nat \ {0} /\ nTok[r] \in Nat
  BY ConfigFacts DEF Types
<1>2. x \in Nat /\ x * BlockSize <= nTok[r] - 1
  <2> DEFINE a == nTok[r] - 1
  <2>1. a \in Int /\ 0 \in Int /\ 0 * BlockSize <= a
    BY <1>1
  <2> HIDE DEF a
  <2>2. a \div BlockSize \in Int /\ (a \div BlockSize) * BlockSize <= a /\ 0 <= a \div BlockSize
    BY <1>1, <2>1, DivFacts, DivBounds
  <2> QED
    BY <2>2 DEF a
<1> HIDE DEF x
<1>3. 0 \in N /\ N \in SUBSET Int /\ x \in Int /\ \A n \in N : n <= x
  BY <1>2
<1>4. Max(N) \in N
  <2> HIDE DEF N
  <2> QED
    BY <1>3, MaxFacts
<1>5. Max(N) \in Nat /\ Max(N) <= x
  BY <1>2, <1>4
<1>6. NumHits(r) = Max(N)
  BY DEF NumHits, x
<1> HIDE DEF N
<1>7. Max(N) * BlockSize <= x * BlockSize
  BY <1>1, <1>3, <1>5, MulFacts
<1> QED
  BY <1>1, <1>2, <1>5, <1>6, <1>7

(* A sub-block match has a block, at least one sub-block, and leaves a token *)
(* to compute.                                                               *)
LEMMA SubMatchFacts ==
    ASSUME Types, NEW r \in Req, NEW k \in Nat, k * BlockSize < nTok[r], NEW m \in SubMatches(r, k)
    PROVE  /\ m[1] \in Block /\ m[2] \in Nat \ {0}
           /\ k * BlockSize + m[2] * SubSize < nTok[r]
<1> DEFINE query == SubHashes(r, k + 1, PerBlock - 1, nTok[r])
           depths == {d \in 1..Len(query) : \A i \in 1..d : Holders(query[i]) # {}}
           x == k * BlockSize
           allowed == (nTok[r] - 1 - x) \div SubSize
<1>1. /\ SubSize \in Nat \ {0} /\ SubSize \in Nat /\ PerBlock \in Nat /\ BlockSize \in Nat
      /\ nTok[r] \in Nat
  BY ConfigFacts DEF Types
<1>2. Len(query) \in Nat
  <2> DEFINE first == ((k + 1) - 1) * PerBlock
             last == MinOf(first + (PerBlock - 1), nTok[r] \div SubSize)
  <2>1. first \in Int /\ nTok[r] \div SubSize \in Int
    BY <1>1, MulFacts, DivFacts
  <2>2. last \in Int
    BY <1>1, <2>1 DEF MinOf
  <2> HIDE DEF first, last
  <2>3. query = [i \in 1..(IF last > first THEN last - first ELSE 0) |-> Prefix(r, (first + i) * SubSize)]
    BY DEF SubHashes, first, last
  <2>4. (IF last > first THEN last - first ELSE 0) \in Nat
    BY <2>1, <2>2
  <2> QED
    BY <2>3, <2>4
<1>3. x \in Int /\ x < nTok[r]
  BY <1>1, MulFacts
<1>4. SubMatches(r, k) = IF depths = {} \/ allowed = 0 THEN {}
        ELSE Sources(query, Max(depths)) \X {MinOf(Max(depths), allowed)}
  BY DEF SubMatches
<1> HIDE DEF query, x
<1>5. allowed \in Int /\ allowed * SubSize <= nTok[r] - 1 - x
  <2> DEFINE a == nTok[r] - 1 - x
  <2>1. a \in Int
    BY <1>1, <1>3
  <2> HIDE DEF a
  <2>2. a \div SubSize \in Int /\ (a \div SubSize) * SubSize <= a
    BY <1>1, <2>1, DivFacts
  <2> QED
    BY <2>2 DEF a
<1>6. allowed >= 0
  <2>1. 0 * SubSize <= nTok[r] - 1 - x /\ nTok[r] - 1 - x \in Int
    BY <1>1, <1>3
  <2> QED
    BY <1>1, <2>1, DivBounds
<1> HIDE DEF allowed
<1>7. depths # {} /\ allowed # 0 /\ m \in Sources(query, Max(depths)) \X {MinOf(Max(depths), allowed)}
  BY <1>4
<1>8. Max(depths) \in depths
  <2>1. depths \in SUBSET Int /\ (\A d \in depths : d <= Len(query)) /\ Len(query) \in Int
    BY <1>2
  <2> HIDE DEF depths
  <2> QED
    BY <1>7, <2>1, MaxFacts
<1>9. Max(depths) \in Nat \ {0}
  BY <1>2, <1>8
<1>10. m[1] \in Block
  BY <1>7 DEF Sources, Holders
<1> HIDE DEF depths
<1>11. m[2] \in Nat \ {0} /\ m[2] <= allowed
  BY <1>5, <1>6, <1>7, <1>9 DEF MinOf
<1>12. m[2] * SubSize <= allowed * SubSize /\ m[2] * SubSize \in Int /\ allowed * SubSize \in Int
  BY <1>1, <1>5, <1>11, MulFacts
<1>13. x + m[2] * SubSize < nTok[r]
  BY <1>1, <1>3, <1>5, <1>12
<1> QED
  BY <1>10, <1>11, <1>13 DEF x

-----------------------------------------------------------------------------
(* References.                                                               *)

(* _try_sub_block_match takes the reference the handle owns.                 *)
LEMMA TryMatchRefs ==
    ASSUME RefInv, UNCHANGED config, NEW r \in Req, TryMatch(r)
    PROVE  RefInv'
<1> USE DEF RefInv
<1> DEFINE k == NumHits(r)
<1>1. /\ k \in Nat /\ k * BlockSize < nTok[r]
      /\ \A m \in SubMatches(r, k) : /\ m[1] \in Block /\ m[2] \in Nat \ {0}
                                    /\ k * BlockSize + m[2] * SubSize < nTok[r]
  <2>1. k \in Nat /\ k * BlockSize < nTok[r]
    BY HitFacts
  <2> HIDE DEF k
  <2> QED
    BY <2>1, SubMatchFacts
<1> HIDE DEF k
<1>2. /\ match = NoMatch /\ status[r] = "waiting"
      /\ UNCHANGED <<status, nTok, nComp, nOut, blocks, hash, lists, note, steps, kv>>
  BY DEF TryMatch, CanSchedule, reqVars
<1>3. PICK hits \in [1..k -> Block] :
         \/ /\ match' = [req |-> r, hits |-> hits, src |-> NoBlock, num |-> 0]
            /\ UNCHANGED refCnt
         \/ \E m \in SubMatches(r, k) :
            /\ match' = [req |-> r, hits |-> hits, src |-> m[1], num |-> m[2]]
            /\ refCnt' = [refCnt EXCEPT ![m[1]] = @ + 1]
  BY DEF TryMatch, k
<1>4. hits \in Seq(Block) /\ Len(hits) = k
  BY <1>1, <1>3
<1>9. SubSize \in Nat /\ BlockSize \in Nat /\ k * BlockSize \in Int /\ BlockSize' = BlockSize /\ SubSize' = SubSize
  BY <1>1, ConfigFacts, MulFacts DEF Types, BlockSize, SubSize, PerBlock
<1>5. \A b : Owners(b)' = Owners(b) /\ Copiers(b)' = Copiers(b) /\ Handle(b) = 0
  BY <1>2 DEF Owners, Copiers, Handle
<1>6. ASSUME NEW b \in Block PROVE Cardinality(Owners(b)) \in Nat /\ Cardinality(Copiers(b)) \in Nat
  BY CountsFinite DEF Types
<1>7. CASE match' = [req |-> r, hits |-> hits, src |-> NoBlock, num |-> 0] /\ UNCHANGED refCnt
  <2>1. match' \in Match /\ match'.req = r
    BY <1>4, <1>7 DEF Match
  <2>2. \A b \in Block : Handle(b)' = 0
    BY <1>7, NamesAssumption DEF Handle
  <2>3. Counted'
    BY <1>5, <1>7, <2>2 DEF Counted
  <2>4. Types'
    BY <1>2, <1>7, <2>1 DEF Types
  <2>5. MatchFits'
    <3>1. match'.hits = hits /\ match'.num = 0 /\ match'.src = NoBlock
      BY <1>7
    <3>2. k * BlockSize + 0 * SubSize < nTok[r]
      BY <1>1, <1>9
    <3> QED
      BY <1>2, <1>4, <1>9, <2>1, <3>1, <3>2 DEF MatchFits
  <2> QED
    BY <1>2, <2>3, <2>4, <2>5 DEF TablesOfRunning
<1>8. CASE \E m \in SubMatches(r, k) :
            /\ match' = [req |-> r, hits |-> hits, src |-> m[1], num |-> m[2]]
            /\ refCnt' = [refCnt EXCEPT ![m[1]] = @ + 1]
  <2>1. PICK m \in SubMatches(r, k) :
            /\ match' = [req |-> r, hits |-> hits, src |-> m[1], num |-> m[2]]
            /\ refCnt' = [refCnt EXCEPT ![m[1]] = @ + 1]
    BY <1>8
  <2>2. m[1] \in Block /\ m[2] \in Int
    BY <1>1
  <2>3. match' \in Match /\ match'.req = r /\ match'.src = m[1] /\ match' # NoMatch
    <3>1. match' \in Match /\ match'.req = r /\ match'.src = m[1]
      BY <1>4, <2>1, <2>2 DEF Match
    <3>2. "src" \in DOMAIN match' /\ "src" \notin DOMAIN NoMatch
      BY <2>1 DEF NoMatch
    <3> QED
      BY <3>1, <3>2
  <2>4. \A b \in Block : Handle(b)' = IF b = m[1] THEN 1 ELSE 0
    BY <2>3 DEF Handle
  <2>5. Counted'
    <3> SUFFICES ASSUME NEW b \in Block
                 PROVE  refCnt'[b] = Cardinality(Owners(b)) + Handle(b)' + Cardinality(Copiers(b))
      BY <1>5 DEF Counted
    <3>1. refCnt[b] = Cardinality(Owners(b)) + 0 + Cardinality(Copiers(b))
      BY <1>5 DEF Counted
    <3>2. refCnt'[b] = IF b = m[1] THEN refCnt[b] + 1 ELSE refCnt[b]
      BY <2>1, <2>2 DEF Types
    <3> QED
      BY <1>6, <2>4, <3>1, <3>2
  <2>6. Types'
    BY <1>2, <2>1, <2>2, <2>3 DEF Types
  <2>7. MatchFits'
    <3>1. match'.hits = hits /\ match'.num = m[2]
      BY <2>1
    <3>2. k * BlockSize + m[2] * SubSize < nTok[r] /\ m[2] >= 1
      BY <1>1
    <3>3. m[2] \in Nat
      BY <1>1
    <3>4. Len(match'.hits) * BlockSize' + match'.num * SubSize' < nTok'[match'.req]
      BY <1>2, <1>4, <1>9, <2>3, <3>1, <3>2
    <3>5. match'.num >= 0 /\ match'.num >= 1
      BY <3>1, <3>2, <3>3
    <3> QED
      BY <1>2, <2>3, <3>4, <3>5 DEF MatchFits
  <2> QED
    BY <1>2, <2>5, <2>6, <2>7 DEF TablesOfRunning
<1> QED
  BY <1>3, <1>7, <1>8

(* release_sub_block_match gives it back.                                    *)
LEMMA ReleaseMatchRefs ==
    ASSUME RefInv, UNCHANGED config, ReleaseMatch
    PROVE  RefInv'
<1> USE DEF RefInv
<1>1. /\ match # NoMatch /\ match' = NoMatch
      /\ refCnt' = [b \in Block |-> IF b = match.src THEN refCnt[b] - 1 ELSE refCnt[b]]
      /\ UNCHANGED <<status, nTok, nComp, nOut, blocks, hash, lists, note, steps, kv>>
  BY DEF ReleaseMatch, reqVars
<1>2. Types'
  BY <1>1 DEF Types
<1>3. Counted'
  <2> SUFFICES ASSUME NEW b \in Block
               PROVE  refCnt'[b] = Cardinality(Owners(b)) + 0 + Cardinality(Copiers(b))
    BY <1>1 DEF Counted, Owners, Copiers, Handle
  <2>1. refCnt[b] = Cardinality(Owners(b)) + Handle(b) + Cardinality(Copiers(b))
    BY DEF Counted
  <2>2. Cardinality(Owners(b)) \in Nat /\ Cardinality(Copiers(b)) \in Nat
    BY CountsFinite DEF Types
  <2>3. Handle(b) = IF b = match.src THEN 1 ELSE 0
    BY <1>1 DEF Handle
  <2> QED
    BY <1>1, <2>1, <2>2, <2>3
<1> QED
  BY <1>1, <1>2, <1>3 DEF TablesOfRunning, MatchFits

(* The numbers of an admission: at least one token is computed, and the      *)
(* table is longer than the hits.                                            *)
LEMMA AdmitNumbers ==
    ASSUME Types, MatchFits, match # NoMatch
    PROVE  LET from == Len(match.hits) * BlockSize + match.num * SubSize
               num == MinOf(nTok[match.req] - from, ChunkMax)
               n == CeilDiv(from + num, BlockSize) - Len(match.hits)
           IN  /\ match \in Match /\ match.req \in Req /\ match.hits \in Seq(Block)
               /\ from \in Nat /\ num \in Nat \ {0} /\ from + num <= nTok[match.req]
               /\ n \in Nat \ {0}
<1>1. match \in Match
  BY DEF Types
<1>2. match.req \in Req /\ match.hits \in Seq(Block) /\ match.num \in Int /\ Len(match.hits) \in Nat
  BY <1>1 DEF Match
<1>3. SubSize \in Nat /\ BlockSize \in Nat \ {0} /\ ChunkMax \in Nat \ {0} /\ nTok[match.req] \in Nat
  BY <1>2, ConfigFacts DEF Types
<1> DEFINE L == Len(match.hits)
           x == L * BlockSize
           y == match.num * SubSize
           from == x + y
           num == MinOf(nTok[match.req] - from, ChunkMax)
           d == (from + num + BlockSize - 1) \div BlockSize
<1>4. x \in Nat /\ y \in Nat /\ x + y < nTok[match.req]
  <2>1. x \in Int /\ x >= 0
    BY <1>2, <1>3, MulFacts
  <2>2. match.num >= 0 /\ x + y < nTok[match.req]
    BY DEF MatchFits
  <2>3. y \in Int /\ y >= 0
    BY <1>2, <1>3, <2>2, MulFacts
  <2> QED
    BY <2>1, <2>2, <2>3
<1>5. (L + 1) * BlockSize = x + BlockSize
  BY <1>2, <1>3, MulFacts
<1> HIDE DEF L, x, y
<1>6. from \in Nat /\ num \in Nat \ {0} /\ from + num <= nTok[match.req] /\ from >= x
  BY <1>3, <1>4 DEF MinOf
<1> HIDE DEF from, num
<1>7. d \in Int /\ L + 1 <= d
  <2> DEFINE a == from + num + BlockSize - 1
  <2>1. a \in Int /\ (L + 1) * BlockSize <= a
    BY <1>3, <1>4, <1>5, <1>6
  <2>2. L + 1 \in Int
    BY <1>2 DEF L
  <2> HIDE DEF a
  <2>3. a \div BlockSize \in Int /\ L + 1 <= a \div BlockSize
    BY <1>3, <2>1, <2>2, DivFacts, DivBounds
  <2> QED
    BY <2>3 DEF a
<1>8. CeilDiv(from + num, BlockSize) - L \in Nat \ {0}
  <2>1. CeilDiv(from + num, BlockSize) = d
    BY DEF CeilDiv
  <2> HIDE DEF d
  <2> QED
    BY <1>2, <1>7, <2>1 DEF L
<1> QED
  BY <1>1, <1>2, <1>6, <1>8 DEF from, num, x, y, L

(* A request that gets a table it did not have: its blocks gain an owner.    *)
LEMMA OwnersGain ==
    ASSUME Types, NEW r \in Req, blocks[r] = <<>>, NEW t \in Seq(Block),
           blocks' = [blocks EXCEPT ![r] = t], NEW b \in Block
    PROVE  Cardinality(Owners(b)') = Cardinality(Owners(b)) + (IF b \in Range(t) THEN 1 ELSE 0)
<1>1. IsFiniteSet(Owners(b)) /\ Cardinality(Owners(b)) \in Nat
  BY CountsFinite DEF Types
<1>2. r \notin Owners(b)
  BY DEF Owners, Range
<1>3. \A q \in Req : blocks'[q] = IF q = r THEN t ELSE blocks[q]
  BY DEF Types
<1>4. Owners(b)' = IF b \in Range(t) THEN Owners(b) \cup {r} ELSE Owners(b)
  BY <1>2, <1>3 DEF Owners
<1>5. Cardinality(Owners(b) \cup {r}) = Cardinality(Owners(b)) + 1
  BY <1>1, <1>2, FS_AddElement
<1> QED
  BY <1>1, <1>4, <1>5

(* A new step: its copy operation, if it has one, is a reference.            *)
LEMMA CopiersGain ==
    ASSUME steps \in Seq(Step), NEW st \in Step, steps' = Append(steps, st), NEW b
    PROVE  Cardinality(Copiers(b)') =
             Cardinality(Copiers(b)) + (IF \E op \in st.copies : op.src = b THEN 1 ELSE 0)
<1> DEFINE n == Len(steps)
<1>1. IsFiniteSet(Copiers(b)) /\ Cardinality(Copiers(b)) \in Nat
  BY CountsFinite
<1>2. /\ n \in Nat /\ Len(steps') = n + 1 /\ steps'[n + 1] = st
      /\ \A i \in 1..n : steps'[i] = steps[i]
  BY AppendFacts
<1> HIDE DEF n
<1>3. \A i \in 1..(n + 1) : i = n + 1 \/ i \in 1..n
  BY <1>2
<1>4. \A i \in 1..n : i \in 1..(n + 1) /\ i # n + 1
  BY <1>2
<1>5. n + 1 \in 1..(n + 1)
  BY <1>2
<1>6. Copiers(b)' = IF \E op \in st.copies : op.src = b THEN Copiers(b) \cup {n + 1} ELSE Copiers(b)
  <2>1. Copiers(b) = {i \in 1..n : \E op \in steps[i].copies : op.src = b}
        /\ Copiers(b)' = {i \in 1..(n + 1) : \E op \in steps'[i].copies : op.src = b}
    BY <1>2 DEF Copiers, n
  <2> QED
    BY <1>2, <1>3, <1>4, <1>5, <2>1
<1>7. n + 1 \notin Copiers(b)
  BY <1>4 DEF Copiers, n
<1>8. Cardinality(Copiers(b) \cup {n + 1}) = Cardinality(Copiers(b)) + 1
  BY <1>1, <1>7, FS_AddElement
<1> QED
  BY <1>1, <1>6, <1>8

(* The admission: the table's blocks gain the request, and the handle's      *)
(* reference becomes the copy operation's.                                   *)
LEMMA AdmitRefs ==
    ASSUME RefInv, UNCHANGED config, Admit
    PROVE  RefInv'
<1> USE DEF RefInv
<1> DEFINE r == match.req
           hits == match.hits
           from == Len(hits) * BlockSize + match.num * SubSize
           num == MinOf(nTok[r] - from, ChunkMax)
           n == CeilDiv(from + num, BlockSize) - Len(hits)
<1>1. match # NoMatch /\ match' = NoMatch /\ nTok' = nTok
  BY DEF Admit
<1>2. /\ match \in Match /\ r \in Req /\ hits \in Seq(Block) /\ from \in Nat /\ num \in Nat \ {0}
      /\ n \in Nat \ {0}
  BY <1>1, AdmitNumbers
<1>3. PICK new \in Picks(n, Range(hits)) :
          LET table == hits \o new
              w == Work(r, from, num, 0, table)
              copies == IF match.src = NoBlock THEN {}
                        ELSE {[src |-> match.src, dst |-> table[Len(hits) + 1],
                               num |-> match.num * SubSize]}
          IN
          /\ blocks' = [blocks EXCEPT ![r] = table]
          /\ refCnt' = [b \in Block |-> IF b \in Range(table) THEN refCnt[b] + 1 ELSE refCnt[b]]
          /\ nComp' = [nComp EXCEPT ![r] = from + num]
          /\ nOut' = [nOut EXCEPT ![r] = IF Async /\ w.emit THEN @ + 1 ELSE @]
          /\ status' = [status EXCEPT ![r] = "running"]
          /\ steps' = Append(steps, [work |-> [q \in {r} |-> w], copies |-> copies,
                                     ran |-> FALSE, acc |-> [q \in {r} |-> 0]])
  BY DEF Admit
<1> DEFINE table == hits \o new
           w == Work(r, from, num, 0, table)
           copies == IF match.src = NoBlock THEN {}
                     ELSE {[src |-> match.src, dst |-> table[Len(hits) + 1], num |-> match.num * SubSize]}
           st == [work |-> [q \in {r} |-> w], copies |-> copies, ran |-> FALSE, acc |-> [q \in {r} |-> 0]]
<1>4. new \in Seq(Block) /\ Len(new) = n
  <2> HIDE DEF n, hits
  <2>1. new \in [1..n -> Block]
    BY <1>3 DEF Picks, Injection, FreeBlocks
  <2> QED
    BY <1>2, <2>1
<1>5. table \in Seq(Block) /\ table[Len(hits) + 1] \in Block
  <2> HIDE DEF n, hits
  <2> QED
    BY <1>2, <1>4
<1>6. match.src \in Block \cup {NoBlock} /\ match.num * SubSize \in Int
  <2>1. match.src \in Block \cup {NoBlock} /\ match.num \in Int
    BY <1>2 DEF Match
  <2> QED
    BY <2>1, ConfigFacts, MulFacts DEF Types
<1>7. w \in Item
  <2> HIDE DEF from, num, table, r
  <2> QED
    BY <1>2, <1>5 DEF Work, Item
<1>8. copies \in {C \in SUBSET Copy : IsFiniteSet(C) /\ \A o, p \in C : o = p}
  <2> HIDE DEF table, hits
  <2>1. CASE match.src = NoBlock
    BY <2>1, FS_EmptySet
  <2>2. CASE match.src # NoBlock
    <3> DEFINE c == [src |-> match.src, dst |-> table[Len(hits) + 1], num |-> match.num * SubSize]
    <3>1. c \in Copy
      BY <1>5, <1>6, <2>2 DEF Copy
    <3>2. IsFiniteSet({c})
      BY FS_Singleton
    <3> HIDE DEF c
    <3>3. copies = {c}
      BY <2>2 DEF c
    <3> HIDE DEF copies
    <3> QED
      BY <3>1, <3>2, <3>3
  <2> QED
    BY <2>1, <2>2
<1>9. st \in Step
  <2> HIDE DEF w, copies, r
  <2>1. [q \in {r} |-> w] \in UNION {[R -> Item] : R \in SUBSET Req}
    <3>1. {r} \in SUBSET Req /\ [q \in {r} |-> w] \in [{r} -> Item]
      BY <1>2, <1>7
    <3> QED
      BY <3>1
  <2>2. [q \in {r} |-> 0] \in UNION {[R -> Nat] : R \in SUBSET Req}
    <3>1. {r} \in SUBSET Req /\ [q \in {r} |-> 0] \in [{r} -> Nat]
      BY <1>2
    <3> QED
      BY <3>1
  <2> QED
    BY <1>8, <2>1, <2>2 DEF Step
<1>10. /\ blocks' = [blocks EXCEPT ![r] = table] /\ steps' = Append(steps, st)
       /\ refCnt' = [b \in Block |-> IF b \in Range(table) THEN refCnt[b] + 1 ELSE refCnt[b]]
       /\ nComp' = [nComp EXCEPT ![r] = from + num]
       /\ nOut' = [nOut EXCEPT ![r] = IF Async /\ w.emit THEN @ + 1 ELSE @]
       /\ status' = [status EXCEPT ![r] = "running"]
  BY <1>3
<1>11. \A b \in Block : (\E op \in st.copies : op.src = b) <=> match.src = b
  <2>1. st.copies = copies
    OBVIOUS
  <2>2. CASE match.src = NoBlock
    BY <2>1, <2>2, NamesAssumption
  <2>3. CASE match.src # NoBlock
    <3> DEFINE c == [src |-> match.src, dst |-> table[Len(hits) + 1], num |-> match.num * SubSize]
    <3>1. c.src = match.src
      OBVIOUS
    <3>2. copies = {c}
      BY <2>3
    <3> HIDE DEF c, copies, st
    <3> QED
      BY <2>1, <3>1, <3>2
  <2> QED
    BY <2>2, <2>3
<1> HIDE DEF r, hits, from, num, n, table, w, copies, st
<1>12. Types'
  <2>1. steps' \in Seq(Step)
    BY <1>9, <1>10, AppendFacts DEF Types
  <2>2. blocks' \in [Req -> Seq(Block)] /\ refCnt' \in [Block -> Int]
    BY <1>2, <1>5, <1>10 DEF Types
  <2>3. nComp' \in [Req -> Int] /\ nOut' \in [Req -> Int]
    BY <1>2, <1>10 DEF Types
  <2>4. status' \in [Req -> {"waiting", "running", "done"}]
    BY <1>2, <1>10 DEF Types
  <2> QED
    BY <1>1, <2>1, <2>2, <2>3, <2>4 DEF Types
<1>13. Counted'
  <2> SUFFICES ASSUME NEW b \in Block
               PROVE  refCnt'[b] = Cardinality(Owners(b)') + Handle(b)' + Cardinality(Copiers(b)')
    BY DEF Counted
  <2>1. refCnt[b] = Cardinality(Owners(b)) + Handle(b) + Cardinality(Copiers(b))
    BY DEF Counted
  <2>2. blocks[r] = <<>>
    BY <1>1, <1>2 DEF TablesOfRunning, MatchFits, r
  <2>3. Cardinality(Owners(b)') = Cardinality(Owners(b)) + (IF b \in Range(table) THEN 1 ELSE 0)
    BY <1>2, <1>5, <1>10, <2>2, OwnersGain
  <2>4. Cardinality(Copiers(b)') = Cardinality(Copiers(b)) + (IF match.src = b THEN 1 ELSE 0)
    BY <1>9, <1>10, <1>11, CopiersGain DEF Types
  <2>5. Handle(b)' = 0 /\ Handle(b) = IF match.src = b THEN 1 ELSE 0
    BY <1>1 DEF Handle
  <2>6. refCnt'[b] = refCnt[b] + (IF b \in Range(table) THEN 1 ELSE 0)
    BY <1>10 DEF Types
  <2>7. Cardinality(Owners(b)) \in Nat /\ Cardinality(Copiers(b)) \in Nat
    BY CountsFinite DEF Types
  <2> QED
    BY <2>1, <2>3, <2>4, <2>5, <2>6, <2>7
<1>14. TablesOfRunning'
  BY <1>2, <1>10 DEF TablesOfRunning, Types
<1> QED
  BY <1>1, <1>12, <1>13, <1>14 DEF MatchFits

(* Requests that lose their tables: their blocks lose an owner each.         *)
LEMMA OwnersLose ==
    ASSUME Types, NEW R \in SUBSET Req, NEW b \in Block,
           \A q \in Req : blocks'[q] = IF q \in R THEN <<>> ELSE blocks[q]
    PROVE  LET D == {q \in R : b \in Range(blocks[q])}
           IN  /\ Cardinality(D) \in Nat
               /\ Cardinality(Owners(b)') = Cardinality(Owners(b)) - Cardinality(D)
<1> DEFINE D == {q \in R : b \in Range(blocks[q])}
<1>1. IsFiniteSet(Owners(b)) /\ Cardinality(Owners(b)) \in Nat
  BY CountsFinite DEF Types
<1>2. D \subseteq Owners(b) /\ Owners(b) \cap D = D
  BY DEF Owners
<1>3. Owners(b)' = Owners(b) \ D
  <2>1. b \notin Range(<<>>)
    BY DEF Range
  <2> QED
    BY <2>1 DEF Owners
<1>4. IsFiniteSet(D) /\ Cardinality(D) \in Nat
  BY <1>1, <1>2, FS_Subset, FS_CardinalityType
<1> HIDE DEF D
<1>5. Cardinality(Owners(b) \ D) = Cardinality(Owners(b)) - Cardinality(Owners(b) \cap D)
  BY <1>1, FS_Difference
<1> QED
  BY <1>2, <1>3, <1>4, <1>5 DEF D

(* free() of one request, which then is not running.                         *)
LEMMA FreeRefs ==
    ASSUME RefInv, UNCHANGED <<config, nTok, nOut, match, steps>>, NEW r \in Req, FreeRequest(r),
           match = NoMatch, NEW to \in {"waiting", "done"},
           status' = [status EXCEPT ![r] = to], nComp' \in [Req -> Int]
    PROVE  RefInv'
<1> USE DEF RefInv
<1>1. /\ blocks' = [blocks EXCEPT ![r] = <<>>]
      /\ refCnt' = [b \in Block |-> refCnt[b] - Cardinality({q \in {r} : b \in Range(blocks[q])})]
  BY DEF FreeRequest, Released
<1>2. blocks' \in [Req -> Seq(Block)] /\ \A q \in Req : blocks'[q] = IF q \in {r} THEN <<>> ELSE blocks[q]
  BY <1>1 DEF Types
<1>3. ASSUME NEW b \in Block
      PROVE  /\ refCnt'[b] \in Int
             /\ refCnt'[b] = Cardinality(Owners(b)') + Handle(b)' + Cardinality(Copiers(b)')
  <2> DEFINE d == Cardinality({q \in {r} : b \in Range(blocks[q])})
  <2>1. d \in Nat /\ Cardinality(Owners(b)') = Cardinality(Owners(b)) - d
    BY <1>2, OwnersLose
  <2>2. refCnt[b] = Cardinality(Owners(b)) + Handle(b) + Cardinality(Copiers(b))
    BY DEF Counted
  <2>3. Handle(b) = 0 /\ Handle(b)' = 0 /\ Copiers(b)' = Copiers(b)
    BY DEF Handle, Copiers
  <2>4. Cardinality(Owners(b)) \in Nat /\ Cardinality(Copiers(b)) \in Nat
    BY CountsFinite DEF Types
  <2>5. refCnt'[b] = refCnt[b] - d
    BY <1>1
  <2> HIDE DEF d
  <2> QED
    BY <2>1, <2>2, <2>3, <2>4, <2>5
<1>4. refCnt' \in [Block -> Int]
  BY <1>1, <1>3
<1>5. status' \in [Req -> {"waiting", "running", "done"}]
  BY DEF Types
<1>6. Types'
  BY <1>2, <1>4, <1>5 DEF Types
<1>7. TablesOfRunning'
  BY <1>2 DEF TablesOfRunning, Types
<1> QED
  BY <1>3, <1>6, <1>7 DEF Counted, MatchFits

(* _preempt_request frees the victim's table.                                *)
LEMMA PreemptRefs ==
    ASSUME RefInv, UNCHANGED config, NEW r \in Req, Preempt(r)
    PROVE  RefInv'
<1>1. nComp' \in [Req -> Int]
  BY DEF Preempt, RefInv, Types
<1> QED
  BY <1>1, FreeRefs DEF Preempt, CanSchedule

(* An abort frees the request's table, whatever is in flight.                *)
LEMMA AbortRefs ==
    ASSUME RefInv, UNCHANGED config, NEW r \in Req, Abort(r)
    PROVE  RefInv'
<1>1. nComp' \in [Req -> Int]
  BY DEF Abort, RefInv, Types
<1> QED
  BY <1>1, FreeRefs DEF Abort

(* The worker changes no reference.                                          *)
LEMMA ExecuteRefs ==
    ASSUME RefInv, UNCHANGED config, Execute
    PROVE  RefInv'
<1> USE DEF RefInv
<1>1. UNCHANGED <<status, nTok, nComp, nOut, blocks, refCnt, match>>
  BY DEF Execute, reqVars, poolVars
<1>2. PICK i \in 1..Len(steps) : \E acc \in [DOMAIN steps[i].work -> 0..MaxSpec] :
         steps' = [steps EXCEPT ![i].ran = TRUE, ![i].acc = acc]
  BY DEF Execute
<1>20. PICK acc \in [DOMAIN steps[i].work -> 0..MaxSpec] :
         steps' = [steps EXCEPT ![i].ran = TRUE, ![i].acc = acc]
  BY <1>2
<1>3. steps \in Seq(Step) /\ Len(steps) \in Nat /\ steps[i] \in Step
  BY DEF Types
<1>4. steps' = [steps EXCEPT ![i] = [steps[i] EXCEPT !.ran = TRUE, !.acc = acc]]
  BY <1>3, <1>20
<1> DEFINE st == [steps[i] EXCEPT !.ran = TRUE, !.acc = acc]
<1>5. st \in Step /\ st.copies = steps[i].copies
  <2>1. PICK R \in SUBSET Req : steps[i].work \in [R -> Item]
    BY <1>3 DEF Step
  <2>2. MaxSpec \in Nat
    BY ConfigFacts DEF Types
  <2>3. acc \in [R -> Nat]
    BY <2>1, <2>2
  <2>4. acc \in UNION {[Q -> Nat] : Q \in SUBSET Req} /\ DOMAIN acc = DOMAIN steps[i].work
    BY <2>3
  <2> QED
    BY <1>3, <2>4 DEF Step
<1> HIDE DEF st
<1>9. steps' = [steps EXCEPT ![i] = st]
  BY <1>4 DEF st
<1>6. /\ steps' \in Seq(Step) /\ Len(steps') = Len(steps)
      /\ \A j \in 1..Len(steps) : steps'[j].copies = steps[j].copies
  BY <1>3, <1>5, <1>9, ReplaceFacts
<1>7. \A b : Copiers(b)' = Copiers(b) /\ Owners(b)' = Owners(b) /\ Handle(b)' = Handle(b)
  BY <1>1, <1>6 DEF Copiers, Owners, Handle
<1>8. Types'
  BY <1>1, <1>6 DEF Types
<1> QED
  BY <1>1, <1>7, <1>8 DEF Counted, TablesOfRunning, MatchFits, BlockSize, SubSize, PerBlock

(* Processing the oldest step drops its copy operation's reference.          *)
LEMMA CopiersLose ==
    ASSUME steps \in Seq(Step), steps # <<>>, steps' = Tail(steps), NEW b
    PROVE  LET c == Cardinality({op \in Head(steps).copies : op.src = b})
           IN  /\ c \in Nat
               /\ Cardinality(Copiers(b)') = Cardinality(Copiers(b)) - c
<1> DEFINE n == Len(steps)
           C == {op \in Head(steps).copies : op.src = b}
           I == Copiers(b)
<1>1. /\ Head(steps) \in Step /\ Head(steps) = steps[1] /\ n \in Nat \ {0}
      /\ Len(steps') = n - 1 /\ \A i \in 1..(n - 1) : steps'[i] = steps[i + 1]
  BY HeadTailFacts
<1>2. IsFiniteSet(C) /\ Cardinality(C) = IF 1 \in I THEN 1 ELSE 0
  <2>1. IsFiniteSet(Head(steps).copies) /\ \A o, p \in Head(steps).copies : o = p
    BY <1>1 DEF Step
  <2>2. C \in SUBSET Head(steps).copies
    OBVIOUS
  <2>3. IsFiniteSet(C)
    BY <2>1, <2>2, FS_Subset
  <2>4. 1 \in I <=> C # {}
    BY <1>1 DEF Copiers
  <2>5. C # {} => \E x : C = {x}
    BY <2>1
  <2> HIDE DEF C, I
  <2> QED
    BY <2>3, <2>4, <2>5, FS_EmptySet, FS_Singleton
<1>3. I \in SUBSET (1..n)
  BY DEF Copiers
<1>4. Copiers(b)' = {i \in 1..(n - 1) : i + 1 \in I}
  <2>1. Copiers(b)' = {i \in 1..(n - 1) : \E op \in steps'[i].copies : op.src = b}
    BY <1>1 DEF Copiers
  <2>2. \A i \in 1..(n - 1) : i + 1 \in 1..n
    BY <1>1
  <2>3. \A i \in 1..(n - 1) : i + 1 \in I <=> \E op \in steps[i + 1].copies : op.src = b
    BY <2>2 DEF Copiers
  <2> QED
    BY <1>1, <2>1, <2>3
<1> HIDE DEF n, C, I
<1>5. Cardinality({i \in 1..(n - 1) : i + 1 \in I}) = Cardinality(I) - (IF 1 \in I THEN 1 ELSE 0)
  BY <1>1, <1>3, ShiftCardinality
<1>6. Cardinality(Copiers(b)') = Cardinality(I) - (IF 1 \in I THEN 1 ELSE 0)
  BY <1>4, <1>5
<1> QED
  BY <1>2, <1>6 DEF C, I

(* update_from_output frees the requests that end and releases the step's    *)
(* copy operation.                                                           *)
LEMMA UpdateRefs ==
    ASSUME RefInv, UNCHANGED config, UpdateFromOutput
    PROVE  RefInv'
<1> USE DEF RefInv
<1> DEFINE step == Head(steps)
           live == {r \in DOMAIN step.work : status[r] # "done"}
           out == {r \in live : step.work[r].emit}
           nt == [r \in Req |-> IF r \in out THEN nTok[r] + 1 + step.acc[r] ELSE nTok[r]]
           rejected(r) == IF r \in live /\ nComp[r] > 0 THEN step.work[r].spec - step.acc[r] ELSE 0
           nc == [r \in Req |-> nComp[r] - rejected(r)]
           no == [r \in Req |-> IF Async /\ r \in out THEN nOut[r] - 1 ELSE nOut[r]]
<1>1. match = NoMatch /\ match' = NoMatch /\ steps' = Tail(steps) /\ Len(steps) > 0
  BY DEF UpdateFromOutput
<1>2. PICK stop \in SUBSET out :
         LET ended == stop \cap Running IN
         /\ nTok' = nt /\ nComp' = nc /\ nOut' = no
         /\ status' = [r \in Req |-> IF r \in stop THEN "done" ELSE status[r]]
         /\ refCnt' = [b \in Block |->
                Released(refCnt, ended)[b] - Cardinality({op \in step.copies : op.src = b})]
         /\ blocks' = [r \in Req |-> IF r \in ended THEN <<>> ELSE blocks[r]]
  BY DEF UpdateFromOutput
<1> DEFINE ended == stop \cap Running
<1>3. steps \in Seq(Step) /\ steps # <<>> /\ step \in Step /\ steps' \in Seq(Step)
  <2>1. steps \in Seq(Step) /\ steps # <<>>
    BY <1>1 DEF Types
  <2> QED
    BY <1>1, <2>1, HeadTailFacts
<1>4. ASSUME NEW r \in Req
      PROVE  nt[r] \in Nat \ {0} /\ nc[r] \in Int /\ no[r] \in Int
  <2>1. nTok[r] \in Nat \ {0} /\ nComp[r] \in Int /\ nOut[r] \in Int
    BY DEF Types
  <2>2. PICK R \in SUBSET Req : step.work \in [R -> Item] /\ step.acc \in [R -> Nat]
    BY <1>3 DEF Step
  <2>3. r \in live => step.work[r].spec \in Int /\ step.acc[r] \in Nat
    BY <2>2 DEF Item
  <2> HIDE DEF step
  <2>4. out \subseteq live
    OBVIOUS
  <2> HIDE DEF live, out
  <2> QED
    BY <2>1, <2>3, <2>4
<1>5. blocks' = [r \in Req |-> IF r \in ended THEN <<>> ELSE blocks[r]] /\ ended \in SUBSET Req
      /\ ended \subseteq stop
  BY <1>2 DEF Running
<1>6. ASSUME NEW b \in Block
      PROVE  /\ refCnt'[b] \in Int
             /\ refCnt'[b] = Cardinality(Owners(b)') + Handle(b)' + Cardinality(Copiers(b)')
  <2> DEFINE d == Cardinality({q \in ended : b \in Range(blocks[q])})
             c == Cardinality({op \in step.copies : op.src = b})
  <2>1. refCnt'[b] = refCnt[b] - d - c
    BY <1>2 DEF Released
  <2> HIDE DEF ended
  <2>2. d \in Nat /\ Cardinality(Owners(b)') = Cardinality(Owners(b)) - d
    BY <1>5, OwnersLose
  <2>3. c \in Nat /\ Cardinality(Copiers(b)') = Cardinality(Copiers(b)) - c
    BY <1>1, <1>3, CopiersLose
  <2>4. refCnt[b] = Cardinality(Owners(b)) + Handle(b) + Cardinality(Copiers(b))
    BY DEF Counted
  <2>5. Handle(b) = 0 /\ Handle(b)' = 0
    BY <1>1 DEF Handle
  <2>6. Cardinality(Owners(b)) \in Nat /\ Cardinality(Copiers(b)) \in Nat
    BY CountsFinite DEF Types
  <2> HIDE DEF d, c
  <2> QED
    BY <2>1, <2>2, <2>3, <2>4, <2>5, <2>6
<1>7. refCnt' \in [Block -> Int]
  <2>1. refCnt' = [b \in Block |-> refCnt'[b]]
    BY <1>2
  <2> QED
    BY <1>6, <2>1
<1>8. nTok' \in [Req -> Nat \ {0}] /\ nComp' \in [Req -> Int] /\ nOut' \in [Req -> Int]
  <2>1. nTok' = nt /\ nComp' = nc /\ nOut' = no
    BY <1>2
  <2>2. nt = [r \in Req |-> nt[r]] /\ nc = [r \in Req |-> nc[r]] /\ no = [r \in Req |-> no[r]]
    OBVIOUS
  <2> HIDE DEF nt, nc, no
  <2> QED
    BY <1>4, <2>1, <2>2
<1>9. status' = [r \in Req |-> IF r \in stop THEN "done" ELSE status[r]]
  BY <1>2
<1> HIDE DEF step, live, out, nt, nc, no, ended
<1>10. status' \in [Req -> {"waiting", "running", "done"}]
  BY <1>9 DEF Types
<1>11. blocks' \in [Req -> Seq(Block)]
  BY <1>5 DEF Types
<1>12. Types'
  BY <1>1, <1>3, <1>7, <1>8, <1>10, <1>11 DEF Types
<1>13. TablesOfRunning'
  <2> SUFFICES ASSUME NEW r \in Req, status'[r] # "running" PROVE blocks'[r] = <<>>
    BY DEF TablesOfRunning
  <2>1. CASE status[r] # "running"
    BY <1>5, <2>1 DEF TablesOfRunning
  <2>2. CASE status[r] = "running"
    BY <1>5, <1>9, <2>2 DEF ended, Running
  <2> QED
    BY <2>1, <2>2
<1> QED
  BY <1>1, <1>6, <1>12, <1>13 DEF Counted, MatchFits

(* reset_prefix_cache touches no reference.                                  *)
LEMMA ResetRefs ==
    ASSUME RefInv, UNCHANGED config, ResetPrefixCache
    PROVE  RefInv'
<1> USE DEF RefInv
<1>1. UNCHANGED <<status, nTok, nComp, nOut, blocks, refCnt, match, steps>>
  BY DEF ResetPrefixCache, reqVars
<1>2. \A b : Copiers(b)' = Copiers(b) /\ Owners(b)' = Owners(b) /\ Handle(b)' = Handle(b)
  BY <1>1 DEF Copiers, Owners, Handle
<1>3. Types'
  BY <1>1 DEF Types
<1>4. BlockSize' = BlockSize /\ SubSize' = SubSize
  BY DEF BlockSize, SubSize, PerBlock
<1> QED
  BY <1>1, <1>2, <1>3, <1>4 DEF Counted, TablesOfRunning, MatchFits

(* The running loop takes free blocks, which nobody owns, one per request.   *)
LEMMA ScheduleRunningRefs ==
    ASSUME RefInv, UNCHANGED config, ScheduleRunning
    PROVE  RefInv'
<1> USE DEF RefInv
<1>1. match = NoMatch /\ UNCHANGED <<status, nTok, match>>
  BY DEF ScheduleRunning, CanSchedule
<1>2. PICK R \in Batches : \E spec \in [R -> 0..MaxSpec] :
       LET num == [r \in R |-> IF is_prefill(r) THEN MinOf(NumNew(r), ChunkMax)
                               ELSE NumNew(r) + spec[r]]
           growing == {r \in R : Needed(r, num[r]) > 0}
       IN
       /\ \A r \in R : /\ is_prefill(r) => spec[r] = 0
                       /\ nComp[r] + num[r] <= Len(Tokens[r])
                       /\ Needed(r, num[r]) <= 1
       /\ \E new \in Injection(growing, FreeBlocks) :
          LET table == [r \in Req |-> IF r \in growing THEN Append(blocks[r], new[r])
                                      ELSE blocks[r]]
              work == [r \in R |-> Work(r, nComp[r], num[r], spec[r], table[r])]
          IN
          /\ blocks' = table
          /\ refCnt' = [b \in Block |-> IF b \in Range(new) THEN 1 ELSE refCnt[b]]
          /\ lists' = EvictedLists(Range(new))
          /\ hash' = Cached(EvictedHash(Range(new)), R, table,
                            [r \in R |-> Cacheable(r, nComp[r] + num[r])])
          /\ note' = [r \in Req |-> IF r \in R THEN ScheduleNote(r, nComp[r]) ELSE note[r]]
          /\ nComp' = [r \in Req |-> IF r \in R THEN nComp[r] + num[r] ELSE nComp[r]]
          /\ nOut' = [r \in Req |-> IF Async /\ r \in R /\ work[r].emit
                                    THEN nOut[r] + 1 ELSE nOut[r]]
          /\ steps' = Append(steps, [work |-> work, copies |-> {}, ran |-> FALSE,
                                     acc |-> [r \in R |-> 0]])
  BY DEF ScheduleRunning
<1>3. R \in SUBSET Req /\ R \in SUBSET Running
  BY DEF Batches, Running, Schedulable
<1>4. PICK spec \in [R -> 0..MaxSpec] :
       LET num == [r \in R |-> IF is_prefill(r) THEN MinOf(NumNew(r), ChunkMax)
                               ELSE NumNew(r) + spec[r]]
           growing == {r \in R : Needed(r, num[r]) > 0}
       IN
       \E new \in Injection(growing, FreeBlocks) :
          LET table == [r \in Req |-> IF r \in growing THEN Append(blocks[r], new[r])
                                      ELSE blocks[r]]
              work == [r \in R |-> Work(r, nComp[r], num[r], spec[r], table[r])]
          IN
          /\ blocks' = table
          /\ refCnt' = [b \in Block |-> IF b \in Range(new) THEN 1 ELSE refCnt[b]]
          /\ lists' = EvictedLists(Range(new))
          /\ hash' = Cached(EvictedHash(Range(new)), R, table,
                            [r \in R |-> Cacheable(r, nComp[r] + num[r])])
          /\ note' = [r \in Req |-> IF r \in R THEN ScheduleNote(r, nComp[r]) ELSE note[r]]
          /\ nComp' = [r \in Req |-> IF r \in R THEN nComp[r] + num[r] ELSE nComp[r]]
          /\ nOut' = [r \in Req |-> IF Async /\ r \in R /\ work[r].emit
                                    THEN nOut[r] + 1 ELSE nOut[r]]
          /\ steps' = Append(steps, [work |-> work, copies |-> {}, ran |-> FALSE,
                                     acc |-> [r \in R |-> 0]])
  BY <1>2
<1> DEFINE num == [r \in R |-> IF is_prefill(r) THEN MinOf(NumNew(r), ChunkMax)
                               ELSE NumNew(r) + spec[r]]
           growing == {r \in R : Needed(r, num[r]) > 0}
<1>5. PICK new \in Injection(growing, FreeBlocks) :
          LET table == [r \in Req |-> IF r \in growing THEN Append(blocks[r], new[r])
                                      ELSE blocks[r]]
              work == [r \in R |-> Work(r, nComp[r], num[r], spec[r], table[r])]
          IN
          /\ blocks' = table
          /\ refCnt' = [b \in Block |-> IF b \in Range(new) THEN 1 ELSE refCnt[b]]
          /\ nComp' = [r \in Req |-> IF r \in R THEN nComp[r] + num[r] ELSE nComp[r]]
          /\ nOut' = [r \in Req |-> IF Async /\ r \in R /\ work[r].emit
                                    THEN nOut[r] + 1 ELSE nOut[r]]
          /\ steps' = Append(steps, [work |-> work, copies |-> {}, ran |-> FALSE,
                                     acc |-> [r \in R |-> 0]])
  BY <1>4
<1> DEFINE table == [r \in Req |-> IF r \in growing THEN Append(blocks[r], new[r]) ELSE blocks[r]]
           work == [r \in R |-> Work(r, nComp[r], num[r], spec[r], table[r])]
           st == [work |-> work, copies |-> {}, ran |-> FALSE, acc |-> [r \in R |-> 0]]
<1>6. /\ blocks' = table /\ steps' = Append(steps, st)
      /\ refCnt' = [b \in Block |-> IF b \in Range(new) THEN 1 ELSE refCnt[b]]
      /\ nComp' = [r \in Req |-> IF r \in R THEN nComp[r] + num[r] ELSE nComp[r]]
      /\ nOut' = [r \in Req |-> IF Async /\ r \in R /\ work[r].emit THEN nOut[r] + 1 ELSE nOut[r]]
  BY <1>5
<1>7. ASSUME NEW r \in R PROVE num[r] \in Int /\ spec[r] \in Int
  <2>1. nTok[r] \in Nat /\ nOut[r] \in Int /\ nComp[r] \in Int /\ ChunkMax \in Nat /\ MaxSpec \in Nat
    BY <1>3, ConfigFacts DEF Types
  <2>2. spec[r] \in Int
    BY <1>4, <2>1
  <2> QED
    BY <2>1, <2>2 DEF MinOf, NumNew
<1>8. /\ growing \in SUBSET R /\ new \in [growing -> FreeBlocks]
      /\ \A q, r \in growing : new[q] = new[r] => q = r
  <2> HIDE DEF growing
  <2>1. new \in [growing -> FreeBlocks] /\ \A q, r \in growing : new[q] = new[r] => q = r
    BY <1>5 DEF Injection, IsInjective
  <2> QED
    BY <2>1 DEF growing
<1> HIDE DEF num, growing
<1>9. \A r \in growing : new[r] \in Block /\ refCnt[new[r]] = 0 /\ r \in Req
  BY <1>3, <1>8 DEF FreeBlocks
<1>10. ASSUME NEW r \in Req
       PROVE  /\ table[r] \in Seq(Block)
              /\ Range(table[r]) = Range(blocks[r]) \cup (IF r \in growing THEN {new[r]} ELSE {})
  <2>1. blocks[r] \in Seq(Block)
    BY DEF Types
  <2>2. CASE r \in growing
    <3>1. table[r] = Append(blocks[r], new[r])
      BY <2>2
    <3>2. /\ table[r] \in Seq(Block) /\ ToSet(table[r]) = ToSet(blocks[r]) \cup {new[r]}
      BY <1>9, <2>1, <2>2, <3>1, AppendFacts
    <3>3. \A s \in Seq(Block) : ToSet(s) = Range(s)
      BY DEF ToSet, Range
    <3> QED
      BY <2>1, <2>2, <3>2, <3>3
  <2>3. CASE r \notin growing
    BY <2>1, <2>3
  <2> QED
    BY <2>2, <2>3
<1> HIDE DEF table
<1>11. st \in Step /\ st.copies = {}
  <2>1. ASSUME NEW r \in R PROVE work[r] \in Item
    <3>1. r \in Req /\ nComp[r] \in Int /\ table[r] \in Seq(Block)
      BY <1>3, <1>10 DEF Types
    <3> QED
      BY <1>7, <3>1 DEF Item, Work
  <2>2. work \in [R -> Item]
    BY <2>1
  <2> HIDE DEF work
  <2>3. work \in UNION {[Q -> Item] : Q \in SUBSET Req} /\ DOMAIN work = R
    BY <1>3, <2>2
  <2>4. [r \in R |-> 0] \in UNION {[Q -> Nat] : Q \in SUBSET Req}
    <3>1. [r \in R |-> 0] \in [R -> Nat]
      OBVIOUS
    <3> QED
      BY <1>3, <3>1
  <2>5. {} \in {C \in SUBSET Copy : IsFiniteSet(C) /\ \A o, p \in C : o = p}
    BY FS_EmptySet
  <2> QED
    BY <2>3, <2>4, <2>5 DEF Step
<1> HIDE DEF st, work
<1>12. Types'
  <2>1. steps' \in Seq(Step)
    BY <1>6, <1>11, AppendFacts DEF Types
  <2>2. blocks' = [r \in Req |-> table[r]]
    BY <1>6 DEF table
  <2>3. blocks' \in [Req -> Seq(Block)]
    BY <1>10, <2>2
  <2>4. refCnt' \in [Block -> Int]
    BY <1>6 DEF Types
  <2>5. nComp' \in [Req -> Int] /\ nOut' \in [Req -> Int]
    BY <1>6, <1>7 DEF Types
  <2> QED
    BY <1>1, <2>1, <2>3, <2>4, <2>5 DEF Types
<1>13. ASSUME NEW b \in Block
       PROVE  refCnt'[b] = Cardinality(Owners(b)') + Handle(b)' + Cardinality(Copiers(b)')
  <2>1. refCnt[b] = Cardinality(Owners(b)) + Handle(b) + Cardinality(Copiers(b))
    BY DEF Counted
  <2>2. Handle(b) = 0 /\ Handle(b)' = 0
    BY <1>1 DEF Handle
  <2>3. Cardinality(Copiers(b)') = Cardinality(Copiers(b))
    <3>1. Cardinality(Copiers(b)) \in Nat
      BY CountsFinite DEF Types
    <3>2. ~ \E op \in st.copies : op.src = b
      BY <1>11
    <3>3. steps \in Seq(Step)
      BY DEF Types
    <3> QED
      BY <1>6, <1>11, <3>1, <3>2, <3>3, CopiersGain
  <2>4. /\ IsFiniteSet(Owners(b)) /\ Cardinality(Owners(b)) \in Nat /\ Cardinality(Copiers(b)) \in Nat
    BY CountsFinite DEF Types
  <2>5. Owners(b)' = Owners(b) \cup {r \in growing : new[r] = b}
    <3>1. Owners(b)' = {r \in Req : b \in Range(table[r])}
      BY <1>6 DEF Owners
    <3> QED
      BY <1>9, <1>10, <3>1 DEF Owners
  <2>6. CASE b \in Range(new)
    <3>1. PICK q \in growing : new[q] = b
      BY <1>8, <2>6 DEF Range
    <3>2. {r \in growing : new[r] = b} = {q}
      BY <1>8, <3>1
    <3>3. refCnt[b] = 0
      BY <1>9, <3>1
    <3>4. Cardinality(Owners(b)) = 0 /\ Cardinality(Copiers(b)) = 0
      BY <2>1, <2>2, <2>4, <3>3
    <3>5. Owners(b) = {}
      BY <2>4, <3>4, FS_EmptySet
    <3>6. Owners(b)' = {q}
      BY <2>5, <3>2, <3>5
    <3>7. Cardinality(Owners(b)') = 1
      BY <3>6, FS_Singleton
    <3>8. refCnt'[b] = 1
      BY <1>6, <2>6
    <3> QED
      BY <2>2, <2>3, <3>4, <3>7, <3>8
  <2>7. CASE b \notin Range(new)
    <3>1. {r \in growing : new[r] = b} = {}
      BY <1>8, <2>7 DEF Range
    <3>2. Owners(b)' = Owners(b) /\ refCnt'[b] = refCnt[b]
      BY <1>6, <2>5, <2>7, <3>1
    <3> QED
      BY <2>1, <2>2, <2>3, <3>2
  <2> QED
    BY <2>6, <2>7
<1>14. TablesOfRunning'
  <2> SUFFICES ASSUME NEW r \in Req, status'[r] # "running" PROVE blocks'[r] = <<>>
    BY DEF TablesOfRunning
  <2>1. r \notin growing
    BY <1>1, <1>3, <1>8 DEF Running
  <2> QED
    BY <1>1, <1>6, <2>1 DEF TablesOfRunning, table
<1> QED
  BY <1>1, <1>12, <1>13, <1>14 DEF Counted, MatchFits

(* Nobody owns anything at the start.                                        *)
LEMMA InitRefs == Init => RefInv
<1> SUFFICES ASSUME Init PROVE RefInv
  OBVIOUS
<1> USE DEF Init
<1>1. PromptLen \in [Req -> Nat \ {0}]
  BY ConfigFacts
<1>2. Types
  <2>1. steps \in Seq(Step)
    OBVIOUS
  <2>2. blocks \in [Req -> Seq(Block)]
    OBVIOUS
  <2> QED
    BY <1>1, <2>1, <2>2 DEF Types
<1>3. ASSUME NEW b \in Block PROVE Owners(b) = {} /\ Copiers(b) = {} /\ Handle(b) = 0
  <2>1. Range(<<>>) = {}
    BY DEF Range
  <2> QED
    BY <2>1 DEF Owners, Copiers, Handle
<1>4. Counted
  <2>1. Cardinality({}) = 0
    BY FS_EmptySet
  <2> SUFFICES ASSUME NEW b \in Block
               PROVE  refCnt[b] = Cardinality(Owners(b)) + Handle(b) + Cardinality(Copiers(b))
    BY DEF Counted
  <2>2. refCnt[b] = 0
    OBVIOUS
  <2>3. Owners(b) = {} /\ Copiers(b) = {} /\ Handle(b) = 0
    BY <1>3
  <2>4. 0 = 0 + 0 + 0
    OBVIOUS
  <2> HIDE DEF Init
  <2> QED
    BY ONLY <2>1, <2>2, <2>3, <2>4
<1> QED
  BY <1>2, <1>4 DEF RefInv, TablesOfRunning, MatchFits

(* A step that changes nothing changes no reference.                         *)
LEMMA StutterRefs == RefInv /\ UNCHANGED vars => RefInv'
<1> SUFFICES ASSUME RefInv, UNCHANGED vars PROVE RefInv'
  OBVIOUS
<1> USE DEF vars, RefInv
<1>1. Types'
  BY DEF Types
<1>2. \A b : Copiers(b)' = Copiers(b) /\ Owners(b)' = Owners(b) /\ Handle(b)' = Handle(b)
  BY DEF Copiers, Owners, Handle
<1>3. BlockSize' = BlockSize /\ SubSize' = SubSize
  BY DEF BlockSize, SubSize, PerBlock
<1> QED
  BY <1>1, <1>2, <1>3 DEF Counted, TablesOfRunning, MatchFits

(* The inductive invariant holds in every reachable state: schedule(), the   *)
(* admission's two halves, preemption, abort, the worker and                 *)
(* update_from_output all keep it.                                           *)
THEOREM RefInvariance == Spec => []RefInv
<1>1. RefInv /\ [Next]_vars => RefInv'
  BY TryMatchRefs, ReleaseMatchRefs, AdmitRefs, ScheduleRunningRefs, PreemptRefs, AbortRefs,
     ExecuteRefs, UpdateRefs, ResetRefs, StutterRefs DEF Next
<1> QED
  BY <1>1, InitRefs, PTL DEF Spec

(* Every reference has an owner, for any number of requests, blocks, tokens  *)
(* and deployments: the block pool's count is the block tables that hold the *)
(* block, plus the match handle, plus the copy operations in flight.         *)
THEOREM References == Spec => []RefCountsOwned
<1>1. RefInv => RefCountsOwned
  BY DEF RefInv, Counted, RefCountsOwned, Owners, Handle, Copiers
<1> QED
  BY <1>1, RefInvariance, PTL

=============================================================================
