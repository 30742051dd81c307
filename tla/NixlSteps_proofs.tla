-------------------------- MODULE NixlSteps_proofs --------------------------
(***************************************************************************)
(* Proofs about the NIXL connector in the steps of an engine: whatever a   *)
(* request counts as computed holds its own K/V, and what it leases to a   *)
(* peer through the host buffer is a copy of all its blocks in order, for  *)
(* any requests, blocks, chunk and block sizes and any number of           *)
(* preemptions.                                                            *)
(*                                                                         *)
(* Three facts carry it.  Tables share no block, so that a step, a read    *)
(* and a copy disturb nobody else (Apart).  A fetch is in one place from  *)
(* its admission to its report, and its request keeps its table meanwhile  *)
(* (Fetches), so that a late read cannot write to blocks of another.  And  *)
(* the collected blocks of a running request are its table (Ledger).       *)
(***************************************************************************)
EXTENDS NixlSteps, SeqLemmas

Status == {"waiting", "remote", "ready", "running", "preempted", "decode", "leased",
           "aborted", "done"}

(* A fetch that is trimmed ends in the last block that the peer holds, as    *)
(* NixlTrimmedFetch.cfg shows to be needed.                                  *)
TrimsWithinBlock ==
    \A r \in Req : get_num_new_matched_tokens(r) > 0 =>
        BlocksFor(Hit(r) + get_num_new_matched_tokens(r)) = BlocksFor(Remote(r))

(* No element of q is in it twice.                                           *)
Distinct(q) == \A i, j \in 1..Len(q) : q[i] = q[j] => i = j

Fetching(r) == status[r] \in {"remote", "aborted"}

(* The shape of the state.                                                   *)
Types ==
    /\ config \in Configs
    /\ status \in [Req -> Status] /\ computed \in [Req -> Nat]
    /\ table \in [Req -> Seq(BlockId)]
    /\ ledger \in [Req -> Seq(BlockId)] /\ saved \in [Req -> Seq(BlockId)]

(* No block is in two tables, nor in one twice.                              *)
Apart ==
    /\ \A r \in Req : Distinct(table[r])
    /\ \A r, q \in Req : r # q => ToSet(table[r]) \cap ToSet(table[q]) = {}

(* A request's counts, and the blocks it has for them.                       *)
Counts(r) ==
    /\ status[r] \in {"waiting", "preempted", "done"} => table[r] = <<>>
    /\ status[r] \in {"waiting", "preempted"} => computed[r] = 0
    /\ status[r] \notin {"waiting", "preempted", "done"} =>
          computed[r] <= Len(table[r]) * config.block
    /\ Fetching(r) => /\ get_num_new_matched_tokens(r) > 0
                      /\ computed[r] = Hit(r) + get_num_new_matched_tokens(r)
                      /\ Len(table[r]) = BlocksFor(computed[r])
    /\ status[r] = "leased" => Serves(r) /\ computed[r] = Prompt(r)

(* A fetch is listed, held, being read or read, one at a time, and its       *)
(* request waits for it until it is reported.                                *)
Fetches ==
    /\ needRecv \cup (UNION held) \cup reading \cup arrived \subseteq {r \in Req : Fetching(r)}
    /\ needRecv \cap ((UNION held) \cup reading \cup arrived) = {}
    /\ (UNION held) \cap (reading \cup arrived) = {}
    /\ reading \cap arrived = {}

(* The blocks collected for the save of a request that prefills for a peer.  *)
Ledger(r) ==
    config.host /\ Serves(r) =>
        /\ status[r] = "running" => ledger[r] = table[r]
        /\ status[r] \in {"waiting", "remote", "ready"} => ledger[r] = <<>>
        /\ status[r] = "leased" => saved[r] = table[r]

Saves == needSave \subseteq {r \in Req : config.host /\ Serves(r)}

(* What is in the device's memory and in the host buffer.                    *)
Memory(r) ==
    /\ status[r] \in {"ready", "running", "decode", "leased"} => Owns(content, r, computed[r])
    /\ status[r] = "remote" => Owns(content, r, Hit(r))
    /\ status[r] = "remote" /\ r \in arrived => Owns(content, r, computed[r])
    /\ status[r] = "leased" /\ config.host => Owns(staged, r, Prompt(r))

IInv ==
    /\ Types /\ Apart /\ Fetches /\ Saves
    /\ \A r \in Req : Counts(r) /\ Ledger(r)
    /\ TrimsWithinBlock => \A r \in Req : Memory(r)

-----------------------------------------------------------------------------
(* Places in memory.                                                         *)

(* Owns, of the blocks t of size B.                                          *)
OwnsIn(m, t, r, n, B) == \A p \in 0..(n - 1) : m[t[(p \div B) + 1]][(p % B) + 1] = <<r, p>>

(* Position p is at a slot of one of the blocks that n tokens need.          *)
LEMMA PlaceFacts ==
    ASSUME NEW B \in Nat \ {0}, NEW k \in Nat, NEW n \in Int, n <= k * B, NEW p \in 0..(n - 1)
    PROVE  /\ (p \div B) + 1 \in 1..k /\ (p % B) + 1 \in 1..B
           /\ (p \div B) * B + (p % B) = p
<1>1. /\ p \div B \in Int /\ p % B \in 0..(B - 1) /\ p = (p \div B) * B + (p % B)
  BY DivFacts
<1>2. p \in Int /\ 0 * B <= p /\ p < k * B
  <2>1. 0 * B = 0 /\ k * B \in Int
    OBVIOUS
  <2> QED
    BY <2>1
<1>3. 0 <= p \div B /\ p \div B < k
  BY <1>2, DivBounds
<1> QED
  BY <1>1, <1>3

(* A slot determines its position.                                           *)
LEMMA PlaceOf ==
    ASSUME NEW B \in Nat \ {0}, NEW p \in Nat, NEW i \in Int, i = (p \div B) + 1
    PROVE  (i - 1) * B + (p % B) + 1 - 1 = p
<1>1. /\ p \div B \in Int /\ p % B \in Int /\ p = (p \div B) * B + (p % B)
  BY DivFacts
<1>2. i - 1 = p \div B
  BY <1>1
<1>3. (i - 1) * B + (p % B) = p
  BY <1>1, <1>2
<1>4. (i - 1) * B \in Int
  OBVIOUS
<1> QED
  BY <1>1, <1>3, <1>4

(* K/V stay where the blocks of the request are left alone.                  *)
LEMMA OwnsStays ==
    ASSUME NEW B \in Nat \ {0}, NEW t \in Seq(BlockId), NEW r, NEW n \in Int, n <= Len(t) * B,
           NEW m, NEW w, OwnsIn(m, t, r, n, B),
           \A b \in ToSet(t) : \A k \in 1..B : w[b][k] = m[b][k]
    PROVE  OwnsIn(w, t, r, n, B)
<1> SUFFICES ASSUME NEW p \in 0..(n - 1)
             PROVE  w[t[(p \div B) + 1]][(p % B) + 1] = <<r, p>>
  BY DEF OwnsIn
<1>1. Len(t) \in Nat /\ DOMAIN t = 1..Len(t)
  OBVIOUS
<1>2. (p \div B) + 1 \in 1..Len(t) /\ (p % B) + 1 \in 1..B
  BY <1>1, PlaceFacts
<1>3. t[(p \div B) + 1] \in ToSet(t)
  BY <1>1, <1>2 DEF ToSet
<1>4. m[t[(p \div B) + 1]][(p % B) + 1] = <<r, p>>
  BY DEF OwnsIn
<1> QED
  BY <1>2, <1>3, <1>4

(* More blocks at the end of a table change nothing before them.             *)
LEMMA OwnsExtended ==
    ASSUME NEW B \in Nat \ {0}, NEW t \in Seq(BlockId), NEW r, NEW n \in Int, n <= Len(t) * B,
           NEW m, NEW u, OwnsIn(m, t, r, n, B), \A i \in 1..Len(t) : u[i] = t[i]
    PROVE  OwnsIn(m, u, r, n, B)
<1> SUFFICES ASSUME NEW p \in 0..(n - 1)
             PROVE  m[u[(p \div B) + 1]][(p % B) + 1] = <<r, p>>
  BY DEF OwnsIn
<1>1. (p \div B) + 1 \in 1..Len(t)
  BY PlaceFacts
<1>2. m[t[(p \div B) + 1]][(p % B) + 1] = <<r, p>>
  BY DEF OwnsIn
<1> QED
  BY <1>1, <1>2

(* Written, with the block size as a parameter.                              *)
WrittenIn(m, r, bs, from, to, B) ==
    [b \in BlockId |-> [s \in 1..B |->
        LET p == (PlaceIn(bs, b) - 1) * B + s - 1
        IN  IF PlaceIn(bs, b) > 0 /\ from <= p /\ p < to THEN <<r, p>> ELSE m[b][s]]]

(* The place of a block in a table.                                          *)
LEMMA PlaceInTable ==
    ASSUME NEW t \in Seq(BlockId), Distinct(t), NEW i \in 1..Len(t)
    PROVE  t[i] \in ToSet(t) /\ PlaceIn(t, t[i]) = i
<1>1. DOMAIN t = 1..Len(t)
  OBVIOUS
<1>2. \A k \in 1..Len(t) : t[k] = t[i] => k = i
  BY DEF Distinct
<1>3. t[i] \in ToSet(t)
  BY <1>1 DEF ToSet
<1> QED
  BY <1>1, <1>2, <1>3 DEF PlaceIn

(* A write touches its request's blocks only.                                *)
LEMMA WrittenElsewhere ==
    ASSUME NEW m, NEW r, NEW bs, NEW from, NEW to, NEW B,
           NEW b \in BlockId \ ToSet(bs), NEW k \in 1..B
    PROVE  WrittenIn(m, r, bs, from, to, B)[b][k] = m[b][k]
  BY DEF WrittenIn, PlaceIn

(* What a write leaves at a slot of its request's blocks.                    *)
LEMMA WrittenAt ==
    ASSUME NEW m, NEW r, NEW bs, NEW from, NEW to, NEW B,
           NEW b \in BlockId, NEW k \in 1..B,
           NEW i, i = PlaceIn(bs, b), NEW p, p = (i - 1) * B + k - 1
    PROVE  WrittenIn(m, r, bs, from, to, B)[b][k] =
              IF i > 0 /\ from <= p /\ p < to THEN <<r, p>> ELSE m[b][k]
  BY DEF WrittenIn

(* Writing the positions that follow the request's own makes them its own.   *)
LEMMA OwnsWritten ==
    ASSUME NEW B \in Nat \ {0}, NEW t \in Seq(BlockId), Distinct(t), NEW r,
           NEW from \in Nat, NEW to \in Nat, to <= Len(t) * B, from <= to,
           NEW m, OwnsIn(m, t, r, from, B)
    PROVE  OwnsIn(WrittenIn(m, r, t, from, to, B), t, r, to, B)
<1> DEFINE w == WrittenIn(m, r, t, from, to, B)
<1> SUFFICES ASSUME NEW p \in 0..(to - 1)
             PROVE  w[t[(p \div B) + 1]][(p % B) + 1] = <<r, p>>
  BY DEF OwnsIn
<1> DEFINE i == (p \div B) + 1
           s == (p % B) + 1
<1>1. i \in 1..Len(t) /\ s \in 1..B /\ Len(t) \in Nat
  BY PlaceFacts
<1>2. t[i] \in ToSet(t) /\ t[i] \in BlockId /\ i = PlaceIn(t, t[i])
  BY <1>1, PlaceInTable
<1>3. (i - 1) * B + s - 1 = p
  BY <1>1, PlaceOf
<1>4. ASSUME from > p PROVE m[t[i]][s] = <<r, p>>
  <2>1. p \in 0..(from - 1)
    BY <1>4
  <2> QED
    BY <2>1 DEF OwnsIn
<1> HIDE DEF i, s
<1>5. w[t[i]][s] = IF i > 0 /\ from <= p /\ p < to THEN <<r, p>> ELSE m[t[i]][s]
  <2>1. PICK b \in BlockId : b = t[i] /\ i = PlaceIn(t, b)
    BY <1>2
  <2>2. PICK k \in 1..B : k = s
    BY <1>1
  <2>3. p = (i - 1) * B + k - 1
    BY <1>3, <2>2
  <2>4. WrittenIn(m, r, t, from, to, B)[b][k] = IF i > 0 /\ from <= p /\ p < to THEN <<r, p>> ELSE m[b][k]
    BY <2>1, <2>3, WrittenAt, SMTT(40)
  <2> QED
    BY <2>1, <2>2, <2>4
<1>6. w[t[i]][s] = <<r, p>>
  BY <1>1, <1>4, <1>5
<1> QED
  BY <1>6 DEF i, s

(* ReadEnds, with its parameters: blocks dst get the K/V from position from  *)
(* on that the peer has.                                                     *)
ReadIn(m, r, dst, from, to, B) ==
    [b \in BlockId |-> [s \in 1..B |->
        LET p == from + (PlaceIn(dst, b) - 1) * B + s - 1
        IN  IF PlaceIn(dst, b) > 0 /\ p < to THEN <<r, p>> ELSE m[b][s]]]

(* A read touches its request's blocks only.                                 *)
LEMMA ReadElsewhere ==
    ASSUME NEW m, NEW r, NEW dst, NEW from, NEW to, NEW B,
           NEW b \in BlockId \ ToSet(dst), NEW k \in 1..B
    PROVE  ReadIn(m, r, dst, from, to, B)[b][k] = m[b][k]
  BY DEF ReadIn, PlaceIn

(* A read of what follows k blocks of the request's own makes it its own, up *)
(* to what the peer has.                                                     *)
LEMMA OwnsRead ==
    ASSUME NEW B \in Nat \ {0}, NEW t \in Seq(BlockId), Distinct(t), NEW r,
           NEW k \in 0..Len(t), NEW n \in Nat, NEW to \in Nat, n <= Len(t) * B, n <= to,
           NEW m, OwnsIn(m, t, r, k * B, B)
    PROVE  OwnsIn(ReadIn(m, r, SubSeq(t, k + 1, Len(t)), k * B, to, B), t, r, n, B)
<1> DEFINE dst == SubSeq(t, k + 1, Len(t))
           w == ReadIn(m, r, dst, k * B, to, B)
<1>1. dst \in Seq(BlockId) /\ Len(dst) = Len(t) - k /\ \A j \in 1..Len(dst) : dst[j] = t[k + j]
  BY SuffixFacts
<1>2. Len(t) \in Nat /\ Len(dst) \in Nat /\ k \in Nat /\ k * B \in Int
  BY <1>1
<1> HIDE DEF dst
<1>3. Distinct(dst)
  BY <1>1, <1>2 DEF Distinct
<1> SUFFICES ASSUME NEW p \in 0..(n - 1)
             PROVE  w[t[(p \div B) + 1]][(p % B) + 1] = <<r, p>>
  BY DEF OwnsIn, dst
<1> DEFINE i == (p \div B) + 1
           s == (p % B) + 1
<1>4. i \in 1..Len(t) /\ s \in 1..B
  BY <1>2, PlaceFacts
<1>5. (i - 1) * B + s - 1 = p
  BY <1>4, PlaceOf
<1>6. t[i] \in BlockId
  BY <1>4
<1>7. \A x \in 0..(k * B - 1) : m[t[(x \div B) + 1]][(x % B) + 1] = <<r, x>>
  BY DEF OwnsIn
<1>8. p \in 0..(k * B - 1) => m[t[i]][s] = <<r, p>>
  BY <1>7
<1> HIDE DEF i, s
<1>9. CASE i <= k
  <2>1. t[i] \notin ToSet(dst)
    <3>1. \A j \in 1..Len(dst) : t[k + j] # t[i]
      <4> SUFFICES ASSUME NEW j \in 1..Len(dst), t[k + j] = t[i] PROVE FALSE
        OBVIOUS
      <4>1. k + j \in 1..Len(t) /\ k + j # i
        BY <1>1, <1>2, <1>4, <1>9
      <4> QED
        BY <1>4, <4>1 DEF Distinct
    <3>2. DOMAIN dst = 1..Len(dst)
      BY <1>1
    <3> QED
      BY <1>1, <3>1, <3>2 DEF ToSet
  <2>2. w[t[i]][s] = m[t[i]][s]
    BY <1>4, <1>6, <2>1, ReadElsewhere
  <2>3. p \in 0..(k * B - 1)
    <3>1. i * B <= k * B /\ (i - 1) * B = i * B - B
      BY <1>2, <1>4, <1>9, MulFacts
    <3>2. i * B \in Int /\ (i - 1) * B \in Int
      BY <1>4
    <3> QED
      BY <1>2, <1>4, <1>5, <3>1, <3>2
  <2> QED
    BY <1>8, <2>2, <2>3 DEF i, s
<1>10. CASE i > k
  <2>1. PICK j \in 1..Len(dst) : j = i - k
    BY <1>1, <1>2, <1>4, <1>10
  <2>2. PICK b \in BlockId : b = t[i]
    BY <1>6
  <2>3. dst[j] = b /\ j = PlaceIn(dst, b)
    <3>1. k + j = i
      BY <1>2, <1>4, <2>1
    <3>2. dst[j] = b
      BY <1>1, <2>2, <3>1
    <3> QED
      BY <1>1, <1>3, <3>2, PlaceInTable
  <2>4. k * B + (j - 1) * B + s - 1 = p
    <3>1. (k + (j - 1)) * B = k * B + (j - 1) * B
      BY <1>2, <2>1, MulFacts
    <3>2. k + (j - 1) = i - 1
      BY <1>2, <1>4, <2>1
    <3>3. (i - 1) * B = k * B + (j - 1) * B
      BY <3>1, <3>2
    <3>4. (j - 1) * B \in Int /\ (i - 1) * B \in Int
      BY <1>4, <2>1
    <3> QED
      BY <1>2, <1>4, <1>5, <3>3, <3>4
  <2>5. PICK x \in 1..B : x = s
    BY <1>4
  <2>6. ReadIn(m, r, dst, k * B, to, B)[b][x] = IF j > 0 /\ p < to THEN <<r, p>> ELSE m[b][x]
    <3>1. ReadIn(m, r, dst, k * B, to, B)[b][x] =
             LET y == k * B + (PlaceIn(dst, b) - 1) * B + x - 1
             IN  IF PlaceIn(dst, b) > 0 /\ y < to THEN <<r, y>> ELSE m[b][x]
      BY Zenon DEF ReadIn
    <3>2. k * B + (PlaceIn(dst, b) - 1) * B + x - 1 = p
      BY <2>3, <2>4, <2>5
    <3> QED
      BY <2>3, <3>1, <3>2
  <2>7. w[t[i]][s] = <<r, p>>
    BY <2>1, <2>2, <2>5, <2>6
  <2> QED
    BY <2>7 DEF i, s
<1> QED
  BY <1>2, <1>4, <1>9, <1>10

-----------------------------------------------------------------------------
(* The deployment and the blocks of a request.                               *)

LEMMA ConfigFacts ==
    ASSUME config \in Configs, NEW r \in Req
    PROVE  /\ config.block \in Nat \ {0} /\ config.chunk \in Nat \ {0} /\ config.host \in BOOLEAN
           /\ Prompt(r) \in Nat \ {0} /\ Remote(r) \in Nat /\ Serves(r) \in BOOLEAN
           /\ Hit(r) \in Nat /\ Hit(r) < Prompt(r) /\ Hit(r) % config.block = 0
  BY ConfigsAssumption DEF Prompt, Remote, Serves, Hit

(* A fetch ends within what the peer has.                                    *)
LEMMA FetchFacts ==
    ASSUME config \in Configs, NEW r \in Req
    PROVE  /\ get_num_new_matched_tokens(r) \in Nat
           /\ get_num_new_matched_tokens(r) > 0 =>
                 Hit(r) + get_num_new_matched_tokens(r) <= Remote(r)
<1> DEFINE count == IF Remote(r) > Hit(r) THEN Remote(r) - Hit(r) ELSE 0
           overshoot == (Hit(r) + count) % config.chunk
<1>1. /\ config.chunk \in Nat \ {0} /\ Remote(r) \in Nat /\ Hit(r) \in Nat /\ Prompt(r) \in Nat
  BY ConfigFacts
<1>2. count \in Nat /\ (count > 0 => Hit(r) + count <= Remote(r))
  BY <1>1
<1>3. overshoot \in Nat
  <2>1. PICK x \in Int : x = Hit(r) + count
    BY <1>1, <1>2
  <2>2. PICK c \in Nat \ {0} : c = config.chunk
    BY <1>1
  <2>3. x % c \in 0..(c - 1)
    BY DivFacts
  <2>4. x % c \in Nat
    BY <2>3
  <2> QED
    BY <2>1, <2>2, <2>4
<1>4. get_num_new_matched_tokens(r) =
        CASE Hit(r) + count >= Prompt(r) \/ overshoot = 0 -> count
          [] overshoot >= count -> 0
          [] OTHER -> count - overshoot
  BY DEF get_num_new_matched_tokens
<1> HIDE DEF count, overshoot
<1> QED
  BY <1>1, <1>2, <1>3, <1>4

(* n tokens have room in the blocks for them.                                *)
LEMMA BlocksForFacts ==
    ASSUME config \in Configs, Req # {}, NEW n \in Nat
    PROVE  BlocksFor(n) \in Nat /\ n <= BlocksFor(n) * config.block
<1>1. config.block \in Nat \ {0}
  BY ConfigFacts
<1> DEFINE B == config.block
           a == n + B - 1
           d == a \div B
<1>2. a \in Int /\ a >= n
  BY <1>1
<1>3. d \in Int /\ a < d * B + B
  BY <1>1, <1>2, DivFacts
<1>4. 0 * B <= a => 0 <= d
  BY <1>1, <1>2, DivBounds
<1>5. BlocksFor(n) = d
  BY DEF BlocksFor, CeilDiv
<1>6. d * B \in Int /\ 0 * B = 0
  BY <1>1, <1>3
<1>7. a = n + B - 1
  OBVIOUS
<1> HIDE DEF d, a
<1>8. n <= d * B
  BY <1>1, <1>3, <1>6, <1>7
<1> QED
  BY <1>2, <1>3, <1>4, <1>5, <1>6, <1>8

(* What a sequence with another after it has at its places.                  *)
LEMMA ConcatAt ==
    ASSUME NEW S, NEW s \in Seq(S), NEW t \in Seq(S)
    PROVE  /\ s \o t \in Seq(S) /\ Len(s \o t) = Len(s) + Len(t)
           /\ \A i \in 1..Len(s) : (s \o t)[i] = s[i]
           /\ \A i \in 1..Len(t) : (s \o t)[Len(s) + i] = t[i]
  OBVIOUS

(* The table u serves n tokens of request r, and shares no block.            *)
Serving(r, n, bs, u) ==
    /\ bs \in Seq(BlockId) /\ u \in Seq(BlockId) /\ Distinct(u)
    /\ n <= Len(u) * config.block
    /\ \A i \in 1..Len(table[r]) : u[i] = table[r][i]
    /\ \A q \in Req : q # r => ToSet(u) \cap ToSet(table[q]) = {}
    /\ table[r] = <<>> => u = bs /\ Len(u) = BlocksFor(n)

(* The blocks that a request is given: new ones, enough for n tokens.        *)
LEMMA NewTable ==
    ASSUME Types, Apart, NEW r \in Req, NEW n \in Nat, NEW bs \in NewBlocks(r, n)
    PROVE  Serving(r, n, bs, table[r] \o bs)
<1> DEFINE t == table[r]
           u == t \o bs
           k == BlocksFor(n) - Len(t)
<1>1. /\ config \in Configs /\ config.block \in Nat \ {0} /\ t \in Seq(BlockId) /\ Distinct(t)
      /\ BlocksFor(n) \in Nat /\ n <= BlocksFor(n) * config.block /\ Len(t) \in Nat
      /\ DOMAIN t = 1..Len(t)
  <2>1. config \in Configs /\ t \in Seq(BlockId) /\ Distinct(t)
    BY DEF Types, Apart
  <2>2. config.block \in Nat \ {0}
    BY <2>1, ConfigFacts
  <2>3. BlocksFor(n) \in Nat /\ n <= BlocksFor(n) * config.block
    BY <2>1, BlocksForFacts
  <2> QED
    BY <2>1, <2>2, <2>3
<1>2. /\ bs \in [1..k -> Free] /\ \A i, j \in DOMAIN bs : i < j => bs[i] < bs[j]
  BY DEF NewBlocks
<1>3. k \in Int /\ k = BlocksFor(n) - Len(t)
  BY <1>1
<1> HIDE DEF k
<1>4. Free \subseteq BlockId /\ \A q \in Req : Free \cap ToSet(table[q]) = {}
  BY DEF Free
<1>5. PICK x \in Nat : 1..k = 1..x /\ (k > 0 => x = k) /\ (k <= 0 => x = 0)
  <2>1. CASE k > 0
    BY <1>3, <2>1
  <2>2. CASE k <= 0
    <3>1. 1..k = 1..0
      BY <1>3, <2>2
    <3> QED
      BY <1>3, <2>2, <3>1
  <2> QED
    BY <1>3, <2>1, <2>2
<1>6. bs \in Seq(Free) /\ bs \in Seq(BlockId) /\ Len(bs) = x /\ DOMAIN bs = 1..x
  <2>1. bs \in [1..x -> Free]
    BY <1>2, <1>5
  <2> QED
    BY <1>4, <2>1
<1>7. \A i \in 1..x : bs[i] \in Free /\ bs[i] \in Int
  BY <1>2, <1>4, <1>5, BlockIdAssumption
<1>8. Distinct(bs)
  <2> SUFFICES ASSUME NEW i \in 1..x, NEW j \in 1..x, bs[i] = bs[j] PROVE i = j
    BY <1>6 DEF Distinct
  <2>1. (i < j => bs[i] < bs[j]) /\ (j < i => bs[j] < bs[i])
    BY <1>2, <1>6
  <2> QED
    BY <1>7, <2>1
<1>9. /\ u \in Seq(BlockId) /\ Len(u) = Len(t) + x
      /\ \A i \in 1..Len(t) : u[i] = t[i]
      /\ \A i \in 1..x : u[Len(t) + i] = bs[i]
  <2>1. /\ t \o bs \in Seq(BlockId) /\ Len(t \o bs) = Len(t) + Len(bs)
        /\ \A i \in 1..Len(t) : (t \o bs)[i] = t[i]
        /\ \A i \in 1..Len(bs) : (t \o bs)[Len(t) + i] = bs[i]
    <3>1. t \in Seq(BlockId) /\ bs \in Seq(BlockId)
      BY <1>1, <1>6
    <3> HIDE DEF t
    <3>2. PICK v \in Seq(BlockId), w \in Seq(BlockId) : v = t /\ w = bs
      BY <3>1
    <3>3. /\ v \o w \in Seq(BlockId) /\ Len(v \o w) = Len(v) + Len(w)
          /\ \A i \in 1..Len(v) : (v \o w)[i] = v[i]
          /\ \A i \in 1..Len(w) : (v \o w)[Len(v) + i] = w[i]
      BY ConcatAt
    <3> QED
      BY <3>2, <3>3, Zenon
  <2>2. Len(bs) = x
    BY <1>6
  <2> QED
    BY <2>1, <2>2, Zenon
<1>10. Range(u) = Range(t) \cup Range(bs)
  BY <1>1, <1>6, ConcatRange
<1> HIDE DEF u, t
<1>11. ToSet(u) = ToSet(t) \cup ToSet(bs) /\ ToSet(bs) \subseteq Free
  <2>1. ToSet(bs) \subseteq Free
    BY <1>6, <1>7 DEF ToSet
  <2>2. ToSet(u) = Range(u) /\ ToSet(t) = Range(t) /\ ToSet(bs) = Range(bs)
    BY DEF ToSet, Range
  <2> QED
    BY <1>10, <2>1, <2>2
<1>12. \A i \in 1..Len(t) : \A j \in 1..x : t[i] # bs[j]
  <2> SUFFICES ASSUME NEW i \in 1..Len(t), NEW j \in 1..x, t[i] = bs[j] PROVE FALSE
    OBVIOUS
  <2>1. t[i] \in ToSet(t)
    BY <1>1 DEF ToSet
  <2> QED
    BY <1>4, <1>7, <2>1 DEF t
<1>13. Distinct(u)
  <2> SUFFICES ASSUME NEW i \in 1..Len(u), NEW j \in 1..Len(u), u[i] = u[j] PROVE i = j
    BY DEF Distinct
  <2>1. \A y \in 1..Len(u) : y \in 1..Len(t) \/ \E z \in 1..x : y = Len(t) + z
    <3> SUFFICES ASSUME NEW y \in 1..Len(u), y \notin 1..Len(t)
                 PROVE  \E z \in 1..x : y = Len(t) + z
      OBVIOUS
    <3>1. y - Len(t) \in 1..x /\ y = Len(t) + (y - Len(t))
      BY <1>1, <1>9
    <3> QED
      BY <3>1
  <2>2. CASE i \in 1..Len(t)
    <3>1. CASE j \in 1..Len(t)
      BY <1>1, <1>9, <2>2, <3>1 DEF Distinct
    <3>2. ASSUME NEW y \in 1..x, j = Len(t) + y PROVE i = j
      BY <1>9, <1>12, <2>2, <3>2
    <3> QED
      BY <2>1, <3>1, <3>2
  <2>3. ASSUME NEW z \in 1..x, i = Len(t) + z PROVE i = j
    <3>1. CASE j \in 1..Len(t)
      BY <1>9, <1>12, <2>3, <3>1
    <3>2. ASSUME NEW y \in 1..x, j = Len(t) + y PROVE i = j
      <4>1. bs[z] = bs[y]
        BY <1>9, <2>3, <3>2
      <4> QED
        BY <1>6, <1>8, <2>3, <3>2, <4>1 DEF Distinct
    <3> QED
      BY <2>1, <3>1, <3>2
  <2> QED
    BY <2>1, <2>2, <2>3
<1>14. n <= Len(u) * config.block
  <2>1. BlocksFor(n) <= Len(u) /\ Len(u) \in Nat
    BY <1>1, <1>3, <1>5, <1>9
  <2>2. BlocksFor(n) * config.block <= Len(u) * config.block
    <3>1. PICK y \in Int, z \in Int, c \in Nat : y = BlocksFor(n) /\ z = Len(u) /\ c = config.block
      BY <1>1, <2>1
    <3>2. y * c <= z * c
      BY <2>1, <3>1, MulFacts
    <3> QED
      BY <3>1, <3>2
  <2>3. BlocksFor(n) * config.block \in Int /\ Len(u) * config.block \in Int
    BY <1>1, <2>1
  <2> QED
    BY <1>1, <2>2, <2>3
<1>15. \A q \in Req : q # r => ToSet(u) \cap ToSet(table[q]) = {}
  BY <1>4, <1>11 DEF Apart, t
<1>16. ASSUME t = <<>> PROVE u = bs /\ Len(u) = BlocksFor(n)
  <2>1. u = bs
    BY <1>6, <1>16 DEF u
  <2>2. Len(t) = 0
    BY <1>16
  <2> QED
    BY <1>1, <1>3, <1>5, <1>9, <2>1, <2>2
<1>17. Serving(r, n, bs, u)
  BY <1>6, <1>9, <1>13, <1>14, <1>15, <1>16 DEF t, Serving
<1> QED
  BY <1>17 DEF u, t

(* The deployment does not change, nor what it says of a request.            *)
LEMMA ConfigStays ==
    ASSUME config' = config, NEW r \in Req
    PROVE  /\ Prompt(r)' = Prompt(r) /\ Hit(r)' = Hit(r) /\ Remote(r)' = Remote(r)
           /\ Serves(r)' = Serves(r)
           /\ get_num_new_matched_tokens(r)' = get_num_new_matched_tokens(r)
  BY DEF Prompt, Hit, Remote, Serves, get_num_new_matched_tokens

LEMMA TrimsStays ==
    ASSUME config' = config, TrimsWithinBlock'
    PROVE  TrimsWithinBlock
<1> SUFFICES ASSUME NEW r \in Req, get_num_new_matched_tokens(r) > 0
             PROVE  BlocksFor(Hit(r) + get_num_new_matched_tokens(r)) = BlocksFor(Remote(r))
  BY DEF TrimsWithinBlock
<1>1. /\ get_num_new_matched_tokens(r)' = get_num_new_matched_tokens(r)
      /\ Hit(r)' = Hit(r) /\ Remote(r)' = Remote(r)
  BY ConfigStays
<1>2. BlocksFor(Hit(r) + get_num_new_matched_tokens(r))' = BlocksFor(Remote(r))'
  BY <1>1 DEF TrimsWithinBlock
<1> QED
  BY <1>1, <1>2 DEF BlocksFor

(* Owns, of a request's table.                                               *)
LEMMA OwnsTable ==
    ASSUME NEW m, NEW r, NEW n
    PROVE  /\ Owns(m, r, n) <=> OwnsIn(m, table[r], r, n, config.block)
  BY DEF Owns, OwnsIn

-----------------------------------------------------------------------------
(* Requests that a step leaves alone, resumes, or frees.                     *)

Same(q) == status'[q] = status[q] /\ table'[q] = table[q] /\ computed'[q] = computed[q]

Resumed(q) ==
    /\ status[q] = "remote" /\ q \in arrived /\ status'[q] = "ready"
    /\ table'[q] = table[q] /\ computed'[q] = computed[q]

Left(q) == status'[q] = "done" /\ table'[q] = <<>>

LEMMA OthersCount ==
    ASSUME IInv, config' = config, NEW q \in Req, Same(q) \/ Resumed(q) \/ Left(q),
           ledger'[q] = ledger[q], saved'[q] = saved[q]
    PROVE  Counts(q)' /\ Ledger(q)'
<1>1. Counts(q) /\ Ledger(q)
  BY DEF IInv
<1>2. /\ Prompt(q)' = Prompt(q) /\ Hit(q)' = Hit(q) /\ Serves(q)' = Serves(q)
      /\ get_num_new_matched_tokens(q)' = get_num_new_matched_tokens(q)
  BY ConfigStays
<1>3. CASE Same(q)
  BY <1>1, <1>2, <1>3 DEF Same, Counts, Ledger, Fetching, BlocksFor
<1>4. CASE Resumed(q)
  BY <1>1, <1>2, <1>4 DEF Resumed, Counts, Ledger, Fetching
<1>5. CASE Left(q)
  BY <1>5 DEF Left, Counts, Ledger, Fetching
<1> QED
  BY <1>3, <1>4, <1>5

LEMMA OthersMemory ==
    ASSUME IInv, config' = config, NEW q \in Req, Same(q) \/ Resumed(q) \/ Left(q),
           q \in arrived' => q \in arrived, TrimsWithinBlock',
           \A b \in ToSet(table[q]) : \A k \in 1..config.block :
              content'[b][k] = content[b][k] /\ staged'[b][k] = staged[b][k]
    PROVE  Memory(q)'
<1>1. Memory(q) /\ Counts(q) /\ config \in Configs /\ table[q] \in Seq(BlockId) /\ computed[q] \in Nat
  BY TrimsStays DEF IInv, Types
<1>2. /\ Prompt(q)' = Prompt(q) /\ Hit(q)' = Hit(q)
  BY ConfigStays
<1>3. config.block \in Nat \ {0} /\ Prompt(q) \in Nat /\ Hit(q) \in Nat
  BY <1>1, ConfigFacts
<1>4. CASE Left(q)
  BY <1>4 DEF Left, Memory
<1>5. CASE Same(q) \/ Resumed(q)
  <2>1. table'[q] = table[q] /\ computed'[q] = computed[q]
    BY <1>5 DEF Same, Resumed
  <2>2. ASSUME NEW n \in Nat, n <= Len(table[q]) * config.block, Owns(content, q, n)
        PROVE  OwnsIn(content', table[q], q, n, config.block)
    <3>1. OwnsIn(content, table[q], q, n, config.block)
      BY <2>2, OwnsTable
    <3> QED
      BY <1>1, <1>3, <2>2, <3>1, OwnsStays, SMTT(40)
  <2>3. ASSUME NEW n \in Nat, n <= Len(table[q]) * config.block, Owns(staged, q, n)
        PROVE  OwnsIn(staged', table[q], q, n, config.block)
    <3>1. OwnsIn(staged, table[q], q, n, config.block)
      BY <2>3, OwnsTable
    <3> QED
      BY <1>1, <1>3, <2>3, <3>1, OwnsStays, SMTT(40)
  <2>4. ASSUME status'[q] \in {"ready", "running", "decode", "leased"}
        PROVE  Owns(content, q, computed[q])'
    <3>1. Owns(content, q, computed[q]) /\ computed[q] <= Len(table[q]) * config.block
      BY <1>1, <1>5, <2>4 DEF Same, Resumed, Memory, Counts
    <3>2. OwnsIn(content', table[q], q, computed[q], config.block)
      BY <1>1, <2>2, <3>1
    <3> QED
      BY <2>1, <3>2 DEF Owns, OwnsIn
  <2>5. ASSUME status'[q] = "remote"
        PROVE  /\ Owns(content, q, Hit(q))'
               /\ q \in arrived' => Owns(content, q, computed[q])'
    <3>1. status[q] = "remote"
      BY <1>5, <2>5 DEF Same, Resumed
    <3>2. /\ Owns(content, q, Hit(q)) /\ (q \in arrived' => Owns(content, q, computed[q]))
          /\ computed[q] <= Len(table[q]) * config.block /\ Hit(q) <= computed[q]
      BY <1>1, <1>3, <3>1, FetchFacts DEF Memory, Counts, Fetching
    <3>3. Hit(q) <= Len(table[q]) * config.block
      <4>1. Len(table[q]) * config.block \in Int
        BY <1>1, <1>3
      <4> QED
        BY <1>1, <1>3, <3>2, <4>1
    <3>4. OwnsIn(content', table[q], q, Hit(q), config.block)
      BY <1>3, <2>2, <3>2, <3>3
    <3>5. q \in arrived' => OwnsIn(content', table[q], q, computed[q], config.block)
      BY <1>1, <2>2, <3>2
    <3> QED
      BY <1>2, <2>1, <3>4, <3>5 DEF Owns, OwnsIn
  <2>6. ASSUME status'[q] = "leased", config'.host
        PROVE  Owns(staged, q, Prompt(q))'
    <3>1. status[q] = "leased" /\ config.host
      BY <1>5, <2>6 DEF Same, Resumed
    <3>2. Owns(staged, q, Prompt(q)) /\ Prompt(q) <= Len(table[q]) * config.block
      BY <1>1, <3>1 DEF Memory, Counts
    <3>3. OwnsIn(staged', table[q], q, Prompt(q), config.block)
      BY <1>3, <2>3, <3>2
    <3> QED
      BY <1>2, <2>1, <3>3 DEF Owns, OwnsIn
  <2> QED
    BY <2>4, <2>5, <2>6 DEF Memory
<1> QED
  BY <1>4, <1>5

(* Tables stay apart when one is given blocks that no other has, and others  *)
(* stay as they are or are emptied.                                          *)
LEMMA ApartStep ==
    ASSUME Types, Apart, NEW r \in Req, NEW u \in Seq(BlockId), Distinct(u), table'[r] = u,
           \A q \in Req : q # r => ToSet(u) \cap ToSet(table[q]) = {},
           \A q \in Req : q # r => table'[q] = table[q] \/ table'[q] = <<>>
    PROVE  Apart'
<1>1. ToSet(<<>>) = {} /\ Distinct(<<>>)
  BY DEF ToSet, Distinct
<1>2. \A q \in Req : q # r => ToSet(table'[q]) \subseteq ToSet(table[q]) /\ Distinct(table'[q])
  BY <1>1 DEF Apart
<1>3. \A q \in Req : Distinct(table'[q])
  BY <1>2
<1>4. \A p, q \in Req : p # q => ToSet(table'[p]) \cap ToSet(table'[q]) = {}
  <2> SUFFICES ASSUME NEW p \in Req, NEW q \in Req, p # q
               PROVE  ToSet(table'[p]) \cap ToSet(table'[q]) = {}
    OBVIOUS
  <2>1. CASE p = r
    BY <1>2, <2>1
  <2>2. CASE q = r
    BY <1>2, <2>2
  <2>3. CASE p # r /\ q # r
    BY <1>2, <2>3 DEF Apart
  <2> QED
    BY <2>1, <2>2, <2>3
<1> QED
  BY <1>3, <1>4 DEF Apart

(* q is left alone, resumed or freed, with its save and its memory as they   *)
(* were.                                                                     *)
Bystander(q) ==
    /\ Same(q) \/ Resumed(q) \/ Left(q)
    /\ ledger'[q] = ledger[q] /\ saved'[q] = saved[q]
    /\ q \in arrived' => q \in arrived
    /\ \A b \in ToSet(table[q]) : \A k \in 1..config.block :
          content'[b][k] = content[b][k] /\ staged'[b][k] = staged[b][k]

(* What a step has to show of the request it is about.                       *)
LEMMA StepOf ==
    ASSUME IInv, config' = config, Types', Apart', Fetches', Saves',
           \A r \in Req : \/ Bystander(r)
                          \/ Counts(r)' /\ Ledger(r)' /\ (TrimsWithinBlock' => Memory(r)')
    PROVE  IInv'
<1>1. \A q \in Req : Counts(q)' /\ Ledger(q)'
  BY OthersCount DEF Bystander
<1>2. ASSUME TrimsWithinBlock', NEW q \in Req PROVE Memory(q)'
  BY <1>2, OthersMemory DEF Bystander
<1> QED
  BY <1>1, <1>2 DEF IInv

(* Every initial state satisfies the invariant.                              *)
LEMMA InitInv == Init => IInv
<1> SUFFICES ASSUME Init PROVE IInv
  OBVIOUS
<1>1. Types
  BY DEF Init, Types, Status
<1>2. Apart
  BY DEF Init, Apart, Distinct, ToSet
<1>3. Fetches
  BY DEF Init, Fetches, None
<1>4. Saves
  BY DEF Init, Saves
<1>5. ASSUME NEW r \in Req PROVE Counts(r) /\ Ledger(r) /\ Memory(r)
  BY DEF Init, Counts, Ledger, Memory, Fetching
<1> QED
  BY <1>1, <1>2, <1>3, <1>4, <1>5 DEF IInv

-----------------------------------------------------------------------------
(* The steps that write no memory.                                           *)

(* A step that changes one request's status and frees its blocks, or keeps   *)
(* them.                                                                     *)
LEMMA Departs ==
    ASSUME IInv, NEW r \in Req, NEW st \in {"preempted", "done", "aborted"},
           status' = [status EXCEPT ![r] = st], UNCHANGED <<config, mem, reads>>,
           UNCHANGED saved, needSave' = needSave, ledger' \in [Req -> Seq(BlockId)],
           computed' \in [Req -> Nat],
           \A q \in Req : q # r => ledger'[q] = ledger[q] /\ computed'[q] = computed[q],
           st = "preempted" => computed'[r] = 0,
           IF st = "aborted" THEN table' = table /\ computed' = computed /\ status[r] = "remote"
           ELSE table' = [table EXCEPT ![r] = <<>>] /\ ~Fetching(r)
    PROVE  IInv'
<1>1. /\ config \in Configs /\ status \in [Req -> Status] /\ computed \in [Req -> Nat]
      /\ table \in [Req -> Seq(BlockId)] /\ saved \in [Req -> Seq(BlockId)]
  BY DEF IInv, Types
<1>2. /\ config' = config /\ content' = content /\ staged' = staged /\ saved' = saved
      /\ needRecv' = needRecv /\ held' = held /\ reading' = reading /\ arrived' = arrived
  BY DEF mem, reads
<1>3. st \in Status /\ <<>> \in Seq(BlockId)
  BY DEF Status
<1>4. Types'
  BY <1>1, <1>2, <1>3 DEF Types
<1>5. Apart'
  <2>1. PICK u \in Seq(BlockId) : u = table'[r] /\ (u = table[r] \/ u = <<>>)
    BY <1>1, <1>3
  <2>2. Distinct(u) /\ \A q \in Req : q # r => ToSet(u) \cap ToSet(table[q]) = {}
    <3>1. ToSet(<<>>) = {} /\ Distinct(<<>>)
      BY DEF ToSet, Distinct
    <3> QED
      BY <2>1, <3>1 DEF IInv, Apart
  <2>3. \A q \in Req : q # r => table'[q] = table[q] \/ table'[q] = <<>>
    BY <1>1
  <2> QED
    BY <2>1, <2>2, <2>3, ApartStep DEF IInv
<1>6. Fetches'
  <2>1. \A q \in Req : Fetching(q) => Fetching(q)'
    BY <1>1 DEF Fetching
  <2> QED
    BY <1>2, <2>1 DEF IInv, Fetches
<1>7. Saves'
  <2>1. \A q \in Req : Serves(q)' = Serves(q)
    BY <1>2, ConfigStays
  <2> QED
    BY <1>2, <2>1 DEF IInv, Saves
<1>8. ASSUME NEW q \in Req, q # r PROVE Bystander(q)
  BY <1>1, <1>2, <1>8 DEF Bystander, Same
<1>9. Counts(r)' /\ Ledger(r)' /\ Memory(r)'
  <2>1. status'[r] = st
    BY <1>1
  <2>2. /\ Hit(r)' = Hit(r) /\ get_num_new_matched_tokens(r)' = get_num_new_matched_tokens(r)
    BY <1>2, ConfigStays
  <2>3. Counts(r)
    BY DEF IInv
  <2>4. CASE st = "aborted"
    <3>1. Counts(r)'
      BY <1>2, <2>1, <2>2, <2>3, <2>4 DEF Counts, Fetching, BlocksFor
    <3> QED
      BY <2>1, <2>4, <3>1 DEF Ledger, Memory
  <2>5. CASE st # "aborted"
    <3>1. table'[r] = <<>>
      BY <1>1, <2>5
    <3>2. Counts(r)'
      BY <2>1, <2>5, <3>1 DEF Counts, Fetching
    <3> QED
      BY <2>1, <2>5, <3>2 DEF Ledger, Memory
  <2> QED
    BY <2>4, <2>5
<1> QED
  BY <1>2, <1>4, <1>5, <1>6, <1>7, <1>8, <1>9, StepOf

LEMMA PreemptInv ==
    ASSUME IInv, NEW r \in Req, Preempt(r)
    PROVE  IInv'
<1>1. ledger \in [Req -> Seq(BlockId)] /\ computed \in [Req -> Nat]
  BY DEF IInv, Types
<1>2. ~Fetching(r)
  BY DEF Preempt, Fetching
<1>3. /\ status' = [status EXCEPT ![r] = "preempted"] /\ computed' = [computed EXCEPT ![r] = 0]
      /\ table' = [table EXCEPT ![r] = <<>>]
      /\ UNCHANGED <<config, mem, reads>> /\ saved' = saved /\ needSave' = needSave /\ ledger' = ledger
  BY DEF Preempt, saves
<1>4. computed' \in [Req -> Nat] /\ \A q \in Req : q # r => computed'[q] = computed[q]
  BY <1>1, <1>3
<1>5. computed'[r] = 0
  BY <1>1, <1>3
<1> QED
  BY <1>1, <1>2, <1>3, <1>4, <1>5, Departs

LEMMA AbortInv ==
    ASSUME IInv, NEW r \in Req, Abort(r)
    PROVE  IInv'
<1>1. ledger \in [Req -> Seq(BlockId)] /\ computed \in [Req -> Nat]
  BY DEF IInv, Types
<1>2. /\ ledger' = [ledger EXCEPT ![r] = <<>>]
      /\ UNCHANGED <<config, mem, reads>> /\ saved' = saved /\ needSave' = needSave
      /\ computed' = computed
  BY DEF Abort
<1>3. ledger' \in [Req -> Seq(BlockId)] /\ \A q \in Req : q # r => ledger'[q] = ledger[q]
  BY <1>1, <1>2
<1>4. CASE status[r] = "remote"
  <2>1. status' = [status EXCEPT ![r] = "aborted"] /\ table' = table
    BY <1>4 DEF Abort
  <2> QED
    BY <1>1, <1>2, <1>3, <1>4, <2>1, Departs
<1>5. CASE status[r] # "remote"
  <2>1. status' = [status EXCEPT ![r] = "done"] /\ table' = [table EXCEPT ![r] = <<>>] /\ ~Fetching(r)
    BY <1>5 DEF Abort, Fetching
  <2> QED
    BY <1>1, <1>2, <1>3, <2>1, Departs
<1> QED
  BY <1>4, <1>5

LEMMA FinishInv ==
    ASSUME IInv, NEW r \in Req, Finish(r)
    PROVE  IInv'
<1>1. ledger \in [Req -> Seq(BlockId)] /\ computed \in [Req -> Nat]
  BY DEF IInv, Types
<1>2. ~Fetching(r)
  BY DEF Finish, Decodes, Fetching
<1>3. /\ status' = [status EXCEPT ![r] = "done"] /\ computed' = computed
      /\ table' = [table EXCEPT ![r] = <<>>]
      /\ UNCHANGED <<config, mem, reads>> /\ saved' = saved /\ needSave' = needSave /\ ledger' = ledger
  BY DEF Finish, saves
<1> QED
  BY <1>1, <1>2, <1>3, Departs

(* The held read of an idle rank is issued.                                  *)
LEMMA DummyInv ==
    ASSUME IInv, _dummy_run
    PROVE  IInv'
<1>1. /\ config' = config /\ status' = status /\ computed' = computed /\ table' = table
      /\ content' = content /\ staged' = staged /\ needSave' = needSave /\ ledger' = ledger
      /\ saved' = saved /\ needRecv' = needRecv /\ arrived' = arrived
      /\ reading' = reading \cup (UNION held) /\ held' = {}
  BY DEF _dummy_run, mem, saves, Flushed, None
<1>2. Types' /\ Apart'
  BY <1>1 DEF IInv, Types, Apart
<1>3. Fetches'
  <2>1. \A q \in Req : Fetching(q)' = Fetching(q)
    BY <1>1 DEF Fetching
  <2>2. (UNION held)' = {}
    BY <1>1
  <2> QED
    BY <1>1, <2>1, <2>2 DEF IInv, Fetches
<1>4. Saves'
  <2>1. \A q \in Req : Serves(q)' = Serves(q)
    BY <1>1, ConfigStays
  <2> QED
    BY <1>1, <2>1 DEF IInv, Saves
<1>5. ASSUME NEW q \in Req PROVE Bystander(q)
  BY <1>1 DEF Bystander, Same
<1> QED
  BY <1>1, <1>2, <1>3, <1>4, <1>5, StepOf

(* Fetches move on in a step: a held one is issued, a listed one is issued   *)
(* or held, and those that arrived are reported.                             *)
LEMMA LoadsFetches ==
    ASSUME Fetches, NEW forward \in BOOLEAN, Loads(forward), arrived' = {},
           \A q \in Req : Fetching(q) /\ q \notin arrived => Fetching(q)'
    PROVE  Fetches'
<1>1. /\ (UNION held)' = (IF forward THEN {} ELSE needRecv) /\ needRecv' = {}
      /\ reading' = reading \cup (UNION held) \cup (IF forward THEN needRecv ELSE {})
  <2>1. UNION {} = {} /\ UNION {needRecv} = needRecv
    OBVIOUS
  <2>2. held' = (IF forward THEN {} ELSE {needRecv}) /\ needRecv' = {}
    BY DEF Loads, None
  <2>3. reading' = reading \cup ((UNION held) \ UNION {}) \cup (IF forward THEN needRecv ELSE {})
    BY DEF Loads, EntryFlush, None, Flushed
  <2> QED
    BY <2>1, <2>2, <2>3
<1>2. \A q : q \in needRecv \cup (UNION held) \cup reading => q \in Req /\ Fetching(q) /\ q \notin arrived
  BY DEF Fetches
<1>3. \A q : q \in needRecv \cup (UNION held) \cup reading => q \in Req /\ Fetching(q)'
  BY <1>2
<1> QED
  BY <1>1, <1>3 DEF Fetches

(* What the report of the reads that ended makes of a request.               *)
LEMMA Reported ==
    ASSUME IInv, NEW q \in Req, status'[q] = Statuses[q], table'[q] = Tables[q],
           computed'[q] = computed[q]
    PROVE  /\ Same(q) \/ Resumed(q) \/ Left(q)
           /\ Fetching(q) /\ q \notin arrived => Fetching(q)'
           /\ status'[q] \in Status /\ (table'[q] = table[q] \/ table'[q] = <<>>)
<1>1. Statuses[q] = IF q \notin arrived THEN status[q]
                    ELSE IF status[q] = "remote" THEN "ready" ELSE "done"
  BY DEF Statuses
<1>2. Tables[q] = IF q \in arrived /\ status[q] = "aborted" THEN <<>> ELSE table[q]
  BY DEF Tables
<1>3. q \in arrived => status[q] \in {"remote", "aborted"}
  BY DEF IInv, Fetches, Fetching
<1>4. status[q] \in Status
  BY DEF IInv, Types
<1> QED
  BY <1>1, <1>2, <1>3, <1>4 DEF Same, Resumed, Left, Fetching, Status

LEMMA IdleInv ==
    ASSUME IInv, NEW forward \in BOOLEAN, Idle(forward)
    PROVE  IInv'
<1>1. /\ config' = config /\ status' = Statuses /\ computed' = computed /\ table' = Tables
      /\ content' = content /\ staged' = staged /\ needSave' = needSave /\ ledger' = ledger
      /\ saved' = saved /\ arrived' = {} /\ Loads(forward)
  BY DEF Idle, mem, saves
<1>2. ASSUME NEW q \in Req
      PROVE  /\ Same(q) \/ Resumed(q) \/ Left(q)
             /\ Fetching(q) /\ q \notin arrived => Fetching(q)'
             /\ status'[q] \in Status /\ (table'[q] = table[q] \/ table'[q] = <<>>)
  <2>1. status'[q] = Statuses[q] /\ table'[q] = Tables[q] /\ computed'[q] = computed[q]
    BY <1>1
  <2> QED
    BY <2>1, Reported
<1>3. Types'
  <2>1. status' \in [Req -> Status]
    BY <1>1, <1>2 DEF Statuses
  <2>2. table' \in [Req -> Seq(BlockId)]
    BY <1>1, <1>2 DEF Tables, IInv, Types
  <2> QED
    BY <1>1, <2>1, <2>2 DEF IInv, Types
<1>4. Apart'
  <2>1. CASE Req = {}
    BY <2>1 DEF Apart
  <2>2. ASSUME NEW r \in Req PROVE Apart'
    <3>1. PICK u \in Seq(BlockId) : u = table'[r] /\ (u = table[r] \/ u = <<>>)
      BY <1>2, <1>3 DEF Types
    <3>2. Distinct(u) /\ \A q \in Req : q # r => ToSet(u) \cap ToSet(table[q]) = {}
      <4>1. ToSet(<<>>) = {} /\ Distinct(<<>>)
        BY DEF ToSet, Distinct
      <4> QED
        BY <3>1, <4>1 DEF IInv, Apart
    <3> QED
      BY <1>2, <3>1, <3>2, ApartStep DEF IInv
  <2> QED
    BY <2>1, <2>2
<1>5. Fetches'
  BY <1>1, <1>2, LoadsFetches DEF IInv
<1>6. Saves'
  <2>1. \A q \in Req : Serves(q)' = Serves(q)
    BY <1>1, ConfigStays
  <2> QED
    BY <1>1, <2>1 DEF IInv, Saves
<1>7. ASSUME NEW q \in Req PROVE Bystander(q)
  BY <1>1, <1>2 DEF Bystander
<1> QED
  BY <1>1, <1>3, <1>4, <1>5, <1>6, <1>7, StepOf

-----------------------------------------------------------------------------
(* Admission with a fetch, and the end of its read.                          *)

(* Another request's blocks are left alone by a write to the blocks t.       *)
LEMMA WrittenApart ==
    ASSUME NEW m, NEW r, NEW t, NEW from, NEW to, NEW B, NEW u \in Seq(BlockId),
           ToSet(t) \cap ToSet(u) = {}
    PROVE  \A b \in ToSet(u) : \A k \in 1..B : WrittenIn(m, r, t, from, to, B)[b][k] = m[b][k]
<1>1. ToSet(u) \subseteq BlockId
  BY DEF ToSet
<1> SUFFICES ASSUME NEW b \in ToSet(u), NEW k \in 1..B
             PROVE  WrittenIn(m, r, t, from, to, B)[b][k] = m[b][k]
  OBVIOUS
<1>2. b \in BlockId \ ToSet(t)
  BY <1>1
<1> QED
  BY <1>2, WrittenElsewhere

LEMMA AdmitFetchInv ==
    ASSUME IInv, NEW r \in Req, AdmitFetch(r)
    PROVE  IInv'
<1> DEFINE n == Hit(r) + get_num_new_matched_tokens(r)
           B == config.block
<1>1. PICK bs \in NewBlocks(r, n) :
        table' = [table EXCEPT ![r] = bs] /\ content' = Written(content, r, bs, 0, Hit(r))
  BY DEF AdmitFetch
<1>2. /\ status[r] = "waiting" /\ get_num_new_matched_tokens(r) > 0
      /\ status' = [status EXCEPT ![r] = "remote"] /\ computed' = [computed EXCEPT ![r] = n]
      /\ needRecv' = needRecv \cup {r} /\ needSave' = NeedsSave(r)
      /\ config' = config /\ staged' = staged /\ ledger' = ledger /\ saved' = saved
      /\ held' = held /\ reading' = reading /\ arrived' = arrived
  BY DEF AdmitFetch
<1>3. /\ config \in Configs /\ status \in [Req -> Status] /\ computed \in [Req -> Nat]
      /\ table \in [Req -> Seq(BlockId)] /\ Types /\ Apart /\ Counts(r) /\ Ledger(r)
  BY DEF IInv, Types
<1>4. /\ B \in Nat \ {0} /\ Hit(r) \in Nat /\ get_num_new_matched_tokens(r) \in Nat /\ n \in Nat
      /\ Hit(r) <= n
  BY <1>3, ConfigFacts, FetchFacts
<1>5. table[r] = <<>>
  BY <1>2, <1>3 DEF Counts
<1> HIDE DEF n
<1>6. /\ bs \in Seq(BlockId) /\ Distinct(bs) /\ n <= Len(bs) * B /\ Len(bs) = BlocksFor(n)
      /\ \A q \in Req : q # r => ToSet(bs) \cap ToSet(table[q]) = {}
  <2>1. PICK all : all = table[r] \o bs
    OBVIOUS
  <2>2. Serving(r, n, bs, all)
    BY <1>3, <1>4, <2>1, NewTable
  <2> QED
    BY <1>5, <2>2 DEF Serving
<1>7. table'[r] = bs /\ status'[r] = "remote" /\ computed'[r] = n /\ r \notin arrived
  <2>1. r \notin arrived
    BY <1>2 DEF IInv, Fetches, Fetching
  <2> QED
    BY <1>1, <1>2, <1>3, <2>1
<1>8. content' = WrittenIn(content, r, bs, 0, Hit(r), B)
  BY <1>1 DEF Written, WrittenIn
<1>9. Types'
  <2>1. "remote" \in Status
    BY DEF Status
  <2> QED
    BY <1>1, <1>2, <1>3, <1>4, <1>6, <2>1 DEF Types
<1>10. Apart'
  <2>1. \A q \in Req : q # r => table'[q] = table[q]
    BY <1>1, <1>3
  <2> QED
    BY <1>3, <1>6, <1>7, <2>1, ApartStep
<1>11. Fetches'
  <2>1. \A q \in Req : Fetching(q) => Fetching(q)' /\ q # r
    BY <1>2, <1>3 DEF Fetching
  <2>2. Fetching(r)'
    BY <1>7 DEF Fetching
  <2> QED
    BY <1>2, <2>1, <2>2 DEF IInv, Fetches
<1>12. Saves'
  <2>1. \A q \in Req : Serves(q)' = Serves(q)
    BY <1>2, ConfigStays
  <2> QED
    BY <1>2, <2>1 DEF IInv, Saves, NeedsSave
<1>13. ASSUME NEW q \in Req, q # r PROVE Bystander(q)
  <2>1. Same(q)
    BY <1>1, <1>2, <1>3, <1>13 DEF Same
  <2>2. \A b \in ToSet(table[q]) : \A k \in 1..B : content'[b][k] = content[b][k]
    BY <1>3, <1>6, <1>8, <1>13, WrittenApart
  <2> QED
    BY <1>2, <2>1, <2>2 DEF Bystander
<1>14. /\ Hit(r)' = Hit(r) /\ get_num_new_matched_tokens(r)' = get_num_new_matched_tokens(r)
       /\ Serves(r)' = Serves(r)
  BY <1>2, ConfigStays
<1>15. Counts(r)'
  BY <1>2, <1>6, <1>7, <1>14 DEF Counts, Fetching, BlocksFor, n
<1>16. Ledger(r)'
  BY <1>2, <1>3, <1>7, <1>14 DEF Ledger
<1>17. Memory(r)'
  <2>1. OwnsIn(content, bs, r, 0, B)
    BY DEF OwnsIn
  <2>2. Hit(r) <= Len(bs) * B
    <3>1. Len(bs) * B \in Int
      BY <1>4, <1>6
    <3> QED
      BY <1>4, <1>6, <3>1
  <2>3. OwnsIn(content', bs, r, Hit(r), B)
    BY <1>4, <1>6, <1>8, <2>1, <2>2, OwnsWritten
  <2>4. Owns(content, r, Hit(r))'
    BY <1>2, <1>7, <1>14, <2>3 DEF Owns, OwnsIn
  <2> QED
    BY <1>2, <1>7, <2>4 DEF Memory
<1> QED
  BY <1>2, <1>9, <1>10, <1>11, <1>12, <1>13, <1>15, <1>16, <1>17, StepOf

LEMMA ReadEndsInv ==
    ASSUME IInv, NEW r \in Req, ReadEnds(r)
    PROVE  IInv'
<1> DEFINE B == config.block
           t == table[r]
           k == Hit(r) \div B
           dst == SubSeq(t, k + 1, Len(t))
           w == ReadIn(content, r, dst, PairedFrom(r) * B, Remote(r), B)
<1>1. /\ r \in reading /\ reading' = reading \ {r} /\ arrived' = arrived \cup {r}
      /\ config' = config /\ status' = status /\ computed' = computed /\ table' = table
      /\ staged' = staged /\ needSave' = needSave /\ ledger' = ledger /\ saved' = saved
      /\ needRecv' = needRecv /\ held' = held
  BY DEF ReadEnds, saves
<1>2. content' = w
  BY DEF ReadEnds, ReadIn
<1>3. /\ config \in Configs /\ table \in [Req -> Seq(BlockId)] /\ t \in Seq(BlockId)
      /\ computed \in [Req -> Nat] /\ Distinct(t) /\ Counts(r) /\ Fetching(r)
  BY <1>1 DEF IInv, Types, Apart, Fetches
<1>4. /\ get_num_new_matched_tokens(r) > 0
      /\ computed[r] = Hit(r) + get_num_new_matched_tokens(r)
      /\ Len(t) = BlocksFor(computed[r]) /\ computed[r] <= Len(t) * B
  BY <1>3 DEF Counts, Fetching
<1>5. /\ B \in Nat \ {0} /\ Hit(r) \in Nat /\ Remote(r) \in Nat /\ Hit(r) % B = 0
      /\ get_num_new_matched_tokens(r) \in Nat /\ computed[r] <= Remote(r)
  BY <1>3, <1>4, ConfigFacts, FetchFacts
<1>6. k \in Int /\ k * B = Hit(r) /\ Len(t) \in Nat
  <2>1. PICK x \in Int : x = Hit(r)
    BY <1>5
  <2>2. x \div B \in Int /\ x = (x \div B) * B + (x % B)
    BY <1>5, DivFacts
  <2>3. (x \div B) * B \in Int
    BY <1>5, <2>2
  <2> QED
    BY <1>3, <1>5, <2>1, <2>2, <2>3
<1>7. k \in 0..Len(t)
  <2>1. Len(t) * B \in Int /\ 0 * B = 0 /\ (Len(t) + 1) * B = Len(t) * B + B
    BY <1>5, <1>6, MulFacts
  <2>2. 0 * B <= Hit(r) /\ Hit(r) < (Len(t) + 1) * B
    BY <1>3, <1>4, <1>5, <2>1
  <2>3. 0 <= k /\ k < Len(t) + 1
    <3>1. PICK l \in Int : l = Len(t) + 1
      BY <1>6
    <3>2. 0 <= Hit(r) \div B /\ Hit(r) \div B < l
      BY <1>5, <2>2, <3>1, DivBounds
    <3> QED
      BY <3>1, <3>2
  <2> QED
    BY <1>6, <2>3
<1>8. dst \in Seq(BlockId) /\ ToSet(dst) \subseteq ToSet(t)
  BY <1>3, <1>7, SuffixFacts
<1> HIDE DEF k, dst, w
<1>9. Types' /\ Apart'
  BY <1>1 DEF IInv, Types, Apart
<1>10. Fetches'
  <2>1. \A q \in Req : Fetching(q)' = Fetching(q)
    BY <1>1 DEF Fetching
  <2> QED
    BY <1>1, <1>3, <2>1 DEF IInv, Fetches
<1>11. Saves'
  <2>1. \A q \in Req : Serves(q)' = Serves(q)
    BY <1>1, ConfigStays
  <2> QED
    BY <1>1, <2>1 DEF IInv, Saves
<1>12. ASSUME NEW q \in Req, q # r PROVE Bystander(q)
  <2>1. ToSet(table[q]) \subseteq BlockId /\ ToSet(table[q]) \cap ToSet(t) = {}
    <3>1. table[q] \in Seq(BlockId)
      BY <1>3
    <3>2. ToSet(table[q]) \subseteq BlockId
      BY <3>1 DEF ToSet
    <3> QED
      BY <1>12, <3>2 DEF IInv, Apart
  <2>2. ASSUME NEW b \in ToSet(table[q]), NEW j \in 1..B PROVE content'[b][j] = content[b][j]
    <3>1. b \in BlockId \ ToSet(dst)
      BY <1>8, <2>1
    <3> QED
      BY <1>2, <3>1, ReadElsewhere DEF w
  <2> QED
    BY <1>1, <1>12, <2>2 DEF Bystander, Same
<1>13. Counts(r)' /\ Ledger(r)'
  <2>1. Same(r)
    BY <1>1 DEF Same
  <2> QED
    BY <1>1, <2>1, OthersCount
<1>14. ASSUME TrimsWithinBlock' PROVE Memory(r)'
  <2>1. CASE status[r] = "aborted"
    BY <1>1, <2>1 DEF Memory
  <2>2. CASE status[r] = "remote"
    <3>1. Memory(r) /\ BlocksFor(computed[r]) = BlocksFor(Remote(r))
      BY <1>1, <1>4, <1>14, TrimsStays DEF IInv, TrimsWithinBlock
    <3>2. PairedFrom(r) = k
      <4>1. PairedFrom(r) = Len(t) - (Len(t) - k)
        BY <1>4, <3>1 DEF PairedFrom, k
      <4> QED
        BY <1>6, <4>1
    <3>3. w = ReadIn(content, r, SubSeq(t, k + 1, Len(t)), k * B, Remote(r), B)
      BY <3>2 DEF w, dst
    <3>4. OwnsIn(content, t, r, k * B, B)
      BY <1>6, <2>2, <3>1, OwnsTable DEF Memory
    <3>5. computed[r] \in Nat
      BY <1>3
    <3>6. OwnsIn(w, t, r, computed[r], B)
      BY <1>3, <1>4, <1>5, <1>7, <3>3, <3>4, <3>5, OwnsRead
    <3>7. OwnsIn(w, t, r, Hit(r), B)
      <4>1. Hit(r) <= computed[r]
        BY <1>4, <1>5
      <4>2. \A p \in 0..(Hit(r) - 1) : p \in 0..(computed[r] - 1)
        BY <1>5, <3>5, <4>1
      <4> QED
        BY <3>6, <4>2 DEF OwnsIn
    <3>8. Hit(r)' = Hit(r)
      BY <1>1, ConfigStays
    <3>9. Owns(content, r, Hit(r))' /\ Owns(content, r, computed[r])'
      BY <1>1, <1>2, <3>6, <3>7, <3>8 DEF Owns, OwnsIn
    <3> QED
      BY <1>1, <2>2, <3>9 DEF Memory
  <2> QED
    BY <1>3, <2>1, <2>2 DEF Fetching
<1> QED
  BY <1>1, <1>9, <1>10, <1>11, <1>12, <1>13, <1>14, StepOf

-----------------------------------------------------------------------------
(* A prefill chunk.                                                          *)

(* The positions of a chunk.                                                 *)
LEMMA ChunkFacts ==
    ASSUME IInv, NEW r \in Req, Startable(r), computed[r] < Prompt(r)
    PROVE  /\ status[r] \in {"waiting", "ready", "running", "preempted"}
           /\ Start(r) \in Nat /\ End(r) \in Nat /\ Start(r) < End(r) /\ End(r) <= Prompt(r)
           /\ Prompt(r) \in Nat /\ Hit(r) \in Nat
<1>1. config \in Configs /\ computed[r] \in Nat
  BY DEF IInv, Types
<1>2. config.chunk \in Nat \ {0} /\ Prompt(r) \in Nat /\ Hit(r) \in Nat /\ Hit(r) < Prompt(r)
  BY <1>1, ConfigFacts
<1>3. Start(r) \in Nat /\ Start(r) < Prompt(r)
  BY <1>1, <1>2 DEF Start
<1>4. status[r] \in {"waiting", "ready", "running", "preempted"}
  BY DEF Startable
<1> QED
  BY <1>2, <1>3, <1>4 DEF End

(* What the step collects for the save of the request, and what it hands on  *)
(* when the prefill ends: all its blocks.                                    *)
LEMMA SaveFacts ==
    ASSUME IInv, NEW r \in Req, Startable(r), computed[r] < Prompt(r), NEW bs, NEW all,
           all = table[r] \o bs, Serving(r, End(r), bs, all), _build_save_meta(r, bs)
    PROVE  /\ needSave' \subseteq NeedsSave(r)
           /\ ledger' \in [Req -> Seq(BlockId)] /\ saved' \in [Req -> Seq(BlockId)]
           /\ \A q \in Req : q # r => ledger'[q] = ledger[q] /\ saved'[q] = saved[q]
           /\ config.host /\ Serves(r) =>
                 /\ r \in NeedsSave(r)
                 /\ End(r) < Prompt(r) => ledger'[r] = all
                 /\ ~(End(r) < Prompt(r)) => saved'[r] = all
           /\ ~(config.host /\ Serves(r)) => r \notin NeedsSave(r)
<1> DEFINE sent == IF status[r] = "running" THEN bs ELSE table[r] \o bs
           list == Collected(r, sent, status[r] = "preempted")
<1>1. /\ ledger \in [Req -> Seq(BlockId)] /\ saved \in [Req -> Seq(BlockId)]
      /\ table[r] \in Seq(BlockId) /\ Counts(r) /\ Ledger(r) /\ config \in Configs
  BY DEF IInv, Types
<1>2. /\ status[r] \in {"waiting", "ready", "running", "preempted"} /\ End(r) \in Nat /\ 0 < End(r)
  BY ChunkFacts
<1>3. bs \in Seq(BlockId) /\ all \in Seq(BlockId) /\ End(r) <= Len(all) * config.block
  BY DEF Serving
<1>4. all # <<>>
  <2>1. SUFFICES ASSUME all = <<>> PROVE FALSE
    OBVIOUS
  <2>2. Len(all) = 0
    BY <2>1
  <2>3. config.block \in Nat
    BY <1>1, ConfigFacts
  <2>4. Len(all) * config.block = 0
    BY <2>2, <2>3
  <2> QED
    BY <1>2, <1>3, <2>4
<1>5. list \in Seq(BlockId)
  <2>1. sent = bs \/ sent = all
    OBVIOUS
  <2>2. ledger[r] \in Seq(BlockId) /\ sent \in Seq(BlockId)
    BY <1>1, <1>3, <2>1
  <2> HIDE DEF sent
  <2>3. PICK v \in Seq(BlockId), w \in Seq(BlockId) : v = ledger[r] /\ w = sent
    BY <2>2
  <2>4. v \o w \in Seq(BlockId)
    BY ConcatAt
  <2>5. ledger[r] \o sent \in Seq(BlockId)
    BY <2>3, <2>4
  <2> QED
    BY <2>2, <2>5 DEF Collected
<1>6. ASSUME config.host /\ Serves(r) PROVE list = all
  <2>1. CASE status[r] = "running"
    <3>1. ledger[r] = table[r] /\ sent = bs
      BY <1>1, <1>6, <2>1 DEF Ledger
    <3>2. table[r] \o <<>> = table[r] /\ <<>> \o bs = bs
      BY <1>1, <1>3
    <3>3. list = IF bs = <<>> THEN table[r] ELSE IF table[r] = <<>> THEN bs ELSE all
      BY <2>1, <3>1 DEF Collected
    <3> QED
      BY <3>2, <3>3
  <2>2. CASE status[r] = "preempted"
    BY <1>4, <2>2 DEF Collected
  <2>3. CASE status[r] \in {"waiting", "ready"}
    <3>1. ledger[r] = <<>> /\ sent = all
      BY <1>1, <1>6, <2>3 DEF Ledger
    <3> QED
      BY <1>4, <3>1 DEF Collected
  <2> QED
    BY <1>2, <2>1, <2>2, <2>3
<1>7. (config.host /\ Serves(r) => r \in NeedsSave(r)) /\ (~(config.host /\ Serves(r)) => r \notin NeedsSave(r))
  BY DEF NeedsSave, IInv, Saves
<1>8. CASE r \notin NeedsSave(r)
  <2>1. needSave' = needSave /\ ledger' = ledger /\ saved' = saved
    BY <1>8 DEF _build_save_meta, saves
  <2>2. needSave \subseteq NeedsSave(r)
    BY DEF NeedsSave
  <2> QED
    BY <1>1, <1>7, <1>8, <2>1, <2>2
<1> HIDE DEF list
<1>9. CASE r \in NeedsSave(r) /\ End(r) < Prompt(r)
  <2>1. ledger' = [ledger EXCEPT ![r] = list] /\ needSave' = NeedsSave(r) /\ saved' = saved
    BY <1>9 DEF _build_save_meta, list
  <2> QED
    BY <1>1, <1>5, <1>6, <1>7, <1>9, <2>1
<1>10. CASE r \in NeedsSave(r) /\ ~(End(r) < Prompt(r))
  <2>1. /\ ledger' = [ledger EXCEPT ![r] = <<>>] /\ saved' = [saved EXCEPT ![r] = list]
        /\ needSave' = NeedsSave(r) \ {r}
    BY <1>10 DEF _build_save_meta, list
  <2>2. <<>> \in Seq(BlockId)
    OBVIOUS
  <2> QED
    BY <1>1, <1>5, <1>6, <1>7, <1>10, <2>1, <2>2
<1> QED
  BY <1>8, <1>9, <1>10

(* What the chunk leaves in memory: the request's own K/V up to its end.     *)
LEMMA ChunkWritten ==
    ASSUME IInv, NEW r \in Req, Startable(r), computed[r] < Prompt(r), NEW bs, NEW all,
           Serving(r, End(r), bs, all), TrimsWithinBlock,
           NEW hit, hit = (IF status[r] = "waiting" THEN Hit(r) ELSE 0)
    PROVE  OwnsIn(WrittenIn(WrittenIn(content, r, all, 0, hit, config.block), r, all,
                            Start(r), End(r), config.block),
                  all, r, End(r), config.block)
<1> DEFINE B == config.block
           w == WrittenIn(content, r, all, 0, hit, B)
<1>1. /\ config \in Configs /\ computed[r] \in Nat /\ table[r] \in Seq(BlockId)
      /\ Counts(r) /\ Memory(r)
  BY DEF IInv, Types
<1>2. /\ status[r] \in {"waiting", "ready", "running", "preempted"}
      /\ Start(r) \in Nat /\ End(r) \in Nat /\ Start(r) < End(r) /\ Hit(r) \in Nat
  BY ChunkFacts
<1>3. B \in Nat \ {0}
  BY <1>1, ConfigFacts
<1>4. /\ all \in Seq(BlockId) /\ Distinct(all) /\ End(r) <= Len(all) * B
      /\ \A i \in 1..Len(table[r]) : all[i] = table[r][i]
  BY DEF Serving
<1>5. Len(all) * B \in Int /\ Start(r) <= Len(all) * B
  <2>1. Len(all) * B \in Int
    BY <1>3, <1>4
  <2> QED
    BY <1>2, <1>4, <2>1
<1>6. OwnsIn(w, all, r, Start(r), B)
  <2>1. CASE status[r] = "waiting"
    <3>1. Start(r) = hit
      BY <2>1 DEF Start
    <3>2. OwnsIn(content, all, r, 0, B)
      BY DEF OwnsIn
    <3> QED
      BY <1>2, <1>3, <1>4, <1>5, <3>1, <3>2, OwnsWritten
  <2>2. CASE status[r] # "waiting"
    <3>1. OwnsIn(content, all, r, Start(r), B)
      <4>1. Start(r) = computed[r]
        BY <2>2 DEF Start
      <4>2. CASE status[r] = "preempted"
        <5>1. Start(r) = 0
          BY <1>1, <4>1, <4>2 DEF Counts
        <5> QED
          BY <5>1 DEF OwnsIn
      <4>3. CASE status[r] \in {"ready", "running"}
        <5>1. Owns(content, r, computed[r]) /\ computed[r] <= Len(table[r]) * B
          BY <1>1, <4>3 DEF Memory, Counts
        <5>2. OwnsIn(content, table[r], r, computed[r], B)
          BY <5>1, OwnsTable
        <5>3. PICK t \in Seq(BlockId), n \in Int : t = table[r] /\ n = computed[r]
          BY <1>1
        <5>4. OwnsIn(content, all, r, n, B)
          BY <1>3, <1>4, <5>1, <5>2, <5>3, OwnsExtended
        <5> QED
          BY <4>1, <5>3, <5>4
      <4> QED
        BY <1>2, <2>2, <4>2, <4>3
    <3>2. ASSUME NEW b \in ToSet(all), NEW k \in 1..B PROVE w[b][k] = content[b][k]
      <4>1. b \in BlockId /\ hit = 0
        BY <1>4, <2>2 DEF ToSet
      <4>2. PICK i, p : i = PlaceIn(all, b) /\ p = (i - 1) * B + k - 1
        OBVIOUS
      <4>3. WrittenIn(content, r, all, 0, hit, B)[b][k] =
              IF i > 0 /\ 0 <= p /\ p < hit THEN <<r, p>> ELSE content[b][k]
        BY <4>1, <4>2, WrittenAt
      <4>4. p \in Int
        <5>1. i \in Int
          <6>1. \E j \in DOMAIN all : all[j] = b
            BY DEF ToSet
          <6>2. i \in DOMAIN all
            BY <4>2, <6>1 DEF PlaceIn
          <6> QED
            BY <1>4, <6>2
        <5>2. (i - 1) * B \in Int
          BY <1>3, <5>1
        <5> QED
          BY <4>2, <5>2
      <4> QED
        BY <4>1, <4>3, <4>4
    <3> QED
      BY <1>2, <1>3, <1>4, <1>5, <3>1, <3>2, OwnsStays
  <2> QED
    BY <2>1, <2>2
<1> HIDE DEF w
<1>7. OwnsIn(WrittenIn(w, r, all, Start(r), End(r), B), all, r, End(r), B)
  BY <1>2, <1>3, <1>4, <1>6, OwnsWritten
<1> QED
  BY <1>7 DEF w

LEMMA PrefillInv ==
    ASSUME IInv, NEW r \in Req, Prefill(r)
    PROVE  IInv'
<1> DEFINE B == config.block
           hit == IF status[r] = "waiting" THEN Hit(r) ELSE 0
<1>1. PICK bs \in NewBlocks(r, End(r)) :
        /\ table' = [Tables EXCEPT ![r] = table[r] \o bs]
        /\ content' = Written(Written(content, r, table[r] \o bs, 0, hit), r, table[r] \o bs,
                              Start(r), End(r))
        /\ _build_save_meta(r, bs)
  BY DEF Prefill
<1>2. PICK all : all = table[r] \o bs
  OBVIOUS
<1>3. /\ Startable(r) /\ computed[r] < Prompt(r) /\ staged' = Copied(r, content') /\ Loads(TRUE)
      /\ computed' = [computed EXCEPT ![r] = End(r)] /\ arrived' = {} /\ config' = config
      /\ status' = [Statuses EXCEPT ![r] =
            IF End(r) < Prompt(r) THEN "running" ELSE IF Serves(r) THEN "leased" ELSE "decode"]
  BY DEF Prefill
<1>4. /\ config \in Configs /\ status \in [Req -> Status] /\ computed \in [Req -> Nat]
      /\ table \in [Req -> Seq(BlockId)] /\ Types /\ Apart
  BY DEF IInv, Types
<1>5. /\ status[r] \in {"waiting", "ready", "running", "preempted"}
      /\ Start(r) \in Nat /\ End(r) \in Nat /\ Start(r) < End(r) /\ End(r) <= Prompt(r)
      /\ Prompt(r) \in Nat
  BY <1>3, ChunkFacts
<1>6. Serving(r, End(r), bs, all)
  BY <1>2, <1>4, <1>5, NewTable
<1>7. /\ all \in Seq(BlockId) /\ Distinct(all) /\ End(r) <= Len(all) * B /\ B \in Nat \ {0}
      /\ \A q \in Req : q # r => ToSet(all) \cap ToSet(table[q]) = {}
  BY <1>4, <1>6, ConfigFacts DEF Serving
<1>8. /\ needSave' \subseteq NeedsSave(r)
      /\ ledger' \in [Req -> Seq(BlockId)] /\ saved' \in [Req -> Seq(BlockId)]
      /\ \A q \in Req : q # r => ledger'[q] = ledger[q] /\ saved'[q] = saved[q]
      /\ config.host /\ Serves(r) =>
            /\ r \in NeedsSave(r)
            /\ End(r) < Prompt(r) => ledger'[r] = all
            /\ ~(End(r) < Prompt(r)) => saved'[r] = all
      /\ ~(config.host /\ Serves(r)) => r \notin NeedsSave(r)
  BY <1>1, <1>2, <1>3, <1>6, SaveFacts
<1>9. table'[r] = all /\ computed'[r] = End(r)
      /\ status'[r] = IF End(r) < Prompt(r) THEN "running" ELSE IF Serves(r) THEN "leased" ELSE "decode"
  <2>1. r \in DOMAIN Tables /\ r \in DOMAIN Statuses
    BY DEF Tables, Statuses
  <2> QED
    BY <1>1, <1>2, <1>3, <1>4, <2>1
<1>10. ASSUME NEW q \in Req, q # r
       PROVE  /\ Same(q) \/ Resumed(q) \/ Left(q)
              /\ Fetching(q) /\ q \notin arrived => Fetching(q)'
              /\ status'[q] \in Status /\ (table'[q] = table[q] \/ table'[q] = <<>>)
  <2>1. q \in DOMAIN Tables /\ q \in DOMAIN Statuses
    BY DEF Tables, Statuses
  <2>2. status'[q] = Statuses[q] /\ table'[q] = Tables[q] /\ computed'[q] = computed[q]
    BY <1>1, <1>3, <1>4, <1>10, <2>1
  <2> QED
    BY <2>2, Reported
<1>11. Types'
  <2>1. status'[r] \in Status
    BY <1>9 DEF Status
  <2>2. status' \in [Req -> Status]
    BY <1>3, <1>10, <2>1 DEF Statuses
  <2>3. table' \in [Req -> Seq(BlockId)]
    <3>1. table' = [q \in Req |-> table'[q]]
      BY <1>1 DEF Tables
    <3>2. ASSUME NEW q \in Req PROVE table'[q] \in Seq(BlockId)
      <4>1. CASE q = r
        BY <1>7, <1>9, <4>1
      <4>2. CASE q # r
        <5>1. table[q] \in Seq(BlockId) /\ <<>> \in Seq(BlockId)
          BY <1>4
        <5> QED
          BY <1>10, <4>2, <5>1
      <4> QED
        BY <4>1, <4>2
    <3> QED
      BY <3>1, <3>2
  <2>4. computed' \in [Req -> Nat]
    BY <1>3, <1>4, <1>5
  <2> QED
    BY <1>3, <1>4, <1>8, <2>2, <2>3, <2>4 DEF Types
<1>12. Apart'
  BY <1>4, <1>7, <1>9, <1>10, ApartStep
<1>13. Fetches'
  <2>1. ~Fetching(r)
    BY <1>5 DEF Fetching
  <2> QED
    BY <1>3, <1>10, <2>1, LoadsFetches DEF IInv
<1>14. Saves'
  <2>1. \A q \in Req : Serves(q)' = Serves(q)
    BY <1>3, ConfigStays
  <2> QED
    BY <1>3, <1>8, <2>1 DEF IInv, Saves, NeedsSave
<1>15. content' = WrittenIn(WrittenIn(content, r, all, 0, hit, B), r, all, Start(r), End(r), B)
  BY <1>1, <1>2 DEF Written, WrittenIn
<1>16. \A b \in BlockId : staged'[b] = IF End(r) >= Prompt(r) /\ r \in NeedsSave(r) /\ b \in ToSet(saved'[r])
                                      THEN content'[b] ELSE staged[b]
  BY <1>3 DEF Copied
<1>17. ASSUME NEW q \in Req, q # r PROVE Bystander(q)
  <2>1. table[q] \in Seq(BlockId) /\ ToSet(table[q]) \subseteq BlockId
    <3>1. table[q] \in Seq(BlockId)
      BY <1>4
    <3> QED
      BY <3>1 DEF ToSet
  <2>2. ASSUME NEW b \in ToSet(table[q]), NEW k \in 1..B
        PROVE  content'[b][k] = content[b][k] /\ staged'[b][k] = staged[b][k]
    <3>1. content'[b][k] = content[b][k]
      <4> DEFINE w == WrittenIn(content, r, all, 0, hit, B)
      <4>1. ToSet(all) \cap ToSet(table[q]) = {}
        BY <1>7, <1>17
      <4>2. w[b][k] = content[b][k]
        BY <2>1, <4>1, WrittenApart
      <4> HIDE DEF w
      <4>3. WrittenIn(w, r, all, Start(r), End(r), B)[b][k] = w[b][k]
        BY <2>1, <4>1, WrittenApart
      <4> QED
        BY <1>15, <4>2, <4>3 DEF w
    <3>2. staged'[b] = staged[b]
      <4>1. b \in BlockId /\ b \notin ToSet(all)
        BY <1>7, <1>17, <2>1
      <4> QED
        BY <1>5, <1>8, <1>16, <4>1
    <3> QED
      BY <3>1, <3>2
  <2> QED
    BY <1>3, <1>8, <1>10, <1>17, <2>2 DEF Bystander
<1>18. /\ Prompt(r)' = Prompt(r) /\ Serves(r)' = Serves(r)
  BY <1>3, ConfigStays
<1>19. Counts(r)'
  BY <1>3, <1>5, <1>7, <1>9, <1>18 DEF Counts, Fetching
<1>20. Ledger(r)'
  BY <1>3, <1>8, <1>9, <1>18 DEF Ledger
<1>21. ASSUME TrimsWithinBlock' PROVE Memory(r)'
  <2>1. TrimsWithinBlock
    BY <1>3, <1>21, TrimsStays
  <2>2. OwnsIn(content', all, r, End(r), B)
    <3>1. PICK h : h = hit
      OBVIOUS
    <3>2. OwnsIn(WrittenIn(WrittenIn(content, r, all, 0, h, config.block), r, all,
                            Start(r), End(r), config.block),
                  all, r, End(r), config.block)
      BY <1>3, <1>6, <2>1, <3>1, ChunkWritten
    <3> QED
      BY <1>15, <3>1, <3>2
  <2>3. Owns(content, r, computed[r])'
    BY <1>3, <1>9, <2>2 DEF Owns, OwnsIn
  <2>4. ASSUME status'[r] = "leased", config'.host PROVE Owns(staged, r, Prompt(r))'
    <3>1. ~(End(r) < Prompt(r)) /\ Serves(r) /\ config.host /\ End(r) = Prompt(r)
      BY <1>3, <1>5, <1>9, <2>4
    <3>2. saved'[r] = all /\ r \in NeedsSave(r)
      BY <1>8, <3>1
    <3>3. ToSet(all) \subseteq BlockId
      BY <1>7 DEF ToSet
    <3>4. \A b \in ToSet(all) : \A k \in 1..B : staged'[b][k] = content'[b][k]
      BY <1>5, <1>16, <3>1, <3>2, <3>3
    <3>5. OwnsIn(staged', all, r, End(r), B)
      BY <1>5, <1>7, <2>2, <3>4, OwnsStays
    <3> QED
      BY <1>3, <1>9, <1>18, <3>1, <3>5 DEF Owns, OwnsIn
  <2>5. status'[r] # "remote"
    BY <1>9
  <2> QED
    BY <2>3, <2>4, <2>5 DEF Memory
<1> QED
  BY <1>3, <1>11, <1>12, <1>13, <1>14, <1>17, <1>19, <1>20, <1>21, StepOf

-----------------------------------------------------------------------------
(* The theorems.                                                             *)

(* The invariant holds of every reachable state.                             *)
THEOREM Invariance == Spec => []IInv
<1>1. Init => IInv
  BY InitInv
<1>2. ASSUME IInv, [Next]_vars PROVE IInv'
  <2>1. ASSUME NEW r \in Req, Prefill(r) PROVE IInv'
    BY <1>2, <2>1, PrefillInv
  <2>2. CASE Decode
    BY <1>2, <2>2, IdleInv DEF Decode
  <2>3. CASE NoForward
    BY <1>2, <2>3, IdleInv DEF NoForward
  <2>4. CASE _dummy_run
    BY <1>2, <2>4, DummyInv
  <2>5. ASSUME NEW r \in Req, AdmitFetch(r) PROVE IInv'
    BY <1>2, <2>5, AdmitFetchInv
  <2>6. ASSUME NEW r \in Req, ReadEnds(r) PROVE IInv'
    BY <1>2, <2>6, ReadEndsInv
  <2>7. ASSUME NEW r \in Req, Preempt(r) PROVE IInv'
    BY <1>2, <2>7, PreemptInv
  <2>8. ASSUME NEW r \in Req, Abort(r) PROVE IInv'
    BY <1>2, <2>8, AbortInv
  <2>9. ASSUME NEW r \in Req, Finish(r) PROVE IInv'
    BY <1>2, <2>9, FinishInv
  <2>10. CASE UNCHANGED vars
    <3>1. /\ config' = config /\ status' = status /\ computed' = computed /\ table' = table
          /\ content' = content /\ staged' = staged /\ needSave' = needSave /\ ledger' = ledger
          /\ saved' = saved /\ needRecv' = needRecv /\ arrived' = arrived
          /\ reading' = reading /\ held' = held
      BY <2>10 DEF vars, mem, saves, reads
    <3>2. Types' /\ Apart' /\ Fetches'
      BY <1>2, <3>1 DEF IInv, Types, Apart, Fetches, Fetching
    <3>3. Saves'
      BY <1>2, <3>1 DEF IInv, Saves, Serves
    <3>4. ASSUME NEW q \in Req PROVE Bystander(q)
      BY <3>1 DEF Bystander, Same
    <3> QED
      BY <1>2, <3>1, <3>2, <3>3, <3>4, StepOf
  <2> QED
    BY <1>2, <2>1, <2>2, <2>3, <2>4, <2>5, <2>6, <2>7, <2>8, <2>9, <2>10 DEF Next, Step
<1> QED
  BY <1>1, <1>2, PTL DEF Spec

(* Where no fetch is trimmed by a block, a request that can run, or that a   *)
(* peer may read, has its own K/V at every position it counts as computed.   *)
THEOREM OwnKV == Spec => [](TrimsWithinBlock => PromptKVIsOwn)
<1>1. IInv => (TrimsWithinBlock => PromptKVIsOwn)
  BY DEF IInv, Memory, PromptKVIsOwn
<1> QED
  BY <1>1, Invariance, PTL

(* Where no fetch is trimmed by a block, what a request leases through the   *)
(* host buffer is a copy of all its blocks, in their order, with its own K/V *)
(* for the whole prompt.                                                     *)
THEOREM Staged == Spec => [](TrimsWithinBlock => LeasedIsStaged)
<1>1. IInv => (TrimsWithinBlock => LeasedIsStaged)
  BY DEF IInv, Memory, Ledger, Counts, LeasedIsStaged
<1> QED
  BY <1>1, Invariance, PTL
=============================================================================
