----------------------------- MODULE SubBlockIndex -----------------------------
(***************************************************************************)
(* SubBlockIndex of v1/core/rbln_kv_cache_manager.py, together with the KV  *)
(* events its owner emits for every change of it.                           *)
(*                                                                          *)
(* A KV cache block is cut into sub-blocks.  The hash of a sub-block covers *)
(* every token before it (SubBlockHasher chains hash_block_tokens), so a    *)
(* hash names one prefix, and the hashes that can stand before it in its    *)
(* own block are fixed: Chain[h] is that list, with h last.                 *)
(*                                                                          *)
(* The operators on an index value are pure (Index* below), so that the     *)
(* modules that own an index apply them to a field of their own state; the  *)
(* specification here is an index under any use.  What an owner has to do   *)
(* for the index to be right, only ever extend what a block already has     *)
(* (Extends), is nowhere checked by the code: mixed is the set of blocks on  *)
(* which it was not done, until they are evicted.                            *)
(***************************************************************************)
EXTENDS Naturals, Sequences

CONSTANTS Block,      \* physical KV cache blocks
          Hash,       \* sub-block hashes
          Chain,      \* Chain[h]: the hashes of h's block up to and including h
          MaxEvents   \* bound on the number of undelivered events

(* A chained hash determines the chain of each of its own ancestors.        *)
ASSUME ChainAssumption ==
    /\ Chain \in [Hash -> Seq(Hash)]
    /\ \A h \in Hash : Len(Chain[h]) > 0 /\ Chain[h][Len(Chain[h])] = h
    /\ \A h \in Hash : \A i \in 1..Len(Chain[h]) :
          Chain[Chain[h][i]] = SubSeq(Chain[h], 1, i)

ASSUME MaxEventsAssumption == MaxEvents \in Nat

VARIABLES
    buckets,   \* _hash_to_blocks: the blocks that hold a sub-block (absent = {})
    lists,     \* _block_hashes: the hashes a block is indexed under, in order
    queue,     \* _sub_block_event_queue: events not yet taken
    view,      \* history: the hashes a consumer knows after the whole queue
    mixed      \* history: the blocks re-indexed under another prefix

vars == <<buckets, lists, queue, view, mixed>>

Event == [kind : {"stored", "removed", "cleared"}, hashes : SUBSET Hash]

TypeOK ==
    /\ buckets \in [Hash -> SUBSET Block]
    /\ lists \in [Block -> Seq(Hash)]
    /\ queue \in Seq(Event)
    /\ view \in SUBSET Hash
    /\ mixed \in SUBSET Block

-----------------------------------------------------------------------------
(* SubBlockIndex.update(block_id, sub_block_hashes): positions the block     *)
(* already has are skipped, whatever they hold; the rest is appended.        *)

Grown(old, hs) ==
    [i \in 1..(IF Len(old) < Len(hs) THEN Len(hs) ELSE Len(old)) |->
        IF i <= Len(old) THEN old[i] ELSE hs[i]]

Appended(old, hs) == {hs[i] : i \in (Len(old) + 1)..Len(hs)}

IndexUpdateLists(ls, b, hs) == [ls EXCEPT ![b] = Grown(ls[b], hs)]

IndexUpdateBuckets(bs, ls, b, hs) ==
    [h \in Hash |-> IF h \in Appended(ls[b], hs) THEN bs[h] \cup {b} ELSE bs[h]]

(* Fault: the first fresh position itself is skipped.                        *)
FreshSuffixOffByOne(bs, ls, b, hs) ==
    {hs[i] : i \in {k \in (Len(ls[b]) + 1)..Len(hs) :
                      \E j \in (Len(ls[b]) + 1)..(k - 1) : bs[hs[j]] = {}}}

(* Fault: everything appended is published, known or not.                    *)
FreshSuffixAll(bs, ls, b, hs) == Appended(ls[b], hs)

(* The positions at or after the first one whose bucket was empty: the       *)
(* suffix [first_fresh_idx:] that _emit_block_stored publishes.              *)
FreshSuffix(bs, ls, b, hs) ==
    {hs[i] : i \in {k \in (Len(ls[b]) + 1)..Len(hs) :
                      \E j \in (Len(ls[b]) + 1)..k : bs[hs[j]] = {}}}

(* SubBlockIndex.pop(block_id), called on eviction.                          *)
IndexPopLists(ls, b) == [ls EXCEPT ![b] = <<>>]

HashesOf(ls, b) == {ls[b][i] : i \in 1..Len(ls[b])}

(* Fault: only the deepest bucket forgets the block.                         *)
IndexPopBucketsLast(bs, ls, b) ==
    [h \in Hash |-> IF ls[b] # <<>> /\ h = ls[b][Len(ls[b])] THEN bs[h] \ {b} ELSE bs[h]]

IndexPopBuckets(bs, ls, b) ==
    [h \in Hash |-> IF h \in HashesOf(ls, b) THEN bs[h] \ {b} ELSE bs[h]]

(* Hashes whose last holder was b: the ones _emit_block_removed publishes.   *)
FullyRemoved(bs, ls, b) == {h \in HashesOf(ls, b) : bs[h] \subseteq {b}}

(* Fault: the walk keeps the block it saw first.                             *)
LongestMatchFirst(bs, query) ==
    {m \in Block \X (1..Len(query)) :
        /\ \A i \in 1..m[2] : bs[query[i]] # {}
        /\ m[2] < Len(query) => bs[query[m[2] + 1]] = {}
        /\ m[1] \in bs[query[1]]}

(* Every answer SubBlockIndex.longest_match may give for a query: the depth  *)
(* at which the walk stops, and any block of the last non-empty bucket.      *)
LongestMatch(bs, query) ==
    {m \in Block \X (1..Len(query)) :
        /\ \A i \in 1..m[2] : bs[query[i]] # {}
        /\ m[2] < Len(query) => bs[query[m[2] + 1]] = {}
        /\ m[1] \in bs[query[m[2]]]}

(* An event is published only when it carries hashes.                        *)
Emit(q, kind, hs) ==
    IF hs = {} THEN q ELSE Append(q, [kind |-> kind, hashes |-> hs])

-----------------------------------------------------------------------------
Init ==
    /\ buckets = [h \in Hash |-> {}]
    /\ lists = [b \in Block |-> <<>>]
    /\ queue = <<>>
    /\ view = {} /\ mixed = {}

(* A block is re-indexed under hashes of the prefix it already holds.        *)
Extends(b, hs) ==
    \A i \in 1..Len(lists[b]) : i <= Len(hs) => lists[b][i] = hs[i]

Update(b, h) ==
    LET hs == Chain[h] IN
    /\ Len(queue) < MaxEvents
    /\ lists' = IndexUpdateLists(lists, b, hs)
    /\ buckets' = IndexUpdateBuckets(buckets, lists, b, hs)
    /\ queue' = Emit(queue, "stored", FreshSuffix(buckets, lists, b, hs))
    /\ view' = view \cup FreshSuffix(buckets, lists, b, hs)
    /\ mixed' = IF Extends(b, hs) THEN mixed ELSE mixed \cup {b}

(* _on_block_evicted                                                         *)
Pop(b) ==
    /\ Len(queue) < MaxEvents
    /\ lists' = IndexPopLists(lists, b)
    /\ buckets' = IndexPopBuckets(buckets, lists, b)
    /\ queue' = Emit(queue, "removed", FullyRemoved(buckets, lists, b))
    /\ view' = view \ FullyRemoved(buckets, lists, b)
    /\ mixed' = mixed \ {b}

(* reset_prefix_cache, when the pool could be reset                          *)
ResetPrefixCache ==
    /\ Len(queue) < MaxEvents
    /\ lists' = [b \in Block |-> <<>>]
    /\ buckets' = [h \in Hash |-> {}]
    /\ queue' = Append(queue, [kind |-> "cleared", hashes |-> {}])
    /\ view' = {} /\ mixed' = {}

TakeEvents ==
    /\ queue # <<>>
    /\ queue' = <<>>
    /\ UNCHANGED <<buckets, lists, view, mixed>>

Next ==
    \/ \E b \in Block, h \in Hash : Update(b, h)
    \/ \E b \in Block : Pop(b)
    \/ ResetPrefixCache
    \/ TakeEvents

Spec == Init /\ [][Next]_vars

-----------------------------------------------------------------------------
(* Properties.                                                               *)

(* The two dictionaries of the index describe one relation: pop(), which     *)
(* walks the reverse index, leaves no bucket that still names the block.     *)
IndexAgrees ==
    \A b \in Block, h \in Hash : b \in buckets[h] <=> h \in HashesOf(lists, b)

(* A consumer of the KV events (a cache-aware router) that applies each      *)
(* stored / removed / cleared event knows exactly the hashes some block      *)
(* holds: _emit_block_stored and _emit_block_removed miss and repeat none.   *)
EventsExact == view = {h \in Hash : buckets[h] # {}}

(* longest_match may take any block of the last non-empty bucket.  A block   *)
(* that was only ever extended since its last eviction does hold every       *)
(* sub-block of the matched prefix of the query, whatever update() was made  *)
(* to do to other blocks.                                                    *)
MatchSound ==
    \A h \in Hash : \A m \in LongestMatch(buckets, Chain[h]) :
        m[1] \notin mixed =>
            /\ m[2] <= Len(lists[m[1]])
            /\ \A i \in 1..m[2] : lists[m[1]][i] = Chain[h][i]

(* No event repeats what the consumer already knows: a removed hash was      *)
(* known, and so long as no block is mixed a stored one was not.  (A router  *)
(* that counts holders would otherwise drift.)                               *)
EventsFresh ==
    [][\A n \in 1..Len(queue') :
         n = Len(queue) + 1 =>
            /\ queue'[n].kind = "stored" /\ mixed = {} => queue'[n].hashes \cap view = {}
            /\ queue'[n].kind = "removed" => queue'[n].hashes \subseteq view]_vars
=============================================================================
