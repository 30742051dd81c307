----------------------------- MODULE NixlPairing -----------------------------
(***************************************************************************)
(* Which bytes of a peer belong to which bytes of ours: the handshake and  *)
(* the descriptor lists of RBLN's NIXL connector on the device-to-device   *)
(* path (kv_transfer/kv_connector/v1/rbln_nixl/base_worker.py), for peers  *)
(* of another tensor-parallel degree, another pipeline depth or both.      *)
(*                                                                         *)
(* The unit of memory is what one block holds of K, or of V, of one head   *)
(* of one layer.  What a unit contains follows from the device layout      *)
(* (Content); what the connector believes is at an address follows from    *)
(* the arithmetic below.  Transferring copies what is really there.        *)
(*                                                                         *)
(* Region, area, slice, rank and block numbers count from 0, as in the     *)
(* code.                                                                   *)
(***************************************************************************)
EXTENDS Integers, Sequences, FiniteSets, SequencesExt, FiniteSetsExt

CONSTANTS
    Layers,     \* layers of the model, a draft model's last
    Topologies  \* pairs of deployments: see TopologyAssumption

Side == [tp : Nat \ {0}, pp : Nat \ {0}, areas : Nat \ {0}, kvb : {1, 2},
         heads : Seq(Nat \ {0})]

ASSUME TopologyAssumption ==
    /\ Layers \in Nat \ {0}
    /\ \A t \in Topologies :
          /\ DOMAIN t = {"local", "peer", "push"} /\ t.push \in BOOLEAN
          /\ \A g \in {t.local, t.peer} :
                /\ g \in Side /\ Layers % g.pp = 0 /\ Len(g.heads) = Layers
                /\ \A l \in 1 .. Layers : g.heads[l] % g.tp = 0
          /\ t.local.tp % t.peer.tp = 0 \/ t.peer.tp % t.local.tp = 0
          \* One model on one kind of device.
          /\ t.local.heads = t.peer.heads /\ t.local.areas = t.peer.areas
          /\ t.local.kvb = t.peer.kvb

VARIABLES
    topo,     \* the two engines; local is the side that moves the bytes
    paired,   \* _overlapping_ranks and _remote_agents: rank -> peer shards
    refused,  \* the local ranks whose handshake raised
    served,   \* the transfers done, whose notifications the peer has
    mem       \* what the transfers wrote

vars == <<topo, paired, refused, served, mem>>

Loc == topo.local
Peer == topo.peer
Push == topo.push

-----------------------------------------------------------------------------
(***************************************************************************)
(* The device layout (external: the compiler and nixl_rbln).  A rank is    *)
(* <<stage, tensor rank>>.                                                 *)
(***************************************************************************)
Ranks(g) == (0 .. g.pp - 1) \X (0 .. g.tp - 1)
StageLayers(g, x) == [k \in 1 .. Layers \div g.pp |-> x[1] * (Layers \div g.pp) + k]

\* A rank's heads of a layer are cut into as many slices as divide both them
\* and the chiplet areas; the areas left over are replicas.
RankHeads(g, l) == g.heads[l] \div g.tp
Slices(g, l) == Max({s \in 1 .. g.areas : g.areas % s = 0 /\ RankHeads(g, l) % s = 0})
SliceHeads(g, l) == RankHeads(g, l) \div Slices(g, l)

\* K and V are two logical regions of a layer, or share one.
PerLayer(g) == 2 \div g.kvb
RegionsPerLayer(g) == PerLayer(g) * g.areas
NumRegions(g) == (Layers \div g.pp) * RegionsPerLayer(g)
LayerOf(g, x, region) == StageLayers(g, x)[(region \div RegionsPerLayer(g)) + 1]
BlockLen(g, x, region) == g.kvb * SliceHeads(g, LayerOf(g, x, region))

\* What a unit of a region really holds.
Content(g, x, region, u) ==
    LET l == LayerOf(g, x, region)
        slice == (region % g.areas) \div (g.areas \div Slices(g, l))
        width == SliceHeads(g, l)
    IN  [layer |-> l,
         kv |-> IF g.kvb = 2 THEN u \div width ELSE (region \div g.areas) % 2,
         head |-> x[2] * RankHeads(g, l) + slice * width + (u % width)]

\* The slice count an engine advertises is its last region's.
_kv_slices(g, x) == Slices(g, Last(StageLayers(g, x)))

-----------------------------------------------------------------------------
(***************************************************************************)
(* The arithmetic of the connector.                                        *)
(***************************************************************************)
tp_ratio == IF Loc.tp >= Peer.tp THEN Loc.tp \div Peer.tp ELSE -(Peer.tp \div Loc.tp)

\* Upstream: the peer ranks that hold some of our heads.
handshake_target_ranks(x) ==
    IF tp_ratio > 0 THEN {x[2] \div tp_ratio}
    ELSE x[2] * (-tp_ratio) .. x[2] * (-tp_ratio) - tp_ratio - 1

_is_head_matched_peer == tp_ratio # 1
_is_fan_in_peer == tp_ratio < 0

_slice_head_bounds(tpRank, tpSize, total, areas, slices) ==
    LET perRank == total \div tpSize IN
    [ok |-> total % tpSize = 0 /\ perRank % slices = 0 /\ areas % slices = 0,
     base |-> tpRank * perRank, per |-> perRank \div slices]

\* How many times each side cuts the heads, as the connector believes.
CutsL(x) == Loc.tp * _kv_slices(Loc, x)
CutsR(y) == Peer.tp * _kv_slices(Peer, y)

_head_split(cl, cr) == IF cr =< cl THEN 1 ELSE cr \div cl

\* Fault: the other way round is refused too.
SplitOKBothWays(cl, cr) == cr % cl = 0

SplitOK(cl, cr) == cr =< cl \/ cr % cl = 0

\* Fault: K and V are taken to be one run.
KvRunsOnce(cl, cr) == 1

_kv_runs(cl, cr) == IF cl # cr THEN Loc.kvb ELSE 1

Split(x, y) == IF _is_head_matched_peer THEN _head_split(CutsL(x), CutsR(y)) ELSE 1
KvRuns(x, y) == IF _is_head_matched_peer THEN _kv_runs(CutsL(x), CutsR(y)) ELSE 1

\* Reading takes any replica; writing has to fill them all.
_peer_replica_fanout(y) ==
    IF Push /\ _is_head_matched_peer THEN Peer.areas \div _kv_slices(Peer, y) ELSE 1

BoundsL(x, l) ==
    _slice_head_bounds(x[2], Loc.tp, Loc.heads[l], Loc.areas, _kv_slices(Loc, x))
BoundsR(y, l) ==
    _slice_head_bounds(y[2], Peer.tp, Loc.heads[l], Peer.areas, _kv_slices(Peer, y))

\* The areas of ours whose heads a peer with more ranks holds.  The model's
\* head count decides, the target's, which is the first layer's.
FanInOK(x) ==
    _is_fan_in_peer => BoundsL(x, 1).ok /\ BoundsL(x, 1).per =< Loc.heads[1] \div Peer.tp
_fan_in_peer_areas(x, y) ==
    LET b == BoundsL(x, 1)
        replicas == Loc.areas \div _kv_slices(Loc, x)
    IN  IF ~_is_fan_in_peer THEN 0 .. Loc.areas - 1
        ELSE {a \in 0 .. Loc.areas - 1 :
                 (b.base + (a \div replicas) * b.per) \div (Loc.heads[1] \div Peer.tp) = y[2]}

\* Positions of the layers both hold: in the peer's list and in ours.
_layer_overlap(x, y) ==
    LET ours == StageLayers(Loc, x)
        theirs == StageLayers(Peer, y)
        shared == SelectSeq([k \in DOMAIN theirs |-> k],
                            LAMBDA k : theirs[k] \in Range(ours))
    IN  [i \in DOMAIN shared |->
            [peer |-> shared[i] - 1,
             ours |-> (CHOOSE k \in DOMAIN ours : ours[k] = theirs[shared[i]]) - 1]]

Overlaps(x, y) == _layer_overlap(x, y) # <<>>
Partial(x, y) == Len(_layer_overlap(x, y)) < Len(StageLayers(Peer, y))

\* (our logical region, the peer's), in the order the lists are built.
_logical_region_pairs(x, y) ==
    LET n == PerLayer(Loc)
        overlap == _layer_overlap(x, y)
    IN  [i \in 1 .. Len(overlap) * n |->
            LET p == overlap[((i - 1) \div n) + 1]
            IN  <<p.ours * n + ((i - 1) % n), p.peer * n + ((i - 1) % n)>>]

\* Does anything narrow what a whole-engine handle covers?
Narrowed(x, y) ==
    Peer.pp > 1 \/ Partial(x, y) \/ _is_fan_in_peer \/ Split(x, y) > 1 \/ KvRuns(x, y) > 1

-----------------------------------------------------------------------------
(***************************************************************************)
(* What is refused.                                                        *)
(***************************************************************************)
\* _nixl_handshake, before any shard is added.
PipelinesOK ==
    LET wide == Max({Loc.pp, Peer.pp})
        narrow == Min({Loc.pp, Peer.pp})
    IN  (wide > 1) =>
            /\ wide % narrow = 0
            /\ ~(tp_ratio # 1 /\ narrow > 1)
            /\ ~(Push /\ narrow > 1)
            /\ ~(tp_ratio < 0 /\ Peer.pp > 1)

_reject_uneven_region_slices(x) ==
    \E l, m \in Range(StageLayers(Loc, x)) : Slices(Loc, l) # Slices(Loc, m)

\* A head must cost the same on both sides, layer by layer.
_validate_head_matched_handshake(x, y) ==
    \A i \in DOMAIN _layer_overlap(x, y) :
        LET p == _layer_overlap(x, y)[i]
            l == StageLayers(Loc, x)[p.ours + 1]
        IN  /\ BoundsL(x, l).ok /\ BoundsR(y, l).ok
            /\ BlockLen(Loc, x, p.ours * RegionsPerLayer(Loc)) * BoundsR(y, l).per
                 = BlockLen(Peer, y, p.peer * RegionsPerLayer(Peer)) * BoundsL(x, l).per

Accepts(x, y) ==
    _is_head_matched_peer =>
        /\ ~_reject_uneven_region_slices(x)
        /\ SplitOK(CutsL(x), CutsR(y))
        /\ _validate_head_matched_handshake(x, y)
        /\ FanInOK(x)

-----------------------------------------------------------------------------
(***************************************************************************)
(* Descriptor lists: region-major, then block, then piece, then copy, then *)
(* K/V.  A descriptor is a range of units of one block of a region.        *)
(***************************************************************************)
NumBlocks == 2
Ascending(S, n) == SelectSeq([k \in 1 .. n |-> k - 1], LAMBDA k : k \in S)

_shard_local_region_ids(x, y) ==
    LET rpl == RegionsPerLayer(Loc)
        keep == Ascending({k \in 0 .. rpl - 1 : k % Loc.areas \in _fan_in_peer_areas(x, y)}, rpl)
        overlap == _layer_overlap(x, y)
    IN  [i \in 1 .. Len(overlap) * Len(keep) |->
            overlap[((i - 1) \div Len(keep)) + 1].ours * rpl + keep[((i - 1) % Len(keep)) + 1]]

\* How many consecutive descriptors a block has: its pieces, copies and K/V runs.
_shard_descs_per_block(x, y) ==
    IF Narrowed(x, y) THEN Split(x, y) * _peer_replica_fanout(y) * KvRuns(x, y) ELSE 1

\* Upstream's local list for the whole engine, at the position i of a descriptor.
WholeEngineList(x) ==
    [i \in 1 .. NumRegions(Loc) * NumBlocks |->
        LET r == (i - 1) \div NumBlocks IN
        [region |-> r, block |-> (i - 1) % NumBlocks, off |-> 0, len |-> BlockLen(Loc, x, r)]]

\* The list for one peer shard: the source of a piece repeats for every copy.
_register_shard_local_xfer_handler(x, y) ==
    LET runs == KvRuns(x, y)
        split == Split(x, y)
        per == split * _peer_replica_fanout(y) * runs
        ids == _shard_local_region_ids(x, y)
    IN  [i \in 1 .. Len(ids) * NumBlocks * per |->
            LET r == ids[((i - 1) \div (NumBlocks * per)) + 1]
                piece == ((i - 1) % per) \div (_peer_replica_fanout(y) * runs)
                stride == BlockLen(Loc, x, r) \div runs
            IN  [region |-> r, block |-> ((i - 1) \div per) % NumBlocks,
                 off |-> ((i - 1) % runs) * stride + piece * (stride \div split),
                 len |-> stride \div split]]

LocalList(x, y) ==
    IF Narrowed(x, y) THEN _register_shard_local_xfer_handler(x, y) ELSE WholeEngineList(x)

\* Where in the peer piece j of one of our areas lives: region and offset.
_head_matched_desc(x, y, pair, area, j, copy) ==
    LET l == StageLayers(Loc, x)[(pair[1] \div PerLayer(Loc)) + 1]
        bl == BoundsL(x, l)
        br == BoundsR(y, l)
        replicasL == Loc.areas \div _kv_slices(Loc, x)
        replicasR == Peer.areas \div _kv_slices(Peer, y)
        head == bl.base + (area \div replicasL) * bl.per + j * (bl.per \div Split(x, y)) - br.base
        region == pair[2] * Peer.areas + (head \div br.per) * replicasR + copy
        page == BlockLen(Peer, y, region)
    IN  [region |-> region, page |-> page,
         off |-> (head % br.per) * ((page \div KvRuns(x, y)) \div br.per)]

\* The peer's list at an unequal degree, in the order of ours: pair, area, block,
\* piece, copy, K/V.
_build_head_matched_remote(x, y) ==
    LET runs == KvRuns(x, y)
        split == Split(x, y)
        fanout == _peer_replica_fanout(y)
        per == split * fanout * runs
        areas == Ascending(_fan_in_peer_areas(x, y), Loc.areas)
        pairs == _logical_region_pairs(x, y)
    IN  [i \in 1 .. Len(pairs) * Len(areas) * NumBlocks * per |->
            LET at == (i - 1) \div (NumBlocks * per)
                pair == pairs[(at \div Len(areas)) + 1]
                area == areas[(at % Len(areas)) + 1]
                d == _head_matched_desc(x, y, pair, area,
                        ((i - 1) % per) \div (fanout * runs), (((i - 1) \div runs) % fanout))
            IN  [region |-> d.region, block |-> ((i - 1) \div per) % NumBlocks,
                 off |-> d.off + ((i - 1) % runs) * (d.page \div runs),
                 len |-> (BlockLen(Loc, x, pair[1] * Loc.areas + area) \div runs) \div split]]

\* Equal degrees: upstream pairs the peer's regions, trimmed to our layers, with
\* ours by position; the length it reads is that of our region for the position
\* (_trim_agent_meta_to_layers, _peer_region_ids, _regions_viewed_as).
_build_fa_remote(x, y) ==
    LET rpl == RegionsPerLayer(Loc)
        overlap == _layer_overlap(x, y)
    IN  [i \in 1 .. Len(overlap) * rpl * NumBlocks |->
            LET at == (i - 1) \div NumBlocks
                p == overlap[(at \div rpl) + 1]
            IN  [region |-> p.peer * rpl + (at % rpl), block |-> (i - 1) % NumBlocks, off |-> 0,
                 len |-> BlockLen(Loc, x, p.ours * rpl + (at % rpl))]]

RemoteList(x, y) ==
    IF _is_head_matched_peer THEN _build_head_matched_remote(x, y) ELSE _build_fa_remote(x, y)

\* The positions of a block's descriptors in either list.
_get_block_descs_ids_for_shard(x, y, block) ==
    LET per == _shard_descs_per_block(x, y)
        regions == IF Narrowed(x, y) THEN Len(_shard_local_region_ids(x, y)) ELSE NumRegions(Loc)
    IN  [i \in 1 .. regions * per |-> (((i - 1) \div per) * NumBlocks + block) * per + ((i - 1) % per)]

\* Our block 0 goes with the peer's block 1.
OurBlock == 0
PeerBlock == 1

\* What one transfer between x and y writes.
Writes(x, y) ==
    LET li == _get_block_descs_ids_for_shard(x, y, OurBlock)
        ri == _get_block_descs_ids_for_shard(x, y, PeerBlock)
        ll == LocalList(x, y)
        rl == RemoteList(x, y)
        copy(i, u) ==
            LET d == ll[li[i] + 1]
                e == rl[ri[i] + 1]
            IN  IF Push
                THEN [rank |-> y, region |-> e.region, block |-> e.block, unit |-> e.off + u,
                      holds |-> <<d.block, Content(Loc, x, d.region, d.off + u)>>]
                ELSE [rank |-> x, region |-> d.region, block |-> d.block, unit |-> d.off + u,
                      holds |-> <<e.block, Content(Peer, y, e.region, e.off + u)>>]
    IN  UNION {{copy(i, u) : u \in 0 .. ll[li[i] + 1].len - 1} : i \in DOMAIN li}

-----------------------------------------------------------------------------
\* Fault: our pipeline stages are not counted.
NotifUncounted == Max({1, Loc.tp \div Peer.tp})

\* The number a notification carries, divided by the peer as it divides it: how
\* many of our ranks a peer shard has to hear from.  The writer's peer multiplies
\* the producer's stages in by itself.
_xfer_notif_id ==
    Max({1, Loc.tp \div Peer.tp})
        * (IF Push THEN Loc.pp ELSE Max({1, Loc.pp \div Peer.pp}))

Init ==
    /\ topo \in Topologies
    /\ paired = [x \in {} |-> {}]
    /\ refused = {}
    /\ served = {}
    /\ mem = {}

\* The peer shards a rank asks and shares layers with.
Shards(x) == {y \in Ranks(Peer) : y[2] \in handshake_target_ranks(x) /\ Overlaps(x, y)}

AllShaken == DOMAIN paired \cup refused = Ranks(Loc)
Pairs == {p \in (DOMAIN paired) \X Ranks(Peer) : p[2] \in paired[p[1]]}

\* _nixl_handshake: every shard in turn, published together at the end or not
\* at all.
_nixl_handshake(x) ==
    /\ x \notin DOMAIN paired /\ x \notin refused
    /\ IF PipelinesOK /\ \A y \in Shards(x) : Accepts(x, y)
         THEN paired' = [z \in DOMAIN paired \cup {x} |-> IF z = x THEN Shards(x) ELSE paired[z]]
              /\ UNCHANGED refused
         ELSE refused' = refused \cup {x} /\ UNCHANGED paired
    /\ UNCHANGED <<topo, served, mem>>

\* A rank's transfer with one of its shards.
Transfer(x, y) ==
    /\ AllShaken /\ refused = {}
    /\ <<x, y>> \in Pairs \ served
    /\ mem' = mem \cup Writes(x, y)
    /\ served' = served \cup {<<x, y>>}
    /\ UNCHANGED <<topo, paired, refused>>

\* Ranks shake hands, and shards are served, in any order; what they do does not
\* depend on it, so one order stands for all.
Next ==
    \/ LET left == Ranks(Loc) \ (DOMAIN paired \cup refused) IN
       left # {} /\ _nixl_handshake(CHOOSE x \in left : TRUE)
    \/ LET open == Pairs \ served IN
       open # {} /\ LET p == CHOOSE p \in open : TRUE IN Transfer(p[1], p[2])

Spec == Init /\ [][Next]_vars

-----------------------------------------------------------------------------
(***************************************************************************)
(* Properties.                                                             *)
(***************************************************************************)
Receiver == IF Push THEN Peer ELSE Loc
SourceBlock == IF Push THEN OurBlock ELSE PeerBlock
TargetBlock == IF Push THEN PeerBlock ELSE OurBlock

\* Every transfer stays inside a registered region of a real rank
\* (_head_matched_desc's offsets, register_local_xfer_handler's pieces).
TypeOK ==
    /\ DOMAIN paired \cup refused \subseteq Ranks(Loc)
    /\ \A x \in DOMAIN paired : paired[x] \subseteq Ranks(Peer)
    /\ served \subseteq Pairs
    /\ \A w \in mem :
          /\ w.rank \in Ranks(Receiver) /\ w.region \in 0 .. NumRegions(Receiver) - 1
          /\ w.unit \in 0 .. BlockLen(Receiver, w.rank, w.region) - 1

\* The receiver's block, every unit of every region, its replicas included, holds
\* what its own layer, K or V and head have in the sender's block; no other
\* block is touched.
EveryUnitArrives ==
    (AllShaken /\ refused = {} /\ served = Pairs) =>
        mem = UNION {UNION {{[rank |-> x, region |-> r, block |-> TargetBlock, unit |-> u,
                              holds |-> <<SourceBlock, Content(Receiver, x, r, u)>>] :
                             u \in 0 .. BlockLen(Receiver, x, r) - 1} :
                            r \in 0 .. NumRegions(Receiver) - 1} : x \in Ranks(Receiver)}

\* A writer's whole-engine list against a peer that keeps replicas: nothing
\* narrows the handle, so the list has no copies for them.
WholeOntoReplicas ==
    \E p \in Pairs : ~Narrowed(p[1], p[2]) /\ _peer_replica_fanout(p[2]) > 1

\* A handshake that accepts a peer makes descriptor lists that move exactly the
\* right bytes, for every pair of parallel degrees, pipelines, chiplet counts and
\* cache layouts, but for a push of whole regions to a peer that keeps replicas.
TransferExact == ~WholeOntoReplicas => EveryUnitArrives

\* The peer settles a request (frees its blocks, or hands them to the model) when
\* it has heard from as many ranks as the notification says: never before the
\* last transfer with it, and no later.
SettledExactly ==
    (AllShaken /\ refused = {}) =>
        \A y \in Ranks(Peer) :
            LET with == {p \in Pairs : p[2] = y} IN
            Cardinality(with \cap served) >= _xfer_notif_id <=> with \subseteq served

\* The class docstring's list of supported topologies, on the true layout.
Supported ==
    LET per(g, l) == SliceHeads(g, l)
        wide == Max({Loc.pp, Peer.pp})
        narrow == Min({Loc.pp, Peer.pp})
    IN  /\ wide % narrow = 0
        /\ narrow > 1 => ~Push /\ Loc.tp = Peer.tp
        /\ Peer.pp > 1 => Peer.tp =< Loc.tp
        /\ Loc.tp # Peer.tp =>
              \A l \in 1 .. Layers :
                /\ per(Loc, l) =< Loc.heads[l] \div Peer.tp
                /\ Max({per(Loc, l), per(Peer, l)}) % Min({per(Loc, l), per(Peer, l)}) = 0
                /\ \A m \in 1 .. Layers : /\ Slices(Loc, l) = Slices(Loc, m)
                                          /\ Slices(Peer, l) = Slices(Peer, m)

\* No supported topology is refused by any of the checks of the handshake.
SupportedIsAccepted == Supported => refused = {}
=============================================================================
