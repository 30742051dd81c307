----------------------------- MODULE MCKvSizing -----------------------------
(* Two ranks of two chiplets with the allocator's real size classes.  The    *)
(* shards are of one MiB and more per block, so that counts from 1 to 30     *)
(* cross all of them.                                                        *)
EXTENDS KvSizing, TLC

MiB == 1024
Ranks == 1..2
Units == {"c0", "c1"}
Flat(n) == [u \in Units |-> n]

Shard(u, n) == [unit |-> u, per |-> n]
Tensor(s, n) == [shape |-> s, shards |-> <<Shard("c0", n), Shard("c1", n)>>]
Tensors(s, n, k) == [i \in 1..k |-> Tensor(s, n)]
Named(sym, ts) == [i \in DOMAIN ts |-> ts[i] @@ [sym |-> sym]]
Turned(t) == [t EXCEPT !.shards = Reverse(@)]
Moved(t) == [t EXCEPT !.shards = [i \in DOMAIN @ |-> Shard("c0", @[i].per)]]

\* Prefill and decode share a symbol, or do not; a drafter has its own tensor.
OneSymbol(ts) == [tensors |-> ts, programs |-> <<Named("s0", ts), Named("s0", ts), <<>>>>]
TwoSymbols(ts) == [tensors |-> ts, programs |-> <<Named("s0", ts), Named("s1", ts)>>]
Drafter(ts, d) == [tensors |-> ts \o d,
                   programs |-> <<Named("s0", ts), Named("s0", ts), Named("s0", d)>>]
\* The programs list the shards in another order, or place them elsewhere.
Reordered(ts) == [tensors |-> ts, programs |-> <<Named("s0", ts),
                   Named("s0", [i \in DOMAIN ts |-> Turned(ts[i])])>>]
Replaced(ts) == [tensors |-> ts, programs |-> <<Named("s0", ts),
                   Named("s0", [i \in DOMAIN ts |-> Moved(ts[i])])>>]
Partial(ts) == [tensors |-> ts, programs |-> <<Named("s0", ts), Named("s1", Tail(ts))>>]
Static(ts) == [tensors |-> ts, programs |-> <<<<>>, <<>>>>]

Layers(n) == Tensors("layer", n, 3)
Models ==
    {OneSymbol(Layers(MiB)), TwoSymbols(Layers(MiB)), TwoSymbols(Layers(1536)),
     TwoSymbols(Layers(1250)), Reordered(Layers(MiB)), Drafter(Layers(MiB), Tensors("draft", 300, 1))}
Refused == {Replaced(Layers(MiB)), Partial(Layers(MiB)), Static(Layers(MiB))}

Device(tenant, kept) ==
    [total |-> 100 * MiB, dram |-> 180 * MiB, weights |-> [c0 |-> 20 * MiB, c1 |-> 18 * MiB],
     direct |-> Flat(4 * MiB), tenants |-> Flat(tenant), kept |-> Flat(kept),
     kernel |-> 50 * MiB, context |-> TRUE, linear |-> TRUE]

\* vLLM's bytes of a block: all shards of all tensors.
Worker(m, d) == m @@ d @@ [page |-> per_block(m.tensors, "c0") + per_block(m.tensors, "c1")]
Both(m, d) == [rank |-> [r \in Ranks |-> Worker(m, d)]]

Plain == [flag |-> TRUE, dry |-> FALSE, override |-> 0, skip |-> FALSE, dummy |-> FALSE,
          driver |-> TRUE, props |-> TRUE, capture |-> TRUE, layout |-> TRUE,
          util |-> 90, streams |-> FALSE, rsd |-> 2, heads |-> 4, one |-> 2, batch |-> 3]

\* Every utilisation, with a busy neighbour and with a cache that stays.
Measured ==
    {[Plain EXCEPT !.util = u, !.streams = s] @@ Both(m, Device(t, k)) :
        u \in {52, 58, 64, 70, 76, 83, 90, 100}, s \in BOOLEAN, m \in Models,
        t \in {0, 6 * MiB}, k \in {0, 3 * MiB}}

\* Without the driver's view: tenants are even and direct allocations small.
FromAllocator ==
    {[Plain EXCEPT !.util = u, !.driver = FALSE, !.props = p] @@ Both(m, Device(t, 0)) :
        u \in {83, 90}, p \in BOOLEAN, m \in Models, t \in {0, 6 * MiB}}

\* The modes, and what the installation may lack.
Modes ==
    {[Plain EXCEPT !.flag = f, !.dry = d, !.override = o, !.skip = s, !.dummy = m,
                   !.capture = c, !.layout = l, !.heads = h, !.one = n, !.rsd = k]
        @@ Both(TwoSymbols(Layers(MiB)), Device(6 * MiB, 0)) :
        f \in BOOLEAN, d \in BOOLEAN, o \in {0, 12, 40}, s \in BOOLEAN, m \in BOOLEAN,
        c \in BOOLEAN, l \in BOOLEAN, h \in {1, 4}, n \in {2, 16, 30},
        k \in {2, 4}}

Contracts ==
    {Plain @@ Both(m, Device(0, 0)) : m \in Refused}
    \cup {Plain @@ Both(OneSymbol(Layers(MiB)), [Device(0, 0) EXCEPT !.linear = FALSE])}

\* Pipeline ranks with different layers: the second has room for every count,
Roomy ==
    {[Plain EXCEPT !.util = u] @@
        [rank |-> 1 :> Worker(m, Device(0, 0))
               @@ 2 :> Worker(OneSymbol(Tensors("layer", MiB, 1)), Device(0, 0))] :
        u \in {64, 76, 90}, m \in Models}

\* or the largest counts differ and lie on both sides of a size class.
Uneven ==
    {[Plain EXCEPT !.util = u] @@
        [rank |-> 1 :> Worker(OneSymbol(Layers(MiB)), Device(0, 0))
               @@ 2 :> Worker(OneSymbol(Layers(1250)), Device(0, 0))] : u \in 50..70}

StartUps == Measured \cup FromAllocator \cup Modes \cup Contracts \cup Roomy \cup Uneven

\* A dry run beside a neighbour that fills one chiplet.
Crowded ==
    {[Plain EXCEPT !.dry = TRUE] @@
        Both(OneSymbol(Layers(MiB)),
             [Device(0, 0) EXCEPT !.tenants = [c0 |-> 70 * MiB, c1 |-> 0]])}
=============================================================================
