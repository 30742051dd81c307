---------------------------- MODULE MCNixlPairing ----------------------------
(* Pairs of deployments: one layer of 2, 4 or 6 heads and a second that may   *)
(* differ from it, as a draft model's does.                                   *)
EXTENDS NixlPairing

HeadLists == {<<2, 2>>, <<4, 4>>, <<4, 2>>, <<2, 4>>, <<6, 6>>}

Sides(h, a, k) ==
    {g \in [tp : {1, 2, 3, 4}, pp : {1, 2}, areas : {a}, kvb : {k}, heads : {h}] :
        \A l \in 1 .. 2 : h[l] % g.tp = 0}

AllTopologies ==
    UNION {{[local |-> s, peer |-> t, push |-> p] :
              s \in Sides(h, a, k), t \in Sides(h, a, k), p \in BOOLEAN} :
           h \in HeadLists, a \in {1, 2, 4}, k \in {1, 2}}

Comparable == {t \in AllTopologies : t.local.tp % t.peer.tp = 0 \/ t.peer.tp % t.local.tp = 0}
=============================================================================
