------------------------------ MODULE MCDPBatch ------------------------------
(* Deployments of one to three ranks, with each bucket strategy.              *)
EXTENDS DPBatch, TLC

Bucketing(s, mx, mn, lim, st, man) ==
    [strategy |-> s, max |-> mx, min |-> mn, limit |-> lim, step |-> st, manual |-> man]

Exp4 == Bucketing("exponential", 4, 1, 3, 2, {})
Exp5 == Bucketing("exponential", 5, 2, 9, 2, {})
Lin4 == Bucketing("linear", 4, 1, 2, 2, {})
Man3 == Bucketing("manual", 3, 1, 1, 1, {1, 3})
Man2 == Bucketing("manual", 2, 1, 1, 1, {1, 2})

Drafting(sp, e, m, l) == [spec |-> sp, eagle |-> e, moe |-> m, long |-> l]

NoDraft == Drafting(0, FALSE, FALSE, FALSE)
Ngram == Drafting(2, FALSE, FALSE, FALSE)
Eagle == {Drafting(s, TRUE, FALSE, TRUE) : s \in {1, 2}}
EagleMoE == {Drafting(s, TRUE, TRUE, FALSE) : s \in {1, 2}}

Deploy(n, B, S, D) ==
    {[dp |-> n, specialized |-> s, tokens |-> 16] @@ b @@ d : b \in B, s \in S, d \in D}

Serving ==
    Deploy(1, {Exp5}, {FALSE}, {NoDraft, Ngram} \cup Eagle \cup EagleMoE)
    \cup Deploy(2, {Exp4, Lin4, Man3}, BOOLEAN, {NoDraft, Ngram} \cup Eagle \cup EagleMoE)
    \cup Deploy(3, {Man2}, {TRUE}, {NoDraft, Ngram} \cup EagleMoE)
    \cup {[c EXCEPT !.tokens = 65535] : c \in Deploy(2, {Man2}, BOOLEAN, {NoDraft})}

\* Requests may come to the end of the drafter's context.
Long == Deploy(2, {Man2}, {TRUE}, {Drafting(1, TRUE, TRUE, TRUE)})
=============================================================================
