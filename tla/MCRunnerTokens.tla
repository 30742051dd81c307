---------------------------- MODULE MCRunnerTokens ----------------------------
EXTENDS RunnerTokens

CONSTANTS r1, r2, r3

Plain == [async |-> FALSE, spec |-> 0, pp |-> 1, sort |-> FALSE, fixed |-> FALSE,
          processors |-> FALSE, load |-> Req]

(* Async scheduling, speculation with and without a pipeline, with as many   *)
(* drafts as asked for or up to that many, and a pipeline without it.        *)
AllConfigs ==
    {[Plain EXCEPT !.async = TRUE, !.sort = b, !.processors = TRUE] : b \in BOOLEAN}
    \cup {[Plain EXCEPT !.spec = 2, !.pp = k, !.sort = TRUE, !.fixed = TRUE, !.load = {r1, r2}] :
             k \in {1, 2}}
    \cup {[Plain EXCEPT !.spec = 3 - k, !.pp = k, !.sort = TRUE, !.load = {r1, r2}] :
             k \in {1, 2}}
    \cup {[Plain EXCEPT !.pp = 2, !.sort = TRUE]}

Prompts == (r1 :> 2) @@ (r2 :> 4) @@ (r3 :> 2)
Ends == (r1 :> 7) @@ (r2 :> 6) @@ (r3 :> 3)
===============================================================================
