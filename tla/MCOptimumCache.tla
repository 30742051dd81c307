--------------------------- MODULE MCOptimumCache ---------------------------
(* Small instances of OptimumCache.  Inner blocks of two tokens, two to an     *)
(* outer block.                                                                *)
EXTENDS OptimumCache

CONSTANTS r1, r2, r3, r4

FourReqs == {r1, r2, r3, r4}
Priorities == (r1 :> 2) @@ (r2 :> 3) @@ (r3 :> 1) @@ (r4 :> 4)

\* Too few blocks for everyone, under both policies, and a full-size cache.
SmallAndFull == {[inner |-> 8, fcfs |-> TRUE], [inner |-> 8, fcfs |-> FALSE],
                 [inner |-> 12, fcfs |-> TRUE]}
Full == {[inner |-> 12, fcfs |-> TRUE]}

\* r1 and r3 have the same text, r2 shares its first inner block.
Texts == (r1 :> <<1, 1, 1, 1, 1, 1, 1, 1, 1>>) @@ (r2 :> <<1, 1, 2, 2, 2, 2>>)
         @@ (r3 :> <<1, 1, 1, 1, 1, 1, 1, 1, 1>>) @@ (r4 :> <<1, 1, 2, 2, 2, 2, 3>>)
Prompts == (r1 :> 7) @@ (r2 :> 4) @@ (r3 :> 7) @@ (r4 :> 5)
=============================================================================
