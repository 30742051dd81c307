---------------------------- MODULE MCSubBlockCache ----------------------------
(* Small instances of SubBlockCache.  r1 and r2 share the start of a block     *)
(* and then differ; r3 extends the prompt of r1.                               *)
EXTENDS SubBlockCache

CONSTANTS b1, b2, b3, r1, r2, r3

ThreeReqs == {r1, r2, r3}
ThreeBlocks == {b1, b2, b3}
BlockSymmetry == Permutations(Block)

\* Blocks of three one-token sub-blocks.
Tokens3 == (r1 :> <<1, 1, 1, 1, 1>>) @@ (r2 :> <<1, 1, 2, 2, 2>>)
           @@ (r3 :> <<1, 1, 1, 1, 2, 2, 2>>)
Prompt3 == (r1 :> 3) @@ (r2 :> 4) @@ (r3 :> 5)

\* r2 shares nothing with the others, r3 has the prompt of r1 and a token more.
TokensApart == (r1 :> <<1, 1, 1, 1, 1>>) @@ (r2 :> <<2, 2, 2, 2, 2>>)
               @@ (r3 :> <<1, 1, 1, 1, 2>>)
PromptApart == (r1 :> 2) @@ (r2 :> 3) @@ (r3 :> 3)

\* Blocks of three two-token sub-blocks: chunks, prompts and the point where
\* r1 and r2 part lie inside a sub-block.
Tokens6 == (r1 :> <<1, 1, 1, 1, 1, 1, 1>>) @@ (r2 :> <<1, 1, 1, 2, 2, 2, 2, 2>>)
           @@ (r3 :> <<1, 1, 1, 1, 1, 1, 1, 2, 2, 2>>)
Prompt6 == (r1 :> 4) @@ (r2 :> 5) @@ (r3 :> 8)

Config(t, p, sub, chunk, spec, depth) ==
    [tokens |-> t, prompt |-> p, sub |-> sub, per |-> 3, chunk |-> chunk,
     spec |-> spec, depth |-> depth]

\* One step at a time, the same with drafts, and two steps in flight.
ThreeConfigs ==
    {Config(Tokens6, Prompt6, 2, 5, 0, 1), Config(Tokens6, Prompt6, 2, 5, 1, 1),
     Config(Tokens3, Prompt3, 1, 2, 0, 2)}

AsyncApart == {Config(TokensApart, PromptApart, 1, 2, 0, 2)}
===============================================================================
