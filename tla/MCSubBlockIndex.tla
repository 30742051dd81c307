---- MODULE MCSubBlockIndex ----
(* SubBlockIndex with the hash tree of five prefixes over blocks of up to    *)
(* three sub-blocks: "a" -> "ab" -> "abc", and "abd", a sibling of "abc";     *)
(* "x" starts another block's chain.                                          *)
EXTENDS SubBlockIndex, TLC

CONSTANTS b1, b2, b3

MCBlock == {b1, b2, b3}
MCHash == {"a", "ab", "abc", "abd", "x"}
MCChain == [h \in MCHash |->
    CASE h = "a" -> <<"a">>
      [] h = "ab" -> <<"a", "ab">>
      [] h = "abc" -> <<"a", "ab", "abc">>
      [] h = "abd" -> <<"a", "ab", "abd">>
      [] h = "x" -> <<"x">>]
MCSymmetry == Permutations(MCBlock)
=============================================================================
