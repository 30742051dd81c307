----------------------------- MODULE Subsequences -----------------------------
(***************************************************************************)
(* Kept(s, T): the elements of s that are in T, in their order.  It is     *)
(* SelectSeq with membership as the test, as a recursive function over the *)
(* prefixes of s, which proofs can expand.                                 *)
(***************************************************************************)
EXTENDS Integers, Sequences

KeptUpTo(s, T) ==
    LET f[i \in 0..Len(s)] ==
          IF i = 0 THEN <<>>
          ELSE IF s[i] \in T THEN Append(f[i - 1], s[i]) ELSE f[i - 1]
    IN  f

Kept(s, T) == KeptUpTo(s, T)[Len(s)]
=============================================================================
