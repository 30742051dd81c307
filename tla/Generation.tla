------------------------------ MODULE Generation ------------------------------
(***************************************************************************)
(* What a serving engine promises: the text of a request is its prompt,     *)
(* continued by the tokens that decoding it alone and one token at a time   *)
(* yields, and it stops where that decoding stops.  How many tokens become  *)
(* visible at once, and when, is left open; so is giving a request up.      *)
(***************************************************************************)
EXTENDS Naturals, Sequences

CONSTANTS
    Req,        \* requests
    Prompt,     \* Prompt[r]: tokens of the prompt
    End         \* End[r]: length of the finished text

VARIABLES
    text,       \* text[r]: the tokens of r the client may see
    over        \* requests that are finished or given up

(* The token that belongs at position p of r, counted from 0.               *)
Right(r, p) == <<r, p>>
RightText(r, n) == [i \in 1 .. n |-> Right(r, i - 1)]

Init ==
    /\ text = [r \in Req |-> RightText(r, Prompt[r])]
    /\ over = {}

(* The requests of one step gain tokens together; one whose text is complete *)
(* is over.                                                                 *)
Emit ==
    \E S \in SUBSET (Req \ over) :
    \E n \in [S -> UNION {1 .. End[r] : r \in Req}] :
        /\ \A r \in S : n[r] > Len(text[r]) /\ n[r] =< End[r]
        /\ text' = [r \in Req |-> IF r \in S THEN RightText(r, n[r]) ELSE text[r]]
        /\ over' = over \cup {r \in S : n[r] = End[r]}

GiveUp(r) ==
    /\ r \in Req \ over
    /\ over' = over \cup {r}
    /\ UNCHANGED text

Next == Emit \/ \E r \in Req : GiveUp(r)

Spec == Init /\ [][Next]_<<text, over>>
===============================================================================
