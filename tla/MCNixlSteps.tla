---------------------------- MODULE MCNixlSteps ----------------------------
(* A request that only prefills for a peer, and one that fetches.             *)
EXTENDS NixlSteps

Request(p, h, n, s) == [prompt |-> p, hit |-> h, remote |-> n, serve |-> s]
Deploy(b, c, h, q1, q2) == [block |-> b, chunk |-> c, host |-> h, req |-> <<q1, q2>>]

Requests == 1..2
Blocks == 1..3    \* too few for both at their longest

\* A prefill in chunks for a peer, beside a fetch of the whole prompt, with and
\* without a local hit, of a part that the chunk size divides, of less than a
\* chunk, and of a part that is trimmed within its last block.
Served ==
    {Deploy(2, c, TRUE, Request(3, 0, 0, TRUE), q) : c \in {1, 2},
        q \in {Request(3, 0, 3, FALSE), Request(3, 2, 3, FALSE), Request(4, 0, 2, TRUE),
               Request(3, 0, 1, FALSE)}}
    \cup {Deploy(4, 2, h, Request(5, 0, 0, TRUE), q) : h \in BOOLEAN,
        q \in {Request(6, 0, 3, TRUE), Request(7, 4, 7, FALSE)}}

\* The fetch is trimmed by a block.
Trimmed == {Deploy(2, 2, FALSE, Request(2, 0, 0, TRUE), Request(6, 0, 3, TRUE))}
=============================================================================
