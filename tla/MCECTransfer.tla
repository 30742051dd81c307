------------------------------ MODULE MCECTransfer -----------------------------
(* Three requests, the first and the third with the same image; queues and    *)
(* caches of one or two entries, so that each of them fills up.               *)
EXTENDS ECTransfer
CONSTANTS h1, h2

MCHashOf == <<h1, h2, h1>>
=============================================================================
