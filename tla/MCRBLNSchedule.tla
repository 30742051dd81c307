---------------------------- MODULE MCRBLNSchedule -----------------------------
(* Instances of RBLNSchedule.                                                 *)
(*                                                                            *)
(* Prompts of 2, 5 and 1 tokens: with chunks of 3 the second is one or two    *)
(* prefill steps, and a one-token prompt is decode-ready at once.  A prefix   *)
(* match of 4 makes the second decode-ready too, one of 1 the first.  Blocks  *)
(* hold one token, so that every decode asks for a block.                     *)
EXTENDS RBLNSchedule
CONSTANTS r1, r2, r3

MCReq == {r1, r2, r3}
MCArrival == <<r1, r2, r3>>
MCPromptLen == (r1 :> 2) @@ (r2 :> 5) @@ (r3 :> 1)
MCMaxLen == (r1 :> 5) @@ (r2 :> 7) @@ (r3 :> 4)
SomeRemote == (r1 :> 2) @@ (r2 :> 3) @@ (r3 :> 0)
OneRemote == (r1 :> 2) @@ (r2 :> 0) @@ (r3 :> 0)

(* Priority order: the most urgent request is first, the least urgent second. *)
UrgentFirst == <<r1, r3, r2>>
MCPriority == (r1 :> 1) @@ (r2 :> 2) @@ (r3 :> 3)

Config(arrival, remote, blocks, seqs, pp, threshold, spec, eagle, async, fcfs) ==
    [arrival |-> arrival, remote |-> remote, blocks |-> blocks, seqs |-> seqs, pp |-> pp,
     threshold |-> threshold, spec |-> spec, eagle |-> eagle, async |-> async, fcfs |-> fcfs]

(* Pipelined with drafts; async scheduling with more remote KV and fewer      *)
(* blocks; pipelined under the PRIORITY policy with a prefill threshold.      *)
ThreeConfigs ==
    {Config(MCArrival, OneRemote, 12, 4, 2, 0, 1, FALSE, FALSE, TRUE),
     Config(MCArrival, SomeRemote, 8, 3, 1, 0, 0, FALSE, TRUE, TRUE),
     Config(UrgentFirst, OneRemote, 10, 4, 2, 2, 0, FALSE, FALSE, FALSE)}
=============================================================================
