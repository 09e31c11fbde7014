--------------------------- MODULE MCMemoryQueue ---------------------------
(* Two consumers that share the cursor of one group, and one of another group. *)
EXTENDS MemoryQueue, TLC

CONSTANTS c1, c2, c3

TwoGroups == (c1 :> "workers") @@ (c2 :> "workers") @@ (c3 :> "audit")
=============================================================================
