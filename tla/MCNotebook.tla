----------------------------- MODULE MCNotebook -----------------------------
(***************************************************************************)
(* Three clients of one notebook server.                                   *)
(***************************************************************************)
EXTENDS Notebook, TLC

CONSTANTS q1, q2, q3

MCRequests == {q1, q2, q3}

\* The first may run cells that never end, the second may stall.
MCHandlers ==
    (q1 :> {"evaluate", "save"}) @@ (q2 :> Kinds \ {"evaluate"}) @@ (q3 :> {"evaluate", "save", "restore"})
=============================================================================
