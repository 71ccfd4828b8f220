-------------------------------- MODULE MCPods --------------------------------
(***************************************************************************)
(* TLC instance of Pods: two invokes, about one of which the pod may say   *)
(* errors; descriptions, values and last values about any request.         *)
(***************************************************************************)
EXTENDS Pods

CONSTANTS i1, i2

Says(e, d) == [error |-> e, done |-> d]
MCMenu == [r \in Requests |->
             {Says(FALSE, TRUE), Says(FALSE, FALSE)}
                \cup IF r = i1 THEN {Says(TRUE, FALSE)} ELSE {}]
=============================================================================
