-------------------------- MODULE MCNotebookCells --------------------------
(***************************************************************************)
(* Constants of the run of NotebookCells and NotebookDeps: three names,    *)
(* each list of at most two of them in one of its orders.                  *)
(***************************************************************************)
EXTENDS NotebookDeps

CONSTANTS a, b, c

MCDepLists == {<<>>, <<a>>, <<b>>, <<c>>, <<a, b>>, <<b, c>>, <<c, a>>}
=============================================================================
