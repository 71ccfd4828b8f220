---------------------------- MODULE NotebookCells ----------------------------
(***************************************************************************)
(* The cells of a notebook (internal/notebook/notebook.go): how the edits  *)
(* of the server change their list.  Each edit runs with nbMu held (module *)
(* Notebook), so it is one step here.  Sources and outputs are left out,   *)
(* all cells are code.  The parts every specification has are named for    *)
(* the cells, for NotebookProofs extends Notebook beside this module.      *)
(***************************************************************************)
EXTENDS Naturals, FiniteSets, SequencesExt

CONSTANTS
    Names,     \* the names of cells
    Unnamed,   \* the name of a cell without one
    DepLists,  \* the lists of names a cell may depend on
    MaxCells   \* bound on the cells of a notebook

ASSUME NotebookCellsAssumption ==
    /\ Unnamed \notin Names
    /\ DepLists \subseteq Seq(Names) /\ <<>> \in DepLists
    /\ MaxCells \in Nat \ {0}

VARIABLE cells  \* nb.Cells

Cell == [id : 1..MaxCells, name : Names \cup {Unnamed}, deps : DepLists]
NewCell(n) == [id |-> n, name |-> Unnamed, deps |-> <<>>]

\* Handler's own notebook.
CellsInit == cells = <<NewCell(1)>>

Ids(s) == {s[i].id : i \in DOMAIN s}
Position(id) == CHOOSE i \in DOMAIN cells : cells[i].id = id /\ \A j \in 1..(i - 1) : cells[j].id # id

-----------------------------------------------------------------------------
\* Mutant of nextCellID: the number of cells is counted.
nextCellIDByCount(s) == Len(s) + 1

\* One more than the largest there is: the id of a deleted cell may come back.
nextCellID(s) == Max(Ids(s) \cup {0}) + 1

AddCell ==
    /\ Len(cells) < MaxCells /\ nextCellID(cells) <= MaxCells
    /\ cells' = Append(cells, NewCell(nextCellID(cells)))

insertCellAfter(id) ==
    /\ Len(cells) < MaxCells /\ nextCellID(cells) <= MaxCells
    /\ id \in Ids(cells)
    /\ cells' = InsertAt(cells, Position(id) + 1, NewCell(nextCellID(cells)))

\* Mutant of deleteCell: the last cell takes the place of the deleted one.
deleteCellSwap(id) ==
    /\ id \in Ids(cells)
    /\ cells' = Front([cells EXCEPT ![Position(id)] = Last(cells)])

deleteCell(id) ==
    /\ id \in Ids(cells)
    /\ cells' = RemoveAt(cells, Position(id))

\* As many ids as there are cells, all of them known and none twice.
applyReorder(ids) ==
    /\ Len(ids) = Len(cells) /\ Range(ids) \subseteq Ids(cells) /\ IsInjective(ids)
    /\ cells' = [i \in DOMAIN ids |-> cells[Position(ids[i])]]

\* The entry of one cell in a request to save sources; unknown ids are skipped.
applySourceUpdate(id, name, deps) ==
    /\ id \in Ids(cells)
    /\ cells' = [cells EXCEPT ![Position(id)].name = name, ![Position(id)].deps = deps]

CellsNext ==
    \/ AddCell
    \/ \E id \in 1..MaxCells : insertCellAfter(id) \/ deleteCell(id)
    \/ \E ids \in [1..Len(cells) -> 1..MaxCells] : applyReorder(ids)
    \/ \E id \in 1..MaxCells, name \in Names \cup {Unnamed}, deps \in DepLists :
         applySourceUpdate(id, name, deps)

CellsSpec == CellsInit /\ [][CellsNext]_cells

-----------------------------------------------------------------------------
\* The list holds cells and no id twice.
CellsTypeOK ==
    /\ cells \in Seq(Cell) /\ Len(cells) <= MaxCells
    /\ \A i, j \in DOMAIN cells : cells[i].id = cells[j].id => i = j

\* The cells but the one with id, in their order.
Others(s, id) ==
    LET upTo[n \in 0..Len(s)] ==
          IF n = 0 THEN <<>>
          ELSE IF s[n].id = id THEN upTo[n - 1]
          ELSE Append(upTo[n - 1], s[n])
    IN upTo[Len(s)]

\* An edit adds a cell, or removes one, or changes one, or orders them anew; it
\* does no two of these, and the others stay as they are, in their order.
EditsAreLocal ==
    [][ \/ \E id \in 1..MaxCells : Others(cells, id) = Others(cells', id)
        \/ Len(cells) = Len(cells') /\ Range(cells) = Range(cells')
      ]_cells
=============================================================================
