---------------------------- MODULE ProcessTable -----------------------------
(***************************************************************************)
(* The process table of the page: the column and direction the user chose, *)
(* the arrows that announce them in the headers, and the order in which    *)
(* the rows were last put.  Module Dashboard composes it with what brings  *)
(* the snapshots.  The rows themselves, their cells and the comparison of  *)
(* two cells are left out: sort() puts them in the order it is asked for.  *)
(***************************************************************************)
CONSTANTS
  Keys,        \* SortKey: the columns that can be sorted by
  CpuPercent   \* the column sorted by at first

ASSUME KeysAssumption == CpuPercent \in Keys

VARIABLES
  sortKey,     \* this.sortKey
  sortAsc,     \* this.sortAsc
  arrows,      \* arrows[k]: the sort classes of column k's header
  drawn        \* the order of the rows, or {} before there are any

tableVars == <<sortKey, sortAsc, arrows, drawn>>

Arrow(asc) == IF asc THEN "sort-asc" ELSE "sort-desc"

TableInit ==
  /\ sortKey = CpuPercent /\ sortAsc = FALSE
  /\ arrows = [k \in Keys |-> IF k = CpuPercent THEN {Arrow(FALSE)} ELSE {}]
  /\ drawn = {}

\* updateSortIndicators(), for the new column and direction: the old classes
\* are removed first.
Arrows(key, asc) == [k \in Keys |-> IF k = key THEN {Arrow(asc)} ELSE {}]

\* A click on the header of column key.
Click(key) ==
  /\ sortKey' = key
  /\ sortAsc' = (sortKey = key /\ ~sortAsc)
  /\ arrows' = Arrows(key, sortAsc')
  /\ UNCHANGED drawn

\* update(): the new rows are sorted and replace the old ones.
\* Mutant: always by the default column.
UpdateByCpu ==
  /\ drawn' = {<<CpuPercent, Arrow(sortAsc)>>}
  /\ UNCHANGED <<sortKey, sortAsc, arrows>>
Update ==
  /\ drawn' = {<<sortKey, Arrow(sortAsc)>>}
  /\ UNCHANGED <<sortKey, sortAsc, arrows>>

-----------------------------------------------------------------------------
\* The values the variables take.
TableTypeOK ==
  /\ sortKey \in Keys /\ sortAsc \in BOOLEAN
  /\ arrows \in [Keys -> SUBSET {"sort-asc", "sort-desc"}]
  /\ drawn \in SUBSET (Keys \X {"sort-asc", "sort-desc"})

\* What the user sees agrees with itself: the arrows announce the order of
\* the rows.
RowsFollowArrows ==
  \A order \in drawn : \A k \in Keys :
    arrows[k] = IF k = order[1] THEN {order[2]} ELSE {}

\* "Clicking a column header sorts by that column; clicking again toggles
\* the sort direction" (ProcessTable.ts:11-12): the table is always in the
\* order its arrow announces.
ClickSorts == RowsFollowArrows
=============================================================================
