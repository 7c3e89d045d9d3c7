---------------------------- MODULE BranchViews ----------------------------
(***************************************************************************)
(* How ComputeVoronoi divides the cells 0 .. RangeEnd among its branches   *)
(* and how a branch renumbers the generators: SwitchView brings the        *)
(* branch's own block of cells to the front, so that "the smallest local   *)
(* index" is always one of its own cells when it has one.                  *)
(***************************************************************************)
EXTENDS Integers

CONSTANTS
  NodeCount,     \* mesh.size(): the ordinary generators 0 .. NodeCount - 1
  RangeEnd,      \* the last cell to compute
  MeshThreads    \* mesh_threading.thread_count()

ASSUME BranchAssumption ==
  /\ NodeCount \in Nat /\ RangeEnd \in Nat /\ MeshThreads \in Nat
  /\ RangeEnd < NodeCount    \* resolve_range_end
  /\ MeshThreads > 0         \* MultiThread rejects zero threads

TotalCells  == RangeEnd + 1
BranchCount == IF MeshThreads < TotalCells THEN MeshThreads ELSE TotalCells
Branches    == 0 .. BranchCount - 1

\* initialize_parallel_branches: equal blocks, the remainder spread over the
\* first branches.
BaseLength == TotalCells \div BranchCount
Remainder  == TotalCells % BranchCount
CellCount(b) == BaseLength + (IF b < Remainder THEN 1 ELSE 0)
FirstCell(b) == b * BaseLength + (IF b < Remainder THEN b ELSE Remainder)
LastCell(b)  == FirstCell(b) + CellCount(b) - 1

\* A view that forgets that the cells before its block move up.
MapWithoutShift(b, i) ==
  IF i \in FirstCell(b) .. LastCell(b) THEN i - FirstCell(b) ELSE i

\* SwitchView::map_index, from the numbering of the wrapped mesh to the
\* branch's.
MapIndex(b, i) ==
  IF i > LastCell(b) THEN i
  ELSE IF i >= FirstCell(b) THEN i - FirstCell(b) ELSE i + CellCount(b)

\* SwitchView::unmap_index, the way back.
UnmapIndex(b, i) ==
  IF i > LastCell(b) THEN i
  ELSE IF i < CellCount(b) THEN i + FirstCell(b) ELSE i - CellCount(b)

\* Signatures are translated generator by generator.  Boundary mirrors have
\* indices from NodeCount on and keep them.
ToBranch(b, sigma) == {IF g < NodeCount THEN MapIndex(b, g) ELSE g : g \in sigma}
ToMesh(b, sigma)   == {IF g < NodeCount THEN UnmapIndex(b, g) ELSE g : g \in sigma}
=============================================================================
