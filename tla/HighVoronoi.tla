----------------------------- MODULE HighVoronoi -----------------------------
(***************************************************************************)
(* HighVoronoiMesh and ComputeHighVoronoi: a mesh in a periodic domain.    *)
(* The user appends and erases visible nodes; compute() then brings the    *)
(* stored vertices up to date in one transaction of several phases, which  *)
(* adds invisible copies of visible nodes beyond the periodic planes and   *)
(* moves the mesh's own (internal) boundary outwards around them.          *)
(*                                                                         *)
(* Calls come one after the other.  A run of ComputeVoronoi over a front   *)
(* finds what module EdgeWalk says; that is clipped by the internal        *)
(* boundary of the moment, and a vertex on a periodic plane is seen but    *)
(* not stored.                                                             *)
(***************************************************************************)
EXTENDS EdgeWalk

CONSTANTS
  InitialPoints,   \* the visible nodes a new mesh is given, in order
  MorePoints,      \* the points that may be appended later
  Capacity,        \* the slots a run may use
  MaxAppended,     \* the nodes appended and
  MaxErased,       \*   the visible nodes erased between two calls of compute()
  MinVisible,      \* the visible nodes that stay
  MaximumRounds,   \* the values of Settings::maximum_rounds in use
  MaximumSweeps,   \* the values of maximum_periodic_repair_sweeps
  RoundsNeeded,    \* the rounds after which a closure should have ended
  MayRetry         \* whether compute() is called again after it has thrown

ASSUME MeshAssumption ==
  /\ InitialPoints \in Seq(Int \X Int) /\ MorePoints \subseteq Int \X Int
  /\ \A p \in DOMAIN InitialPoints : Contains(ExternalBoundary, InitialPoints[p])
  /\ \A point \in MorePoints : Contains(ExternalBoundary, point)
  /\ Capacity \in Nat /\ Capacity + Cardinality(Planes) < InvalidIndex
  /\ Len(InitialPoints) <= Capacity
  /\ MaxAppended \in Nat /\ MaxErased \in Nat /\ MinVisible \in Nat /\ RoundsNeeded \in Nat /\ MayRetry \in BOOLEAN
  /\ MaximumRounds \subseteq Nat /\ MaximumSweeps \subseteq Nat

VARIABLES
  slots,          \* internal_nodes_ with visible_, references_, reference_shifts_
  active,         \* the slots that are not deleted
  boundary,       \* internal_boundary_
  records,        \* the signatures of the stored vertices
  integrated,     \* integrated_node_count_
  pendingDeleted, \* pending_deleted_internal_nodes_
  phase,          \* where compute() is, or "rest"
  outcome,        \* how the last compute() ended
  block,          \* the NEW nodes to refine, and where they start:
  old,            \*   nodes from old on are not OLD
  requests,       \* <<node, plane>>: mirrors the last phase has asked for
  remover,        \* the RemoveVoronoi of compute(): its affected nodes, and how
                  \*   far it has come ("none", "removed", "computed")
  rounds,         \* report.rounds
  settings,       \* maximum_rounds and maximum_periodic_repair_sweeps in force
  dirty,          \* HighVoronoiSparseRepairState: the cells of the next sweep
  listed,         \*   and the vertices its database view lists
  sweeps,
  seeds           \* periodic_repair_seed_signatures_

meshVars    == <<slots, active, boundary, records, integrated, pendingDeleted>>
computeVars == <<phase, outcome, block, old, requests, remover, rounds, settings,
                 dirty, listed, sweeps, seeds>>
vars        == <<meshVars, computeVars>>

-----------------------------------------------------------------------------
(* The mesh.                                                               *)

NoReference == InvalidIndex
Visible(point) ==
  [point |-> point, visible |-> TRUE, reference |-> NoReference, shift |-> {}]
Copy(slot, reference, shift) ==
  [point |-> Sum2(slot[reference].point, PeriodicShift(shift)), visible |-> FALSE,
   reference |-> reference, shift |-> shift]

\* slots is a sequence; slot i is its element i + 1.
Count      == Len(slots)
Slot       == [i \in 0 .. Count - 1 |-> slots[i + 1]]
IsCopy(i)  == i \in active /\ ~Slot[i].visible
VisibleNodes == {i \in active : Slot[i].visible}
Positions  == [i \in active |-> Slot[i].point]

\* The user calls between computations; a mesh whose computation failed is used
\* again if MayRetry.
InUse == phase = "rest" /\ (MayRetry \/ outcome \in {"none", "complete"})

\* The public numbering lists the active visible slots in internal order.
PublicToInternal ==
  [public \in 0 .. Cardinality(VisibleNodes) - 1 |->
     CHOOSE i \in VisibleNodes : Cardinality({j \in VisibleNodes : j < i}) = public]

FindReferenceCopy(reference, shift) ==
  {i \in active : IsCopy(i) /\ Slot[i].reference = reference /\ Slot[i].shift = shift}

AppendVisibleNode(point) ==
  /\ InUse /\ Count < Capacity /\ Count - integrated < MaxAppended
  /\ Contains(ExternalBoundary, point)
  /\ \A i \in active : Slot[i].point # point
  /\ slots' = Append(slots, Visible(point))
  /\ active' = active \cup {Count}
  /\ UNCHANGED <<boundary, records, integrated, pendingDeleted, computeVars>>

\* A visible node goes with every copy that refers to it.
WithCopies(nodes) == nodes \cup {i \in DOMAIN Slot : Slot[i].reference \in nodes}

EraseVisibleNodes(public) ==
  LET selected == WithCopies({PublicToInternal[p] : p \in public}) \cap active IN
  /\ InUse /\ Cardinality({i \in pendingDeleted \cup selected : Slot[i].visible}) <= MaxErased
  /\ Cardinality(VisibleNodes \ selected) >= MinVisible
  /\ active' = active \ selected
  /\ pendingDeleted' = pendingDeleted \cup selected
  /\ UNCHANGED <<slots, boundary, records, integrated, computeVars>>

PendingNewVisible == {i \in VisibleNodes : i >= integrated}

\* expand_internal_boundary_to_include: beyond a point that lies outside a
\* periodic plane of the domain there must be as much room again.
RoomFor(point, plane) ==
  LET outside == HalfspaceValue(ExternalBoundary, plane, point)
  IN HalfspaceValue(boundary, plane, point) + (IF outside > 0 THEN outside ELSE 0)
Expanded(points) ==
  [plane \in Planes |->
     IF IsPeriodic(plane)
     THEN boundary[plane] + Greatest({0} \cup {RoomFor(point, plane) : point \in points})
     ELSE boundary[plane]]

-----------------------------------------------------------------------------
(* What a phase sees and asks for.                                         *)

\* What a run over a front may find when it is offered some vertices.
Found(front, offered) ==
  Walks([at |-> Positions, boundary |-> boundary], front, offered, records)

\* observe_sigma: a visible node on a periodic plane is mirrored through it; a
\* visible node beside a copy is mirrored through the partners of the planes
\* the copy was shifted through.
AsksFor(sigma) ==
  LET seen   == {i \in Ordinary(sigma) : i \in VisibleNodes}
      copies == {i \in Ordinary(sigma) : IsCopy(i)}
  IN seen \X ({plane \in PeriodicPlanes : EncodeBoundary(plane) \in sigma}
              \cup {Partner(plane) : plane \in UNION {Slot[i].shift : i \in copies}})
RequestsOf(sigmas) == UNION {AsksFor(sigma) : sigma \in sigmas}

\* The vertices the database does not keep.
Suppressed(sigmas) == {sigma \in sigmas : OnPeriodicPlane(sigma)}

\* observe_existing_new_vertices: what is stored of the cells of the block.
Recalled == Touching(records, block)

\* collect_affected_and_erase_incident_vertices of a RemoveVoronoi.
Incident == Touching(records, pendingDeleted)
Bereaved == (UNION Incident) \cap active

\* materialize_periodic_requests: the copies that do not exist yet.
Planned ==
  LET wanted(i) == {request[2] : request \in {q \in requests : q[1] = i}}
  IN UNION {{[reference |-> i, shift |-> mask] :
               mask \in {m \in ShiftMasks(wanted(i)) \ {{}} : FindReferenceCopy(i, m) = {}}} :
              i \in {request[1] : request \in requests} \cap VisibleNodes}

\* Their order: by node, then a mask before one that adds its first plane.
Precedes(a, b) ==
  \/ a.reference < b.reference
  \/ /\ a.reference = b.reference
     /\ LET differing == (a.shift \cup b.shift) \ (a.shift \cap b.shift)
        IN differing # {} /\ Least(differing) \in b.shift
InOrder(plan) ==
  [k \in 1 .. Cardinality(plan) |->
     CHOOSE c \in plan : Cardinality({d \in plan : Precedes(d, c)}) = k - 1]

\* collect_periodic_boundary_repair_seeds: at each suppressed vertex, the edges
\* of its first node's cell that leave a periodic plane lead to an opposite
\* vertex; it is kept if it is stored.
EdgesAlong(sigma) ==
  {edge \in {sigma \ {g} : g \in sigma} :
     /\ Least(sigma) \in edge
     /\ \E plane \in PeriodicPlanes : EncodeBoundary(plane) \in edge}
OpeningEdges(sigma) ==
  {edge \in {sigma \ {g} : g \in sigma} :
     /\ Least(sigma) \in edge
     /\ \E plane \in PeriodicPlanes : EncodeBoundary(plane) \in sigma \ edge}
SeedsFrom(suppressed, stored) ==
  {tau \in stored : \E sigma \in suppressed : \E edge \in OpeningEdges(sigma) :
     edge \subseteq tau}

\* invalidate_old_vertices of a RefineVoronoi over nodes that are in the mesh
\* already: seen are the vertices it came across.
OldByWatermark(seen) == {i \in active : i < integrated} \cap (UNION seen)
AffectedBy(seen) == {i \in active : i < old} \cap (UNION seen)
Obsolete(seen) ==
  {sigma \in records :
     /\ Ordinary(sigma) \subseteq AffectedBy(seen)
     /\ \E b \in block : Closer(Positions, boundary, sigma, b)}

-----------------------------------------------------------------------------
(* compute().                                                              *)

NoSettings == [rounds |-> 0, sweeps |-> 0]
NoRemover  == [status |-> "none", affected |-> {}]

\* An exception ends compute(): what is in the mesh stays, the transaction's own
\* state is lost.
GiveUp(reason) ==
  /\ phase' = "rest" /\ outcome' = reason
  /\ block' = {} /\ old' = 0 /\ requests' = {} /\ remover' = NoRemover
  /\ dirty' = {} /\ listed' = {} /\ sweeps' = 0
  /\ rounds' = 0 /\ settings' = NoSettings

\* The start, on the same ComputeHighVoronoi as before or on a new one: nodes
\* that were erased take their vertices with them.
Begin(maxima, sameObject) ==
  /\ InUse
  /\ records' = records \ Incident
  /\ remover' = IF pendingDeleted = {} THEN NoRemover
                ELSE [status |-> "removed", affected |-> Bereaved]
  /\ seeds' = IF sameObject THEN seeds ELSE {}
  /\ block' = PendingNewVisible /\ old' = integrated
  /\ phase' = IF PendingNewVisible = {} THEN "removal" ELSE "refine"
  /\ settings' = maxima /\ rounds' = 0 /\ sweeps' = 0 /\ outcome' = "computing"
  /\ UNCHANGED <<slots, active, boundary, integrated, pendingDeleted, requests, dirty, listed>>

\* refine_existing_block: the cells of the block are computed, what it sees of
\* old vertices is looked through, and the first block of all leaves seeds.
RefineBlock ==
  /\ phase = "refine" /\ rounds < settings.rounds
  /\ rounds' = rounds + 1
  /\ \E found \in Found(block, records) :
       LET suppressed == Suppressed(found)
           seen       == Recalled \cup found
           stored     == (records \ Obsolete(seen)) \cup (found \ suppressed)
       IN /\ records' = stored
          /\ requests' = RequestsOf(seen)
          /\ seeds' = IF old = 0 THEN seeds \cup SeedsFrom(suppressed, stored) ELSE seeds
  /\ phase' = "closing"
  /\ UNCHANGED <<slots, active, boundary, integrated, pendingDeleted, outcome,
                 block, old, remover, settings, dirty, listed, sweeps>>

RoundLimit ==
  /\ phase = "refine" /\ rounds >= settings.rounds
  /\ GiveUp("round limit")
  /\ UNCHANGED <<meshVars, seeds>>

\* One turn of close_periodic_requests: the copies asked for are appended, and
\* are the next block.  Capacity is a bound of the model, not of the code: where the
\* copies do not fit the model stops, and says nothing of that transaction.
AppendReferences ==
  LET plan  == InOrder(Planned)
      added == [k \in DOMAIN plan |-> Copy(Slot, plan[k].reference, plan[k].shift)]
  IN
  /\ phase = "closing" /\ Planned # {}
  /\ Count + Len(plan) <= Capacity
  /\ boundary' = Expanded({added[k].point : k \in DOMAIN added})
  /\ slots' = slots \o added
  /\ block' = Count .. Count + Len(plan) - 1
  /\ active' = active \cup block'
  /\ old' = Count
  /\ requests' = {}
  /\ phase' = "refine"
  /\ UNCHANGED <<records, integrated, pendingDeleted, outcome, remover, rounds, settings,
                 dirty, listed, sweeps, seeds>>

RequestsClosed ==
  /\ phase = "closing" /\ Planned = {}
  /\ requests' = {} /\ block' = {}
  /\ phase' = IF remover.status = "removed" THEN "removal" ELSE "repair"
  /\ UNCHANGED <<meshVars, outcome, old, remover, rounds, settings, dirty, listed, sweeps, seeds>>

\* RemoveVoronoi::compute() closes the cells that lost vertices, in the mesh as
\* the refinement has left it.
CloseHoles ==
  /\ phase = "removal" /\ remover.status = "removed"
  /\ \E found \in Found(remover.affected \cap active, records) :
       /\ records' = records \cup (found \ Suppressed(found))
       /\ requests' = RequestsOf(found)
  /\ remover' = [remover EXCEPT !.status = "computed"]
  /\ phase' = "closing"
  /\ UNCHANGED <<slots, active, boundary, integrated, pendingDeleted, outcome, block, old,
                 rounds, settings, dirty, listed, sweeps, seeds>>

NothingRemoved ==
  /\ phase = "removal" /\ remover.status = "none"
  /\ phase' = "repair"
  /\ UNCHANGED <<meshVars, outcome, block, old, requests, remover, rounds, settings, dirty,
                 listed, sweeps, seeds>>

\* The sparse repair: the seeds that are still stored, and the visible cells
\* around them.
StillStored == seeds \cap records
CellsOf(sigmas) == (UNION sigmas) \cap VisibleNodes

ResolveSeeds ==
  /\ phase = "repair"
  /\ listed' = StillStored
  /\ dirty' = CellsOf(StillStored)
  /\ phase' = "sweep"
  /\ UNCHANGED <<meshVars, outcome, block, old, requests, remover, rounds, settings, sweeps,
                 seeds>>

\* A sweep computes the dirty cells; a vertex it stores makes its visible cells
\* dirty again.  Meeting a new vertex at a copy is an error.
AtCopy(sigmas) == {sigma \in sigmas : \E i \in Ordinary(sigma) : IsCopy(i)}

Sweep ==
  /\ phase = "sweep" /\ dirty # {} /\ sweeps < settings.sweeps
  /\ \E walked \in Found(dirty, listed) :
       LET found == walked \ (records \cup Suppressed(walked)) IN
       /\ records' = records \cup (found \ AtCopy(found))
       /\ IF AtCopy(found) # {} THEN GiveUp("copy met")
          ELSE /\ dirty' = CellsOf(found)
               /\ listed' = listed \cup found
               /\ sweeps' = sweeps + 1
               /\ UNCHANGED <<phase, outcome, block, old, requests, remover, rounds, settings>>
  /\ UNCHANGED <<slots, active, boundary, integrated, pendingDeleted, seeds>>

SweepLimit ==
  /\ phase = "sweep" /\ dirty # {} /\ sweeps >= settings.sweeps
  /\ GiveUp("sweep limit")
  /\ UNCHANGED <<meshVars, seeds>>

\* mark_integrated()
Finish ==
  /\ phase = "sweep" /\ dirty = {}
  /\ integrated' = Count
  /\ pendingDeleted' = {}
  /\ GiveUp("complete")
  /\ UNCHANGED <<slots, active, boundary, records, seeds>>

-----------------------------------------------------------------------------
Init ==
  /\ slots = [p \in DOMAIN InitialPoints |-> Visible(InitialPoints[p])]
  /\ active = 0 .. Len(InitialPoints) - 1
  /\ boundary = ExternalBoundary
  /\ records = {} /\ integrated = 0 /\ pendingDeleted = {}
  /\ phase = "rest" /\ outcome = "none"
  /\ block = {} /\ old = 0 /\ requests = {} /\ remover = NoRemover
  /\ rounds = 0 /\ settings = NoSettings
  /\ dirty = {} /\ listed = {} /\ sweeps = 0 /\ seeds = {}

ComputeStep ==
  \/ RefineBlock \/ RoundLimit \/ AppendReferences \/ RequestsClosed
  \/ CloseHoles \/ NothingRemoved
  \/ ResolveSeeds \/ Sweep \/ SweepLimit \/ Finish

Next ==
  \/ \E point \in MorePoints : AppendVisibleNode(point)
  \/ \E p \in DOMAIN PublicToInternal : EraseVisibleNodes({p})
  \/ \E maxima \in [rounds : MaximumRounds, sweeps : MaximumSweeps],
        sameObject \in BOOLEAN : Begin(maxima, sameObject)
  \/ ComputeStep

Spec == Init /\ [][Next]_vars

-----------------------------------------------------------------------------
(* Properties.                                                             *)

\* Nothing is pending after a compute() that returned.
UpToDate ==
  phase = "rest" /\ outcome = "complete" /\ integrated = Count /\ pendingDeleted = {}

\* The periodic tiling, explicitly: every visible node in the domain and in the
\* tiles around it, between the walls that are not periodic.
Tiles == ShiftMasks(PeriodicPlanes)
Tiling ==
  LET visible == PublicToInternal
      tiles   == [k \in 0 .. Cardinality(Tiles) - 1 |->
                    CHOOSE m \in Tiles :
                      Cardinality({t \in Tiles : Precedes([reference |-> 0, shift |-> t],
                                                          [reference |-> 0, shift |-> m])}) = k]
      size    == Cardinality(VisibleNodes)
  IN [k \in 0 .. size * Cardinality(Tiles) - 1 |->
        Sum2(Slot[visible[k % size]].point, PeriodicShift(tiles[k \div size]))]

\* A signature by the points of its nodes and the codes of its planes.
Located(at, sigma) ==
  {IF g \in BoundaryCodes THEN <<g>> ELSE at[g] : g \in sigma}

\* When compute() has returned, the cell of every visible node has the vertices
\* it has in the explicit periodic tiling, and no others.
MeshIsPeriodic ==
  UpToDate =>
    {Located(Positions, sigma) : sigma \in Touching(records, VisibleNodes)}
      = LET front == 0 .. Cardinality(VisibleNodes) - 1
        IN {Located(Tiling, sigma) :
              sigma \in VerticesOf(front, Tiling, ExternalBoundary, Planes \ PeriodicPlanes)}

\* When compute() has returned, no stored vertex of any cell, of a copy's too,
\* has a node closer to it than its own, or names a deleted node.
NoStaleRecord ==
  UpToDate =>
    \A sigma \in records :
      /\ Ordinary(sigma) \subseteq active
      /\ \A b \in active \ sigma : ~Closer(Positions, boundary, sigma, b)

\* The rounds of periodic copies close within a few, and the sparse repair meets
\* no vertex at a copy that the closure should have found.
ClosureSuffices ==
  /\ rounds <= RoundsNeeded
  /\ outcome # "copy met"
=============================================================================
