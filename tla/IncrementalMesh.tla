--------------------------- MODULE IncrementalMesh ---------------------------
(***************************************************************************)
(* A VoronoiMesh that is refined and thinned out: RefineVoronoi and        *)
(* RemoveVoronoi on one mesh, with the stable slots, the dense public      *)
(* numbering, the vertex and infinite-edge records, the neighbour lists    *)
(* with their dirty bits, and the trackers of the mesh's consumers.        *)
(*                                                                         *)
(* The calls come one after the other (the mesh is not changed by two      *)
(* threads), but their objects live longer than a call: a RemoveVoronoi is *)
(* constructed, removes and closes its holes in three calls, and other     *)
(* removals and refinements may come between them.                         *)
(*                                                                         *)
(* The geometry is given by two tables over the slots, in general          *)
(* position: Inside[sigma] are the slots strictly inside the sphere through *)
(* sigma, Beyond[edge] those on either side of an edge's supporting plane. *)
(* There are no boundary planes.  One run of ComputeVoronoi over a front   *)
(* stores every missing vertex and unbounded edge of a front cell; module  *)
(* ComputeVoronoi is about that.                                           *)
(***************************************************************************)
EXTENDS Integers, FiniteSets, Sequences, Functions

CONSTANTS
  Capacity,     \* the slots the tables know; slot i is the i-th node appended
  InitialCount, \* the nodes of the mesh that is computed at the start
  Inside,       \* [signature -> slots inside its sphere]
  Beyond,       \* [edge -> <<slots on one side, slots on the other>>]
  Admissible,   \* the sets of active slots the tables are valid for
  MaxBlock,     \* nodes one RefineVoronoi appends
  MaxDoomed,    \* nodes one RemoveVoronoi deletes
  Asked,        \* the cells whose neighbours callers ask for
  Removers,     \* the RemoveVoronoi objects
  Consumers     \* the owners of a neighbour dirty tracker

Slots == 0 .. Capacity - 1

ASSUME TableAssumption ==
  /\ Capacity \in Nat /\ InitialCount \in 1 .. Capacity
  /\ MaxBlock \in Nat /\ MaxDoomed \in Nat
  /\ Inside \in [DOMAIN Inside -> SUBSET Slots]
  /\ Beyond \in [DOMAIN Beyond -> (SUBSET Slots) \X (SUBSET Slots)]
  /\ \A sigma \in DOMAIN Inside :
       sigma # {} /\ sigma \subseteq Slots /\ sigma \cap Inside[sigma] = {}
  /\ \A e \in DOMAIN Beyond : e # {} /\ e \subseteq Slots
  /\ Admissible \subseteq SUBSET Slots /\ 0 .. InitialCount - 1 \in Admissible

\* The Voronoi vertices and the unbounded edges of a set of generators.
Diagram(nodes) ==
  {sigma \in DOMAIN Inside : sigma \subseteq nodes /\ Inside[sigma] \cap nodes = {}}
UnboundedEdges(nodes) ==
  {e \in DOMAIN Beyond : /\ e \subseteq nodes
                         /\ \E side \in 1 .. 2 : Beyond[e][side] \cap nodes = {}}

\* Voronoi cells change only beside what is added: where a vertex or an unbounded
\* edge of some nodes is none of a larger set, each of its cells has lost a part to
\* an additional node, and shares a vertex or an unbounded edge with one.
ASSUME GeometryAssumption ==
  \A all \in Admissible :
    LET vertices == Diagram(all)
        edges    == UnboundedEdges(all)
    IN
    \A few \in Admissible : few \subseteq all =>
      \A sigma \in (Diagram(few) \ vertices) \cup (UnboundedEdges(few) \ edges) :
        \A i \in sigma : \E tau \in vertices \cup edges :
          i \in tau /\ tau \cap (all \ few) # {}

VARIABLES
  total,            \* internal_nodes_.size(): the slots in use, deleted ones too
  publicToInternal, \* the dense public order of the active slots
  records,          \* the signatures of the stored vertices
  rays,             \* the signatures of the stored infinite edges
  neighbours,       \* of each slot: the current neighbour record, or NoRecord
  dirty,            \* the slots whose neighbour record is marked stale
  tracker,          \* of each consumer: its dirty bits
  remover           \* of each RemoveVoronoi: its fields

meshVars == <<total, publicToInternal, records, rays, neighbours, dirty, tracker, remover>>

\* neighbour_address 0; no record names the slot past the last one.
NoRecord == {Capacity}

Active == Range(publicToInternal)
Touching(sigmas, nodes) == {sigma \in sigmas : sigma \cap nodes # {}}

\* RemoveVoronoi: status follows the constructor, remove() and compute().
Unborn == [status |-> "none", publicCount |-> 0, internalCount |-> 0,
           publicNodes |-> {}, doomed |-> {}, affected |-> {}]

-----------------------------------------------------------------------------
(* The public numbering.                                                   *)

\* DenseIndexMapping: append at the end; a rebuild lists the active slots in
\* internal order.
PublicIndices == 0 .. Len(publicToInternal) - 1
Internal(public) == publicToInternal[public + 1]
Rebuilt(nodes) ==
  [p \in 1 .. Cardinality(nodes) |->
     CHOOSE i \in nodes : Cardinality({j \in nodes : j < i}) = p - 1]
BlockFirst(order, block) == Rebuilt(block) \o order
Appended(order, block) == order \o Rebuilt(block)

-----------------------------------------------------------------------------
(* Neighbours.                                                             *)

\* compute_internal_neighbours_from_geometry: the co-generators of the stored
\* vertices.
NeighboursIn(recs, i) == (UNION {sigma \in recs : i \in sigma}) \ {i}

\* NeighbourTrackingState::propagate: or_assign into every tracker.
Overwritten(bits, marked) == [k \in Consumers |-> marked]
Propagated(bits, marked) == [k \in Consumers |-> bits[k] \cup marked]

\* compute_neighbors for some cells: store the lists, then clear the bits.
WithLists(lists, recs, cells) ==
  [i \in Slots |-> IF i \in cells THEN NeighboursIn(recs, i) ELSE lists[i]]

\* What the mesh and the trackers become when a call has stored and erased
\* records and ends in propagate_neighbour_dirty().
PropagateUnmarked(changed) ==
  /\ dirty' = dirty
  /\ tracker' = Propagated(tracker, changed)
MarkAndPropagate(changed) ==
  /\ dirty' = dirty \cup changed
  /\ tracker' = Propagated(tracker, dirty')

-----------------------------------------------------------------------------
(* One run of ComputeVoronoi over the active cells of a front.             *)

NewVertices(front, nodes, recs)   == Touching(Diagram(nodes), front) \ recs
NewInfinite(front, nodes, stored) == Touching(UnboundedEdges(nodes), front) \ stored

\* observe_sigma: OLD generators of what the NEW-cell phase stores.
ObservesPrimaryOnly(sigmas, old) ==
  {i \in old : \E sigma \in sigmas : i \in sigma /\ \A j \in sigma : i <= j}
Observed(sigmas, old) == (UNION sigmas) \cap old

\* invalidate_old_vertices: the vertices all of whose generators are OLD and
\* AFFECTED, with a NEW node strictly inside.
IsCandidate(sigma, affected) == sigma \subseteq affected
Obsolete(recs, affected, block) ==
  {sigma \in recs : IsCandidate(sigma, affected) /\ Inside[sigma] \cap block # {}}

\* active_incremental_affected_nodes: the cells of a front.
ActiveAffected(affected, nodes, limit) == affected \cap nodes \cap 0 .. limit - 1

\* RefineVoronoi(mesh, points).compute() with a block of n points, n = 0 for
\* the early return.
Refine(n) ==
  LET block    == total .. total + n - 1
      nodes    == Active \cup block
      pushed   == NewVertices(block, nodes, records)
      edges    == NewInfinite(block, nodes, rays)
      affected == Observed(pushed \cup edges, Active)
      obsolete == Obsolete(records, affected, block)
  IN
  /\ n <= MaxBlock /\ total + n <= Capacity
  /\ nodes \in Admissible
  /\ total' = total + n
  /\ publicToInternal' = Appended(publicToInternal, block)
  /\ records' = (records \ obsolete) \cup pushed
  /\ rays' = rays \cup edges
  /\ MarkAndPropagate(block \cup (UNION pushed) \cup (UNION obsolete))
  /\ UNCHANGED <<neighbours, remover>>

-----------------------------------------------------------------------------
(* RemoveVoronoi.                                                          *)

\* The constructor: the chosen public indices become stable slots, the sizes
\* are remembered.
ConstructRemover(r, public) ==
  /\ remover[r].status = "none"
  /\ public \subseteq PublicIndices
  /\ remover' = [remover EXCEPT ![r] =
       [status |-> "constructed", publicCount |-> Len(publicToInternal),
        internalCount |-> total, publicNodes |-> public,
        doomed |-> {Internal(p) : p \in public}, affected |-> {}]]
  /\ UNCHANGED <<total, publicToInternal, records, rays, neighbours, dirty, tracker>>

\* verify_initial_owner_unchanged
OnlyInternalCompared(r) == remover[r].internalCount = total
OwnerUnchanged(r) ==
  /\ remover[r].internalCount = total
  /\ remover[r].publicCount = Len(publicToInternal)

\* collect_affected_and_erase_incident_vertices: the surviving generators of
\* the erased vertices and of the infinite edges that end.
PrimaryListsOnly(erased, ended, doomed) ==
  (UNION {sigma \in erased \cup ended : \E i \in sigma \cap doomed : \A j \in sigma : i <= j})
    \ doomed
Bereaved(erased, ended, doomed) == (UNION (erased \cup ended)) \ doomed

\* erase_nodes_if: every record in a list of a deleted node, and every infinite
\* edge that touches one.
WithoutVerticesOf(recs, nodes) == recs \ Touching(recs, nodes)
WithoutRaysOf(stored, nodes)   == stored \ Touching(stored, nodes)

\* erase_public_nodes goes by the public indices given to the constructor.
Erased(r) == {Internal(p) : p \in remover[r].publicNodes \cap PublicIndices}

\* The mesh as it is, and as remove() leaves it; affected is the front that is
\* to be closed.
AsItIs(r) == [order |-> publicToInternal, records |-> records, rays |-> rays,
              changed |-> {}, affected |-> remover[r].affected]
AfterRemoval(r) ==
  LET doomed == remover[r].doomed
      erased == Touching(records, doomed \cup Erased(r))
  IN [order    |-> Rebuilt(Active \ Erased(r)),
      records  |-> WithoutVerticesOf(records, doomed \cup Erased(r)),
      rays     |-> WithoutRaysOf(rays, Erased(r)),
      changed  |-> UNION erased,
      affected |-> Bereaved(Touching(records, doomed), Touching(rays, doomed), doomed)]

RemoveNodes(r) ==
  LET after == AfterRemoval(r) IN
  /\ remover[r].status = "constructed"
  /\ OwnerUnchanged(r)
  /\ Range(after.order) \in Admissible
  /\ publicToInternal' = after.order
  /\ records' = after.records
  /\ rays' = after.rays
  /\ MarkAndPropagate(after.changed)
  /\ remover' = [remover EXCEPT ![r].status = "removed", ![r].affected = after.affected]
  /\ UNCHANGED <<total, neighbours>>

\* compute() removes first if that has not been done, then closes the holes
\* around the active cells of the front.  The repair phase observes nothing.
CloseHoles(r) ==
  LET before == IF remover[r].status = "removed" THEN AsItIs(r) ELSE AfterRemoval(r)
      nodes  == Range(before.order)
      front  == ActiveAffected(before.affected, nodes, remover[r].internalCount)
      pushed == NewVertices(front, nodes, before.records)
  IN
  /\ remover[r].status \in {"constructed", "removed"}
  /\ remover[r].status = "constructed" => OwnerUnchanged(r)
  /\ nodes \in Admissible
  /\ publicToInternal' = before.order
  /\ records' = before.records \cup pushed
  /\ rays' = before.rays \cup NewInfinite(front, nodes, before.rays)
  /\ MarkAndPropagate(before.changed \cup (UNION pushed))
  /\ remover' = [remover EXCEPT ![r].status = "computed", ![r].affected = before.affected]
  /\ UNCHANGED <<total, neighbours>>

\* A caller asks the mesh for the neighbours of one cell.
ComputeNeighbors(i) ==
  /\ neighbours' = WithLists(neighbours, records, {i})
  /\ dirty' = dirty \ {i}
  /\ UNCHANGED <<total, publicToInternal, records, rays, tracker, remover>>

-----------------------------------------------------------------------------
\* A mesh that ComputeVoronoi has completed, and consumers whose trackers took
\* over its dirty bits when they were requested.
MeshInit ==
  LET nodes == 0 .. InitialCount - 1 IN
  /\ total = InitialCount
  /\ publicToInternal = Rebuilt(nodes)
  /\ records = Diagram(nodes)
  /\ rays = UnboundedEdges(nodes)
  /\ neighbours = [i \in Slots |-> NoRecord]
  /\ dirty = nodes
  /\ tracker = [k \in Consumers |-> nodes]
  /\ remover = [r \in Removers |-> Unborn]

MeshNext ==
  \/ \E n \in 0 .. MaxBlock : Refine(n)
  \/ \E r \in Removers, public \in SUBSET PublicIndices :
       Cardinality(public) \in 1 .. MaxDoomed /\ ConstructRemover(r, public)
  \/ \E r \in Removers : RemoveNodes(r) \/ CloseHoles(r)
  \/ \E i \in Active \cap Asked : ComputeNeighbors(i)

-----------------------------------------------------------------------------
(* Properties.                                                             *)

TypeOK ==
  /\ total \in InitialCount .. Capacity
  /\ publicToInternal \in Seq(0 .. total - 1)
  /\ \A p \in PublicIndices : p > 0 => Internal(p - 1) < Internal(p)
  /\ records \subseteq DOMAIN Inside /\ rays \subseteq DOMAIN Beyond
  /\ neighbours \in [Slots -> (SUBSET (0 .. total - 1)) \cup {NoRecord}]
  /\ dirty \subseteq 0 .. total - 1
  /\ tracker \in [Consumers -> SUBSET (0 .. total - 1)]
  /\ \A r \in Removers :
       /\ remover[r].status \in {"none", "constructed", "removed", "computed"}
       /\ remover[r].doomed \cup remover[r].affected \subseteq 0 .. total - 1

\* No stored vertex is contradicted by an active node: between any two calls,
\* holes or not, every record is a vertex of the diagram of the active nodes
\* (invalidate_old_vertices looks only at AFFECTED cells and needs no other).
NoStaleVertex == records \subseteq Diagram(Active)

\* A vertex or an unbounded edge the mesh lacks touches the front of a removal
\* that still has to be computed, so the diagram is complete when none is:
\* also when removals overlap, or a refinement comes between remove() and
\* compute().
HolesAreRemembered ==
  \A sigma \in (Diagram(Active) \ records) \cup (UnboundedEdges(Active) \ rays) :
    \E r \in Removers : /\ remover[r].status = "removed"
                        /\ remover[r].affected \cap sigma # {}

\* A neighbour record whose dirty bit is clear lists the neighbours the stored
\* vertices give now, also for a slot whose node was deleted.
CleanListsAreCurrent ==
  \A i \in 0 .. total - 1 : i \notin dirty => neighbours[i] = NeighboursIn(records, i)

\* The nodes a removal deletes are those its constructor was given, although it
\* names them again by public indices that other calls renumber.
RemovesTheChosenNodes ==
  [][\A r \in Removers :
       remover[r].status = "constructed" /\ remover'[r].status \in {"removed", "computed"}
         => Active' = Active \ remover[r].doomed]_meshVars
=============================================================================
