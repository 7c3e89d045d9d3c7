--------------------------- MODULE VoronoiIntegral ---------------------------
(***************************************************************************)
(* Persistent integrals over an incrementally changed mesh: several        *)
(* VoronoiIntegral objects, each a consumer of the mesh's dirty bits, and  *)
(* Integrator::integrate() with the polygon or the Monte-Carlo algorithm   *)
(* (whose estimates are exact here).                                       *)
(*                                                                         *)
(* A pass schedules the cells it has no data for and those its tracker     *)
(* marks; bounded cells are measured, reusing every interface to a cell    *)
(* that is not scheduled; unbounded ones are given infinity and what their *)
(* bounded neighbours know; only then is everything published.             *)
(*                                                                         *)
(* The area of an interface is given by the set of its vertices: two areas *)
(* are equal here only if the facets have the same vertices.  The volume   *)
(* of a bounded cell is a sum over its areas, so it is current when they   *)
(* are.                                                                    *)
(***************************************************************************)
EXTENDS IncrementalMesh

CONSTANTS
  Algorithm,     \* "polygon" or "montecarlo"
  Threads,       \* ParallelIntegrationExecution::workers
  FacetSize,     \* the least number of vertices of a facet with an area
  MeasuresHoles, \* whether integrate() is called between remove() and compute()
  Interrupted    \* bound: how many cells are published when publishing throws

ASSUME AlgorithmAssumption == Algorithm \in {"polygon", "montecarlo"}

VARIABLE data   \* of each consumer and slot: the published cell, or NoData

vars == <<meshVars, data>>

\* Areas that no facet has: +infinity and the quiet NaN.  Zero is the area of
\* a facet with too few vertices and the value of a field that was reset.
Zero     == {}
Infinite == {{}}
NaN      == {{Capacity}}

\* bounded says how the cell was classed when it was measured: the volume of
\* an unbounded cell is +infinity.
NoData == [bounded |-> FALSE, area |-> [j \in NoRecord |-> NaN]]

HasData(k, i) == data[k][i] # NoData

HasHoles == \E r \in Removers : remover[r].status = "removed"

Facet(i, j) == {sigma \in records : {i, j} \subseteq sigma}
Area(i, j)  == IF Cardinality(Facet(i, j)) < FacetSize THEN Zero ELSE Facet(i, j)

\* build_unbounded_state: the cells and the interfaces an infinite edge names.
IsUnbounded(i)             == \E e \in rays : i \in e
IsUnboundedInterface(i, j) == \E e \in rays : {i, j} \subseteq e

-----------------------------------------------------------------------------
(* The plan of a pass.                                                     *)

\* build_order: NEW cells and DIRTY ones, NEW before DIRTY; the bounded ones come
\* first in the view and are the work of the pass, the unbounded ones behind.
Scheduled(k) == {i \in Active : ~HasData(k, i) \/ i \in tracker[k]}
Plan(k) ==
  LET cells  == Scheduled(k)
      finite == {i \in cells : ~IsUnbounded(i)}
      fresh  == {i \in cells : ~HasData(k, i)}
      prefix == Rebuilt(fresh \cap finite) \o Rebuilt(finite \ fresh)
  IN [cells |-> cells, finite |-> finite, prefix |-> prefix,
      order |-> prefix \o Rebuilt(fresh \ finite) \o Rebuilt(cells \ (fresh \cup finite))]

\* The work is split into contiguous ranges; the view of a worker has its own
\* range first and the other work of the pass behind it.
Crew(count) == IF count <= 1 THEN 1 ELSE IF Threads < count THEN Threads ELSE count
Share(plan, w) ==
  LET count == Len(plan.prefix) IN
  (count * w) \div Crew(count) + 1 .. (count * (w + 1)) \div Crew(count)
Position(plan, i) == CHOOSE p \in DOMAIN plan.prefix : plan.prefix[p] = i
WorkerOf(plan, i) ==
  CHOOSE w \in 0 .. Crew(Len(plan.prefix)) - 1 : Position(plan, i) \in Share(plan, w)
Own(plan, i) == {plan.prefix[p] : p \in Share(plan, WorkerOf(plan, i))}

\* is_calculate_neighbour: every scheduled cell, another worker's too.
IsCalculateNeighbour(plan, i, j) == j \in plan.cells

\* prepare_update: the lists of the scheduled cells are made current when they
\* are dirty or missing.
Outdated(cells) == {i \in cells : i \in dirty \/ neighbours[i] = NoRecord}
EnsureLists(cells) ==
  /\ neighbours' = WithLists(neighbours, records, Outdated(cells))
  /\ dirty' = dirty \ Outdated(cells)

\* retarget_cell and the loop after it: the area of an interface that was
\* there before survives unless the cell on the other side is scheduled.
RequiresRecompute(k, plan, i, j) ==
  ~HasData(k, i) \/ j \notin DOMAIN data[k][i].area \/ j \in plan.cells
Kept(k, plan, i, j) ==
  IF RequiresRecompute(k, plan, i, j) THEN Zero ELSE data[k][i].area[j]

\* iterative_volume: an interface to a scheduled cell is measured on the side
\* that comes first in the worker's view, and taken over on the other.
FirstPass(plan, i, j) ==
  IF j \in Own(plan, i) /\ Position(plan, j) < Position(plan, i)
  THEN Area(j, i) ELSE Area(i, j)

\* has_area_data: a comparison with zero, false for NaN.
IsPositive(area) == area \notin {Zero, NaN}

\* cleanup_cell: any other interface is kept or, if there is nothing to keep,
\* read from the cell on the other side, where i must be known.
Known(k, i, j) == HasData(k, j) /\ i \in DOMAIN data[k][j].area
CleanupThrows(k, plan, i) ==
  Algorithm = "polygon" /\ \E j \in neighbours'[i] :
    /\ ~IsCalculateNeighbour(plan, i, j)
    /\ ~IsPositive(Kept(k, plan, i, j)) /\ ~Known(k, i, j)
CleanedUp(k, plan, i, j) ==
  IF IsCalculateNeighbour(plan, i, j) THEN FirstPass(plan, i, j)
  ELSE IF IsPositive(Kept(k, plan, i, j)) THEN Kept(k, plan, i, j)
  ELSE data[k][j].area[i]

\* MonteCarloAlgorithm::integrate_cell fills every area with zero and adds the
\* rays that hit an interface it has to recompute; its cleanup averages the two
\* sides of an interface inside the pass.
Sampled(k, plan, i, j) ==
  IF RequiresRecompute(k, plan, i, j) THEN Area(i, j) ELSE Zero

Measured(k, plan, i, j) ==
  IF Algorithm = "polygon" THEN CleanedUp(k, plan, i, j) ELSE Sampled(k, plan, i, j)

\* finalize_unbounded_update: infinity across an infinite edge, what the
\* bounded cell on the other side has, or NaN.
Finalized(k, plan, i, j) ==
  IF IsUnboundedInterface(i, j) THEN Infinite
  ELSE IF IsUnbounded(j) THEN NaN
  ELSE IF j \in plan.finite
       THEN IF i \in neighbours'[j] THEN Measured(k, plan, j, i) ELSE NaN
  ELSE IF Known(k, i, j) THEN data[k][j].area[i] ELSE NaN

Update(k, plan, i) ==
  [bounded |-> i \in plan.finite,
   area    |-> [j \in neighbours'[i] |->
                  IF i \in plan.finite THEN Measured(k, plan, i, j)
                                       ELSE Finalized(k, plan, i, j)]]

\* commit_update and finish_update: the transactions of these cells are published,
\* each at once, and those of the plan are clean for this consumer.
Publish(k, plan, cells) ==
  data' = [data EXCEPT ![k] =
    [i \in Slots |-> IF i \in cells THEN Update(k, plan, i) ELSE data[k][i]]]
FinishUpdate(k, plan) == tracker' = [tracker EXCEPT ![k] = @ \ plan.cells]

\* Integrator::integrate() to its end.
Integrate(k) ==
  LET plan == Plan(k) IN
  /\ MeasuresHoles \/ ~HasHoles
  /\ plan.cells # {}
  /\ EnsureLists(plan.cells)
  /\ \A i \in plan.finite : ~CleanupThrows(k, plan, i)
  /\ Publish(k, plan, plan.cells)
  /\ FinishUpdate(k, plan)
  /\ UNCHANGED <<total, publicToInternal, records, rays, remover>>

First(plan, count) == {plan.order[p] : p \in 1 .. count}

\* integrate() that throws while it measures, in the algorithm or in its cleanup:
\* the lists of the cells prepared so far are current; nothing is published.  Of the
\* throws among the unbounded cells the model has the last (a bound).
MeasuringThrows(k, plan) ==
  /\ \E count \in DOMAIN plan.prefix \cup {Len(plan.order)} : EnsureLists(First(plan, count))
  /\ UNCHANGED data

\* integrate() that throws in commit_all() or in the loop behind it, for want of
\* memory for the records of a cell: the cells before it are published, and none
\* is clean.
PublishingThrows(k, plan) ==
  /\ EnsureLists(plan.cells)
  /\ \A i \in plan.finite : ~CleanupThrows(k, plan, i)
  /\ \E count \in Interrupted :
       count < Len(plan.order) /\ Publish(k, plan, First(plan, count))

IntegrateThrows(k) ==
  LET plan == Plan(k) IN
  /\ MeasuresHoles \/ ~HasHoles
  /\ MeasuringThrows(k, plan) \/ PublishingThrows(k, plan)
  /\ UNCHANGED <<total, publicToInternal, records, rays, tracker, remover>>

-----------------------------------------------------------------------------
Init == MeshInit /\ data = [k \in Consumers |-> [i \in Slots |-> NoData]]

Next ==
  \/ MeshNext /\ UNCHANGED data
  \/ \E k \in Consumers : Integrate(k) \/ IntegrateThrows(k)

Spec == Init /\ [][Next]_vars

-----------------------------------------------------------------------------
(* Properties.                                                             *)

\* What a consumer has published for a cell that its tracker calls clean is
\* what the mesh has now: the neighbours, whether the cell is bounded, and every
\* area that is a number at all.  An area is a set of vertices, so this fails
\* when a cell keeps an interface one of whose vertices has moved.
MeasuresAreCurrent ==
  \A k \in Consumers : \A i \in Active \ tracker[k] : HasData(k, i) =>
    LET cell == data[k][i] IN
    /\ DOMAIN cell.area = NeighboursIn(records, i)
    /\ cell.bounded = ~IsUnbounded(i)
    /\ \A j \in DOMAIN cell.area :
         \/ cell.area[j] = NaN
         \/ cell.area[j] = IF IsUnboundedInterface(i, j) THEN Infinite ELSE Area(i, j)

\* A cell that is bounded in the diagram of the active nodes, and that its
\* tracker calls clean, is stored with a number for a volume: it is not classed
\* as unbounded, and none of the areas its volume sums up is NaN.
BoundedCellsHaveVolumes ==
  \A k \in Consumers : \A i \in Active \ tracker[k] :
    HasData(k, i) /\ Touching(UnboundedEdges(Active), {i}) = {} =>
      data[k][i].bounded /\ NaN \notin Range(data[k][i].area)
=============================================================================
