---------------------------- MODULE MCHVDataBase ----------------------------
(***************************************************************************)
(* The two layers of a mesh's database, each on its own.                   *)
(*                                                                         *)
(* "routing": HybridDataBase over the store that the other layer is shown  *)
(* to implement, with a grid of two vertices, an engine with a vertex at   *)
(* the boundary, and room for four addresses.                              *)
(*                                                                         *)
(* "blocks": HVDataBase with records of three and four units in blocks of  *)
(* two, so every record crosses a block boundary, and most begin in the    *)
(* middle of a block.                                                      *)
(***************************************************************************)
EXTENDS HybridDataBase, HVDataBase

CONSTANTS VertexKey, FacetKey

Grid == INSTANCE CuboidMeshEngine

Shapes == [strip |-> <<3, 2>>]
MirrorIndex == 9
EngineKinds == DOMAIN Shapes \cup {"edge"}
Cells == [k \in EngineKinds |-> IF k = "edge" THEN 2 ELSE Grid!NodeTotal(Shapes[k])]
Ranges == [k \in EngineKinds |-> IF k = "edge" THEN 1 ELSE Grid!VertexTotal(Shapes[k])]
LocalSignatures ==
  [k \in EngineKinds |->
     [a \in 0 .. Ranges[k] - 1 |-> IF k = "edge" THEN {0, 1, MirrorIndex}
                                   ELSE Grid!ReadVertex(Shapes[k], a)]]
\* The second vertex of a strip at offset 0, and the vertex of an edge at offset 2.
PushedSignatures == {{1, 2, 4, 5}, {2, 3, MirrorIndex}}

OneVertex  == {VertexKey}
OneFacet   == {FacetKey}
SingleUnit == [k \in {VertexKey, FacetKey} |-> 1]

VARIABLE layer

MCInit == /\ Init /\ BlockInit
          /\ layer \in {"blocks", "routing"}
MCNext == \/ layer = "blocks"  /\ BlockNext /\ UNCHANGED <<layer, vars>>
          \/ layer = "routing" /\ Next      /\ UNCHANGED <<layer, blockVars>>
MCSpec == /\ MCInit /\ [][MCNext]_<<layer, vars, blockVars>>
          /\ \A t \in Callers : WF_blockVars(Continue(t))

ASSUME HybridConstants == HybridAssumption

\* The arithmetic of the grids, for every shape of up to three axes.
SomeShapes == (1 .. 4) \X (1 .. 3) \cup (1 .. 3) \X (1 .. 3) \X (1 .. 2)
ASSUME GridsAreExact ==
  \A shape \in SomeShapes :
    /\ Grid!NumberingIsExact(shape) /\ Grid!NeighboursAreMutual(shape)
    /\ \A dead \in {{}} \cup {{x} : x \in Grid!Vertices(shape)} :
         LET active == Grid!Vertices(shape) \ dead IN
         /\ Grid!IncidenceIsExact(shape, active)
         /\ Grid!SignaturesAreExact(shape, active)
         /\ Grid!EnumerationIsExact(shape, active)
=============================================================================
