-------------------------- MODULE MCComputeVoronoi --------------------------
(***************************************************************************)
(* Small planar diagrams.  A vertex is the set of its three generators.    *)
(***************************************************************************)
EXTENDS ComputeVoronoi

\* Three cells in a triangle: the mirrors 3, 4, 5 stand for its sides.
Triangle == {{0, 1, 2}, {0, 1, 3}, {1, 2, 4}, {0, 2, 5}, {0, 3, 5}, {1, 3, 4}, {2, 4, 5}}

\* Four cells in a half plane with the mirror 4: three vertices, four unbounded
\* edges.  The branch of cells 2 and 3 meets {0, 1, 2} and {1, 2, 3} in cell 2
\* while the branch of cells 0 and 1 stores them.
Late == {{0, 1, 2}, {1, 2, 3}, {0, 1, 4}}

\* A bounded cell 0 among 1, 2, 3 and 4; with four ordinary generators 4 is the
\* mirror of a half plane's boundary.  Four of the eight edges are unbounded.
Wheel == {{0, 1, 2}, {0, 2, 3}, {0, 3, 4}, {0, 1, 4}}

\* The mesh at the first call, and what a call for cell 0 alone leaves.
NoVertices     == {}
TrianglePrefix == {v \in Triangle : 0 \in v}
=============================================================================
