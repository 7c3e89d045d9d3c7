--------------------------- MODULE CuboidMeshEngine ---------------------------
(***************************************************************************)
(* CuboidMeshEngine: the nodes and vertices of a Cartesian grid, numbered  *)
(* by arithmetic.  A shape gives the repetitions along each axis; a vertex *)
(* is the middle of 2^d nodes and is named by its lower corner.            *)
(***************************************************************************)
EXTENDS Integers, Sequences, FiniteSets

Axes(shape) == 1 .. Len(shape)

\* initialize_strides_and_counts().
Product(factor) ==
  LET upTo[i \in 0 .. Len(factor)] == IF i = 0 THEN 1 ELSE upTo[i - 1] * factor[i]
  IN upTo
NodeStride(shape)   == [axis \in Axes(shape) |-> Product(shape)[axis - 1]]
VertexStride(shape) == LET cells == [axis \in Axes(shape) |-> shape[axis] - 1]
                       IN [axis \in Axes(shape) |-> Product(cells)[axis - 1]]
NodeTotal(shape)   == Product(shape)[Len(shape)]
VertexTotal(shape) == IF \E axis \in Axes(shape) : shape[axis] <= 1 THEN 0
                      ELSE Product([axis \in Axes(shape) |-> shape[axis] - 1])[Len(shape)]

\* Division by the strides, from the last axis to the first.
Unflatten(stride, flat) ==
  LET rest[i \in DOMAIN stride] ==
        IF i = Len(stride) THEN flat ELSE rest[i + 1] % stride[i + 1]
  IN [axis \in DOMAIN stride |-> rest[axis] \div stride[axis]]

Flatten(stride, coordinate) ==
  LET upTo[i \in 0 .. Len(stride)] ==
        IF i = 0 THEN 0 ELSE upTo[i - 1] + coordinate[i] * stride[i]
  IN upTo[Len(stride)]

UnflattenNode(shape, flat)   == Unflatten(NodeStride(shape), flat)
UnflattenVertex(shape, flat) == Unflatten(VertexStride(shape), flat)
FlattenNode(shape, coordinate)   == Flatten(NodeStride(shape), coordinate)
FlattenVertex(shape, coordinate) == Flatten(VertexStride(shape), coordinate)

\* The corners of a box, one for each set of axes along which it is the upper.
Masks(shape) == SUBSET Axes(shape)
Above(coordinate, mask) ==
  [axis \in DOMAIN coordinate |-> coordinate[axis] + (IF axis \in mask THEN 1 ELSE 0)]
Below(coordinate, mask) ==
  [axis \in DOMAIN coordinate |-> coordinate[axis] - (IF axis \in mask THEN 1 ELSE 0)]

\* read_vertex() of an active vertex.
ReadVertex(shape, address) ==
  {FlattenNode(shape, Above(UnflattenVertex(shape, address), mask)) : mask \in Masks(shape)}

\* get_data(): a single coordinate, without the others.
Coordinate(shape, node, axis) == (node \div NodeStride(shape)[axis]) % shape[axis]

\* next_active_vertex(): the first active one from the cursor on.
NextActiveVertex(active, cursor) ==
  CHOOSE v \in active : v >= cursor /\ \A w \in active : w >= cursor => v <= w

IsVertexLowerCorner(shape, coordinate) ==
  \A axis \in Axes(shape) : coordinate[axis] + 1 < shape[axis]

\* contains_vertex_signature(): the least node must be the lower corner.
ContainsSignature(shape, active, sigma) ==
  /\ Cardinality(sigma) = Cardinality(Masks(shape))
  /\ LET front == CHOOSE n \in sigma : \A m \in sigma : n <= m
         lower == UnflattenNode(shape, front)
     IN /\ front < NodeTotal(shape)
        /\ IsVertexLowerCorner(shape, lower)
        /\ FlattenVertex(shape, lower) \in active
        /\ sigma = {FlattenNode(shape, Above(lower, mask)) : mask \in Masks(shape)}

\* primary_vertex_address(): the vertex above the node, if there is one.
PrimaryVertices(shape, active, node) ==
  LET c == UnflattenNode(shape, node) IN
  IF IsVertexLowerCorner(shape, c) THEN {FlattenVertex(shape, c)} \cap active ELSE {}

\* enumerate_secondary(): one step down along at least one axis.
SecondaryVertices(shape, active, node) ==
  LET c == UnflattenNode(shape, node)
      valid == {mask \in Masks(shape) \ {{}} :
                  \A axis \in Axes(shape) : IF axis \in mask THEN c[axis] # 0
                                            ELSE c[axis] + 1 < shape[axis]}
  IN {FlattenVertex(shape, Below(c, mask)) : mask \in valid} \cap active

\* read_neighbours(): the nodes one step away along an axis.
ReadNeighbours(shape, node) ==
  LET c == UnflattenNode(shape, node) IN
  {node - NodeStride(shape)[axis] : axis \in {a \in Axes(shape) : c[a] > 0}} \cup
  {node + NodeStride(shape)[axis] : axis \in {a \in Axes(shape) : c[a] + 1 < shape[a]}}

-----------------------------------------------------------------------------
(* What a host relies on (compute_mesh_engine.hpp 17-25) *)

Nodes(shape) == 0 .. NodeTotal(shape) - 1
Vertices(shape) == 0 .. VertexTotal(shape) - 1

\* "Every active finite vertex must be primary for exactly one ordinary node and
\* may be secondary for any number of other nodes": the cells it is listed in
\* are exactly those of its signature.
IncidenceIsExact(shape, active) ==
  \A v \in active :
    /\ \E n \in Nodes(shape) : \A m \in Nodes(shape) :
         v \in PrimaryVertices(shape, active, m) <=> m = n
    /\ {n \in Nodes(shape) : v \in PrimaryVertices(shape, active, n)
                                    \cup SecondaryVertices(shape, active, n)}
       = ReadVertex(shape, v)
    /\ \A n \in Nodes(shape) :
         PrimaryVertices(shape, active, n) \cap SecondaryVertices(shape, active, n) = {}

\* A signature is found exactly if an active vertex has it, and two vertices
\* have different ones.
SignaturesAreExact(shape, active) ==
  /\ \A v \in Vertices(shape) :
       ContainsSignature(shape, active, ReadVertex(shape, v)) <=> v \in active
  /\ \A v, w \in Vertices(shape) : ReadVertex(shape, v) = ReadVertex(shape, w) => v = w

NeighboursAreMutual(shape) ==
  \A n, m \in Nodes(shape) : m \in ReadNeighbours(shape, n) <=> n \in ReadNeighbours(shape, m)

NumberingIsExact(shape) ==
  /\ \A n \in Nodes(shape) :
       /\ FlattenNode(shape, UnflattenNode(shape, n)) = n
       /\ \A axis \in Axes(shape) :
            Coordinate(shape, n, axis) = UnflattenNode(shape, n)[axis]
  /\ \A v \in Vertices(shape) : FlattenVertex(shape, UnflattenVertex(shape, v)) = v

\* Enumerating from cursor to cursor reaches every active vertex once.
EnumerationIsExact(shape, active) ==
  LET reached[cursor \in 0 .. VertexTotal(shape)] ==
        IF \A v \in active : v < cursor THEN <<>>
        ELSE LET v == NextActiveVertex(active, cursor) IN <<v>> \o reached[v + 1]
  IN /\ {reached[0][i] : i \in DOMAIN reached[0]} = active
     /\ Len(reached[0]) = Cardinality(active)
=============================================================================
