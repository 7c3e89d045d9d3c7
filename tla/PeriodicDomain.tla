---------------------------- MODULE PeriodicDomain ----------------------------
(***************************************************************************)
(* An axis-aligned box in the plane, Boundary::cuboid, some of whose axes  *)
(* are periodic, and the Voronoi vertices of generators inside it.         *)
(*                                                                         *)
(* A boundary is the function that gives the distance of each plane along  *)
(* its outward normal.  A plane is also a generator: it is the bisector of *)
(* a node and its mirror image, which ExtendedVoronoiNodes adds to the     *)
(* nodes.  A cell is then an intersection of half-planes, and a vertex is  *)
(* where two of their lines meet, in exact rational numbers.               *)
(***************************************************************************)
EXTENDS Integers, FiniteSets, Sequences, Functions

CONSTANTS
  Dimensions,     \* <<length, height>> of the box; its lower corner is the origin
  PeriodicAxes,   \* the axes, of 1 and 2, whose faces are identified
  InvalidIndex    \* invalid_index(): larger than every node and plane

Axes   == 1 .. 2
Planes == 0 .. 3

ASSUME DomainAssumption ==
  /\ Dimensions \in [Axes -> Nat \ {0}]
  /\ PeriodicAxes \subseteq Axes
  /\ InvalidIndex \in Nat

\* The smallest and largest of a set of integers.
Least(S)    == CHOOSE i \in S : \A j \in S : i <= j
Greatest(S) == CHOOSE i \in S : \A j \in S : i >= j

-----------------------------------------------------------------------------
(* The planes.  cuboid() adds the upper and then the lower face of each    *)
(* axis; periodic faces refer to each other.                               *)

Axis(plane)       == 1 + plane \div 2
Normal(plane)     == [axis \in Axes |-> IF axis # Axis(plane) THEN 0
                                        ELSE IF plane % 2 = 0 THEN 1 ELSE -1]
IsPeriodic(plane) == Axis(plane) \in PeriodicAxes
Partner(plane)    == IF plane % 2 = 0 THEN plane + 1 ELSE plane - 1
PeriodicPlanes    == {plane \in Planes : IsPeriodic(plane)}

ExternalBoundary ==
  [plane \in Planes |-> IF plane % 2 = 0 THEN Dimensions[Axis(plane)] ELSE 0]

Dot(u, v)  == u[1] * v[1] + u[2] * v[2]
Sum2(u, v) == <<u[1] + v[1], u[2] + v[2]>>
HalfspaceValue(boundary, plane, point) == Dot(Normal(plane), point) - boundary[plane]
Contains(boundary, point) == \A plane \in Planes : HalfspaceValue(boundary, plane, point) <= 0

\* periodic_shift: from a plane to its partner; of a mask, the sum.
TowardsNormal(plane, axis) == Normal(plane)[axis] * Dimensions[axis]
TowardsPartner(plane, axis) == -(Normal(plane)[axis] * Dimensions[axis])
PeriodicShift(mask) ==
  [axis \in Axes |->
     FoldFunctionOnSet(+, 0, [plane \in Planes |-> TowardsPartner(plane, axis)], mask)]

\* The masks that select no two partners.
ShiftMasks(planes) == {mask \in SUBSET planes : \A p \in mask : Partner(p) \notin mask}

\* The high-end codes under which signatures name the planes.
EncodeBoundary(plane) == InvalidIndex - 1 - plane
DecodeBoundary(code)  == InvalidIndex - 1 - code
BoundaryCodes == {EncodeBoundary(plane) : plane \in Planes}
Ordinary(sigma) == sigma \ BoundaryCodes

-----------------------------------------------------------------------------
(* The vertices.                                                           *)

\* The points at least as close to node a as to generator g satisfy
\* Dot(<<r[1], r[2]>>, x) <= r[3].  at maps nodes to points.
Bisector(p, q) == <<2 * (q[1] - p[1]), 2 * (q[2] - p[2]), Dot(q, q) - Dot(p, p)>>
HalfPlane(at, boundary, a, g) ==
  IF g \in BoundaryCodes
  THEN LET plane == DecodeBoundary(g) IN Append(Normal(plane), boundary[plane])
  ELSE Bisector(at[a], at[g])

\* Where the lines of two half-planes meet: <<x * d, y * d, d>>, and d = 0 when
\* they do not.
Cross(u, v, i, j) == u[i] * v[j] - u[j] * v[i]
Meeting(u, v) ==
  LET d == Cross(u, v, 1, 2)
      s == IF d < 0 THEN -1 ELSE 1
  IN <<s * Cross(u, v, 3, 2), s * Cross(u, v, 1, 3), s * d>>

\* The vertex of a signature: its smallest generator is a node.
PositionOf(at, boundary, sigma) ==
  LET a == Least(sigma)
      b == Least(sigma \ {a})
      c == Greatest(sigma)
  IN Meeting(HalfPlane(at, boundary, a, b), HalfPlane(at, boundary, a, c))

StrictlyInside(position, row) == Dot(row, position) < row[3] * position[3]

\* Node b is strictly closer to the vertex than its generators are.
Closer(at, boundary, sigma, b) ==
  LET row == HalfPlane(at, boundary, Least(sigma), b)
      position == PositionOf(at, boundary, sigma)
  IN Dot(row, position) > row[3] * position[3]

\* A signature is a vertex when every other generator is farther away.
IsVertex(at, boundary, others, sigma) ==
  LET a == Least(sigma)
      position == PositionOf(at, boundary, sigma)
  IN /\ position[3] # 0
     /\ \A g \in others \ sigma : StrictlyInside(position, HalfPlane(at, boundary, a, g))

\* The vertices of the cells of a front, clipped by the given planes.
VerticesOf(front, at, boundary, planes) ==
  LET nodes      == DOMAIN at
      generators == nodes \cup {EncodeBoundary(plane) : plane \in planes}
      triples    == UNION {{{a, b, c} : b \in generators, c \in generators} : a \in front}
  IN {sigma \in triples : Cardinality(sigma) = 3 /\ IsVertex(at, boundary, generators, sigma)}
=============================================================================
