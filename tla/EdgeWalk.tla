------------------------------- MODULE EdgeWalk -------------------------------
(***************************************************************************)
(* How one run of ComputeVoronoi finds the vertices of a front of cells:   *)
(* the cells come one after the other, each starts from the vertices that  *)
(* are listed for it or, if there are none, from a descent, and follows    *)
(* the edges it owns by casting rays (ClassicRayCaster).                   *)
(*                                                                         *)
(* A view is the geometry of the run: at maps the nodes to points, and     *)
(* boundary is where the planes are.  The planes are generators too, and   *)
(* stand in a cell for the mirror images of its node.  Everything is exact *)
(* and in general position, with one thread.                               *)
(***************************************************************************)
EXTENDS PeriodicDomain

Generators(view) == DOMAIN view.at \cup BoundaryCodes

Touching(sigmas, nodes) == {sigma \in sigmas : sigma \cap nodes # {}}
OnPeriodicPlane(sigma) ==
  \E plane \in PeriodicPlanes : EncodeBoundary(plane) \in sigma

-----------------------------------------------------------------------------
(* A cell that is being computed.                                          *)

\* activate_cell: a plane stands for the mirror image of the cell's node.
Mirrored(view, a, plane) ==
  LET twice == -2 * HalfspaceValue(view.boundary, plane, view.at[a])
  IN Sum2(view.at[a], [axis \in Axes |-> twice * Normal(plane)[axis]])
Activated(view, a) ==
  [node |-> a,
   rows |-> [g \in Generators(view) \ {a} |->
               Bisector(view.at[a],
                        IF g \in BoundaryCodes THEN Mirrored(view, a, DecodeBoundary(g))
                        ELSE view.at[g])]]

\* How much closer than the cell's node generator g is to a position, as the
\* difference of two squared distances.
Gain(cell, g, position) ==
  LET row == cell.rows[g]
  IN row[1] * position[1] + row[2] * position[2] - row[3] * position[3]

\* nn, with generator z in hand: the nearest of those that are closer than the
\* cell's node, or z.  Several at the same distance are told apart by their
\* numbers in the run, here by any choice.
Nearest(cell, z, position) ==
  {g \in DOMAIN cell.rows :
     /\ g = z \/ Gain(cell, g, position) > 0
     /\ \A h \in DOMAIN cell.rows : Gain(cell, g, position) >= Gain(cell, h, position)}

-----------------------------------------------------------------------------
(* One ray, along the edge of the cell and generator y, away from the      *)
(* omitted generator.                                                      *)

Direction(cell, y, omitted) ==
  LET u == <<-cell.rows[y][2], cell.rows[y][1]>>
  IN IF Dot(cell.rows[omitted], u) < 0 THEN u ELSE <<-u[1], -u[2]>>

\* The generators that lie ahead of the edge's own.
Ahead(cell, y, u) == {z \in DOMAIN cell.rows \ {y} : Dot(cell.rows[z], u) > 0}

\* cast_impl: from the generator in hand to the nearest one at the point where
\* the ray meets it, until none is nearer than the edge's own.
Hit(cell, y, z) == Meeting(cell.rows[y], cell.rows[z])
Better(cell, y, z) == Nearest(cell, z, Hit(cell, y, z))

Settle(cell, y) ==
  LET settle[now \in SUBSET DOMAIN cell.rows] ==
        LET next == UNION {Better(cell, y, z) : z \in now}
        IN IF next = now THEN now ELSE settle[next]
  IN settle

\* The generator to begin with is one ahead, near a point that depends on the
\* dimension: any of them here.  The ray ends at a generator of the cell.
Endings(cell, y, omitted) ==
  LET ahead == Ahead(cell, y, Direction(cell, y, omitted))
  IN {{cell.node, y, z} : z \in (DOMAIN cell.rows) \cap Settle(cell, y)[ahead]}

-----------------------------------------------------------------------------
(* One cell.                                                               *)

\* The nodes of the front are numbered first, and an edge belongs to its
\* generator of the smallest number.
Owns(front, a, y) == y \notin front \/ a < y

\* systematic_explore_vertex: both ends of an edge that is complete are queued.
Ends(front, cell, sigma) ==
  UNION {UNION {Endings(cell, y, omitted) : omitted \in sigma \ {cell.node, y}} :
           y \in {g \in sigma \ {cell.node} : Owns(front, cell.node, g)}}

Signatures(cell) == SUBSET (DOMAIN cell.rows \cup {cell.node})

Explore(front, cell) ==
  LET explore[s \in [before : SUBSET Signatures(cell), seen : SUBSET Signatures(cell)]] ==
        IF s.seen = s.before THEN s.seen
        ELSE explore[[before |-> s.seen,
                      seen |-> s.seen \cup UNION {Ends(front, cell, sigma) :
                                                    sigma \in s.seen \ s.before}]]
  IN explore
Explored(front, cell, start) == Explore(front, cell)[[before |-> {}, seen |-> start]]

\* descent() ends at a vertex of the cell; which one depends on random directions.
Corners(cell) ==
  LET pairs == {pair \in (DOMAIN cell.rows) \X (DOMAIN cell.rows) :
                  /\ pair[1] < pair[2]
                  /\ LET position == Hit(cell, pair[1], pair[2])
                     IN /\ position[3] # 0
                        /\ \A g \in DOMAIN cell.rows : Gain(cell, g, position) <= 0}
  IN {{cell.node, pair[1], pair[2]} : pair \in pairs}

\* What a walk from there reports: an edge leads from one of its ends to the
\* other and back, so that the walks from two corners report the same or nothing
\* in common.
Descend(front, cell) ==
  LET descend[walked \in SUBSET SUBSET Signatures(cell)] ==
        LET rest == Corners(cell) \ UNION walked
        IN IF rest = {} THEN walked
           ELSE descend[walked \cup {Explored(front, cell, {CHOOSE sigma \in rest : TRUE})}]
  IN descend
Descents(front, cell) == Descend(front, cell)[{}]

-----------------------------------------------------------------------------
(* The front.  offered are the vertices that mesh.vertices(cell) lists, and *)
(* known those the database holds; a vertex that is stored is listed for    *)
(* the cells after it, one on a periodic plane is not stored.  The result   *)
(* is what may be reported: a set of sets of vertices.                      *)

CellResults(front, offered, known, cell, found) ==
  LET stored == {sigma \in found \ known : ~OnPeriodicPlane(sigma)}
      start  == Touching(offered \cup stored, {cell.node})
  IN IF start # {} THEN {found \cup (Explored(front, cell, start) \ start)}
     ELSE {found \cup walk : walk \in Descents(front, cell)}

\* What may be reported when some cells, the first ones of the front, are done.
Reports(view, front, offered, known) ==
  LET reports[done \in SUBSET front] ==
        IF done = {} THEN {{}}
        ELSE UNION {CellResults(front, offered, known, cell, found) :
                      cell \in {Activated(view, Greatest(done))},
                      found \in reports[done \ {Greatest(done)}]}
  IN reports
Walks(view, front, offered, known) == Reports(view, front, offered, known)[front]
=============================================================================
