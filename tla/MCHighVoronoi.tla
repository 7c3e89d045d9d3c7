---------------------------- MODULE MCHighVoronoi ----------------------------
(* Two small domains: one periodic along both axes, and one along the first. *)
EXTENDS HighVoronoi

CONSTANT Instance   \* "torus" or "strip"

MCDimensions    == IF Instance = "torus" THEN <<20, 23>> ELSE <<20, 37>>
MCPeriodicAxes  == IF Instance = "torus" THEN {1, 2} ELSE {1}
MCInitialPoints == IF Instance = "torus"
                   THEN << <<10, 10>>, <<17, 18>>, <<17, 17>>, <<19, 14>> >>
                   ELSE << <<4, 12>>, <<7, 18>>, <<5, 25>> >>
MCMorePoints    == IF Instance = "torus" THEN { <<10, 7>> } ELSE {}

-----------------------------------------------------------------------------
(* General position: no vertex of the cells of any MinVisible or more of the *)
(* points has a fourth generator at the same distance.                       *)
Points == Range(MCInitialPoints) \cup MorePoints
Images(points) ==
  LET images == {Sum2(p, PeriodicShift(m)) : p \in points, m \in ShiftMasks(PeriodicPlanes)}
  IN [k \in 0 .. Cardinality(images) - 1 |->
        CHOOSE p \in images :
          Cardinality({q \in images : q[1] < p[1] \/ (q[1] = p[1] /\ q[2] < p[2])}) = k]

NoTies(at, planes) ==
  LET generators == DOMAIN at \cup {EncodeBoundary(plane) : plane \in planes}
      front      == {k \in DOMAIN at : Contains(ExternalBoundary, at[k])}
  IN \A sigma \in UNION {{{a, b, c} : b \in generators, c \in generators} : a \in front} :
       LET position == PositionOf(at, ExternalBoundary, sigma)
           row(g)   == HalfPlane(at, ExternalBoundary, Least(sigma), g)
           Farther(g) == Dot(row(g), position) < row(g)[3] * position[3]
           Tied(g)    == Dot(row(g), position) = row(g)[3] * position[3]
       IN Cardinality(sigma) = 3 /\ position[3] # 0 =>
            ~ /\ \E g \in generators \ sigma : Tied(g)
              /\ \A g \in generators \ sigma : Tied(g) \/ Farther(g)

ASSUME GeneralPosition ==
  \A points \in SUBSET Points : Cardinality(points) >= MinVisible =>
    /\ NoTies(Images(points), Planes \ PeriodicPlanes)
    /\ NoTies([k \in {j \in DOMAIN Images(points) :
                        Contains(ExternalBoundary, Images(points)[j])} |-> Images(points)[k]],
              Planes)
=============================================================================
