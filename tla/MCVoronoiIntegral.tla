-------------------------- MODULE MCVoronoiIntegral --------------------------
(***************************************************************************)
(* VoronoiIntegral on points of the plane.  The tables Inside and Beyond   *)
(* come from the orientation and the in-circle determinant, in integers.   *)
(***************************************************************************)
EXTENDS VoronoiIntegral, TLC

CONSTANT Instance   \* which of the point sets below

\* "growing": four corners and an inner point; then one outside the hull, and
\* one where node 0 was.  "cut": node 0 is cut off from the hull by
\* node 7, and keeps an interface to the hull node 1 across the middle.
Points ==
  CASE Instance = "growing" ->
         << <<0, 0>>, <<20, 1>>, <<21, 19>>, <<1, 20>>, <<9, 7>>,
            <<40, 9>>, <<0, 0>> >>
    [] Instance = "cut" ->
         << <<0, -10>>, <<1, 12>>, <<-14, 1>>, <<15, 2>>, <<-20, -6>>, <<21, -5>>,
            <<2, -40>> >>
MCCapacity == Len(Points)

X(i) == Points[i + 1][1]
Y(i) == Points[i + 1][2]
Ids == 0 .. MCCapacity - 1

Turn(a, b, c) == (X(b) - X(a)) * (Y(c) - Y(a)) - (Y(b) - Y(a)) * (X(c) - X(a))
Norm(a, d) == (X(a) - X(d)) * (X(a) - X(d)) + (Y(a) - Y(d)) * (Y(a) - Y(d))
InCircle(a, b, c, d) ==
    (X(a) - X(d)) * ((Y(b) - Y(d)) * Norm(c, d) - (Y(c) - Y(d)) * Norm(b, d))
  - (Y(a) - Y(d)) * ((X(b) - X(d)) * Norm(c, d) - (X(c) - X(d)) * Norm(b, d))
  + Norm(a, d) * ((X(b) - X(d)) * (Y(c) - Y(d)) - (Y(b) - Y(d)) * (X(c) - X(d)))

Triples == {t \in SUBSET Ids : Cardinality(t) = 3}
Pairs   == {t \in SUBSET Ids : Cardinality(t) = 2}
Orient(t) == LET s == Rebuilt(t) IN Turn(s[1], s[2], s[3])
Circle(t, d) == LET s == Rebuilt(t) IN InCircle(s[1], s[2], s[3], d) * Orient(t)

\* General position: no three on a line, no four on a circle.
General(A) ==
  \A t \in Triples : t \subseteq A =>
    /\ Orient(t) # 0
    /\ \A d \in A \ t : Circle(t, d) # 0

\* f @@ <<>> is f as an explicit table.  TLC evaluates a definition once, and
\* what replaces a constant each time: the tables are definitions of their own.
InsideTable ==
  [t \in {u \in Triples : Orient(u) # 0} |-> {d \in Ids : Circle(t, d) > 0}] @@ <<>>
BeyondTable ==
  [e \in Pairs |-> LET s == Rebuilt(e) IN
     <<{d \in Ids : Turn(s[1], s[2], d) > 0}, {d \in Ids : Turn(s[1], s[2], d) < 0}>>] @@ <<>>
AdmissibleTable ==
  DOMAIN ([A \in {B \in SUBSET Ids : Cardinality(B) >= 3 /\ General(B)} |-> TRUE] @@ <<>>)

Symmetry == Permutations(Removers) \cup Permutations(Consumers)

MCInside     == InsideTable
MCBeyond     == BeyondTable
MCAdmissible == AdmissibleTable

\* "shared": all integrals and removals take part, and no pass throws while it
\* publishes.  "alone": one integral, whose passes do, and one removal.
VARIABLE round

Whole(k)   == \A i \in Scheduled(k) : i \notin tracker'[k] /\ data'[k][i] # NoData
HasAny(k)  == \E i \in Slots : HasData(k, i)
Made(r)    == remover[r].status # "none"
OnlyOne(S) == \A a, b \in S : a = b

MCInit == Init /\ round \in {"shared", "alone"}
MCNext ==
  /\ Next /\ UNCHANGED round
  /\ round = "shared" => \A k \in Consumers : data'[k] # data[k] => Whole(k)
  /\ round = "alone"  => /\ OnlyOne({k \in Consumers : HasAny(k)})'
                         /\ OnlyOne({r \in Removers : Made(r)})'
MCSpec == MCInit /\ [][MCNext]_<<round, vars>>
=============================================================================
