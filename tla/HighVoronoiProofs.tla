-------------------------- MODULE HighVoronoiProofs --------------------------
(***************************************************************************)
(* The bookkeeping of a HighVoronoi mesh is right for every domain, all    *)
(* nodes, every sequence of calls and however the geometry comes out: the  *)
(* copies live and die with their nodes, stored vertices name nodes that   *)
(* live, and the internal boundary keeps room around every copy.           *)
(*                                                                         *)
(* The inductive invariant Inv has three parts.  Mesh is about the slots:  *)
(* each is a visible node of the domain or the only copy of an earlier one *)
(* under its shift, at its place, inside the internal boundary, and active *)
(* exactly when its node is.  RecordsOK is about the stored vertices, and  *)
(* ComputeOK about where compute() is and what it asks for.                *)
(*                                                                         *)
(* Three things come before it: a walk along edges reports signatures of   *)
(* its own view (the recursive functions of EdgeWalk satisfy their         *)
(* equations because they go forward), the order of the copies lists every *)
(* planned copy once, and a periodic shift is a vector along periodic axes.*)
(***************************************************************************)
EXTENDS HighVoronoi, FiniteSetTheorems, TLAPS

-----------------------------------------------------------------------------
(* The least-number principle, and recursion.                              *)

Before == {p \in Nat \X Nat : p[1] < p[2]}

\* A set of numbers has a least one.
LEMMA LeastNumber ==
  ASSUME NEW S, S \subseteq Nat, S # {}
  PROVE  \E n \in S : \A m \in S : n <= m
<1>1. IsWellFoundedOn(Before, Nat)
  BY NatLessThanWellFounded DEF OpToRel, Before
<1>2. PICK n \in S : \A m \in S : ~(<<m, n>> \in Before)
  BY <1>1, WFMin
<1>3. \A m \in S : n <= m
  <2> TAKE m \in S
  <2>1. m \in Nat /\ n \in Nat
    OBVIOUS
  <2>2. ~(m < n)
    BY <1>2, <2>1 DEF Before
  <2> QED BY <2>1, <2>2
<1> QED BY <1>3

\* Induction along a measure: what holds for x when it holds for all that is smaller
\* holds for all.
LEMMA MeasureInduction ==
  ASSUME NEW S, NEW size, \A x \in S : size[x] \in Nat, NEW Good,
         \A x \in S : (\A y \in S : size[y] < size[x] => y \in Good) => x \in Good
  PROVE  S \subseteq Good
<1> SUFFICES ASSUME S \ Good # {} PROVE FALSE
  OBVIOUS
<1> DEFINE N == {size[x] : x \in S \ Good}
<1>1. PICK n \in N : \A m \in N : n <= m
  <2>1. PICK x \in S : x \notin Good OBVIOUS
  <2>2. size[x] \in N BY <2>1
  <2>3. N \subseteq Nat
    <3> SUFFICES ASSUME NEW y \in S PROVE size[y] \in Nat
      OBVIOUS
    <3> QED OBVIOUS
  <2> HIDE DEF N
  <2> QED BY <2>2, <2>3, LeastNumber
<1>2. PICK x \in S \ Good : n = size[x] OBVIOUS
<1>3. ASSUME NEW y \in S, size[y] < size[x] PROVE y \in Good
  <2> SUFFICES ASSUME y \notin Good PROVE FALSE
    OBVIOUS
  <2>1. size[y] \in N OBVIOUS
  <2>2. n <= size[y]
    <3> HIDE DEF N
    <3> QED BY <1>1, <2>1
  <2>3. size[y] \in Nat /\ size[x] \in Nat BY <1>2
  <2>4. size[y] < n BY <1>2, <1>3
  <2> HIDE DEF N
  <2> QED BY <1>2, <2>2, <2>3, <2>4
<1> QED BY <1>2, <1>3

\* A loop written as a recursion: it ends with ending[x] where stopped[x], and elsewhere makes
\* x's value from that of onward[x], by combine.
Unfolds(S, stopped, ending, onward, combine, f) ==
  f = [x \in S |-> IF stopped[x] THEN ending[x] ELSE combine[<<x, f[onward[x]]>>]]

\* A recursion whose measure decreases and stays below a bound has a solution.
LEMMA RecursionHasSolution ==
  ASSUME NEW S, NEW V, NEW size \in [S -> Nat], NEW bound \in Nat,
         NEW stopped \in [S -> BOOLEAN], NEW ending, NEW onward, NEW combine,
         \A x \in S : size[x] <= bound,
         \A x \in S : stopped[x] => ending[x] \in V,
         \A x \in S : ~stopped[x] => onward[x] \in S /\ size[onward[x]] < size[x],
         \A x \in S : ~stopped[x] => \A v \in V : combine[<<x, v>>] \in V
  PROVE  \E f \in [S -> V] : Unfolds(S, stopped, ending, onward, combine, f)
<1> DEFINE Value(f, x) == IF stopped[x] THEN ending[x] ELSE combine[<<x, f[onward[x]]>>]
           Solves(f, n) == \A x \in S : size[x] < n => f[x] \in V /\ f[x] = Value(f, x)
           Solved == {n \in Nat : \E f : Solves(f, n)}
<1>1. \A n \in Nat : n \in Solved
  <2> SUFFICES ASSUME Nat \ Solved # {} PROVE FALSE
    OBVIOUS
  <2>1. PICK n \in Nat \ Solved : \A m \in Nat \ Solved : n <= m
    <3> HIDE DEF Solved
    <3> QED BY LeastNumber
  <2>2. Solves([x \in S |-> {}], 0) OBVIOUS
  <2>3. 0 \in Solved
    <3> HIDE DEF Solves
    <3> QED BY <2>2
  <2>4. n # 0 /\ n - 1 \in Nat /\ ~(n <= n - 1)
    <3> HIDE DEF Solved
    <3> QED BY <2>1, <2>3
  <2>5. n - 1 \in Solved
    <3> HIDE DEF Solved
    <3> QED BY <2>1, <2>4
  <2>6. PICK f : Solves(f, n - 1)
    <3> HIDE DEF Solves
    <3> QED BY <2>5
  <2> DEFINE g == [x \in S |-> IF size[x] < n - 1 THEN f[x] ELSE Value(f, x)]
  <2>7. ASSUME NEW x \in S, size[x] < n PROVE g[x] \in V /\ g[x] = Value(g, x)
    <3>1. size[x] \in Nat OBVIOUS
    <3>2. stopped[x] \in BOOLEAN OBVIOUS
    <3>3. ~stopped[x] => /\ onward[x] \in S /\ size[onward[x]] \in Nat
                         /\ size[onward[x]] < n - 1
      <4> SUFFICES ASSUME ~stopped[x] PROVE /\ onward[x] \in S /\ size[onward[x]] \in Nat
                                            /\ size[onward[x]] < n - 1
        OBVIOUS
      <4>1. onward[x] \in S /\ size[onward[x]] < size[x]
        BY ZenonT(20)
      <4>2. size[onward[x]] \in Nat BY <4>1
      <4>3. n \in Nat OBVIOUS
      <4> HIDE DEF Solved, Solves, g
      <4> QED BY <2>7, <3>1, <4>1, <4>2, <4>3
    <3>4. ~stopped[x] => g[onward[x]] = f[onward[x]] /\ f[onward[x]] \in V
      BY <2>6, <3>3
    <3>5. Value(g, x) = Value(f, x)
      BY <3>2, <3>4
    <3>6. Value(f, x) \in V
      BY <3>2, <3>4
    <3>7. size[x] < n - 1 => f[x] = Value(f, x) BY <2>6
    <3>8. g[x] = Value(f, x) BY <3>7
    <3> QED BY <3>5, <3>6, <3>8
  <2>8. Solves(g, n) BY <2>7
  <2>9. n \in Solved
    <3> HIDE DEF g, Solves
    <3> QED BY <2>8, <2>1
  <2> HIDE DEF Solved
  <2> QED BY <2>1, <2>9
<1>2. bound + 1 \in Solved BY <1>1
<1>3. PICK f : Solves(f, bound + 1)
  <2> HIDE DEF Solves
  <2> QED BY <1>2
<1>4. \A x \in S : f[x] \in V /\ f[x] = Value(f, x)
  <2> TAKE x \in S
  <2>1. size[x] \in Nat /\ size[x] < bound + 1 OBVIOUS
  <2> QED BY <1>3, <2>1
<1> DEFINE h == [x \in S |-> f[x]]
<1>5. h \in [S -> V] BY <1>4
<1>6. ASSUME NEW x \in S PROVE h[x] = Value(h, x)
  <2>1. h[x] = Value(f, x) BY <1>4
  <2>2. ~stopped[x] => h[onward[x]] = f[onward[x]] OBVIOUS
  <2>3. stopped[x] \in BOOLEAN OBVIOUS
  <2> QED BY <2>1, <2>2, <2>3
<1>7. Unfolds(S, stopped, ending, onward, combine, h) BY <1>6 DEF Unfolds
<1> HIDE DEF h
<1> QED BY <1>5, <1>7

-----------------------------------------------------------------------------
(* What a walk along edges reports names generators of its view only.      *)

\* Least and Greatest are what they are called.
LEMMA LeastIsLeast ==
  ASSUME NEW S, S \subseteq Nat, S # {}
  PROVE  Least(S) \in S /\ \A j \in S : Least(S) <= j
<1>1. \E i \in S : \A j \in S : i <= j BY LeastNumber
<1> QED BY <1>1 DEF Least

\* The greatest member of a bounded set is found through its distances from the bound.
LEMMA GreatestIsGreatest ==
  ASSUME NEW n \in Nat, NEW S, S \subseteq 0 .. n, S # {}
  PROVE  Greatest(S) \in S /\ \A j \in S : Greatest(S) >= j
<1> DEFINE D == {n - j : j \in S}
<1>1. D \subseteq Nat
  <2> SUFFICES ASSUME NEW j \in S PROVE n - j \in Nat
    OBVIOUS
  <2>1. j \in 0 .. n OBVIOUS
  <2> QED BY <2>1
<1>2. PICK k \in S : TRUE OBVIOUS
<1>3. n - k \in D OBVIOUS
<1>4. PICK d \in D : \A e \in D : d <= e
  <2> HIDE DEF D
  <2> QED BY <1>1, <1>3, LeastNumber
<1>5. PICK i \in S : d = n - i OBVIOUS
<1>6. \A j \in S : i >= j
  <2> TAKE j \in S
  <2>1. n - j \in D OBVIOUS
  <2>2. d <= n - j
    <3> HIDE DEF D
    <3> QED BY <1>4, <2>1
  <2>3. i \in 0 .. n /\ j \in 0 .. n OBVIOUS
  <2> HIDE DEF D
  <2> QED BY <1>5, <2>2, <2>3
<1>7. \E i1 \in S : \A j \in S : i1 >= j BY <1>6
<1> HIDE DEF D
<1> QED BY <1>7 DEF Greatest

\* A cell among the generators G: it has a row for each other generator.
IsCell(c, G) == c.node \in G /\ DOMAIN c.rows = G \ {c.node}
AtNode(c, G) == {sigma \in SUBSET G : c.node \in sigma}

\* An activated cell has a row for every other generator of its view.
LEMMA ActivatedIsCell ==
  ASSUME NEW view, NEW a \in DOMAIN view.at
  PROVE  IsCell(Activated(view, a), Generators(view)) /\ Activated(view, a).node = a
BY DEF IsCell, Activated, Generators

\* Its signatures are sets of generators.
LEMMA CellSignatures ==
  ASSUME NEW G, NEW c, IsCell(c, G)
  PROVE  Signatures(c) = SUBSET G
BY DEF IsCell, Signatures

\* An edge ends at generators of the cell.
LEMMA EndsAreKnown ==
  ASSUME NEW G, NEW c, IsCell(c, G), NEW front, NEW sigma \in SUBSET G
  PROVE  Ends(front, c, sigma) \subseteq AtNode(c, G)
<1> SUFFICES ASSUME NEW y \in sigma \ {c.node}, NEW omitted, NEW tau \in Endings(c, y, omitted)
             PROVE  tau \in AtNode(c, G)
  BY DEF Ends
<1>1. PICK z \in DOMAIN c.rows : tau = {c.node, y, z} BY DEF Endings
<1> QED BY <1>1 DEF IsCell, AtNode

-----------------------------------------------------------------------------

\* The exploration of a cell: its state, what comes next, and how much there is left.
Progress(c) == [before : SUBSET Signatures(c), seen : SUBSET Signatures(c)]
Onward(front, c, s) ==
  [before |-> s.seen,
   seen |-> s.seen \cup UNION {Ends(front, c, sigma) : sigma \in s.seen \ s.before}]
Left(c, s) == 2 * Cardinality(Signatures(c) \ s.seen) + (IF s.seen = s.before THEN 0 ELSE 1)

\* The exploration goes forward: what is left becomes less until nothing new is seen.
LEMMA OnwardGoesOn ==
  ASSUME NEW G, IsFiniteSet(G), NEW c, IsCell(c, G), NEW front, NEW s \in Progress(c)
  PROVE  /\ Left(c, s) \in Nat
         /\ Left(c, s) <= 2 * Cardinality(Signatures(c)) + 1
         /\ Onward(front, c, s) \in Progress(c)
         /\ s.seen # s.before => Left(c, Onward(front, c, s)) < Left(c, s)
<1> DEFINE U == Signatures(c)
           n == Onward(front, c, s)
<1>1. U = SUBSET G BY CellSignatures
<1>2. IsFiniteSet(U) /\ Cardinality(U) \in Nat BY <1>1, FS_SUBSET, FS_CardinalityType
<1>3. s.seen \subseteq U /\ s.before \subseteq U BY DEF Progress
<1>4. n.before = s.seen /\ s.seen \subseteq n.seen BY DEF Onward
<1>5. n.seen \subseteq U
  <2> SUFFICES ASSUME NEW sigma \in s.seen PROVE Ends(front, c, sigma) \subseteq U
    BY <1>3 DEF Onward
  <2>1. sigma \in SUBSET G BY <1>1, <1>3
  <2>2. AtNode(c, G) \subseteq U BY <1>1 DEF AtNode
  <2> QED BY <2>1, <2>2, EndsAreKnown
<1>6. n \in Progress(c) BY <1>3, <1>4, <1>5 DEF Onward, Progress
<1>7. /\ IsFiniteSet(U \ s.seen) /\ Cardinality(U \ s.seen) \in Nat
      /\ Cardinality(U \ s.seen) <= Cardinality(U)
  BY <1>2, FS_Subset, FS_CardinalityType
<1>8. /\ Cardinality(U \ n.seen) \in Nat
      /\ Cardinality(U \ n.seen) <= Cardinality(U \ s.seen)
      /\ n.seen # s.seen => Cardinality(U \ n.seen) < Cardinality(U \ s.seen)
  <2>1. (U \ n.seen) \subseteq (U \ s.seen) BY <1>4
  <2>2. n.seen # s.seen => (U \ n.seen) # (U \ s.seen) BY <1>3, <1>4, <1>5
  <2> DEFINE A == U \ s.seen
             B == U \ n.seen
  <2>3. IsFiniteSet(A) /\ B \subseteq A /\ (n.seen # s.seen => B # A) BY <1>7, <2>1, <2>2
  <2> HIDE DEF A, B
  <2>4. /\ IsFiniteSet(B) /\ Cardinality(B) <= Cardinality(A)
        /\ Cardinality(A) = Cardinality(B) => A = B
    BY <2>3, FS_Subset
  <2>5. Cardinality(A) \in Nat /\ Cardinality(B) \in Nat BY <2>3, <2>4, FS_CardinalityType
  <2>6. B # A => Cardinality(B) < Cardinality(A) BY <2>4, <2>5
  <2> QED BY <2>3, <2>4, <2>5, <2>6 DEF A, B
<1> HIDE DEF U, n
<1>9. Left(c, s) = 2 * Cardinality(U \ s.seen) + (IF s.seen = s.before THEN 0 ELSE 1)
  BY DEF Left, U
<1>10. Left(c, n) = 2 * Cardinality(U \ n.seen) + (IF n.seen = s.seen THEN 0 ELSE 1)
  BY <1>4 DEF Left, U
<1>11. s.seen # s.before => Left(c, n) < Left(c, s)
  BY <1>7, <1>8, <1>9, <1>10
<1>12. Left(c, s) \in Nat /\ Left(c, s) <= 2 * Cardinality(U) + 1
  BY <1>2, <1>7, <1>9
<1> QED BY <1>6, <1>11, <1>12 DEF U, n

\* Explore satisfies its recursive equation.
LEMMA ExploreRecursion ==
  ASSUME NEW G, IsFiniteSet(G), NEW c, IsCell(c, G), NEW front
  PROVE  Explore(front, c) =
           [s \in Progress(c) |-> IF s.seen = s.before THEN s.seen
                                  ELSE Explore(front, c)[Onward(front, c, s)]]
<1> DEFINE S == Progress(c)
           V == SUBSET Signatures(c)
           size == [s \in S |-> Left(c, s)]
           bound == 2 * Cardinality(Signatures(c)) + 1
           stopped == [s \in S |-> s.seen = s.before]
           ending == [s \in S |-> s.seen]
           onward == [s \in S |-> Onward(front, c, s)]
           combine == [p \in S \X V |-> p[2]]
           Solves(f) == f = [s \in S |-> IF s.seen = s.before THEN s.seen
                                         ELSE f[Onward(front, c, s)]]
<1>1. bound \in Nat
  <2>1. Signatures(c) = SUBSET G BY CellSignatures
  <2>2. Cardinality(Signatures(c)) \in Nat BY <2>1, FS_SUBSET, FS_CardinalityType
  <2> QED BY <2>2
<1>2. size \in [S -> Nat] /\ \A s \in S : size[s] <= bound
  <2>1. \A s \in S : Left(c, s) \in Nat /\ Left(c, s) <= bound BY OnwardGoesOn
  <2> HIDE DEF bound, S
  <2> QED BY <2>1
<1>3. stopped \in [S -> BOOLEAN] OBVIOUS
<1>4. \A s \in S : stopped[s] => ending[s] \in V BY DEF Progress
<1>5. \A s \in S : ~stopped[s] => onward[s] \in S /\ size[onward[s]] < size[s]
  <2>1. \A s \in S : /\ Onward(front, c, s) \in S
                     /\ s.seen # s.before => Left(c, Onward(front, c, s)) < Left(c, s)
    BY OnwardGoesOn
  <2> HIDE DEF S
  <2> QED BY <2>1
<1>6. \A s \in S : ~stopped[s] => \A v \in V : combine[<<s, v>>] \in V
  <2> HIDE DEF S, V
  <2> QED OBVIOUS
<1>7. PICK f \in [S -> V] : Unfolds(S, stopped, ending, onward, combine, f)
  <2> HIDE DEF S, V, size, bound, stopped, ending, onward, combine
  <2> QED BY <1>1, <1>2, <1>3, <1>4, <1>5, <1>6, RecursionHasSolution
<1>8. Solves(f)
  <2>1. f = [s \in S |-> IF stopped[s] THEN ending[s] ELSE combine[<<s, f[onward[s]]>>]]
    <3> HIDE DEF S, V, size, bound, stopped, ending, onward, combine
    <3> QED BY <1>7 DEF Unfolds
  <2>2. \A s \in S : onward[s] = Onward(front, c, s) /\ Onward(front, c, s) \in S
    BY OnwardGoesOn
  <2>3. \A s \in S : \A v \in V : combine[<<s, v>>] = v
    <3> HIDE DEF S, V
    <3> QED OBVIOUS
  <2>4. \A s \in S : (stopped[s] <=> s.seen = s.before) /\ ending[s] = s.seen
    <3> HIDE DEF S
    <3> QED OBVIOUS
  <2> HIDE DEF S, V, stopped, ending, onward, combine
  <2>5. \A s \in S : f[onward[s]] \in V BY <1>7, <2>2
  <2>6. ASSUME NEW s \in S
        PROVE  f[s] = IF s.seen = s.before THEN s.seen ELSE f[Onward(front, c, s)]
    <3>1. f[s] = IF stopped[s] THEN ending[s] ELSE combine[<<s, f[onward[s]]>>] BY <2>1
    <3>2. combine[<<s, f[onward[s]]>>] = f[onward[s]] BY <2>3, <2>5
    <3> QED BY <2>2, <2>4, <3>1, <3>2
  <2> QED BY <1>7, <2>6
<1>9. Explore(front, c) = CHOOSE f1 : Solves(f1)
  BY DEF Explore, Progress, Onward
<1>10. Solves(Explore(front, c))
  <2> HIDE DEF Solves
  <2> QED BY <1>8, <1>9
<1> QED BY <1>10

\* Exploring from vertices of the cell reports these and vertices of the cell.
LEMMA ExploredIsKnown ==
  ASSUME NEW G, IsFiniteSet(G), NEW c, IsCell(c, G), NEW front,
         NEW start, start \subseteq AtNode(c, G)
  PROVE  /\ start \subseteq Explored(front, c, start)
         /\ Explored(front, c, start) \subseteq AtNode(c, G)
<1> DEFINE S == Progress(c)
           E == Explore(front, c)
           size == [s \in S |-> Left(c, s)]
           Fine(s) == s.seen \subseteq E[s] /\ E[s] \subseteq AtNode(c, G)
           Good == {s \in S : s.seen \subseteq AtNode(c, G) => Fine(s)}
<1>1. \A s \in S : size[s] \in Nat
  <2>1. \A s \in S : Left(c, s) \in Nat BY OnwardGoesOn
  <2> HIDE DEF S
  <2> QED BY <2>1
<1>2. ASSUME NEW s \in S, \A r \in S : size[r] < size[s] => r \in Good PROVE s \in Good
  <2> SUFFICES ASSUME s.seen \subseteq AtNode(c, G) PROVE Fine(s)
    OBVIOUS
  <2> DEFINE n == Onward(front, c, s)
  <2>1. n \in S /\ (s.seen # s.before => Left(c, n) < Left(c, s)) BY OnwardGoesOn
  <2>2. E[s] = IF s.seen = s.before THEN s.seen ELSE E[n]
    <3> DEFINE Next1(r) == IF r.seen = r.before THEN r.seen ELSE E[Onward(front, c, r)]
    <3>1. E = [r \in S |-> Next1(r)] BY ExploreRecursion
    <3> HIDE DEF E, S, Next1
    <3>2. E[s] = Next1(s) BY <3>1
    <3> QED BY <3>2 DEF Next1
  <2>3. CASE s.seen = s.before BY <2>2, <2>3
  <2>4. CASE s.seen # s.before
    <3>1. n \in Good
      <4>1. size[n] < size[s]
        <5> HIDE DEF S, n
        <5> QED BY <2>1, <2>4
      <4> HIDE DEF S, n, size, Good
      <4> QED BY <1>2, <2>1, <4>1
    <3>2. s.seen \subseteq n.seen /\ n.seen \subseteq AtNode(c, G)
      <4>1. \A sigma \in s.seen : Ends(front, c, sigma) \subseteq AtNode(c, G)
        <5>1. \A sigma \in s.seen : sigma \in SUBSET G BY DEF AtNode
        <5> QED BY <5>1, EndsAreKnown
      <4> QED BY <4>1 DEF Onward
    <3>3. Fine(n) BY <3>1, <3>2
    <3> QED BY <2>2, <2>4, <3>2, <3>3
  <2> QED BY <2>3, <2>4
<1>3. S \subseteq Good
  <2> HIDE DEF S, size, Good
  <2> QED BY <1>1, <1>2, MeasureInduction
<1>4. [before |-> {}, seen |-> start] \in S
  <2>1. Signatures(c) = SUBSET G BY CellSignatures
  <2> QED BY <2>1 DEF Progress, AtNode
<1>5. Fine([before |-> {}, seen |-> start])
  <2> HIDE DEF Fine
  <2> QED BY <1>3, <1>4
<1> QED BY <1>5 DEF Explored

\* The corners are vertices of the cell.
LEMMA CornersAreKnown ==
  ASSUME NEW G, NEW c, IsCell(c, G)
  PROVE  Corners(c) \subseteq AtNode(c, G)
BY DEF Corners, AtNode, IsCell

-----------------------------------------------------------------------------

\* The walks from the corners of a cell.
Rest(c, walked) == Corners(c) \ UNION walked
Further(front, c, walked) ==
  walked \cup {Explored(front, c, {CHOOSE sigma \in Rest(c, walked) : TRUE})}

\* Every further walk takes at least one corner from what is left.
LEMMA FurtherGoesOn ==
  ASSUME NEW G, IsFiniteSet(G), NEW c, IsCell(c, G), NEW front,
         NEW walked \in SUBSET SUBSET Signatures(c)
  PROVE  /\ Cardinality(Rest(c, walked)) \in Nat
         /\ Cardinality(Rest(c, walked)) <= Cardinality(SUBSET G)
         /\ Rest(c, walked) # {} =>
              /\ Further(front, c, walked) \in SUBSET SUBSET Signatures(c)
              /\ Cardinality(Rest(c, Further(front, c, walked))) < Cardinality(Rest(c, walked))
              /\ walked \subseteq SUBSET AtNode(c, G)
                 => Further(front, c, walked) \subseteq SUBSET AtNode(c, G)
<1> DEFINE R == Rest(c, walked)
           W == Further(front, c, walked)
           Q == Rest(c, W)
           sigma == CHOOSE tau \in R : TRUE
           X == Explored(front, c, {sigma})
<1>1. Signatures(c) = SUBSET G BY CellSignatures
<1>2. R \subseteq SUBSET G BY CornersAreKnown DEF Rest, AtNode
<1>3. /\ IsFiniteSet(R) /\ Cardinality(R) \in Nat /\ Cardinality(R) <= Cardinality(SUBSET G)
  <2>1. IsFiniteSet(SUBSET G) BY FS_SUBSET
  <2> HIDE DEF R
  <2> QED BY <1>2, <2>1, FS_Subset, FS_CardinalityType
<1>4. ASSUME R # {}
      PROVE  /\ W \in SUBSET SUBSET Signatures(c)
             /\ Cardinality(Q) < Cardinality(R)
             /\ walked \subseteq SUBSET AtNode(c, G) => W \subseteq SUBSET AtNode(c, G)
  <2>1. sigma \in R BY <1>4
  <2>2. W = walked \cup {X} BY DEF Further
  <2>3. sigma \in AtNode(c, G) BY <2>1, CornersAreKnown DEF Rest
  <2>4. sigma \in X /\ X \subseteq AtNode(c, G)
    <3>1. {sigma} \subseteq AtNode(c, G) BY <2>3
    <3> HIDE DEF sigma
    <3> QED BY <3>1, ExploredIsKnown
  <2> HIDE DEF X, sigma, W
  <2>5. W \in SUBSET SUBSET Signatures(c) BY <1>1, <2>2, <2>4 DEF AtNode
  <2>6. Q \subseteq R /\ sigma \notin Q BY <2>2, <2>4 DEF Rest
  <2>7. Cardinality(Q) < Cardinality(R)
    <3> HIDE DEF Q, R
    <3>1. /\ IsFiniteSet(Q) /\ Cardinality(Q) <= Cardinality(R)
          /\ Cardinality(R) = Cardinality(Q) => R = Q
      BY <1>3, <2>6, FS_Subset
    <3>2. Cardinality(Q) \in Nat /\ R # Q BY <2>1, <2>6, <3>1, FS_CardinalityType
    <3> QED BY <1>3, <3>1, <3>2
  <2> QED BY <2>2, <2>4, <2>5, <2>7
<1> QED BY <1>3, <1>4

\* Descend satisfies its recursive equation.
LEMMA DescendRecursion ==
  ASSUME NEW G, IsFiniteSet(G), NEW c, IsCell(c, G), NEW front
  PROVE  Descend(front, c) =
           [walked \in SUBSET SUBSET Signatures(c) |->
              IF Rest(c, walked) = {} THEN walked
              ELSE Descend(front, c)[Further(front, c, walked)]]
<1> DEFINE S == SUBSET SUBSET Signatures(c)
           size == [s \in S |-> Cardinality(Rest(c, s))]
           bound == Cardinality(SUBSET G)
           stopped == [s \in S |-> Rest(c, s) = {}]
           ending == [s \in S |-> s]
           onward == [s \in S |-> Further(front, c, s)]
           combine == [p \in S \X S |-> p[2]]
           Solves(f) == f = [s \in S |-> IF Rest(c, s) = {} THEN s
                                         ELSE f[Further(front, c, s)]]
<1>1. bound \in Nat BY FS_SUBSET, FS_CardinalityType
<1>2. size \in [S -> Nat] /\ \A s \in S : size[s] <= bound
  <2>1. \A s \in S : Cardinality(Rest(c, s)) \in Nat /\ Cardinality(Rest(c, s)) <= bound
    BY FurtherGoesOn
  <2> HIDE DEF bound, S
  <2> QED BY <2>1
<1>3. stopped \in [S -> BOOLEAN] OBVIOUS
<1>4. \A s \in S : stopped[s] => ending[s] \in S
  <2> HIDE DEF S
  <2> QED OBVIOUS
<1>5. \A s \in S : ~stopped[s] => onward[s] \in S /\ size[onward[s]] < size[s]
  <2>1. \A s \in S : Rest(c, s) # {} =>
          /\ Further(front, c, s) \in S
          /\ Cardinality(Rest(c, Further(front, c, s))) < Cardinality(Rest(c, s))
    BY FurtherGoesOn
  <2> HIDE DEF S
  <2> QED BY <2>1
<1>6. \A s \in S : ~stopped[s] => \A v \in S : combine[<<s, v>>] \in S
  <2> HIDE DEF S
  <2> QED OBVIOUS
<1>7. PICK f \in [S -> S] : Unfolds(S, stopped, ending, onward, combine, f)
  <2> HIDE DEF S, size, bound, stopped, ending, onward, combine
  <2> QED BY <1>1, <1>2, <1>3, <1>4, <1>5, <1>6, RecursionHasSolution
<1>8. Solves(f)
  <2>1. f = [s \in S |-> IF stopped[s] THEN ending[s] ELSE combine[<<s, f[onward[s]]>>]]
    <3> HIDE DEF S, size, bound, stopped, ending, onward, combine
    <3> QED BY <1>7 DEF Unfolds
  <2>2. \A s \in S : /\ onward[s] = Further(front, c, s)
                     /\ Rest(c, s) # {} => Further(front, c, s) \in S
    <3>1. \A s \in S : Rest(c, s) # {} => Further(front, c, s) \in S BY FurtherGoesOn
    <3> HIDE DEF S
    <3> QED BY <3>1
  <2>3. \A s \in S : \A v \in S : combine[<<s, v>>] = v
    <3> HIDE DEF S
    <3> QED OBVIOUS
  <2>4. \A s \in S : (stopped[s] <=> Rest(c, s) = {}) /\ ending[s] = s
    <3> HIDE DEF S
    <3> QED OBVIOUS
  <2> HIDE DEF S, stopped, ending, onward, combine
  <2>6. ASSUME NEW s \in S
        PROVE  f[s] = IF Rest(c, s) = {} THEN s ELSE f[Further(front, c, s)]
    <3>1. f[s] = IF stopped[s] THEN ending[s] ELSE combine[<<s, f[onward[s]]>>] BY <2>1
    <3>2. CASE Rest(c, s) = {} BY <2>4, <3>1, <3>2
    <3>3. CASE Rest(c, s) # {}
      <4>1. f[onward[s]] \in S BY <1>7, <2>2, <3>3
      <4>2. combine[<<s, f[onward[s]]>>] = f[onward[s]] BY <2>3, <4>1
      <4> QED BY <2>2, <2>4, <3>1, <3>3, <4>2
    <3> QED BY <3>2, <3>3
  <2> QED BY <1>7, <2>6
<1>9. Descend(front, c) = CHOOSE f1 : Solves(f1)
  BY DEF Descend, Rest, Further
<1>10. Solves(Descend(front, c))
  <2> HIDE DEF Solves
  <2> QED BY <1>8, <1>9
<1> QED BY <1>10

\* A descent and the walk after it report vertices of the cell.
LEMMA DescentsAreKnown ==
  ASSUME NEW G, IsFiniteSet(G), NEW c, IsCell(c, G), NEW front
  PROVE  Descents(front, c) \subseteq SUBSET AtNode(c, G)
<1> DEFINE S == SUBSET SUBSET Signatures(c)
           D == Descend(front, c)
           size == [s \in S |-> Cardinality(Rest(c, s))]
           Known(X) == X \subseteq SUBSET AtNode(c, G)
           Good == {s \in S : Known(s) => Known(D[s])}
<1>1. \A s \in S : size[s] \in Nat
  <2>1. \A s \in S : Cardinality(Rest(c, s)) \in Nat BY FurtherGoesOn
  <2> HIDE DEF S
  <2> QED BY <2>1
<1>2. ASSUME NEW s \in S, \A r \in S : size[r] < size[s] => r \in Good PROVE s \in Good
  <2> SUFFICES ASSUME Known(s) PROVE Known(D[s])
    OBVIOUS
  <2> DEFINE n == Further(front, c, s)
  <2>1. Rest(c, s) # {} => /\ n \in S /\ Known(n)
                           /\ Cardinality(Rest(c, n)) < Cardinality(Rest(c, s))
    BY FurtherGoesOn
  <2>2. D[s] = IF Rest(c, s) = {} THEN s ELSE D[n]
    <3> DEFINE Next1(r) == IF Rest(c, r) = {} THEN r ELSE D[Further(front, c, r)]
    <3>1. D = [r \in S |-> Next1(r)] BY DescendRecursion
    <3> HIDE DEF D, S, Next1
    <3>2. D[s] = Next1(s) BY <3>1
    <3> QED BY <3>2 DEF Next1
  <2> HIDE DEF Known, D
  <2>3. CASE Rest(c, s) = {} BY <2>2, <2>3
  <2>4. CASE Rest(c, s) # {}
    <3>1. n \in Good
      <4>1. size[n] < size[s]
        <5> HIDE DEF S, n
        <5> QED BY <2>1, <2>4
      <4> HIDE DEF S, n, size, Good
      <4> QED BY <1>2, <2>1, <2>4, <4>1
    <3> QED BY <2>1, <2>2, <2>4, <3>1
  <2> QED BY <2>3, <2>4
<1>3. S \subseteq Good
  <2> HIDE DEF S, size, Good
  <2> QED BY <1>1, <1>2, MeasureInduction
<1>4. {} \in S /\ Known({}) OBVIOUS
<1>5. Known(D[{}])
  <2> HIDE DEF Known, D, S
  <2> QED BY <1>3, <1>4
<1> QED BY <1>5 DEF Descents

\* The numbers up to n are finitely many.
LEMMA IntervalIsFinite == ASSUME NEW n \in Nat PROVE IsFiniteSet(0 .. n)
<1>1. 0 \in Int /\ n \in Int OBVIOUS
<1> QED BY <1>1, FS_Interval

\* The sets of generators that name a node of the front.
AtFront(G, front) == {sigma \in SUBSET G : sigma \cap front # {}}

\* What computing one cell may add.
LEMMA CellResultsAreKnown ==
  ASSUME NEW G, IsFiniteSet(G), NEW c, IsCell(c, G), NEW front, c.node \in front,
         NEW offered \in SUBSET SUBSET G, NEW known, NEW found \in SUBSET AtFront(G, front),
         NEW result \in CellResults(front, offered, known, c, found)
  PROVE  found \subseteq result /\ result \subseteq AtFront(G, front)
<1> DEFINE stored == {sigma \in found \ known : ~OnPeriodicPlane(sigma)}
           start == Touching(offered \cup stored, {c.node})
<1>1. AtNode(c, G) \subseteq AtFront(G, front) BY DEF AtNode, AtFront
<1>2. start \subseteq AtNode(c, G) BY DEF Touching, AtNode, AtFront
<1> HIDE DEF start
<1>3. CASE start # {}
  <2>1. result = found \cup (Explored(front, c, start) \ start)
    BY <1>3 DEF CellResults, start
  <2>2. Explored(front, c, start) \subseteq AtNode(c, G) BY <1>2, ExploredIsKnown
  <2> QED BY <1>1, <2>1, <2>2
<1>4. CASE start = {}
  <2>1. PICK walk \in Descents(front, c) : result = found \cup walk
    BY <1>4 DEF CellResults, start
  <2>2. walk \subseteq AtNode(c, G) BY DescentsAreKnown
  <2> QED BY <1>1, <2>1, <2>2
<1> QED BY <1>3, <1>4

\* The run over the front, one cell more.
OneMore(view, front, offered, known, done, results) ==
  UNION {CellResults(front, offered, known, cell, found) :
           cell \in {Activated(view, Greatest(done))}, found \in results}

\* One cell more leaves a smaller set of cells to look back at, and adds vertices of the view.
LEMMA OneMoreIsKnown ==
  ASSUME NEW view, IsFiniteSet(Generators(view)), NEW n \in Nat,
         NEW front, front \subseteq DOMAIN view.at, front \subseteq 0 .. n,
         NEW offered \in SUBSET SUBSET Generators(view), NEW known,
         NEW done \in SUBSET front, done # {},
         NEW results \in SUBSET SUBSET AtFront(Generators(view), front)
  PROVE  /\ done \ {Greatest(done)} \in SUBSET front
         /\ Cardinality(done) \in Nat
         /\ Cardinality(done \ {Greatest(done)}) < Cardinality(done)
         /\ OneMore(view, front, offered, known, done, results)
              \in SUBSET SUBSET AtFront(Generators(view), front)
<1> DEFINE G == Generators(view)
           g == Greatest(done)
           c == Activated(view, g)
<1>1. g \in done BY GreatestIsGreatest
<1>2. /\ IsFiniteSet(done) /\ Cardinality(done) \in Nat
      /\ Cardinality(done \ {g}) = Cardinality(done) - 1
  <2>1. IsFiniteSet(done)
    <3>1. IsFiniteSet(0 .. n) BY IntervalIsFinite
    <3> QED BY <3>1, FS_Subset
  <2> HIDE DEF g
  <2>2. Cardinality(done) \in Nat BY <2>1, FS_CardinalityType
  <2>3. Cardinality(done \ {g}) = IF g \in done THEN Cardinality(done) - 1 ELSE Cardinality(done)
    BY <2>1, FS_RemoveElement
  <2> QED BY <1>1, <2>1, <2>2, <2>3
<1>3. IsCell(c, G) /\ c.node \in front BY <1>1, ActivatedIsCell
<1>4. OneMore(view, front, offered, known, done, results) \in SUBSET SUBSET AtFront(G, front)
  <2> HIDE DEF c, G
  <2> SUFFICES ASSUME NEW found \in results,
                      NEW result \in CellResults(front, offered, known, c, found)
               PROVE  result \subseteq AtFront(G, front)
    BY DEF OneMore, c, G
  <2>1. found \in SUBSET AtFront(G, front) BY DEF G
  <2>2. offered \in SUBSET SUBSET G /\ IsFiniteSet(G) BY DEF G
  <2> QED BY <1>3, <2>1, <2>2, CellResultsAreKnown
<1> QED BY <1>2, <1>4

\* One step of the recursive function Reports.
ReportsNext(view, front, offered, known, reports, done) ==
  IF done = {} THEN {{}}
  ELSE OneMore(view, front, offered, known, done, reports[done \ {Greatest(done)}])

\* Reports satisfies its recursive equation.
LEMMA ReportsRecursion ==
  ASSUME NEW view, IsFiniteSet(Generators(view)), NEW n \in Nat,
         NEW front, front \subseteq DOMAIN view.at, front \subseteq 0 .. n,
         NEW offered \in SUBSET SUBSET Generators(view), NEW known
  PROVE  \A done \in SUBSET front :
           Reports(view, front, offered, known)[done] =
             ReportsNext(view, front, offered, known, Reports(view, front, offered, known), done)
<1> DEFINE S == SUBSET front
           V == SUBSET SUBSET AtFront(Generators(view), front)
           size == [s \in S |-> Cardinality(s)]
           bound == Cardinality(front)
           stopped == [s \in S |-> s = {}]
           ending == [s \in S |-> {{}}]
           onward == [s \in S |-> s \ {Greatest(s)}]
           combine == [p \in S \X V |-> OneMore(view, front, offered, known, p[1], p[2])]
           Solves(f) == f = [s \in S |-> IF s = {} THEN {{}}
                                         ELSE OneMore(view, front, offered, known, s,
                                                      f[s \ {Greatest(s)}])]
<1>1. IsFiniteSet(front) /\ bound \in Nat
  <2>1. IsFiniteSet(0 .. n) BY IntervalIsFinite
  <2> QED BY <2>1, FS_Subset, FS_CardinalityType
<1>2. size \in [S -> Nat] /\ \A s \in S : size[s] <= bound
  <2>1. ASSUME NEW s \in S PROVE Cardinality(s) \in Nat /\ Cardinality(s) <= bound
    BY <1>1, FS_Subset, FS_CardinalityType
  <2> HIDE DEF bound, S
  <2> QED BY <2>1
<1>3. stopped \in [S -> BOOLEAN] OBVIOUS
<1>4. \A s \in S : stopped[s] => ending[s] \in V
  <2>1. {{}} \in V OBVIOUS
  <2> HIDE DEF S, V
  <2> QED BY <2>1
<1>5. ASSUME NEW s \in S, s # {}
      PROVE  /\ s \ {Greatest(s)} \in S /\ Cardinality(s \ {Greatest(s)}) < Cardinality(s)
             /\ \A v \in V : OneMore(view, front, offered, known, s, v) \in V
  <2>1. {} \in V OBVIOUS
  <2>2. ASSUME NEW v \in V
        PROVE  /\ s \ {Greatest(s)} \in S /\ Cardinality(s \ {Greatest(s)}) < Cardinality(s)
               /\ OneMore(view, front, offered, known, s, v) \in V
    BY <1>5, OneMoreIsKnown
  <2> HIDE DEF V
  <2> QED BY <2>1, <2>2
<1>6. \A s \in S : ~stopped[s] => onward[s] \in S /\ size[onward[s]] < size[s]
  <2> HIDE DEF V
  <2>1. ASSUME NEW s \in S, ~stopped[s] PROVE onward[s] \in S /\ size[onward[s]] < size[s]
    <3>1. s # {} BY <2>1
    <3> HIDE DEF S
    <3> QED BY <1>5, <3>1
  <2> QED BY <2>1
<1>7. \A s \in S : ~stopped[s] => \A v \in V : combine[<<s, v>>] \in V
  <2>1. ASSUME NEW s \in S, ~stopped[s], NEW v \in V PROVE combine[<<s, v>>] \in V
    <3>1. s # {} BY <2>1
    <3> HIDE DEF S, V
    <3>2. combine[<<s, v>>] = OneMore(view, front, offered, known, s, v) OBVIOUS
    <3> QED BY <1>5, <3>1, <3>2
  <2> QED BY <2>1
<1>8. PICK f \in [S -> V] : Unfolds(S, stopped, ending, onward, combine, f)
  <2> HIDE DEF S, V, size, bound, stopped, ending, onward, combine
  <2> QED BY <1>1, <1>2, <1>3, <1>4, <1>6, <1>7, RecursionHasSolution
<1>9. Solves(f)
  <2>1. f = [s \in S |-> IF stopped[s] THEN ending[s] ELSE combine[<<s, f[onward[s]]>>]]
    <3> HIDE DEF S, V, size, bound, stopped, ending, onward, combine
    <3> QED BY <1>8 DEF Unfolds
  <2>2. ASSUME NEW s \in S
        PROVE  f[s] = IF s = {} THEN {{}}
                      ELSE OneMore(view, front, offered, known, s, f[s \ {Greatest(s)}])
    <3>1. f[s] = IF stopped[s] THEN ending[s] ELSE combine[<<s, f[onward[s]]>>]
      <4> HIDE DEF S, V, stopped, ending, onward, combine
      <4> QED BY <2>1
    <3>2. (stopped[s] <=> s = {}) /\ ending[s] = {{}} /\ onward[s] = s \ {Greatest(s)}
      <4> HIDE DEF S
      <4> QED OBVIOUS
    <3>3. CASE s = {} BY <3>1, <3>2, <3>3
    <3>4. CASE s # {}
      <4>1. f[onward[s]] \in V
        <5> HIDE DEF S, V, onward
        <5> QED BY <1>5, <1>8, <3>2, <3>4
      <4>2. combine[<<s, f[onward[s]]>>] = OneMore(view, front, offered, known, s, f[onward[s]])
        <5> HIDE DEF S, V, onward
        <5> QED BY <4>1
      <4> HIDE DEF S, V, stopped, ending, onward, combine
      <4> QED BY <3>1, <3>2, <3>4, <4>2
    <3> QED BY <3>3, <3>4
  <2> HIDE DEF V, stopped, ending, onward, combine
  <2>3. f = [s \in S |-> f[s]]
    <3> HIDE DEF S
    <3> QED BY <1>8
  <2> HIDE DEF S
  <2> QED BY <2>2, <2>3
<1>10. Reports(view, front, offered, known) = CHOOSE f1 : Solves(f1)
  BY DEF Reports, OneMore
<1>11. Solves(Reports(view, front, offered, known))
  <2> HIDE DEF Solves
  <2> QED BY <1>9, <1>10
<1>12. ASSUME NEW s \in S
       PROVE  Reports(view, front, offered, known)[s] =
                ReportsNext(view, front, offered, known, Reports(view, front, offered, known), s)
  <2> DEFINE R == Reports(view, front, offered, known)
             Next1(d) == ReportsNext(view, front, offered, known, R, d)
  <2>1. R = [d \in S |-> Next1(d)] BY <1>11 DEF ReportsNext
  <2> HIDE DEF R, S, Next1
  <2>2. R[s] = Next1(s) BY <2>1
  <2> QED BY <2>2 DEF R, Next1
<1> QED BY <1>12

\* A run reports vertices that name a node of its front, and generators of its view only.
LEMMA WalksAreKnown ==
  ASSUME NEW view, IsFiniteSet(Generators(view)), NEW n \in Nat,
         NEW front, front \subseteq DOMAIN view.at, front \subseteq 0 .. n,
         NEW offered \in SUBSET SUBSET Generators(view), NEW known
  PROVE  Walks(view, front, offered, known) \subseteq SUBSET AtFront(Generators(view), front)
<1> DEFINE S == SUBSET front
           R == Reports(view, front, offered, known)
           V == SUBSET SUBSET AtFront(Generators(view), front)
           size == [s \in S |-> Cardinality(s)]
           Good == {s \in S : R[s] \in V}
<1>1. IsFiniteSet(front)
  <2>1. IsFiniteSet(0 .. n) BY IntervalIsFinite
  <2> QED BY <2>1, FS_Subset
<1>2. \A s \in S : size[s] \in Nat
  <2>1. ASSUME NEW s \in S PROVE Cardinality(s) \in Nat
    BY <1>1, FS_Subset, FS_CardinalityType
  <2> HIDE DEF S
  <2> QED BY <2>1
<1>3. ASSUME NEW s \in S, \A r \in S : size[r] < size[s] => r \in Good PROVE s \in Good
  <2> DEFINE r == s \ {Greatest(s)}
             More(d, v) == OneMore(view, front, offered, known, d, v)
  <2>1. R[s] = IF s = {} THEN {{}} ELSE More(s, R[r])
    <3>1. R[s] = ReportsNext(view, front, offered, known, R, s)
      BY ReportsRecursion
    <3> QED BY <3>1 DEF ReportsNext
  <2>2. CASE s = {}
    <3>1. {{}} \in V OBVIOUS
    <3> HIDE DEF V, R
    <3> QED BY <2>1, <2>2, <3>1
  <2>3. CASE s # {}
    <3>1. {} \in V OBVIOUS
    <3>2. ASSUME NEW v \in V
          PROVE  r \in S /\ Cardinality(r) < Cardinality(s) /\ More(s, v) \in V
      BY <2>3, OneMoreIsKnown
    <3> HIDE DEF V, R, More
    <3>3. r \in S /\ Cardinality(r) < Cardinality(s) BY <3>1, <3>2
    <3>4. R[r] \in V
      <4>1. size[r] < size[s]
        <5> HIDE DEF S, r
        <5> QED BY <3>3
      <4> HIDE DEF S, r, size
      <4>2. r \in Good
        <5> HIDE DEF Good
        <5> QED BY <1>3, <3>3, <4>1
      <4> QED BY <4>2
    <3> QED BY <2>1, <2>3, <3>2, <3>4
  <2> QED BY <2>2, <2>3
<1>4. S \subseteq Good
  <2> HIDE DEF S, size, Good
  <2> QED BY <1>2, <1>3, MeasureInduction
<1>5. front \in S OBVIOUS
<1>6. R[front] \in V
  <2> HIDE DEF S, R, V
  <2> QED BY <1>4, <1>5
<1> QED BY <1>6 DEF Walks

-----------------------------------------------------------------------------
(* Sums, greatest members and ranks in finite sets.                        *)

\* The member that a fold takes next.
Some(s) == CHOOSE x \in s : TRUE

\* The sum of integers is an integer, and of zeros zero.
LEMMA SumIsInteger ==
  ASSUME NEW D, NEW fun \in [D -> Int], NEW S, S \subseteq D, IsFiniteSet(S)
  PROVE  /\ FoldFunctionOnSet(+, 0, fun, S) \in Int
         /\ (\A x \in S : fun[x] = 0) => FoldFunctionOnSet(+, 0, fun, S) = 0
<1> DEFINE P == SUBSET S
           size == [s \in P |-> Cardinality(s)]
           bound == Cardinality(S)
           stopped == [s \in P |-> s = {}]
           ending == [s \in P |-> 0]
           onward == [s \in P |-> s \ {Some(s)}]
           combine == [p \in P \X Int |-> fun[Some(p[1])] + p[2]]
           Solves(f) == f = [s \in P |-> IF s = {} THEN 0 ELSE fun[Some(s)] + f[s \ {Some(s)}]]
           sum == CHOOSE f : Solves(f)
<1>1. bound \in Nat BY FS_CardinalityType
<1>2. ASSUME NEW s \in P
      PROVE  /\ IsFiniteSet(s) /\ Cardinality(s) \in Nat /\ Cardinality(s) <= bound
             /\ s # {} => /\ Some(s) \in s /\ Some(s) \in S
                          /\ s \ {Some(s)} \in P
                          /\ Cardinality(s \ {Some(s)}) < Cardinality(s)
  <2>1. /\ IsFiniteSet(s) /\ Cardinality(s) \in Nat /\ Cardinality(s) <= bound
    BY FS_Subset, FS_CardinalityType
  <2>2. ASSUME s # {} PROVE Some(s) \in s BY <2>2 DEF Some
  <2>3. ASSUME s # {} PROVE Cardinality(s \ {Some(s)}) = Cardinality(s) - 1
    <3> DEFINE x == Some(s)
    <3>1. x \in s BY <2>2, <2>3
    <3> HIDE DEF x
    <3>2. Cardinality(s \ {x}) = IF x \in s THEN Cardinality(s) - 1 ELSE Cardinality(s)
      BY <2>1, FS_RemoveElement
    <3> QED BY <3>1, <3>2 DEF x
  <2> QED BY <2>1, <2>2, <2>3
<1>3. size \in [P -> Nat] /\ \A s \in P : size[s] <= bound
  <2> HIDE DEF P, bound
  <2> QED BY <1>2
<1>4. stopped \in [P -> BOOLEAN] /\ \A s \in P : stopped[s] => ending[s] \in Int
  <2> HIDE DEF P
  <2> QED OBVIOUS
<1>5. \A s \in P : ~stopped[s] => onward[s] \in P /\ size[onward[s]] < size[s]
  <2> HIDE DEF P
  <2> QED BY <1>2
<1>6. \A s \in P : ~stopped[s] => \A v \in Int : combine[<<s, v>>] \in Int
  <2>1. ASSUME NEW s \in P, ~stopped[s], NEW v \in Int PROVE combine[<<s, v>>] \in Int
    <3>1. s # {} BY <2>1
    <3>2. fun[Some(s)] \in Int BY <1>2, <3>1
    <3> HIDE DEF P
    <3>3. combine[<<s, v>>] = fun[Some(s)] + v OBVIOUS
    <3> QED BY <3>2, <3>3
  <2> QED BY <2>1
<1>7. PICK f \in [P -> Int] : Unfolds(P, stopped, ending, onward, combine, f)
  <2> HIDE DEF P, size, bound, stopped, ending, onward, combine
  <2> QED BY <1>1, <1>3, <1>4, <1>5, <1>6, RecursionHasSolution
<1>8. Solves(f)
  <2>1. f = [s \in P |-> IF stopped[s] THEN ending[s] ELSE combine[<<s, f[onward[s]]>>]]
    <3> HIDE DEF P, size, bound, stopped, ending, onward, combine
    <3> QED BY <1>7 DEF Unfolds
  <2>2. ASSUME NEW s \in P
        PROVE  f[s] = IF s = {} THEN 0 ELSE fun[Some(s)] + f[s \ {Some(s)}]
    <3>1. f[s] = IF stopped[s] THEN ending[s] ELSE combine[<<s, f[onward[s]]>>]
      <4> HIDE DEF P, stopped, ending, onward, combine
      <4> QED BY <2>1
    <3>2. (stopped[s] <=> s = {}) /\ ending[s] = 0 /\ onward[s] = s \ {Some(s)}
      <4> HIDE DEF P
      <4> QED OBVIOUS
    <3>3. CASE s = {} BY <3>1, <3>2, <3>3
    <3>4. CASE s # {}
      <4>1. f[onward[s]] \in Int
        <5> HIDE DEF P, onward
        <5> QED BY <1>2, <1>7, <3>2, <3>4
      <4>2. combine[<<s, f[onward[s]]>>] = fun[Some(s)] + f[onward[s]]
        <5> HIDE DEF P, onward
        <5> QED BY <4>1
      <4> HIDE DEF P, stopped, ending, onward, combine
      <4> QED BY <3>1, <3>2, <3>4, <4>2
    <3> QED BY <3>3, <3>4
  <2>3. f = [s \in P |-> f[s]]
    <3> HIDE DEF P
    <3> QED BY <1>7
  <2> HIDE DEF P
  <2> QED BY <2>2, <2>3
<1>9. Solves(sum)
  <2> HIDE DEF Solves
  <2> QED BY <1>8
<1>10. FoldFunctionOnSet(+, 0, fun, S) = sum[S]
  BY DEF FoldFunctionOnSet, MapThenFoldSet, Some
<1> DEFINE Fine(s) == sum[s] \in Int /\ ((\A x \in S : fun[x] = 0) => sum[s] = 0)
           Good == {s \in P : Fine(s)}
<1>11. ASSUME NEW s \in P PROVE sum[s] = IF s = {} THEN 0 ELSE fun[Some(s)] + sum[s \ {Some(s)}]
  <2> HIDE DEF P, sum
  <2> QED BY <1>9
<1> HIDE DEF sum
<1>12. ASSUME NEW s \in P, \A r \in P : size[r] < size[s] => r \in Good PROVE s \in Good
  <2> DEFINE r == s \ {Some(s)}
  <2>1. CASE s = {}
    <3>1. sum[s] = 0 BY <1>11, <2>1
    <3>2. Fine(s) BY <3>1
    <3> HIDE DEF P, Fine
    <3> QED BY <3>2
  <2>2. CASE s # {}
    <3>1. r \in P /\ size[r] < size[s] /\ Some(s) \in S
      <4> HIDE DEF P
      <4> QED BY <1>2, <2>2
    <3>2. r \in Good
      <4> HIDE DEF P, size, Good, r
      <4> QED BY <1>12, <3>1
    <3>3. sum[s] = fun[Some(s)] + sum[r] BY <1>11, <2>2
    <3>4. fun[Some(s)] \in Int BY <3>1
    <3>5. Fine(r) BY <3>2
    <3>6. Fine(s)
      <4> HIDE DEF r
      <4> QED BY <3>1, <3>3, <3>4, <3>5
    <3> QED BY <3>6
  <2> QED BY <2>1, <2>2
<1>13. \A s \in P : size[s] \in Nat
  <2> HIDE DEF P, size
  <2> QED BY <1>3
<1>14. P \subseteq Good
  <2> HIDE DEF P, size, Good
  <2> QED BY <1>12, <1>13, MeasureInduction
<1>15. S \in P OBVIOUS
<1>16. Fine(S)
  <2> HIDE DEF P, Fine
  <2> QED BY <1>14, <1>15
<1> QED BY <1>10, <1>16

\* A finite set of integers that is not empty has a greatest one.
LEMMA FiniteHasGreatest ==
  ASSUME NEW S, S \subseteq Int, IsFiniteSet(S), S # {}
  PROVE  Greatest(S) \in S /\ \A j \in S : Greatest(S) >= j
<1> DEFINE P == SUBSET S
           size == [s \in P |-> Cardinality(s)]
           HasGreatest(s) == s = {} \/ \E i \in s : \A j \in s : i >= j
           Good == {s \in P : HasGreatest(s)}
<1>1. \A s \in P : size[s] \in Nat
  <2>1. ASSUME NEW s \in P PROVE Cardinality(s) \in Nat BY FS_Subset, FS_CardinalityType
  <2> HIDE DEF P
  <2> QED BY <2>1
<1>2. ASSUME NEW s \in P, \A r \in P : size[r] < size[s] => r \in Good PROVE s \in Good
  <2> SUFFICES ASSUME s # {} PROVE HasGreatest(s)
    OBVIOUS
  <2>1. PICK x \in s : TRUE OBVIOUS
  <2> DEFINE r == s \ {x}
  <2>2. r \in P /\ size[r] < size[s]
    <3>1. IsFiniteSet(s) BY FS_Subset
    <3>2. Cardinality(s) \in Nat BY <3>1, FS_CardinalityType
    <3>3. Cardinality(r) = IF x \in s THEN Cardinality(s) - 1 ELSE Cardinality(s)
      BY <3>1, FS_RemoveElement
    <3>4. r \in P OBVIOUS
    <3>5. Cardinality(r) < Cardinality(s) BY <2>1, <3>2, <3>3
    <3> HIDE DEF P, r
    <3> QED BY <3>4, <3>5
  <2>3. HasGreatest(r)
    <3> HIDE DEF P, size, HasGreatest, r
    <3> QED BY <1>2, <2>2
  <2>4. CASE r = {}
    <3>1. s = {x} BY <2>1, <2>4
    <3>2. x \in Int BY <2>1
    <3> QED BY <3>1, <3>2
  <2>5. CASE r # {}
    <3>1. PICK y \in r : \A j \in r : y >= j BY <2>3, <2>5
    <3>2. x \in Int /\ y \in Int /\ x \in s /\ y \in s /\ \A j \in s : j \in Int BY <2>1
    <3>3. \A j \in s : j = x \/ y >= j BY <3>1
    <3>4. CASE x >= y
      <4>1. \A j \in s : x >= j BY <3>2, <3>3, <3>4
      <4> QED BY <3>2, <4>1
    <3>5. CASE ~(x >= y)
      <4>1. \A j \in s : y >= j BY <3>2, <3>3, <3>5
      <4> QED BY <3>2, <4>1
    <3> QED BY <3>4, <3>5
  <2> QED BY <2>4, <2>5
<1>3. P \subseteq Good
  <2> HIDE DEF P, size, Good
  <2> QED BY <1>1, <1>2, MeasureInduction
<1>4. S \in P OBVIOUS
<1>5. HasGreatest(S)
  <2> HIDE DEF P, HasGreatest
  <2> QED BY <1>3, <1>4
<1> QED BY <1>5 DEF Greatest

\* The values of a function on a finite set are finitely many.
LEMMA ImageIsFinite ==
  ASSUME NEW S, IsFiniteSet(S), NEW T, NEW f \in [S -> T], \A t \in T : \E s \in S : f[s] = t
  PROVE  IsFiniteSet(T)
<1>1. f \in Surjection(S, T) BY DEF Surjection
<1> QED BY <1>1, FS_Surjection

\* A strict total order on a set, as a set of pairs.
Below(order, S, c) == {d \in S : <<d, c>> \in order}
TotalOrder(order, S) ==
  /\ \A c \in S : <<c, c>> \notin order
  /\ \A c, d \in S : c # d => <<c, d>> \in order \/ <<d, c>> \in order
  /\ \A c, d, e \in S : <<c, d>> \in order /\ <<d, e>> \in order => <<c, e>> \in order

\* In a finite set with a strict total order there is, for every k below the size of the set,
\* exactly one member that has k others below it.
LEMMA RanksAreUsed ==
  ASSUME NEW S, IsFiniteSet(S), NEW order, TotalOrder(order, S)
  PROVE  /\ Cardinality(S) \in Nat
         /\ \A c \in S : Cardinality(Below(order, S, c)) \in 0 .. Cardinality(S) - 1
         /\ \A c, d \in S :
              Cardinality(Below(order, S, c)) = Cardinality(Below(order, S, d)) => c = d
         /\ \A k \in 0 .. Cardinality(S) - 1 :
              \E c \in S : Cardinality(Below(order, S, c)) = k
<1> DEFINE n == Cardinality(S)
           B(c) == Below(order, S, c)
           rank == [c \in S |-> Cardinality(B(c))]
<1>1. n \in Nat BY FS_CardinalityType
<1>2. ASSUME NEW c \in S PROVE IsFiniteSet(B(c)) /\ Cardinality(B(c)) \in 0 .. n - 1
  <2>1. B(c) \in SUBSET S BY DEF Below
  <2>2. c \in S /\ c \notin B(c) BY DEF Below, TotalOrder
  <2> HIDE DEF B
  <2>3. /\ IsFiniteSet(B(c)) /\ Cardinality(B(c)) <= n
        /\ Cardinality(S) = Cardinality(B(c)) => S = B(c)
    BY <2>1, FS_Subset
  <2>4. Cardinality(B(c)) \in Nat BY <2>3, FS_CardinalityType
  <2>5. Cardinality(B(c)) # n BY <2>2, <2>3
  <2> HIDE DEF n
  <2> QED BY <1>1, <2>3, <2>4, <2>5
<1>3. ASSUME NEW c \in S, NEW d \in S, <<c, d>> \in order
      PROVE  Cardinality(B(c)) < Cardinality(B(d))
  <2>1. B(c) \in SUBSET B(d) BY <1>3 DEF Below, TotalOrder
  <2>2. c \in B(d) /\ c \notin B(c) BY <1>3 DEF Below, TotalOrder
  <2>3. IsFiniteSet(B(d)) BY <1>2
  <2>4. Cardinality(B(c)) \in 0 .. n - 1 /\ Cardinality(B(d)) \in 0 .. n - 1 BY <1>2
  <2> HIDE DEF B, n
  <2>5. /\ Cardinality(B(c)) <= Cardinality(B(d))
        /\ (Cardinality(B(d)) = Cardinality(B(c)) => B(d) = B(c))
    BY <2>1, <2>3, FS_Subset
  <2> QED BY <1>1, <2>2, <2>4, <2>5
<1>4. \A c, d \in S : Cardinality(B(c)) = Cardinality(B(d)) => c = d
  <2> SUFFICES ASSUME NEW c \in S, NEW d \in S, Cardinality(B(c)) = Cardinality(B(d)), c # d
               PROVE  FALSE
    OBVIOUS
  <2>1. <<c, d>> \in order \/ <<d, c>> \in order BY DEF TotalOrder
  <2>2. Cardinality(B(c)) \in 0 .. n - 1 /\ Cardinality(B(d)) \in 0 .. n - 1 BY <1>2
  <2> HIDE DEF B, n
  <2>3. CASE <<c, d>> \in order BY <1>1, <1>3, <2>2, <2>3
  <2>4. CASE <<d, c>> \in order BY <1>1, <1>3, <2>2, <2>4
  <2> QED BY <2>1, <2>3, <2>4
<1>5. rank \in Injection(S, 0 .. n - 1)
  <2> HIDE DEF n, B
  <2>1. rank \in [S -> 0 .. n - 1] BY <1>2
  <2>2. \A c, d \in S : rank[c] = rank[d] => c = d BY <1>4
  <2> HIDE DEF rank
  <2> QED BY <2>1, <2>2 DEF Injection, IsInjective
<1>6. IsFiniteSet(0 .. n - 1) /\ Cardinality(0 .. n - 1) = n
  <2>1. 0 \in Int /\ n - 1 \in Int BY <1>1
  <2>2. /\ IsFiniteSet(0 .. n - 1)
        /\ Cardinality(0 .. n - 1) = IF 0 > n - 1 THEN 0 ELSE (n - 1) - 0 + 1
    <3> HIDE DEF n
    <3> QED BY <2>1, FS_Interval
  <2> HIDE DEF n
  <2> QED BY <1>1, <2>2
<1>7. rank \in Surjection(S, 0 .. n - 1)
  <2>1. Cardinality(S) = Cardinality(0 .. n - 1) BY <1>6
  <2>2. Cardinality(S) = Cardinality(0 .. n - 1) <=> rank \in Surjection(S, 0 .. n - 1)
    <3> HIDE DEF rank, n
    <3> QED BY <1>5, <1>6, FS_Injection
  <2> HIDE DEF rank, n
  <2> QED BY <2>1, <2>2
<1>8. \A k \in 0 .. n - 1 : \E c \in S : rank[c] = k
  <2> HIDE DEF rank, n
  <2> QED BY <1>7 DEF Surjection
<1> QED BY <1>1, <1>2, <1>4, <1>8

-----------------------------------------------------------------------------
(* The order in which copies are appended.                                 *)

\* Copies by name, and their order.
CopyName == [reference : Nat, shift : SUBSET Planes]
CopyOrder == {p \in CopyName \X CopyName : Precedes(p[1], p[2])}

\* Where two masks first differ.
Differing(a, b) == (a \cup b) \ (a \cap b)
FirstIn(a, b) == Differing(a, b) # {} /\ Least(Differing(a, b)) \in b

\* Two masks differ first at one plane, and which of them has it decides their order.
LEMMA FirstDifference ==
  ASSUME NEW a \in SUBSET Planes, NEW b \in SUBSET Planes, a # b
  PROVE  \E p \in Planes : /\ (p \in a) # (p \in b)
                           /\ \A q \in Planes : q < p => (q \in a) = (q \in b)
                           /\ FirstIn(a, b) <=> p \in b
                           /\ FirstIn(b, a) <=> p \in a
<1> DEFINE D == Differing(a, b)
<1>1. D \subseteq Planes /\ D # {} /\ Differing(b, a) = D BY DEF Differing
<1>2. D \subseteq Nat BY <1>1 DEF Planes
<1>3. Least(D) \in D /\ \A j \in D : Least(D) <= j
  <2> HIDE DEF D
  <2> QED BY <1>1, <1>2, LeastIsLeast
<1> DEFINE p == Least(D)
<1>4. p \in Planes /\ p \in Nat /\ (p \in a) # (p \in b)
  <2>1. p \in D BY <1>3
  <2>2. (p \in a) # (p \in b)
    <3> HIDE DEF p
    <3> QED BY <2>1 DEF Differing
  <2> HIDE DEF p, D
  <2> QED BY <1>1, <1>2, <2>1, <2>2
<1>5. ASSUME NEW q \in Planes, q < p PROVE (q \in a) = (q \in b)
  <2>1. q \notin D
    <3>1. q \in Nat BY DEF Planes
    <3> HIDE DEF D
    <3> QED BY <1>3, <1>4, <1>5, <3>1
  <2> QED BY <2>1 DEF Differing
<1>6. (FirstIn(a, b) <=> p \in b) /\ (FirstIn(b, a) <=> p \in a)
  BY <1>1 DEF FirstIn
<1> HIDE DEF p
<1> QED BY <1>4, <1>5, <1>6

\* So the masks are totally ordered,
LEMMA MasksAreOrdered ==
  ASSUME NEW a \in SUBSET Planes, NEW b \in SUBSET Planes, NEW c \in SUBSET Planes
  PROVE  /\ ~FirstIn(a, a)
         /\ a # b => FirstIn(a, b) \/ FirstIn(b, a)
         /\ FirstIn(a, b) /\ FirstIn(b, c) => FirstIn(a, c)
<1>1. ~FirstIn(a, a) BY DEF FirstIn, Differing
<1>2. a # b => FirstIn(a, b) \/ FirstIn(b, a)
  <2> SUFFICES ASSUME a # b PROVE FirstIn(a, b) \/ FirstIn(b, a)
    OBVIOUS
  <2>1. PICK p \in Planes : /\ (p \in a) # (p \in b)
                            /\ FirstIn(a, b) <=> p \in b
                            /\ FirstIn(b, a) <=> p \in a
    BY FirstDifference
  <2> QED BY <2>1
<1>3. ASSUME FirstIn(a, b), FirstIn(b, c) PROVE FirstIn(a, c)
  <2>1. a # b /\ b # c BY <1>3 DEF FirstIn, Differing
  <2>2. PICK p \in Planes : /\ (p \in a) # (p \in b)
                            /\ \A q \in Planes : q < p => (q \in a) = (q \in b)
                            /\ FirstIn(a, b) <=> p \in b
                            /\ FirstIn(b, a) <=> p \in a
    BY <2>1, FirstDifference
  <2>3. PICK r \in Planes : /\ (r \in b) # (r \in c)
                            /\ \A q \in Planes : q < r => (q \in b) = (q \in c)
                            /\ FirstIn(b, c) <=> r \in c
                            /\ FirstIn(c, b) <=> r \in b
    BY <2>1, FirstDifference
  <2>4. p \in b /\ p \notin a /\ r \in c /\ r \notin b BY <1>3, <2>2, <2>3
  <2>5. a # c
    <3> SUFFICES ASSUME a = c PROVE FALSE
      OBVIOUS
    <3>1. p \in Nat /\ r \in Nat /\ p # r BY <2>4 DEF Planes
    <3>2. p < r \/ r < p BY <3>1
    <3>3. CASE p < r BY <2>2, <2>3, <2>4, <3>3
    <3>4. CASE r < p BY <2>2, <2>3, <2>4, <3>4
    <3> QED BY <3>2, <3>3, <3>4
  <2>6. PICK s \in Planes : /\ (s \in a) # (s \in c)
                            /\ \A q \in Planes : q < s => (q \in a) = (q \in c)
                            /\ FirstIn(a, c) <=> s \in c
                            /\ FirstIn(c, a) <=> s \in a
    BY <2>5, FirstDifference
  <2>7. p \in Nat /\ r \in Nat /\ s \in Nat /\ p # r BY <2>4 DEF Planes
  <2>8. CASE p < r
    <3>1. p \in c BY <2>3, <2>4, <2>8
    <3>2. ~(p < s) BY <2>4, <2>6, <3>1
    <3>3. s = p \/ s < p BY <2>7, <3>2
    <3>4. ASSUME s < p PROVE FALSE
      <4>1. s < r BY <2>7, <2>8, <3>4
      <4> QED BY <2>2, <2>3, <2>6, <3>4, <4>1
    <3> QED BY <2>6, <3>1, <3>3, <3>4
  <2>9. CASE r < p
    <3>1. r \notin a BY <2>2, <2>4, <2>9
    <3>2. ~(r < s) BY <2>4, <2>6, <3>1
    <3>3. s = r \/ s < r BY <2>7, <3>2
    <3>4. ASSUME s < r PROVE FALSE
      <4>1. s < p BY <2>7, <2>9, <3>4
      <4> QED BY <2>2, <2>3, <2>6, <3>4, <4>1
    <3> QED BY <2>4, <2>6, <3>3, <3>4
  <2>10. p < r \/ r < p BY <2>7
  <2> QED BY <2>8, <2>9, <2>10
<1> QED BY <1>1, <1>2, <1>3

\* and so are the copies: by node, and by mask where the nodes are the same.
LEMMA CopyOrderIsTotal ==
  ASSUME NEW plan \in SUBSET CopyName
  PROVE  TotalOrder(CopyOrder, plan)
<1>1. ASSUME NEW c \in plan, NEW d \in plan
      PROVE  <<c, d>> \in CopyOrder <=>
               c.reference < d.reference
                 \/ (c.reference = d.reference /\ FirstIn(c.shift, d.shift))
  <2>1. c \in CopyName /\ d \in CopyName OBVIOUS
  <2>2. <<c, d>> \in CopyOrder <=> Precedes(c, d) BY <2>1 DEF CopyOrder
  <2> QED BY <2>2 DEF Precedes, FirstIn, Differing
<1>2. ASSUME NEW c \in plan
      PROVE  /\ c.reference \in Nat /\ c.shift \in SUBSET Planes
             /\ c = [reference |-> c.reference, shift |-> c.shift]
  <2>1. c \in CopyName OBVIOUS
  <2> QED BY <2>1 DEF CopyName
<1>3. ASSUME NEW c \in plan PROVE <<c, c>> \notin CopyOrder
  BY <1>1, <1>2, MasksAreOrdered
<1>4. ASSUME NEW c \in plan, NEW d \in plan, c # d
      PROVE  <<c, d>> \in CopyOrder \/ <<d, c>> \in CopyOrder
  <2>1. c.reference \in Nat /\ d.reference \in Nat BY <1>2
  <2>2. c.reference = d.reference => c.shift # d.shift BY <1>2, <1>4
  <2>3. c.shift # d.shift => FirstIn(c.shift, d.shift) \/ FirstIn(d.shift, c.shift)
    BY <1>2, MasksAreOrdered
  <2> QED BY <1>1, <2>1, <2>2, <2>3
<1>5. ASSUME NEW c \in plan, NEW d \in plan, NEW e \in plan,
             <<c, d>> \in CopyOrder, <<d, e>> \in CopyOrder
      PROVE  <<c, e>> \in CopyOrder
  <2>1. c.reference \in Nat /\ d.reference \in Nat /\ e.reference \in Nat BY <1>2
  <2>2. FirstIn(c.shift, d.shift) /\ FirstIn(d.shift, e.shift) => FirstIn(c.shift, e.shift)
    BY <1>2, MasksAreOrdered
  <2> QED BY <1>1, <1>5, <2>1, <2>2
<1> QED BY <1>3, <1>4, <1>5 DEF TotalOrder

\* InOrder lists every member of a plan once.
LEMMA InOrderLists ==
  ASSUME NEW plan \in SUBSET CopyName, IsFiniteSet(plan)
  PROVE  /\ Cardinality(plan) \in Nat
         /\ InOrder(plan) \in [1 .. Cardinality(plan) -> plan]
         /\ \A j, k \in 1 .. Cardinality(plan) : InOrder(plan)[j] = InOrder(plan)[k] => j = k
<1> DEFINE n == Cardinality(plan)
           Under(c) == {d \in plan : Precedes(d, c)}
<1>1. TotalOrder(CopyOrder, plan) BY CopyOrderIsTotal
<1>2. ASSUME NEW c \in plan PROVE Under(c) = Below(CopyOrder, plan, c)
  <2>1. ASSUME NEW d \in plan PROVE Precedes(d, c) <=> <<d, c>> \in CopyOrder
    <3>1. c \in CopyName /\ d \in CopyName OBVIOUS
    <3> QED BY <3>1 DEF CopyOrder
  <2> QED BY <2>1 DEF Below
<1>3. n \in Nat BY FS_CardinalityType
<1>4. \A k \in 0 .. n - 1 : \E c \in plan : Cardinality(Under(c)) = k
  <2>1. \A k \in 0 .. n - 1 : \E c \in plan : Cardinality(Below(CopyOrder, plan, c)) = k
    BY <1>1, RanksAreUsed
  <2> HIDE DEF n, Under
  <2> QED BY <1>2, <2>1
<1> HIDE DEF Under
<1>5. ASSUME NEW k \in 1 .. n
      PROVE  InOrder(plan)[k] \in plan /\ Cardinality(Under(InOrder(plan)[k])) = k - 1
  <2>1. InOrder(plan)[k] = CHOOSE c \in plan : Cardinality(Under(c)) = k - 1
    BY DEF InOrder, Under
  <2>2. k - 1 \in 0 .. n - 1 BY <1>3
  <2>3. \E c \in plan : Cardinality(Under(c)) = k - 1 BY <1>4, <2>2
  <2> QED BY <2>1, <2>3
<1>6. InOrder(plan) \in [1 .. n -> plan] BY <1>5 DEF InOrder
<1>7. ASSUME NEW j \in 1 .. n, NEW k \in 1 .. n, InOrder(plan)[j] = InOrder(plan)[k] PROVE j = k
  <2>1. j - 1 = k - 1 BY <1>5, <1>7
  <2> QED BY <1>3, <2>1
<1> QED BY <1>3, <1>6, <1>7

-----------------------------------------------------------------------------
(* The geometry of the domain, as far as the bookkeeping needs it.         *)

Point == Int \X Int

\* The planes, their normals and their partners.
LEMMA PlaneFacts ==
  ASSUME NEW plane \in Planes
  PROVE  /\ Axis(plane) \in Axes
         /\ Normal(plane) \in [Axes -> {-1, 0, 1}]
         /\ \A axis \in Axes : axis # Axis(plane) => Normal(plane)[axis] = 0
         /\ Partner(plane) \in Planes /\ Axis(Partner(plane)) = Axis(plane)
<1>1. plane = 0 \/ plane = 1 \/ plane = 2 \/ plane = 3 BY DEF Planes
<1>2. Axis(plane) \in Axes BY <1>1 DEF Axis, Axes
<1>3. Normal(plane) \in [Axes -> {-1, 0, 1}] BY DEF Normal
<1>4. \A axis \in Axes : axis # Axis(plane) => Normal(plane)[axis] = 0 BY DEF Normal
<1>5. Partner(plane) \in Planes /\ Axis(Partner(plane)) = Axis(plane)
  BY <1>1 DEF Partner, Planes, Axis
<1> QED BY <1>2, <1>3, <1>4, <1>5

\* The partner of a periodic plane is periodic.
LEMMA PartnerIsPeriodic ==
  ASSUME NEW plane \in PeriodicPlanes
  PROVE  Partner(plane) \in PeriodicPlanes
BY PlaneFacts DEF PeriodicPlanes, IsPeriodic

\* There are finitely many planes.
LEMMA PlanesAreFinite == IsFiniteSet(Planes)
<1>1. 3 \in Nat OBVIOUS
<1> QED BY <1>1, IntervalIsFinite DEF Planes

\* The shift of a mask is a vector, and moves along no axis that is not periodic.
LEMMA ShiftFacts ==
  ASSUME NEW mask \in SUBSET PeriodicPlanes
  PROVE  /\ PeriodicShift(mask) \in [Axes -> Int]
         /\ \A axis \in Axes \ PeriodicAxes : PeriodicShift(mask)[axis] = 0
<1>1. mask \subseteq Planes BY DEF PeriodicPlanes
<1>2. IsFiniteSet(mask) BY <1>1, PlanesAreFinite, FS_Subset
<1>3. ASSUME NEW axis \in Axes
      PROVE  /\ PeriodicShift(mask)[axis] \in Int
             /\ axis \notin PeriodicAxes => PeriodicShift(mask)[axis] = 0
  <2> DEFINE step == [plane \in Planes |-> TowardsPartner(plane, axis)]
             sum == FoldFunctionOnSet(+, 0, step, mask)
  <2>1. PeriodicShift(mask)[axis] = sum BY DEF PeriodicShift
  <2>2. Dimensions[axis] \in Int BY DomainAssumption
  <2>3. ASSUME NEW plane \in Planes PROVE TowardsPartner(plane, axis) \in Int
    <3>1. Normal(plane)[axis] \in {-1, 0, 1} BY PlaneFacts
    <3>2. Normal(plane)[axis] * Dimensions[axis] \in Int BY <2>2, <3>1
    <3> QED BY <3>2 DEF TowardsPartner
  <2>4. ASSUME axis \notin PeriodicAxes, NEW plane \in mask PROVE TowardsPartner(plane, axis) = 0
    <3>1. plane \in Planes /\ axis # Axis(plane) BY <2>4 DEF PeriodicPlanes, IsPeriodic
    <3>2. Normal(plane)[axis] = 0 BY <3>1, PlaneFacts
    <3>3. Normal(plane)[axis] * Dimensions[axis] = 0 BY <2>2, <3>2
    <3> QED BY <3>3 DEF TowardsPartner
  <2>5. step \in [Planes -> Int] BY <2>3
  <2>6. axis \notin PeriodicAxes => \A plane \in mask : step[plane] = 0 BY <1>1, <2>4
  <2> HIDE DEF step
  <2>7. sum \in Int /\ ((\A plane \in mask : step[plane] = 0) => sum = 0)
    BY <1>1, <1>2, <2>5, SumIsInteger
  <2> QED BY <2>1, <2>6, <2>7
<1>4. PeriodicShift(mask) \in [Axes -> Int]
  <2>1. PeriodicShift(mask) = [axis \in Axes |-> PeriodicShift(mask)[axis]] BY DEF PeriodicShift
  <2> QED BY <1>3, <2>1
<1> QED BY <1>3, <1>4

\* Distances along the normal of a plane.
LEMMA DotFacts ==
  ASSUME NEW plane \in Planes, NEW p \in Point
  PROVE  Dot(Normal(plane), p) \in Int
<1>1. Normal(plane)[1] \in {-1, 0, 1} /\ Normal(plane)[2] \in {-1, 0, 1}
  BY PlaneFacts DEF Axes
<1>2. p[1] \in Int /\ p[2] \in Int BY DEF Point
<1>3. Normal(plane)[1] * p[1] \in Int /\ Normal(plane)[2] * p[2] \in Int BY <1>1, <1>2
<1> QED BY <1>3 DEF Dot

\* The image of a point under a periodic shift is a point.
LEMMA CopyIsPoint ==
  ASSUME NEW mask \in SUBSET PeriodicPlanes, NEW p \in Point
  PROVE  Sum2(p, PeriodicShift(mask)) \in Point
<1>1. PeriodicShift(mask)[1] \in Int /\ PeriodicShift(mask)[2] \in Int BY ShiftFacts DEF Axes
<1>2. p[1] \in Int /\ p[2] \in Int BY DEF Point
<1> QED BY <1>1, <1>2 DEF Sum2, Point

\* A copy is as far along the normal of a plane that is not periodic as its node.
LEMMA CopyStaysBetweenWalls ==
  ASSUME NEW mask \in SUBSET PeriodicPlanes, NEW p \in Point,
         NEW plane \in Planes \ PeriodicPlanes
  PROVE  Dot(Normal(plane), Sum2(p, PeriodicShift(mask))) = Dot(Normal(plane), p)
<1> DEFINE shift == PeriodicShift(mask)
<1>1. shift[1] \in Int /\ shift[2] \in Int BY ShiftFacts DEF Axes
<1>2. p[1] \in Int /\ p[2] \in Int BY DEF Point
<1>3. Axis(plane) \in Axes /\ Axis(plane) \notin PeriodicAxes
  BY PlaneFacts DEF PeriodicPlanes, IsPeriodic
<1>4. shift[Axis(plane)] = 0 BY <1>3, ShiftFacts
<1>5. Normal(plane)[1] \in {-1, 0, 1} /\ Normal(plane)[2] \in {-1, 0, 1}
  BY PlaneFacts DEF Axes
<1>6. Axis(plane) = 1 \/ Axis(plane) = 2 BY <1>3 DEF Axes
<1>7. Sum2(p, shift) = <<p[1] + shift[1], p[2] + shift[2]>> BY DEF Sum2
<1>8. /\ Dot(Normal(plane), Sum2(p, shift))
           = Normal(plane)[1] * (p[1] + shift[1]) + Normal(plane)[2] * (p[2] + shift[2])
      /\ Dot(Normal(plane), p) = Normal(plane)[1] * p[1] + Normal(plane)[2] * p[2]
  BY <1>7 DEF Dot
<1> HIDE DEF shift
<1>9. CASE Axis(plane) = 1
  <2>1. shift[1] = 0 BY <1>4, <1>9
  <2>2. Normal(plane)[2] = 0 BY <1>9, PlaneFacts DEF Axes
  <2>3. p[1] + shift[1] = p[1] /\ p[2] + shift[2] \in Int BY <1>1, <1>2, <2>1
  <2>4. Normal(plane)[2] * (p[2] + shift[2]) = 0 /\ Normal(plane)[2] * p[2] = 0
    BY <1>2, <2>2, <2>3
  <2> QED BY <1>8, <2>3, <2>4 DEF shift
<1>10. CASE Axis(plane) = 2
  <2>1. shift[2] = 0 BY <1>4, <1>10
  <2>2. Normal(plane)[1] = 0 BY <1>10, PlaneFacts DEF Axes
  <2>3. p[2] + shift[2] = p[2] /\ p[1] + shift[1] \in Int BY <1>1, <1>2, <2>1
  <2>4. Normal(plane)[1] * (p[1] + shift[1]) = 0 /\ Normal(plane)[1] * p[1] = 0
    BY <1>2, <2>2, <2>3
  <2> QED BY <1>8, <2>3, <2>4 DEF shift
<1> QED BY <1>6, <1>9, <1>10

-----------------------------------------------------------------------------
(* The slots.                                                              *)

\* What a slot holds; a visible node of the domain, and a copy of another slot.
SlotRecord == [point : Point, visible : BOOLEAN, reference : Nat, shift : SUBSET PeriodicPlanes]
Nodes      == 0 .. Count - 1

IsVisibleSlot(slot) ==
  /\ slot.visible /\ slot.reference = NoReference /\ slot.shift = {}
  /\ Contains(ExternalBoundary, slot.point)
IsCopySlot(all, slot) ==
  /\ ~slot.visible /\ slot.shift # {} /\ slot.shift \in ShiftMasks(PeriodicPlanes)
  /\ slot.reference \in DOMAIN all /\ all[slot.reference].visible
  /\ slot.point = Sum2(all[slot.reference].point, PeriodicShift(slot.shift))

SlotsOK ==
  /\ slots \in Seq(SlotRecord) /\ Count <= Capacity
  /\ \A i \in Nodes : IsVisibleSlot(Slot[i]) \/ (IsCopySlot(Slot, Slot[i]) /\ Slot[i].reference < i)

\* A node has at most one copy under each shift.
OneCopyEach ==
  \A i, j \in Nodes :
    /\ ~Slot[i].visible /\ ~Slot[j].visible
    /\ Slot[i].reference = Slot[j].reference /\ Slot[i].shift = Slot[j].shift
    => i = j

\* A copy is active exactly when its node is.
CopiesLive ==
  \A i \in Nodes : ~Slot[i].visible => (i \in active <=> Slot[i].reference \in active)

\* Nodes that wait for the next compute() are deleted, and the watermark counts slots.
ActiveOK ==
  /\ active \subseteq Nodes /\ pendingDeleted \subseteq Nodes \ active
  /\ integrated \in Nat /\ integrated <= Count

\* A boundary contains a point, and as much room again as it lies beyond a periodic plane.
HasRoom(bounds, point) ==
  /\ \A plane \in Planes : HalfspaceValue(bounds, plane, point) <= 0
  /\ \A plane \in PeriodicPlanes :
       LET outside == HalfspaceValue(ExternalBoundary, plane, point)
       IN outside > 0 => HalfspaceValue(bounds, plane, point) + outside <= 0

\* The internal boundary only grows, beyond periodic planes, and has room for all nodes.
BoundaryOK ==
  /\ boundary \in [Planes -> Int]
  /\ \A plane \in Planes : ExternalBoundary[plane] <= boundary[plane]
  /\ \A plane \in Planes \ PeriodicPlanes : boundary[plane] = ExternalBoundary[plane]
  /\ \A i \in Nodes : HasRoom(boundary, Slot[i].point)

Mesh == SlotsOK /\ OneCopyEach /\ CopiesLive /\ ActiveOK /\ BoundaryOK

\* What a numbering of slots is.
LEMMA SlotFacts ==
  ASSUME SlotsOK
  PROVE  /\ Count \in Nat /\ DOMAIN Slot = Nodes
         /\ \A i \in Nodes : Slot[i] \in SlotRecord /\ Slot[i] = slots[i + 1]
<1>1. Count \in Nat BY DEF SlotsOK, Count
<1>2. DOMAIN Slot = Nodes BY DEF Slot, Nodes
<1>3. ASSUME NEW i \in Nodes PROVE Slot[i] \in SlotRecord /\ Slot[i] = slots[i + 1]
  <2>1. i + 1 \in 1 .. Len(slots) BY <1>1 DEF Nodes, Count
  <2>2. slots[i + 1] \in SlotRecord BY <2>1 DEF SlotsOK
  <2>3. Slot[i] = slots[i + 1] BY DEF Slot, Nodes
  <2> QED BY <2>2, <2>3
<1> QED BY <1>1, <1>2, <1>3

\* The external boundary gives every plane a place.
LEMMA ExternalFacts ==
  /\ ExternalBoundary \in [Planes -> Int]
  /\ \A plane \in Planes : ExternalBoundary[plane] \in Int
<1>1. ASSUME NEW plane \in Planes
      PROVE  (IF plane % 2 = 0 THEN Dimensions[Axis(plane)] ELSE 0) \in Int
  <2>1. Dimensions[Axis(plane)] \in Int BY PlaneFacts, DomainAssumption
  <2> QED BY <2>1
<1> QED BY <1>1 DEF ExternalBoundary

\* A point of the domain has room inside every boundary around it.
LEMMA InsideHasRoom ==
  ASSUME NEW point \in Point, Contains(ExternalBoundary, point),
         NEW bounds \in [Planes -> Int],
         \A plane \in Planes : ExternalBoundary[plane] <= bounds[plane]
  PROVE  HasRoom(bounds, point)
<1>1. ASSUME NEW plane \in Planes
      PROVE  /\ HalfspaceValue(bounds, plane, point) <= 0
             /\ ~(HalfspaceValue(ExternalBoundary, plane, point) > 0)
  <2>1. Dot(Normal(plane), point) \in Int BY DotFacts
  <2>2. ExternalBoundary[plane] \in Int /\ bounds[plane] \in Int BY ExternalFacts
  <2>3. Dot(Normal(plane), point) - ExternalBoundary[plane] <= 0
    BY DEF Contains, HalfspaceValue
  <2> QED BY <2>1, <2>2, <2>3 DEF HalfspaceValue
<1> QED BY <1>1 DEF HasRoom, PeriodicPlanes

\* What is in a boundary is in a larger one.
LEMMA RoomGrows ==
  ASSUME NEW point \in Point, NEW bounds \in [Planes -> Int], NEW wider \in [Planes -> Int],
         \A plane \in Planes : bounds[plane] <= wider[plane], HasRoom(bounds, point)
  PROVE  HasRoom(wider, point)
<1>1. ASSUME NEW plane \in Planes
      PROVE  /\ HalfspaceValue(wider, plane, point) \in Int
             /\ HalfspaceValue(bounds, plane, point) \in Int
             /\ HalfspaceValue(ExternalBoundary, plane, point) \in Int
             /\ HalfspaceValue(wider, plane, point) <= HalfspaceValue(bounds, plane, point)
  <2>1. Dot(Normal(plane), point) \in Int BY DotFacts
  <2>2. ExternalBoundary[plane] \in Int /\ bounds[plane] \in Int /\ wider[plane] \in Int
    BY ExternalFacts
  <2>3. bounds[plane] <= wider[plane] OBVIOUS
  <2> QED BY <2>1, <2>2, <2>3 DEF HalfspaceValue
<1>2. \A plane \in Planes : HalfspaceValue(wider, plane, point) <= 0
  BY <1>1 DEF HasRoom
<1>3. ASSUME NEW plane \in PeriodicPlanes, HalfspaceValue(ExternalBoundary, plane, point) > 0
      PROVE  HalfspaceValue(wider, plane, point)
               + HalfspaceValue(ExternalBoundary, plane, point) <= 0
  <2>1. plane \in Planes BY DEF PeriodicPlanes
  <2>2. HalfspaceValue(bounds, plane, point) + HalfspaceValue(ExternalBoundary, plane, point) <= 0
    BY <1>3 DEF HasRoom
  <2> QED BY <1>1, <2>1, <2>2
<1> QED BY <1>2, <1>3 DEF HasRoom

\* A new mesh has visible nodes only.
LEMMA InitialMesh == Init => Mesh
<1> SUFFICES ASSUME Init PROVE Mesh
  OBVIOUS
<1> DEFINE n == Len(InitialPoints)
<1>1. /\ InitialPoints \in Seq(Point) /\ n \in Nat /\ DOMAIN InitialPoints = 1 .. n
      /\ n <= Capacity
  BY MeshAssumption DEF Point
<1>2. NoReference \in Nat BY DomainAssumption DEF NoReference
<1>3. slots = [p \in 1 .. n |-> Visible(InitialPoints[p])] BY <1>1 DEF Init
<1>4. ASSUME NEW p \in 1 .. n
      PROVE  /\ InitialPoints[p] \in Point /\ Contains(ExternalBoundary, InitialPoints[p])
             /\ Visible(InitialPoints[p]) \in SlotRecord
             /\ IsVisibleSlot(Visible(InitialPoints[p]))
  <2>1. InitialPoints[p] \in Point BY <1>1
  <2>2. Contains(ExternalBoundary, InitialPoints[p]) BY <1>1, MeshAssumption
  <2>3. Visible(InitialPoints[p]) \in SlotRecord BY <1>2, <2>1 DEF Visible, SlotRecord
  <2>4. IsVisibleSlot(Visible(InitialPoints[p])) BY <2>2 DEF IsVisibleSlot, Visible
  <2> QED BY <2>1, <2>2, <2>3, <2>4
<1>5. slots \in Seq(SlotRecord) /\ Count = n
  <2>1. slots \in [1 .. n -> SlotRecord] BY <1>3, <1>4
  <2> HIDE DEF n
  <2> QED BY <1>1, <2>1 DEF Count
<1>6. ASSUME NEW i \in Nodes
      PROVE  /\ IsVisibleSlot(Slot[i]) /\ Slot[i].visible
             /\ Slot[i].point \in Point /\ Contains(ExternalBoundary, Slot[i].point)
  <2>1. i + 1 \in 1 .. n
    <3> HIDE DEF n
    <3> QED BY <1>1, <1>5 DEF Nodes
  <2>2. Slot[i] = Visible(InitialPoints[i + 1])
    <3> HIDE DEF n
    <3> QED BY <1>3, <2>1 DEF Slot, Nodes
  <2>3. Visible(InitialPoints[i + 1]).point = InitialPoints[i + 1] BY DEF Visible
  <2>4. Visible(InitialPoints[i + 1]).visible BY DEF Visible
  <2> HIDE DEF n
  <2> QED BY <1>4, <2>1, <2>2, <2>3, <2>4
<1> HIDE DEF n
<1>7. SlotsOK BY <1>1, <1>5, <1>6 DEF SlotsOK
<1>8. OneCopyEach /\ CopiesLive BY <1>6 DEF OneCopyEach, CopiesLive
<1>9. ActiveOK BY <1>1, <1>5 DEF Init, ActiveOK, Nodes, n
<1>10. BoundaryOK
  <2>1. boundary = ExternalBoundary BY DEF Init
  <2>2. boundary \in [Planes -> Int] BY <2>1, ExternalFacts
  <2>3. \A plane \in Planes : ExternalBoundary[plane] <= boundary[plane] BY <2>1, ExternalFacts
  <2>4. \A i \in Nodes : HasRoom(boundary, Slot[i].point) BY <1>6, <2>2, <2>3, InsideHasRoom
  <2> QED BY <2>1, <2>2, <2>3, <2>4 DEF BoundaryOK
<1> QED BY <1>7, <1>8, <1>9, <1>10 DEF Mesh

\* Slots that are appended get the next numbers; the others keep theirs.
LEMMA SlotsConcat ==
  ASSUME SlotsOK, NEW added \in Seq(SlotRecord), slots' = slots \o added
  PROVE  /\ Count \in Nat /\ Len(added) \in Nat /\ Count' = Count + Len(added)
         /\ slots' \in Seq(SlotRecord)
         /\ Nodes' = 0 .. (Count + Len(added)) - 1
         /\ \A i \in Nodes : i \in Nodes' /\ Slot'[i] = Slot[i]
         /\ \A i \in Nodes' \ Nodes :
              i - Count + 1 \in 1 .. Len(added) /\ Slot'[i] = added[i - Count + 1]
<1> DEFINE n == Len(slots)
           m == Len(added)
<1>1. slots \in Seq(SlotRecord) /\ n \in Nat /\ m \in Nat /\ Count = n BY DEF SlotsOK, Count
<1>2. slots' \in Seq(SlotRecord) /\ Len(slots') = n + m BY <1>1
<1>3. Count' = n + m BY <1>2 DEF Count
<1>4. Nodes' = 0 .. (n + m) - 1 BY <1>3 DEF Nodes
<1>5. \A i \in 1 .. n + m : slots'[i] = IF i <= n THEN slots[i] ELSE added[i - n] BY <1>1
<1>6. Slot' = [i \in 0 .. (n + m) - 1 |-> slots'[i + 1]] BY <1>3 DEF Slot
<1> HIDE DEF n, m
<1>7. ASSUME NEW i \in Nodes PROVE i \in Nodes' /\ Slot'[i] = Slot[i]
  <2>1. i \in Int /\ 0 <= i /\ i <= n - 1 BY <1>1 DEF Nodes
  <2>2. i \in 0 .. (n + m) - 1 /\ i + 1 \in 1 .. n + m /\ i + 1 <= n BY <1>1, <2>1
  <2>3. Slot'[i] = slots'[i + 1] BY <1>6, <2>2
  <2>4. slots'[i + 1] = slots[i + 1] BY <1>5, <2>2
  <2>5. Slot[i] = slots[i + 1] BY SlotFacts
  <2> QED BY <1>4, <2>2, <2>3, <2>4, <2>5
<1>8. ASSUME NEW i \in Nodes' \ Nodes
      PROVE  i - Count + 1 \in 1 .. m /\ Slot'[i] = added[i - Count + 1]
  <2>1. i \in 0 .. (n + m) - 1 BY <1>4
  <2>2. i \notin 0 .. n - 1 BY <1>1 DEF Nodes
  <2>3. i \in Int /\ n <= i /\ i <= (n + m) - 1 BY <1>1, <2>1, <2>2
  <2>4. i + 1 \in 1 .. n + m /\ ~(i + 1 <= n) /\ (i + 1) - n = (i - n) + 1 /\ i - n + 1 \in 1 .. m
    BY <1>1, <2>3
  <2>5. Slot'[i] = slots'[i + 1] BY <1>6, <2>1
  <2>6. slots'[i + 1] = added[(i + 1) - n] BY <1>5, <2>4
  <2>7. added[(i + 1) - n] = added[i - n + 1] BY <2>4
  <2> QED BY <1>1, <2>4, <2>5, <2>6, <2>7
<1> QED BY <1>1, <1>2, <1>3, <1>4, <1>7, <1>8 DEF n, m

\* What may be appended: nodes of the domain, and copies that active nodes do not have.
NewCopy(slot) ==
  /\ IsCopySlot(Slot, slot) /\ slot.reference \in active
  /\ FindReferenceCopy(slot.reference, slot.shift) = {}

\* The mesh stays right when such slots are appended and the boundary has room for them.
LEMMA MeshGrows ==
  ASSUME Mesh, NEW added \in Seq(SlotRecord), slots' = slots \o added,
         Count + Len(added) <= Capacity,
         active' = active \cup (Count .. Count + Len(added) - 1),
         UNCHANGED <<integrated, pendingDeleted>>,
         \A k \in 1 .. Len(added) : IsVisibleSlot(added[k]) \/ NewCopy(added[k]),
         \A j, k \in 1 .. Len(added) :
           /\ ~added[j].visible /\ ~added[k].visible
           /\ added[j].reference = added[k].reference /\ added[j].shift = added[k].shift
           => j = k,
         boundary' \in [Planes -> Int],
         \A plane \in Planes : boundary[plane] <= boundary'[plane],
         \A plane \in Planes \ PeriodicPlanes : boundary'[plane] = ExternalBoundary[plane],
         \A k \in 1 .. Len(added) : HasRoom(boundary', added[k].point)
  PROVE  Mesh'
<1> DEFINE m == Len(added)
           Fresh == Nodes' \ Nodes
           Place(i) == i - Count + 1
<1>1. SlotsOK /\ OneCopyEach /\ CopiesLive /\ ActiveOK /\ BoundaryOK BY DEF Mesh
<1>2. /\ Count \in Nat /\ m \in Nat /\ Count' = Count + m
      /\ slots' \in Seq(SlotRecord)
      /\ Nodes' = 0 .. (Count + m) - 1
      /\ \A i \in Nodes : i \in Nodes' /\ Slot'[i] = Slot[i]
      /\ \A i \in Fresh : Place(i) \in 1 .. m /\ Slot'[i] = added[Place(i)]
  BY <1>1, SlotsConcat
<1>3. \A i \in Nodes : Slot[i] \in SlotRecord /\ i < Count /\ i \in Nat
  BY <1>1, <1>2, SlotFacts DEF Nodes
<1>4. \A i \in Fresh : Slot'[i] \in SlotRecord /\ Count <= i /\ i \in Nat
  <2>1. \A k \in 1 .. m : added[k] \in SlotRecord OBVIOUS
  <2>2. \A i \in Fresh : Count <= i /\ i \in Nat BY <1>2 DEF Nodes
  <2> HIDE DEF m, Fresh, Place
  <2> QED BY <1>2, <2>1, <2>2
<1>5. Nodes' = Nodes \cup Fresh BY <1>2
<1>6. Nodes = 0 .. Count - 1 /\ DOMAIN Slot = Nodes /\ DOMAIN Slot' = Nodes'
  BY DEF Nodes, Slot
<1>7. \A i \in Fresh : IsVisibleSlot(Slot'[i]) \/ NewCopy(Slot'[i])
  <2> HIDE DEF m, Fresh, Place
  <2> QED BY <1>2 DEF m
<1>8. ASSUME NEW slot, IsCopySlot(Slot, slot) PROVE IsCopySlot(Slot', slot)
  <2>1. slot.reference \in Nodes BY <1>6, <1>8 DEF IsCopySlot
  <2>2. slot.reference \in Nodes' /\ Slot'[slot.reference] = Slot[slot.reference] BY <1>2, <2>1
  <2> QED BY <1>6, <1>8, <2>2 DEF IsCopySlot
<1> HIDE DEF Place
<1>9. SlotsOK'
  <2>1. ASSUME NEW i \in Nodes
        PROVE  IsVisibleSlot(Slot'[i]) \/ (IsCopySlot(Slot', Slot'[i]) /\ Slot'[i].reference < i)
    <3>1. Slot'[i] = Slot[i] BY <1>2
    <3>2. IsVisibleSlot(Slot[i]) \/ (IsCopySlot(Slot, Slot[i]) /\ Slot[i].reference < i)
      BY <1>1 DEF SlotsOK
    <3> HIDE DEF Fresh
    <3>3. CASE IsVisibleSlot(Slot[i]) BY <3>1, <3>3
    <3>4. CASE IsCopySlot(Slot, Slot[i]) /\ Slot[i].reference < i
      <4>1. IsCopySlot(Slot', Slot'[i]) BY <1>8, <3>1, <3>4
      <4> QED BY <3>1, <3>4, <4>1
    <3> QED BY <3>2, <3>3, <3>4
  <2>2. ASSUME NEW i \in Fresh
        PROVE  IsVisibleSlot(Slot'[i]) \/ (IsCopySlot(Slot', Slot'[i]) /\ Slot'[i].reference < i)
    <3>1. CASE IsVisibleSlot(Slot'[i]) BY <3>1
    <3>2. CASE NewCopy(Slot'[i])
      <4>1. IsCopySlot(Slot', Slot'[i]) BY <1>8, <3>2 DEF NewCopy, IsCopySlot
      <4>2. Slot'[i].reference \in Nodes BY <1>6, <3>2 DEF NewCopy, IsCopySlot
      <4>3. Slot'[i].reference < i
        <5> DEFINE r == Slot'[i].reference
        <5>1. r < Count /\ r \in Nat BY <1>3, <4>2
        <5>2. Count <= i /\ i \in Nat BY <1>4
        <5> HIDE DEF r
        <5> QED BY <1>2, <5>1, <5>2 DEF r
      <4> QED BY <4>1, <4>3
    <3> QED BY <1>7, <3>1, <3>2
  <2>3. \A i \in Nodes' :
          IsVisibleSlot(Slot'[i]) \/ (IsCopySlot(Slot', Slot'[i]) /\ Slot'[i].reference < i)
    BY <1>5, <2>1, <2>2
  <2>4. Count' <= Capacity BY <1>2
  <2> HIDE DEF Fresh
  <2> QED BY <1>2, <2>3, <2>4 DEF SlotsOK
<1>10. \A i \in Nodes' : ~Slot'[i].visible => Slot'[i].reference \in Nodes'
  <2>1. \A i \in Nodes' : IsVisibleSlot(Slot'[i]) \/ IsCopySlot(Slot', Slot'[i]) BY <1>9 DEF SlotsOK
  <2> QED BY <1>6, <2>1 DEF IsVisibleSlot, IsCopySlot
<1>11. ASSUME NEW i \in Nodes, ~Slot[i].visible
       PROVE  Slot[i].reference \in Nodes /\ IsCopySlot(Slot, Slot[i])
  <2>1. IsCopySlot(Slot, Slot[i]) BY <1>1, <1>11 DEF SlotsOK, IsVisibleSlot
  <2> QED BY <1>6, <2>1 DEF IsCopySlot
<1>12. ASSUME NEW i \in Fresh, ~Slot'[i].visible
       PROVE  /\ Slot'[i].reference \in Nodes /\ Slot'[i].reference \in active
              /\ FindReferenceCopy(Slot'[i].reference, Slot'[i].shift) = {}
  BY <1>6, <1>7, <1>12 DEF IsVisibleSlot, NewCopy, IsCopySlot
<1>13. CopiesLive'
  <2>1. ASSUME NEW i \in Nodes PROVE i \in active' <=> i \in active
    <3>1. i < Count /\ i \in Nat BY <1>3
    <3>2. i \notin Count .. Count + m - 1 BY <1>2, <3>1
    <3> QED BY <3>2
  <2>2. ASSUME NEW i \in Fresh PROVE i \in active'
    <3>1. i \in Count .. Count + m - 1 BY <1>2, <1>4
    <3> QED BY <3>1
  <2>3. ASSUME NEW i \in Nodes', ~Slot'[i].visible
        PROVE  i \in active' <=> Slot'[i].reference \in active'
    <3>1. CASE i \in Nodes
      <4>1. Slot'[i] = Slot[i] BY <1>2, <3>1
      <4>2. Slot[i].reference \in Nodes BY <1>11, <2>3, <3>1, <4>1
      <4>3. i \in active <=> Slot[i].reference \in active
        BY <1>1, <2>3, <3>1, <4>1 DEF CopiesLive
      <4>4. i \in active' <=> i \in active BY <2>1, <3>1
      <4>5. Slot[i].reference \in active' <=> Slot[i].reference \in active BY <2>1, <4>2
      <4> QED BY <4>1, <4>3, <4>4, <4>5
    <3>2. CASE i \in Fresh
      <4>1. Slot'[i].reference \in Nodes /\ Slot'[i].reference \in active BY <1>12, <2>3, <3>2
      <4>2. Slot'[i].reference \in active' BY <4>1
      <4> QED BY <2>2, <3>2, <4>2
    <3> QED BY <1>5, <3>1, <3>2
  <2> QED BY <2>3 DEF CopiesLive
<1>14. OneCopyEach'
  <2>1. ASSUME NEW i \in Nodes, ~Slot[i].visible, NEW j \in Fresh, ~Slot'[j].visible,
               Slot[i].reference = Slot'[j].reference, Slot[i].shift = Slot'[j].shift
        PROVE  FALSE
    <3>1. /\ Slot'[j].reference \in active
          /\ FindReferenceCopy(Slot'[j].reference, Slot'[j].shift) = {}
      BY <1>12, <2>1
    <3>2. i \in active BY <1>1, <2>1, <3>1 DEF CopiesLive
    <3>3. i \in FindReferenceCopy(Slot'[j].reference, Slot'[j].shift)
      BY <2>1, <3>2 DEF FindReferenceCopy, IsCopy
    <3> QED BY <3>1, <3>3
  <2>2. ASSUME NEW i \in Fresh, NEW j \in Fresh, ~Slot'[i].visible, ~Slot'[j].visible,
               Slot'[i].reference = Slot'[j].reference, Slot'[i].shift = Slot'[j].shift
        PROVE  i = j
    <3>1. /\ Place(i) \in 1 .. m /\ Slot'[i] = added[Place(i)]
          /\ Place(j) \in 1 .. m /\ Slot'[j] = added[Place(j)]
      BY <1>2
    <3>2. Place(i) = Place(j) BY <2>2, <3>1
    <3>3. i \in Nat /\ j \in Nat BY <1>4
    <3>4. i - Count + 1 = j - Count + 1 BY <3>2 DEF Place
    <3> QED BY <1>2, <3>3, <3>4
  <2>3. ASSUME NEW i \in Nodes', NEW j \in Nodes', ~Slot'[i].visible, ~Slot'[j].visible,
               Slot'[i].reference = Slot'[j].reference, Slot'[i].shift = Slot'[j].shift
        PROVE  i = j
    <3>1. \A k \in Nodes : Slot'[k] = Slot[k] BY <1>2
    <3> HIDE DEF Fresh
    <3>2. CASE i \in Nodes /\ j \in Nodes
      BY <1>1, <2>3, <3>1, <3>2 DEF OneCopyEach
    <3>3. CASE i \in Nodes /\ j \in Fresh BY <2>1, <2>3, <3>1, <3>3
    <3>4. CASE i \in Fresh /\ j \in Nodes BY <2>1, <2>3, <3>1, <3>4
    <3>5. CASE i \in Fresh /\ j \in Fresh BY <2>2, <2>3, <3>5
    <3> QED BY <1>5, <3>2, <3>3, <3>4, <3>5
  <2> QED BY <2>3 DEF OneCopyEach
<1>15. ActiveOK'
  <2>1. active \subseteq Nodes' BY <1>1, <1>2 DEF ActiveOK
  <2>2. (Count .. Count + m - 1) \subseteq Nodes' BY <1>2
  <2>3. (Count .. Count + m - 1) \cap Nodes = {} BY <1>2, <1>6
  <2>4. pendingDeleted \subseteq Nodes' \ active' BY <1>1, <1>2, <2>3 DEF ActiveOK
  <2>5. integrated \in Nat /\ integrated <= Count' BY <1>1, <1>2 DEF ActiveOK
  <2> QED BY <2>1, <2>2, <2>4, <2>5 DEF ActiveOK
<1>16. BoundaryOK'
  <2>1. boundary \in [Planes -> Int] /\ boundary' \in [Planes -> Int] BY <1>1 DEF BoundaryOK
  <2>2. ASSUME NEW plane \in Planes PROVE ExternalBoundary[plane] <= boundary'[plane]
    <3>1. ExternalBoundary[plane] <= boundary[plane] BY <1>1 DEF BoundaryOK
    <3>2. boundary[plane] <= boundary'[plane] OBVIOUS
    <3>3. boundary[plane] \in Int /\ boundary'[plane] \in Int /\ ExternalBoundary[plane] \in Int
      BY <2>1, ExternalFacts
    <3> QED BY <3>1, <3>2, <3>3
  <2>3. ASSUME NEW i \in Nodes PROVE HasRoom(boundary', Slot'[i].point)
    <3>1. Slot'[i] = Slot[i] BY <1>2
    <3>2. Slot[i].point \in Point BY <1>3 DEF SlotRecord
    <3>3. HasRoom(boundary, Slot[i].point) BY <1>1 DEF BoundaryOK
    <3> QED BY <2>1, <3>1, <3>2, <3>3, RoomGrows
  <2>4. ASSUME NEW i \in Fresh PROVE HasRoom(boundary', Slot'[i].point)
    <3>1. Place(i) \in 1 .. m /\ Slot'[i] = added[Place(i)] BY <1>2
    <3> QED BY <3>1
  <2>5. \A i \in Nodes' : HasRoom(boundary', Slot'[i].point) BY <1>5, <2>3, <2>4
  <2> QED BY <2>1, <2>2, <2>5 DEF BoundaryOK, HasRoom, HalfspaceValue
<1> QED BY <1>9, <1>13, <1>14, <1>15, <1>16 DEF Mesh

\* No slot has the number that stands for no reference.
LEMMA BoundIsLarge ==
  ASSUME SlotsOK
  PROVE  NoReference \in Nat /\ NoReference \notin Nodes /\ Capacity \in Nat
<1>1. Cardinality(Planes) \in Nat BY PlanesAreFinite, FS_CardinalityType
<1>2. /\ InvalidIndex \in Nat /\ Capacity \in Nat
      /\ Capacity + Cardinality(Planes) < InvalidIndex
  BY DomainAssumption, MeshAssumption
<1>3. Count \in Nat /\ Count <= Capacity BY SlotFacts DEF SlotsOK
<1>4. Count <= InvalidIndex BY <1>1, <1>2, <1>3
<1>5. ~(InvalidIndex <= Count - 1) BY <1>2, <1>3, <1>4
<1> QED BY <1>2, <1>3, <1>5 DEF NoReference, Nodes

\* The visible nodes are finitely many nodes of the domain.
LEMMA VisibleFacts ==
  ASSUME SlotsOK, ActiveOK
  PROVE  /\ VisibleNodes \subseteq Nodes /\ VisibleNodes \subseteq active
         /\ IsFiniteSet(VisibleNodes) /\ IsFiniteSet(Nodes) /\ IsFiniteSet(active)
         /\ \A i \in VisibleNodes : IsVisibleSlot(Slot[i])
<1>1. VisibleNodes \subseteq active /\ active \subseteq Nodes BY DEF ActiveOK, VisibleNodes
<1>2. IsFiniteSet(Nodes)
  <2>1. Count \in Nat BY SlotFacts
  <2>2. IsFiniteSet(0 .. Count) BY <2>1, IntervalIsFinite
  <2>3. Nodes \subseteq 0 .. Count BY <2>1 DEF Nodes
  <2> QED BY <2>2, <2>3, FS_Subset
<1>3. IsFiniteSet(active) /\ IsFiniteSet(VisibleNodes) BY <1>1, <1>2, FS_Subset
<1>4. ASSUME NEW i \in VisibleNodes PROVE IsVisibleSlot(Slot[i])
  <2>1. i \in Nodes /\ Slot[i].visible BY <1>1 DEF VisibleNodes
  <2>2. IsVisibleSlot(Slot[i]) \/ IsCopySlot(Slot, Slot[i]) BY <2>1 DEF SlotsOK
  <2> QED BY <2>1, <2>2 DEF IsCopySlot
<1> QED BY <1>1, <1>2, <1>3, <1>4

\* Every public number is the number of a visible node.
LEMMA PublicFacts ==
  ASSUME SlotsOK, ActiveOK, NEW p \in DOMAIN PublicToInternal
  PROVE  PublicToInternal[p] \in VisibleNodes
<1> DEFINE V == VisibleNodes
           Smaller(i) == {j \in V : j < i}
<1>1. IsFiniteSet(V) BY VisibleFacts
<1>2. V \subseteq Nat
  <2>1. Count \in Nat BY SlotFacts
  <2>2. V \subseteq Nodes BY VisibleFacts
  <2>3. Nodes \subseteq Nat BY <2>1 DEF Nodes
  <2> HIDE DEF V
  <2> QED BY <2>2, <2>3
<1>3. DOMAIN PublicToInternal = 0 .. Cardinality(V) - 1 BY DEF PublicToInternal
<1>4. PublicToInternal[p] = CHOOSE i \in V : Cardinality(Smaller(i)) = p
  BY <1>3 DEF PublicToInternal
<1> HIDE DEF V
<1>5. TotalOrder(Before, V)
  <2>1. \A i, j \in V : <<i, j>> \in Before <=> i < j BY <1>2 DEF Before
  <2>2. \A i \in V : i \in Nat BY <1>2
  <2> QED BY <2>1, <2>2 DEF TotalOrder
<1>6. ASSUME NEW i \in V PROVE Below(Before, V, i) = Smaller(i)
  BY <1>2 DEF Below, Before
<1>7. \A k \in 0 .. Cardinality(V) - 1 : \E i \in V : Cardinality(Below(Before, V, i)) = k
  BY <1>1, <1>5, RanksAreUsed
<1>8. p \in 0 .. Cardinality(V) - 1 BY <1>3
<1> HIDE DEF Smaller
<1>9. \E i \in V : Cardinality(Smaller(i)) = p BY <1>6, <1>7, <1>8
<1>10. PublicToInternal[p] \in V BY <1>4, <1>9
<1> QED BY <1>10 DEF V

\* append_visible_node: one more node of the domain.
LEMMA AppendNodeKeepsMesh ==
  ASSUME Mesh, NEW point \in MorePoints, AppendVisibleNode(point)
  PROVE  Mesh'
<1> DEFINE slot == Visible(point)
           added == <<slot>>
<1>1. SlotsOK /\ BoundaryOK BY DEF Mesh
<1>2. point \in Point BY MeshAssumption DEF Point
<1>3. slot \in SlotRecord /\ IsVisibleSlot(slot) /\ slot.point = point
  <2>1. NoReference \in Nat BY <1>1, BoundIsLarge
  <2>2. slot \in SlotRecord BY <1>2, <2>1 DEF Visible, SlotRecord
  <2>3. Contains(ExternalBoundary, point) BY DEF AppendVisibleNode
  <2>4. IsVisibleSlot(slot) /\ slot.point = point BY <2>3 DEF IsVisibleSlot, Visible
  <2> QED BY <2>2, <2>4
<1>4. slots' = Append(slots, slot) BY DEF AppendVisibleNode
<1> HIDE DEF slot
<1>5. added \in Seq(SlotRecord) /\ Len(added) = 1 /\ added[1] = slot BY <1>3
<1>6. slots' = slots \o added
  <2>1. slots \in Seq(SlotRecord) BY <1>1 DEF SlotsOK
  <2> QED BY <1>3, <1>4, <2>1
<1>7. Count \in Nat /\ Count < Capacity /\ Capacity \in Nat
  BY <1>1, SlotFacts, BoundIsLarge DEF AppendVisibleNode
<1>8. active' = active \cup (Count .. Count + 1 - 1)
  <2>1. Count .. Count + 1 - 1 = {Count} BY <1>7
  <2> QED BY <2>1 DEF AppendVisibleNode
<1>9. /\ boundary \in [Planes -> Int] /\ boundary' = boundary
      /\ \A plane \in Planes : ExternalBoundary[plane] <= boundary[plane]
      /\ \A plane \in Planes \ PeriodicPlanes : boundary[plane] = ExternalBoundary[plane]
  BY <1>1 DEF BoundaryOK, AppendVisibleNode
<1>10. \A plane \in Planes : boundary[plane] <= boundary'[plane]
  <2>1. \A plane \in Planes : boundary[plane] \in Int BY <1>9
  <2> QED BY <1>9, <2>1
<1>11. HasRoom(boundary', slot.point)
  <2>1. Contains(ExternalBoundary, point) BY DEF AppendVisibleNode
  <2> QED BY <1>2, <1>3, <1>9, <2>1, InsideHasRoom
<1>12. UNCHANGED <<integrated, pendingDeleted>> BY DEF AppendVisibleNode
<1> HIDE DEF added
<1>13. \A k \in 1 .. Len(added) : k = 1 /\ added[k] = slot BY <1>5
<1>14. Count + Len(added) <= Capacity /\ active' = active \cup (Count .. Count + Len(added) - 1)
  BY <1>5, <1>7, <1>8
<1>15. /\ \A k \in 1 .. Len(added) : IsVisibleSlot(added[k]) \/ NewCopy(added[k])
       /\ \A k \in 1 .. Len(added) : HasRoom(boundary', added[k].point)
       /\ \A j, k \in 1 .. Len(added) :
            /\ ~added[j].visible /\ ~added[k].visible
            /\ added[j].reference = added[k].reference /\ added[j].shift = added[k].shift
            => j = k
  BY <1>3, <1>11, <1>13
<1> QED BY <1>5, <1>6, <1>9, <1>10, <1>12, <1>14, <1>15, MeshGrows

\* erase_visible_nodes: a node and its copies become inactive together.
LEMMA EraseNodesKeepsMesh ==
  ASSUME Mesh, NEW p \in DOMAIN PublicToInternal, EraseVisibleNodes({p})
  PROVE  Mesh'
<1> DEFINE erased == PublicToInternal[p]
           selected == WithCopies({erased}) \cap active
<1>1. SlotsOK /\ OneCopyEach /\ CopiesLive /\ ActiveOK /\ BoundaryOK BY DEF Mesh
<1>2. erased \in VisibleNodes /\ erased \in Nodes /\ Slot[erased].visible
  BY <1>1, PublicFacts, VisibleFacts DEF VisibleNodes
<1>3. /\ slots' = slots /\ boundary' = boundary /\ integrated' = integrated
      /\ active' = active \ selected /\ pendingDeleted' = pendingDeleted \cup selected
  <2>1. {PublicToInternal[q] : q \in {p}} = {erased} OBVIOUS
  <2> QED BY <2>1 DEF EraseVisibleNodes
<1>4. Count' = Count /\ Slot' = Slot /\ Nodes' = Nodes BY <1>3 DEF Count, Slot, Nodes
<1>5. SlotsOK' BY <1>1, <1>3, <1>4 DEF SlotsOK
<1>6. OneCopyEach' BY <1>1, <1>4 DEF OneCopyEach
<1>7. BoundaryOK' BY <1>1, <1>3, <1>4 DEF BoundaryOK
<1>8. ActiveOK' BY <1>1, <1>3, <1>4 DEF ActiveOK
<1> HIDE DEF erased
<1>9. CopiesLive'
  <2>1. DOMAIN Slot = Nodes BY DEF Slot, Nodes
  <2>2. ASSUME NEW i \in Nodes, ~Slot[i].visible
        PROVE  i \in selected <=> (i \in active /\ Slot[i].reference = erased)
    BY <1>2, <2>1, <2>2 DEF WithCopies
  <2>3. ASSUME NEW r \in Nodes, Slot[r].visible
        PROVE  r \in selected <=> (r \in active /\ r = erased)
    <3>1. Slot[r].reference # erased
      <4>1. IsVisibleSlot(Slot[r]) BY <1>1, <2>3 DEF SlotsOK, IsCopySlot
      <4>2. Slot[r].reference = NoReference BY <4>1 DEF IsVisibleSlot
      <4> QED BY <1>1, <1>2, <4>2, BoundIsLarge
    <3> QED BY <2>1, <2>3, <3>1 DEF WithCopies
  <2>4. ASSUME NEW i \in Nodes, ~Slot[i].visible
        PROVE  i \in active' <=> Slot[i].reference \in active'
    <3>1. IsCopySlot(Slot, Slot[i]) BY <1>1, <2>4 DEF SlotsOK, IsVisibleSlot
    <3>2. Slot[i].reference \in Nodes /\ Slot[Slot[i].reference].visible
      BY <2>1, <3>1 DEF IsCopySlot
    <3>3. i \in active <=> Slot[i].reference \in active BY <1>1, <2>4 DEF CopiesLive
    <3>4. i \in selected <=> (i \in active /\ Slot[i].reference = erased) BY <2>2, <2>4
    <3>5. Slot[i].reference \in selected <=>
            (Slot[i].reference \in active /\ Slot[i].reference = erased)
      BY <2>3, <3>2
    <3> HIDE DEF selected
    <3> QED BY <1>3, <3>3, <3>4, <3>5
  <2> QED BY <1>4, <2>4 DEF CopiesLive
<1> QED BY <1>5, <1>6, <1>7, <1>8, <1>9 DEF Mesh

\* An expanded boundary has room around the points it was expanded for.
LEMMA ExpandedFacts ==
  ASSUME boundary \in [Planes -> Int], NEW points, points \subseteq Point, IsFiniteSet(points)
  PROVE  /\ Expanded(points) \in [Planes -> Int]
         /\ \A plane \in Planes : boundary[plane] <= Expanded(points)[plane]
         /\ \A plane \in Planes \ PeriodicPlanes : Expanded(points)[plane] = boundary[plane]
         /\ \A plane \in PeriodicPlanes, p \in points :
              /\ HalfspaceValue(Expanded(points), plane, p) <= 0
              /\ LET outside == HalfspaceValue(ExternalBoundary, plane, p)
                 IN outside > 0 => HalfspaceValue(Expanded(points), plane, p) + outside <= 0
<1> DEFINE rooms(plane) == {0} \cup {RoomFor(point, plane) : point \in points}
           wide == Expanded(points)
<1>1. ASSUME NEW plane \in Planes, NEW p \in points
      PROVE  /\ RoomFor(p, plane) \in Int
             /\ Dot(Normal(plane), p) \in Int /\ boundary[plane] \in Int
             /\ ExternalBoundary[plane] \in Int
             /\ Dot(Normal(plane), p) - boundary[plane] <= RoomFor(p, plane)
             /\ LET outside == HalfspaceValue(ExternalBoundary, plane, p)
                IN outside > 0 =>
                     RoomFor(p, plane) = (Dot(Normal(plane), p) - boundary[plane]) + outside
  <2> DEFINE d == Dot(Normal(plane), p)
             e == ExternalBoundary[plane]
             b == boundary[plane]
  <2>1. d \in Int /\ e \in Int /\ b \in Int BY DotFacts, ExternalFacts
  <2>2. RoomFor(p, plane) = (d - b) + (IF d - e > 0 THEN d - e ELSE 0)
    BY DEF RoomFor, HalfspaceValue
  <2>3. HalfspaceValue(ExternalBoundary, plane, p) = d - e BY DEF HalfspaceValue
  <2> HIDE DEF d, e, b
  <2>4. d - b <= RoomFor(p, plane) /\ RoomFor(p, plane) \in Int BY <2>1, <2>2
  <2>5. d - e > 0 => RoomFor(p, plane) = (d - b) + (d - e) BY <2>1, <2>2
  <2> QED BY <2>1, <2>3, <2>4, <2>5 DEF d, e, b
<1>2. ASSUME NEW plane \in Planes
      PROVE  /\ Greatest(rooms(plane)) \in Int /\ 0 <= Greatest(rooms(plane))
             /\ \A p \in points : RoomFor(p, plane) <= Greatest(rooms(plane))
  <2> DEFINE R == {RoomFor(point, plane) : point \in points}
             f == [p \in points |-> RoomFor(p, plane)]
             All == rooms(plane)
  <2>1. IsFiniteSet(R)
    <3>1. f \in [points -> R] /\ \A t \in R : \E p \in points : f[p] = t OBVIOUS
    <3> HIDE DEF f, R
    <3> QED BY <3>1, ImageIsFinite
  <2>2. R \subseteq Int BY <1>1
  <2>3. All = R \cup {0} OBVIOUS
  <2>4. \A p \in points : RoomFor(p, plane) \in All OBVIOUS
  <2> HIDE DEF R, All
  <2>5. IsFiniteSet(All) BY <2>1, <2>3, FS_AddElement
  <2>6. All \subseteq Int /\ All # {} /\ 0 \in All BY <2>2, <2>3
  <2>7. Greatest(All) \in All /\ \A j \in All : Greatest(All) >= j
    BY <2>5, <2>6, FiniteHasGreatest
  <2>8. Greatest(All) \in Int /\ 0 <= Greatest(All) BY <2>6, <2>7
  <2>9. \A p \in points : RoomFor(p, plane) <= Greatest(All)
    <3> TAKE p \in points
    <3>1. Greatest(All) >= RoomFor(p, plane) BY <2>4, <2>7
    <3>2. RoomFor(p, plane) \in Int BY <1>1
    <3> QED BY <2>8, <3>1, <3>2
  <2> QED BY <2>8, <2>9 DEF All
<1>3. ASSUME NEW plane \in Planes
      PROVE  wide[plane] = IF IsPeriodic(plane) THEN boundary[plane] + Greatest(rooms(plane))
                           ELSE boundary[plane]
  BY DEF Expanded
<1> HIDE DEF rooms
<1>4. \A plane \in Planes : boundary[plane] \in Int /\ wide[plane] \in Int
                              /\ boundary[plane] <= wide[plane]
  <2> TAKE plane \in Planes
  <2>1. boundary[plane] \in Int OBVIOUS
  <2> HIDE DEF wide
  <2>2. CASE IsPeriodic(plane) BY <1>2, <1>3, <2>1, <2>2
  <2>3. CASE ~IsPeriodic(plane) BY <1>3, <2>1, <2>3
  <2> QED BY <2>2, <2>3
<1>5. wide \in [Planes -> Int]
  <2>1. wide = [plane \in Planes |-> wide[plane]] BY DEF Expanded
  <2> HIDE DEF wide
  <2> QED BY <1>4, <2>1
<1>6. \A plane \in Planes \ PeriodicPlanes : wide[plane] = boundary[plane]
  BY <1>3 DEF PeriodicPlanes
<1>7. ASSUME NEW plane \in PeriodicPlanes, NEW p \in points
      PROVE  /\ HalfspaceValue(wide, plane, p) <= 0
             /\ LET outside == HalfspaceValue(ExternalBoundary, plane, p)
                IN outside > 0 => HalfspaceValue(wide, plane, p) + outside <= 0
  <2> DEFINE d == Dot(Normal(plane), p)
             b == boundary[plane]
             o == HalfspaceValue(ExternalBoundary, plane, p)
             r == RoomFor(p, plane)
             g == Greatest(rooms(plane))
  <2>1. plane \in Planes /\ IsPeriodic(plane) BY DEF PeriodicPlanes
  <2>2. /\ r \in Int /\ d \in Int /\ b \in Int /\ d - b <= r
        /\ o > 0 => r = (d - b) + o
    BY <1>1, <2>1
  <2>3. o \in Int BY <1>1, <2>1 DEF HalfspaceValue
  <2>4. g \in Int /\ r <= g BY <1>2, <2>1
  <2>5. HalfspaceValue(wide, plane, p) = d - wide[plane] /\ wide[plane] = b + g
    BY <1>3, <2>1 DEF HalfspaceValue
  <2> HIDE DEF d, b, o, r, g, wide
  <2>6. HalfspaceValue(wide, plane, p) = (d - b) - g BY <2>2, <2>4, <2>5
  <2>7. (d - b) - g <= 0 BY <2>2, <2>4
  <2>8. o > 0 => ((d - b) - g) + o <= 0 BY <2>2, <2>3, <2>4
  <2> QED BY <2>6, <2>7, <2>8 DEF o
<1> QED BY <1>4, <1>5, <1>6, <1>7

\* Mirrors are asked for visible nodes, through periodic planes.
RequestsOK == requests \subseteq VisibleNodes \X PeriodicPlanes

\* What is planned are finitely many copies of visible nodes that these do not have.
LEMMA PlannedFacts ==
  ASSUME SlotsOK, ActiveOK, RequestsOK
  PROVE  /\ IsFiniteSet(Planned) /\ Planned \in SUBSET CopyName
         /\ \A c \in Planned :
              /\ c.reference \in VisibleNodes
              /\ c.shift \in ShiftMasks(PeriodicPlanes) /\ c.shift # {}
              /\ c.shift \in SUBSET PeriodicPlanes
              /\ FindReferenceCopy(c.reference, c.shift) = {}
<1> DEFINE wanted(i) == {request[2] : request \in {q \in requests : q[1] = i}}
<1>1. \A i : wanted(i) \subseteq PeriodicPlanes
  <2> SUFFICES ASSUME NEW q \in requests PROVE q[2] \in PeriodicPlanes
    OBVIOUS
  <2>1. q \in VisibleNodes \X PeriodicPlanes BY DEF RequestsOK
  <2> QED BY <2>1
<1>2. \A i : ShiftMasks(wanted(i)) \subseteq ShiftMasks(PeriodicPlanes)
  <2> HIDE DEF wanted
  <2> QED BY <1>1 DEF ShiftMasks
<1>3. ASSUME NEW c \in Planned
      PROVE  \E i \in VisibleNodes, m \in ShiftMasks(PeriodicPlanes) :
               /\ c = [reference |-> i, shift |-> m] /\ m # {} /\ FindReferenceCopy(i, m) = {}
  <2>1. PICK i \in VisibleNodes :
          \E m \in ShiftMasks(wanted(i)) \ {{}} :
             c = [reference |-> i, shift |-> m] /\ FindReferenceCopy(i, m) = {}
    BY DEF Planned
  <2> HIDE DEF wanted
  <2> QED BY <1>2, <2>1
<1>4. VisibleNodes \subseteq Nodes /\ Nodes \subseteq Nat /\ IsFiniteSet(VisibleNodes)
  <2>1. Count \in Nat BY SlotFacts
  <2> QED BY <2>1, VisibleFacts DEF Nodes
<1>5. /\ ShiftMasks(PeriodicPlanes) \subseteq SUBSET PeriodicPlanes
      /\ SUBSET PeriodicPlanes \subseteq SUBSET Planes
  BY DEF ShiftMasks, PeriodicPlanes
<1>6. ASSUME NEW c \in Planned
      PROVE  /\ c.reference \in VisibleNodes
             /\ c.shift \in ShiftMasks(PeriodicPlanes) /\ c.shift # {}
             /\ c.shift \in SUBSET PeriodicPlanes
             /\ FindReferenceCopy(c.reference, c.shift) = {}
             /\ c \in CopyName
  <2>1. PICK i \in VisibleNodes, m \in ShiftMasks(PeriodicPlanes) :
          c = [reference |-> i, shift |-> m] /\ m # {} /\ FindReferenceCopy(i, m) = {}
    BY <1>3
  <2>2. c.reference = i /\ c.shift = m BY <2>1
  <2>3. i \in Nat /\ m \in SUBSET Planes BY <1>4, <1>5
  <2>4. c \in CopyName BY <2>1, <2>3 DEF CopyName
  <2> QED BY <1>5, <2>1, <2>2, <2>4
<1>7. IsFiniteSet(Planned)
  <2> DEFINE Pairs == VisibleNodes \X SUBSET Planes
             All == {[reference |-> p[1], shift |-> p[2]] : p \in Pairs}
             f == [p \in Pairs |-> [reference |-> p[1], shift |-> p[2]]]
  <2>1. IsFiniteSet(SUBSET Planes) BY PlanesAreFinite, FS_SUBSET
  <2>2. IsFiniteSet(Pairs) BY <1>4, <2>1, FS_Product
  <2>3. f \in [Pairs -> All] /\ \A t \in All : \E p \in Pairs : f[p] = t
    <3> HIDE DEF Pairs
    <3> QED OBVIOUS
  <2>4. ASSUME NEW c \in Planned PROVE c \in All
    <3>1. c.reference \in VisibleNodes /\ c.shift \in SUBSET Planes /\ c \in CopyName
      BY <1>5, <1>6
    <3>2. <<c.reference, c.shift>> \in Pairs BY <3>1
    <3>3. c = [reference |-> c.reference, shift |-> c.shift] BY <3>1 DEF CopyName
    <3> DEFINE q == <<c.reference, c.shift>>
    <3>4. c = [reference |-> q[1], shift |-> q[2]] BY <3>3
    <3> HIDE DEF Pairs, q
    <3> QED BY <3>2, <3>4 DEF q
  <2> HIDE DEF Pairs, All, f
  <2>5. IsFiniteSet(All) BY <2>2, <2>3, ImageIsFinite
  <2>6. Planned \in SUBSET All BY <2>4
  <2> QED BY <2>5, <2>6, FS_Subset
<1> QED BY <1>6, <1>7

\* append_references: the planned copies get slots, and the boundary room for them.
LEMMA AppendCopiesKeepsMesh ==
  ASSUME Mesh, RequestsOK, AppendReferences
  PROVE  /\ Mesh'
         /\ \A i \in Nodes : i \in Nodes' /\ Slot'[i] = Slot[i]
         /\ block' \subseteq active'
         /\ Count' \in Nat /\ Count <= Count'
         /\ block' = Count .. Count' - 1
         /\ \A plane \in Planes : boundary[plane] <= boundary'[plane]
<1> DEFINE plan == InOrder(Planned)
           n == Cardinality(Planned)
           added == [k \in DOMAIN plan |-> Copy(Slot, plan[k].reference, plan[k].shift)]
           points == {added[k].point : k \in DOMAIN added}
<1>1. SlotsOK /\ ActiveOK /\ BoundaryOK BY DEF Mesh
<1>2. /\ IsFiniteSet(Planned) /\ Planned \in SUBSET CopyName
      /\ \A c \in Planned :
           /\ c.reference \in VisibleNodes
           /\ c.shift \in ShiftMasks(PeriodicPlanes) /\ c.shift # {}
           /\ c.shift \in SUBSET PeriodicPlanes
           /\ FindReferenceCopy(c.reference, c.shift) = {}
  BY <1>1, PlannedFacts
<1>3. /\ n \in Nat /\ plan \in [1 .. n -> Planned]
      /\ \A j, k \in 1 .. n : plan[j] = plan[k] => j = k
  BY <1>2, InOrderLists
<1>4. Len(plan) = n /\ DOMAIN plan = 1 .. n
  <2> HIDE DEF plan, n
  <2> QED BY <1>3
<1>5. /\ slots' = slots \o added /\ Count + n <= Capacity
      /\ block' = Count .. Count + n - 1
      /\ active' = active \cup (Count .. Count + n - 1)
      /\ boundary' = Expanded(points)
      /\ UNCHANGED <<integrated, pendingDeleted>>
  BY <1>4 DEF AppendReferences
<1> HIDE DEF plan, n
<1>6. ASSUME NEW k \in 1 .. n
      PROVE  /\ plan[k] \in Planned
             /\ plan[k].reference \in VisibleNodes /\ plan[k].reference \in Nodes
             /\ plan[k].reference \in Nat /\ Slot[plan[k].reference].visible
             /\ Slot[plan[k].reference].point \in Point
             /\ Contains(ExternalBoundary, Slot[plan[k].reference].point)
             /\ plan[k].shift \in ShiftMasks(PeriodicPlanes) /\ plan[k].shift # {}
             /\ plan[k].shift \in SUBSET PeriodicPlanes
             /\ FindReferenceCopy(plan[k].reference, plan[k].shift) = {}
  <2>1. plan[k] \in Planned BY <1>3
  <2>2. plan[k].reference \in VisibleNodes BY <1>2, <2>1
  <2>3. plan[k].reference \in Nodes /\ IsVisibleSlot(Slot[plan[k].reference])
    BY <1>1, <2>2, VisibleFacts
  <2>4. plan[k].reference \in Nat
    <3>1. Count \in Nat BY <1>1, SlotFacts
    <3> QED BY <2>3, <3>1 DEF Nodes
  <2>5. Slot[plan[k].reference] \in SlotRecord BY <1>1, <2>3, SlotFacts
  <2>6. Slot[plan[k].reference].point \in Point BY <2>5 DEF SlotRecord
  <2> QED BY <1>2, <2>1, <2>2, <2>3, <2>4, <2>6 DEF IsVisibleSlot
<1>7. ASSUME NEW k \in 1 .. n
      PROVE  /\ added[k] = Copy(Slot, plan[k].reference, plan[k].shift)
             /\ added[k].point = Sum2(Slot[plan[k].reference].point, PeriodicShift(plan[k].shift))
             /\ added[k].point \in Point
             /\ ~added[k].visible
             /\ added[k].reference = plan[k].reference /\ added[k].shift = plan[k].shift
             /\ added[k] \in SlotRecord
  <2> DEFINE r == plan[k].reference
             s == plan[k].shift
             p == Sum2(Slot[r].point, PeriodicShift(s))
  <2>1. added[k] = Copy(Slot, r, s) BY <1>4
  <2>2. p \in Point BY <1>6, CopyIsPoint
  <2>3. r \in Nat /\ s \in SUBSET PeriodicPlanes BY <1>6
  <2>4. Copy(Slot, r, s) = [point |-> p, visible |-> FALSE, reference |-> r, shift |-> s]
    BY DEF Copy
  <2> HIDE DEF r, s, p
  <2>5. Copy(Slot, r, s) \in SlotRecord BY <2>2, <2>3, <2>4 DEF SlotRecord
  <2> QED BY <2>1, <2>2, <2>4, <2>5 DEF r, s, p
<1>8. DOMAIN added = 1 .. n /\ added \in Seq(SlotRecord) /\ Len(added) = n
  <2>1. DOMAIN added = 1 .. n BY <1>4
  <2>2. added \in [1 .. n -> SlotRecord] BY <1>4, <1>7
  <2> HIDE DEF added
  <2> QED BY <1>3, <2>1, <2>2
<1>9. ASSUME NEW k \in 1 .. n PROVE NewCopy(added[k])
  <2>1. plan[k].reference \in active BY <1>1, <1>6, VisibleFacts
  <2>2. DOMAIN Slot = Nodes BY <1>1, SlotFacts
  <2>3. IsCopySlot(Slot, added[k])
    <3> HIDE DEF added
    <3> QED BY <1>6, <1>7, <2>2 DEF IsCopySlot
  <2> HIDE DEF added
  <2> QED BY <1>6, <1>7, <2>1, <2>3 DEF NewCopy
<1>10. ASSUME NEW j \in 1 .. n, NEW k \in 1 .. n,
              added[j].reference = added[k].reference, added[j].shift = added[k].shift
       PROVE  j = k
  <2>1. plan[j] \in CopyName /\ plan[k] \in CopyName BY <1>2, <1>6
  <2>2. plan[j].reference = plan[k].reference /\ plan[j].shift = plan[k].shift
    BY <1>7, <1>10
  <2>3. plan[j] = plan[k] BY <2>1, <2>2 DEF CopyName
  <2> QED BY <1>3, <2>3
<1>11. boundary \in [Planes -> Int] /\ points \subseteq Point /\ IsFiniteSet(points)
  <2>1. boundary \in [Planes -> Int] BY <1>1 DEF BoundaryOK
  <2>2. points \subseteq Point BY <1>7, <1>8
  <2>3. IsFiniteSet(points)
    <3> DEFINE f == [k \in 1 .. n |-> added[k].point]
    <3>1. IsFiniteSet(1 .. n)
      <4>1. IsFiniteSet(0 .. n) BY <1>3, IntervalIsFinite
      <4>2. 1 .. n \in SUBSET (0 .. n) BY <1>3
      <4> QED BY <4>1, <4>2, FS_Subset
    <3>2. f \in [1 .. n -> points] /\ \A t \in points : \E k \in 1 .. n : f[k] = t
      BY <1>8
    <3> HIDE DEF f, points
    <3> QED BY <3>1, <3>2, ImageIsFinite
  <2> QED BY <2>1, <2>2, <2>3
<1>12. \A k \in 1 .. n : added[k].point \in points BY <1>8
<1> HIDE DEF points
<1>13. /\ boundary' \in [Planes -> Int]
       /\ \A plane \in Planes : boundary[plane] <= boundary'[plane]
       /\ \A plane \in Planes \ PeriodicPlanes : boundary'[plane] = boundary[plane]
       /\ \A plane \in PeriodicPlanes, p \in points :
            /\ HalfspaceValue(boundary', plane, p) <= 0
            /\ LET outside == HalfspaceValue(ExternalBoundary, plane, p)
               IN outside > 0 => HalfspaceValue(boundary', plane, p) + outside <= 0
  BY <1>5, <1>11, ExpandedFacts
<1>14. \A plane \in Planes \ PeriodicPlanes : boundary'[plane] = ExternalBoundary[plane]
  BY <1>1, <1>13 DEF BoundaryOK
<1>15. ASSUME NEW k \in 1 .. n PROVE HasRoom(boundary', added[k].point)
  <2>1. added[k].point \in points BY <1>12
  <2>2. ASSUME NEW plane \in Planes PROVE HalfspaceValue(boundary', plane, added[k].point) <= 0
    <3>1. CASE plane \in PeriodicPlanes BY <1>13, <2>1, <3>1
    <3>2. CASE plane \notin PeriodicPlanes
      <4> DEFINE home == Slot[plan[k].reference].point
      <4>1. Dot(Normal(plane), added[k].point) = Dot(Normal(plane), home)
        BY <1>6, <1>7, <3>2, CopyStaysBetweenWalls
      <4>2. HalfspaceValue(ExternalBoundary, plane, home) <= 0 BY <1>6 DEF Contains
      <4>3. boundary'[plane] = ExternalBoundary[plane] BY <1>14, <3>2
      <4> QED BY <4>1, <4>2, <4>3 DEF HalfspaceValue
    <3> QED BY <3>1, <3>2
  <2> QED BY <1>13, <2>1, <2>2 DEF HasRoom
<1> HIDE DEF added
<1>16. Mesh'
  <2>1. /\ Count + Len(added) <= Capacity
        /\ active' = active \cup (Count .. Count + Len(added) - 1)
        /\ \A k \in 1 .. Len(added) : IsVisibleSlot(added[k]) \/ NewCopy(added[k])
        /\ \A k \in 1 .. Len(added) : HasRoom(boundary', added[k].point)
    BY <1>5, <1>8, <1>9, <1>15
  <2>2. \A j, k \in 1 .. Len(added) :
          /\ ~added[j].visible /\ ~added[k].visible
          /\ added[j].reference = added[k].reference /\ added[j].shift = added[k].shift
          => j = k
    BY <1>8, <1>10
  <2> QED BY <1>5, <1>8, <1>13, <1>14, <2>1, <2>2, MeshGrows
<1>17. /\ \A i \in Nodes : i \in Nodes' /\ Slot'[i] = Slot[i]
       /\ Count \in Nat /\ Count' = Count + n
  BY <1>1, <1>5, <1>8, SlotsConcat
<1>18. block' \subseteq active' BY <1>5
<1> QED BY <1>3, <1>5, <1>13, <1>16, <1>17, <1>18

-----------------------------------------------------------------------------
(* The invariant.                                                          *)

\* Every stored vertex names nodes, active or waiting to be forgotten, and no periodic plane.
RecordsOK ==
  \A sigma \in records :
    /\ sigma \subseteq Nodes \cup BoundaryCodes /\ sigma \cap Nodes # {}
    /\ ~OnPeriodicPlane(sigma)
    /\ Ordinary(sigma) \subseteq active \cup pendingDeleted
    /\ phase # "rest" => Ordinary(sigma) \subseteq active

\* Where compute() is, and what its own state may be then.
Phases   == {"rest", "refine", "closing", "removal", "repair", "sweep"}
Outcomes == {"none", "computing", "complete", "round limit", "sweep limit", "copy met"}
ComputeOK ==
  /\ phase \in Phases /\ outcome \in Outcomes
  /\ RequestsOK
  /\ block \subseteq active /\ dirty \subseteq active
  /\ old \in Nat /\ old <= Count
  /\ remover \in [status : {"none", "removed", "computed"}, affected : SUBSET active]
  /\ listed \subseteq records /\ (phase # "sweep" => listed = {})
  /\ seeds \subseteq SUBSET (Nodes \cup BoundaryCodes)
  /\ rounds \in Nat /\ sweeps \in Nat /\ settings \in [rounds : Nat, sweeps : Nat]
  /\ phase = "rest" => /\ requests = {} /\ block = {} /\ dirty = {} /\ listed = {}
                       /\ remover = NoRemover

Inv == Mesh /\ RecordsOK /\ ComputeOK

\* Vertices that a run may report.
Reportable(sigma) == sigma \subseteq active \cup BoundaryCodes /\ sigma \cap active # {}

\* A run of compute() over active nodes reports vertices of active nodes.
LEMMA FoundIsReportable ==
  ASSUME Mesh, RecordsOK, phase # "rest", NEW front, front \subseteq active,
         NEW offered, offered \subseteq records, NEW found \in Found(front, offered)
  PROVE  \A sigma \in found : Reportable(sigma)
<1> DEFINE view == [at |-> Positions, boundary |-> boundary]
           G == Generators(view)
<1>1. SlotsOK /\ ActiveOK BY DEF Mesh
<1>2. DOMAIN view.at = active /\ G = active \cup BoundaryCodes
  BY DEF Positions, Generators
<1>3. IsFiniteSet(G)
  <2>1. IsFiniteSet(active) BY <1>1, VisibleFacts
  <2>2. IsFiniteSet(BoundaryCodes)
    <3> DEFINE f == [plane \in Planes |-> EncodeBoundary(plane)]
    <3>1. f \in [Planes -> BoundaryCodes]
            /\ \A t \in BoundaryCodes : \E plane \in Planes : f[plane] = t
      BY DEF BoundaryCodes
    <3> HIDE DEF f
    <3> QED BY <3>1, PlanesAreFinite, ImageIsFinite
  <2> QED BY <1>2, <2>1, <2>2, FS_Union
<1>4. Count \in Nat /\ front \subseteq 0 .. Count
  <2>1. Count \in Nat /\ front \subseteq 0 .. Count - 1 BY <1>1, SlotFacts DEF ActiveOK, Nodes
  <2> QED BY <2>1
<1>5. offered \in SUBSET SUBSET G
  <2>1. ASSUME NEW sigma \in offered PROVE sigma \subseteq G
    <3>1. Ordinary(sigma) \subseteq active BY DEF RecordsOK
    <3> QED BY <1>2, <3>1 DEF Ordinary
  <2> QED BY <2>1
<1>6. found \in Walks(view, front, offered, records) BY DEF Found
<1>7. front \subseteq DOMAIN view.at BY <1>2
<1> HIDE DEF view
<1>8. Walks(view, front, offered, records) \subseteq SUBSET AtFront(Generators(view), front)
  BY <1>3, <1>4, <1>5, <1>7, WalksAreKnown
<1>9. \A sigma \in found : sigma \subseteq G /\ sigma \cap front # {}
  BY <1>6, <1>8 DEF AtFront
<1> QED BY <1>2, <1>9 DEF Reportable

\* Mirrors are asked for visible nodes, through periodic planes.
LEMMA RequestsAreTyped ==
  ASSUME Mesh, NEW sigmas
  PROVE  RequestsOf(sigmas) \subseteq VisibleNodes \X PeriodicPlanes
<1>1. SlotsOK /\ ActiveOK BY DEF Mesh
<1>2. ASSUME NEW sigma PROVE AsksFor(sigma) \subseteq VisibleNodes \X PeriodicPlanes
  <2> DEFINE copies == {i \in Ordinary(sigma) : IsCopy(i)}
             crossed == UNION {Slot[i].shift : i \in copies}
             partners == {Partner(plane) : plane \in crossed}
             met == {plane \in PeriodicPlanes : EncodeBoundary(plane) \in sigma}
  <2>1. ASSUME NEW i \in copies PROVE Slot[i].shift \subseteq PeriodicPlanes
    <3>1. i \in Nodes BY <1>1 DEF IsCopy, ActiveOK
    <3> QED BY <1>1, <3>1, SlotFacts DEF SlotRecord
  <2>2. crossed \subseteq PeriodicPlanes
    <3> HIDE DEF copies
    <3> QED BY <2>1
  <2> HIDE DEF crossed
  <2>3. partners \subseteq PeriodicPlanes BY <2>2, PartnerIsPeriodic
  <2>4. AsksFor(sigma) = {i \in Ordinary(sigma) : i \in VisibleNodes} \X (met \cup partners)
    BY DEF AsksFor, crossed
  <2> HIDE DEF partners
  <2> QED BY <2>3, <2>4
<1> QED BY <1>2 DEF RequestsOf

\* Steps that leave the nodes and the boundary alone.
SameMesh == UNCHANGED <<slots, active, boundary, integrated, pendingDeleted>>

\* Such steps keep the mesh right.
LEMMA SameMeshKeepsMesh ==
  ASSUME Mesh, SameMesh
  PROVE  Mesh' /\ Count' = Count /\ Slot' = Slot /\ Nodes' = Nodes /\ VisibleNodes' = VisibleNodes
<1>1. Count' = Count /\ Slot' = Slot BY DEF SameMesh, Count, Slot
<1>2. Nodes' = Nodes /\ VisibleNodes' = VisibleNodes BY <1>1 DEF Nodes, VisibleNodes, SameMesh
<1>3. SlotsOK' BY <1>1, <1>2 DEF SlotsOK, SameMesh, Mesh
<1>4. OneCopyEach' BY <1>1, <1>2 DEF OneCopyEach, Mesh
<1>5. CopiesLive' BY <1>1, <1>2 DEF CopiesLive, SameMesh, Mesh
<1>6. ActiveOK' BY <1>1, <1>2 DEF ActiveOK, SameMesh, Mesh
<1>7. BoundaryOK' BY <1>1, <1>2 DEF BoundaryOK, SameMesh, Mesh
<1> QED BY <1>1, <1>2, <1>3, <1>4, <1>5, <1>6, <1>7 DEF Mesh

\* What a phase stores was stored before or may be reported, and is on no periodic plane.
LEMMA StoredRecords ==
  ASSUME Mesh, RecordsOK, SameMesh, phase # "rest",
         \A sigma \in records' :
           sigma \in records \/ (Reportable(sigma) /\ ~OnPeriodicPlane(sigma))
  PROVE  RecordsOK'
<1>1. Nodes' = Nodes BY SameMeshKeepsMesh
<1>2. active \subseteq Nodes BY DEF Mesh, ActiveOK
<1>3. active' = active /\ pendingDeleted' = pendingDeleted BY DEF SameMesh
<1>4. ASSUME NEW sigma \in records'
      PROVE  /\ sigma \subseteq Nodes \cup BoundaryCodes /\ sigma \cap Nodes # {}
             /\ ~OnPeriodicPlane(sigma) /\ Ordinary(sigma) \subseteq active
  <2>1. CASE sigma \in records BY <2>1 DEF RecordsOK
  <2>2. CASE Reportable(sigma) /\ ~OnPeriodicPlane(sigma)
    BY <1>2, <2>2 DEF Reportable, Ordinary
  <2> QED BY <2>1, <2>2
<1> QED BY <1>1, <1>3, <1>4 DEF RecordsOK

\* The invariant holds of a new mesh.
LEMMA InitInv == Init => Inv
<1> SUFFICES ASSUME Init PROVE Inv
  OBVIOUS
<1>1. Mesh BY InitialMesh
<1>2. RecordsOK BY DEF Init, RecordsOK
<1>3. Count \in Nat BY <1>1, SlotFacts DEF Mesh
<1>4. ComputeOK
  <2>1. remover \in [status : {"none", "removed", "computed"}, affected : SUBSET active]
    BY DEF Init, NoRemover
  <2>2. settings \in [rounds : Nat, sweeps : Nat] BY DEF Init, NoSettings
  <2>3. 0 <= Count BY <1>3
  <2> QED BY <2>1, <2>2, <2>3 DEF Init, ComputeOK, Phases, Outcomes, RequestsOK
<1> QED BY <1>1, <1>2, <1>4 DEF Inv

\* Each action keeps the invariant.  At rest nothing is asked for; an appended node is new,
LEMMA AppendNodeKeepsInv ==
  ASSUME Inv, NEW point \in MorePoints, AppendVisibleNode(point)
  PROVE  Inv'
<1>1. Mesh /\ RecordsOK /\ ComputeOK BY DEF Inv
<1>2. Mesh' BY <1>1, AppendNodeKeepsMesh
<1>3. phase = "rest" BY DEF AppendVisibleNode, InUse
<1>4. /\ records' = records /\ pendingDeleted' = pendingDeleted /\ active \subseteq active'
      /\ UNCHANGED computeVars
  BY DEF AppendVisibleNode
<1>5. Count \in Nat /\ Count' = Count + 1 /\ Nodes \subseteq Nodes'
  <2>1. slots \in Seq(SlotRecord) /\ Count \in Nat BY <1>1, SlotFacts DEF Mesh, SlotsOK
  <2>2. slots' = Append(slots, Visible(point)) BY DEF AppendVisibleNode
  <2>3. Len(slots') = Len(slots) + 1
    <3> DEFINE slot == Visible(point)
    <3>1. slots' = Append(slots, slot) BY <2>2
    <3> HIDE DEF slot
    <3> QED BY <2>1, <3>1
  <2>4. Count' = Count + 1 BY <2>3 DEF Count
  <2> QED BY <2>1, <2>4 DEF Nodes
<1>6. RecordsOK' BY <1>1, <1>3, <1>4, <1>5 DEF RecordsOK, computeVars
<1>7. ComputeOK'
  <2>1. /\ phase' = phase /\ outcome' = outcome /\ requests' = requests /\ block' = block
        /\ dirty' = dirty /\ old' = old /\ remover' = remover /\ listed' = listed
        /\ seeds' = seeds /\ rounds' = rounds /\ sweeps' = sweeps /\ settings' = settings
    BY <1>4 DEF computeVars
  <2>2. RequestsOK' BY <1>1, <1>3, <2>1 DEF ComputeOK, RequestsOK
  <2>3. old <= Count' BY <1>1, <1>5 DEF ComputeOK
  <2>4. seeds \subseteq SUBSET (Nodes' \cup BoundaryCodes) BY <1>1, <1>5 DEF ComputeOK
  <2>5. remover \in [status : {"none", "removed", "computed"}, affected : SUBSET active']
    BY <1>1, <1>4 DEF ComputeOK
  <2> QED BY <1>1, <1>4, <2>1, <2>2, <2>3, <2>4, <2>5 DEF ComputeOK
<1> QED BY <1>2, <1>6, <1>7 DEF Inv

\* an erased one stays among those that wait for the next compute(),
LEMMA EraseNodesKeepsInv ==
  ASSUME Inv, NEW p \in DOMAIN PublicToInternal, EraseVisibleNodes({p})
  PROVE  Inv'
<1>1. Mesh /\ RecordsOK /\ ComputeOK BY DEF Inv
<1>2. Mesh' BY <1>1, EraseNodesKeepsMesh
<1>3. phase = "rest" BY DEF EraseVisibleNodes, InUse
<1>4. UNCHANGED <<slots, records, computeVars>> BY DEF EraseVisibleNodes
<1>5. active' \cup pendingDeleted' = active \cup pendingDeleted BY DEF EraseVisibleNodes
<1>6. Count' = Count /\ Nodes' = Nodes BY <1>4 DEF Count, Nodes
<1>7. RecordsOK' BY <1>1, <1>3, <1>4, <1>5, <1>6 DEF RecordsOK, computeVars
<1>8. ComputeOK'
  <2>1. /\ phase' = phase /\ outcome' = outcome /\ requests' = requests /\ block' = block
        /\ dirty' = dirty /\ old' = old /\ remover' = remover /\ listed' = listed
        /\ seeds' = seeds /\ rounds' = rounds /\ sweeps' = sweeps /\ settings' = settings
    BY <1>4 DEF computeVars
  <2>2. requests = {} /\ block = {} /\ dirty = {} /\ remover = NoRemover
    BY <1>1, <1>3 DEF ComputeOK
  <2>3. NoRemover \in [status : {"none", "removed", "computed"}, affected : SUBSET active']
    BY DEF NoRemover
  <2> QED BY <1>1, <1>4, <1>6, <2>1, <2>2, <2>3 DEF ComputeOK, RequestsOK
<1> QED BY <1>2, <1>7, <1>8 DEF Inv

\* which first erases every vertex that names one of them.
LEMMA BeginKeepsInv ==
  ASSUME Inv, NEW maxima \in [rounds : MaximumRounds, sweeps : MaximumSweeps],
         NEW sameObject \in BOOLEAN, Begin(maxima, sameObject)
  PROVE  Inv'
<1>1. Mesh /\ RecordsOK /\ ComputeOK BY DEF Inv
<1>2. SameMesh BY DEF Begin, SameMesh
<1>3. Mesh' /\ Count' = Count /\ Nodes' = Nodes /\ VisibleNodes' = VisibleNodes
  BY <1>1, <1>2, SameMeshKeepsMesh
<1>4. active' = active /\ pendingDeleted' = pendingDeleted BY <1>2 DEF SameMesh
<1>5. RecordsOK'
  <2>1. ASSUME NEW sigma \in records'
        PROVE  sigma \in records /\ Ordinary(sigma) \subseteq active
    <3>1. sigma \in records /\ sigma \cap pendingDeleted = {}
      BY DEF Begin, Incident, Touching
    <3>2. Ordinary(sigma) \subseteq active \cup pendingDeleted BY <1>1, <3>1 DEF RecordsOK
    <3> QED BY <3>1, <3>2 DEF Ordinary
  <2> QED BY <1>1, <1>3, <1>4, <2>1 DEF RecordsOK
<1>6. phase = "rest" BY DEF Begin, InUse
<1>7. ComputeOK'
  <2>1. requests = {} /\ dirty = {} /\ listed = {} BY <1>1, <1>6 DEF ComputeOK
  <2>2. requests' = {} /\ dirty' = {} /\ listed' = {} BY <2>1 DEF Begin
  <2>3. block' \subseteq active BY DEF Begin, PendingNewVisible, VisibleNodes
  <2>4. old' \in Nat /\ old' <= Count BY <1>1 DEF Begin, Mesh, ActiveOK
  <2>5. remover' \in [status : {"none", "removed", "computed"}, affected : SUBSET active]
    BY DEF Begin, NoRemover, Bereaved
  <2>6. seeds' \subseteq SUBSET (Nodes \cup BoundaryCodes) BY <1>1 DEF Begin, ComputeOK
  <2>7. settings' \in [rounds : Nat, sweeps : Nat] /\ rounds' \in Nat /\ sweeps' \in Nat
    BY MeshAssumption DEF Begin
  <2>8. phase' \in {"removal", "refine"} /\ outcome' = "computing" BY DEF Begin
  <2> QED BY <1>3, <1>4, <2>2, <2>3, <2>4, <2>5, <2>6, <2>7, <2>8
      DEF ComputeOK, RequestsOK, Phases, Outcomes
<1> QED BY <1>3, <1>5, <1>7 DEF Inv

\* The end of compute(), with or without an exception, leaves what is in the mesh.
LEMMA GivingUpKeepsInv ==
  ASSUME Inv, SameMesh, RecordsOK', NEW reason \in Outcomes, GiveUp(reason), seeds' = seeds
  PROVE  Inv'
<1>1. Mesh' /\ Count' = Count /\ Nodes' = Nodes
  BY SameMeshKeepsMesh DEF Inv
<1>2. Count \in Nat BY SlotFacts DEF Inv, Mesh
<1>3. remover' = NoRemover
        /\ NoRemover \in [status : {"none", "removed", "computed"}, affected : SUBSET active']
  BY DEF GiveUp, NoRemover
<1>4. settings' \in [rounds : Nat, sweeps : Nat] BY DEF GiveUp, NoSettings
<1>5. ComputeOK'
  <2>1. seeds' \subseteq SUBSET (Nodes' \cup BoundaryCodes) BY <1>1 DEF Inv, ComputeOK
  <2>2. old' \in Nat /\ old' <= Count' BY <1>1, <1>2 DEF GiveUp
  <2> QED BY <1>3, <1>4, <2>1, <2>2 DEF GiveUp, ComputeOK, RequestsOK, Phases
<1> QED BY <1>1, <1>5 DEF Inv

\* The phases store what they find among active nodes.
LEMMA RefineBlockKeepsInv == ASSUME Inv, RefineBlock PROVE Inv'
<1>1. Mesh /\ RecordsOK /\ ComputeOK BY DEF Inv
<1>2. SameMesh /\ phase # "rest" BY DEF RefineBlock, SameMesh
<1>3. /\ Mesh' /\ Count' = Count /\ Nodes' = Nodes /\ VisibleNodes' = VisibleNodes
      /\ active' = active
  BY <1>1, <1>2, SameMeshKeepsMesh DEF SameMesh
<1>4. PICK found \in Found(block, records) :
        LET suppressed == Suppressed(found)
            seen       == Recalled \cup found
            stored     == (records \ Obsolete(seen)) \cup (found \ suppressed)
        IN /\ records' = stored
           /\ requests' = RequestsOf(seen)
           /\ seeds' = IF old = 0 THEN seeds \cup SeedsFrom(suppressed, stored) ELSE seeds
  BY DEF RefineBlock
<1>5. \A sigma \in found : Reportable(sigma)
  BY <1>1, <1>2, FoundIsReportable DEF ComputeOK
<1>6. RecordsOK'
  <2>1. ASSUME NEW sigma \in records'
        PROVE  sigma \in records \/ (Reportable(sigma) /\ ~OnPeriodicPlane(sigma))
    BY <1>4, <1>5 DEF Suppressed
  <2> QED BY <1>1, <1>2, <2>1, StoredRecords
<1>7. RequestsOK' BY <1>1, <1>3, <1>4, RequestsAreTyped DEF RequestsOK
<1>8. seeds' \subseteq SUBSET (Nodes \cup BoundaryCodes)
  <2>1. \A sigma \in records' : sigma \subseteq Nodes \cup BoundaryCodes BY <1>3, <1>6 DEF RecordsOK
  <2>2. seeds' \subseteq seeds \cup records' BY <1>4 DEF SeedsFrom
  <2> QED BY <1>1, <2>1, <2>2 DEF ComputeOK
<1>9. listed' = {} BY <1>1 DEF RefineBlock, ComputeOK
<1>10. ComputeOK'
  <2>1. /\ phase' = "closing" /\ rounds' = rounds + 1
        /\ UNCHANGED <<outcome, block, old, remover, settings, dirty, sweeps>>
    BY DEF RefineBlock
  <2>2. rounds' \in Nat BY <1>1, <2>1 DEF ComputeOK
  <2> QED BY <1>1, <1>3, <1>7, <1>8, <1>9, <2>1, <2>2 DEF ComputeOK, Phases
<1> QED BY <1>3, <1>6, <1>10 DEF Inv

\* The limits throw and change nothing in the mesh.
LEMMA LimitsKeepInv == ASSUME Inv, RoundLimit \/ SweepLimit PROVE Inv'
<1>1. SameMesh /\ records' = records /\ seeds' = seeds /\ phase # "rest"
  BY DEF RoundLimit, SweepLimit, meshVars, SameMesh
<1>2. RecordsOK' BY <1>1, StoredRecords DEF Inv
<1>3. PICK reason \in Outcomes : GiveUp(reason) BY DEF RoundLimit, SweepLimit, Outcomes
<1> QED BY <1>1, <1>2, <1>3, GivingUpKeepsInv

\* New copies make more nodes active.
LEMMA AppendReferencesKeepsInv == ASSUME Inv, AppendReferences PROVE Inv'
<1>1. Mesh /\ RecordsOK /\ ComputeOK /\ RequestsOK BY DEF Inv, ComputeOK
<1>2. /\ Mesh' /\ \A i \in Nodes : i \in Nodes' /\ Slot'[i] = Slot[i]
      /\ block' \subseteq active' /\ Count' \in Nat /\ Count <= Count'
  BY <1>1, AppendCopiesKeepsMesh
<1>3. /\ phase = "closing" /\ phase' = "refine" /\ requests' = {} /\ old' = Count
      /\ active \subseteq active'
      /\ UNCHANGED <<records, pendingDeleted, outcome, remover, rounds, settings,
                     dirty, listed, sweeps, seeds>>
  BY DEF AppendReferences
<1>4. Count \in Nat BY <1>1, SlotFacts DEF Mesh
<1>5. RecordsOK' BY <1>1, <1>2, <1>3 DEF RecordsOK
<1>6. ComputeOK'
  <2>1. seeds \subseteq SUBSET (Nodes' \cup BoundaryCodes) BY <1>1, <1>2 DEF ComputeOK
  <2>2. remover \in [status : {"none", "removed", "computed"}, affected : SUBSET active']
    BY <1>1, <1>3 DEF ComputeOK
  <2>3. dirty \subseteq active' BY <1>1, <1>3 DEF ComputeOK
  <2> QED BY <1>1, <1>2, <1>3, <1>4, <2>1, <2>2, <2>3 DEF ComputeOK, RequestsOK, Phases
<1> QED BY <1>2, <1>5, <1>6 DEF Inv

\* Some steps only move on to the next phase.
LEMMA QuietStepsKeepInv ==
  ASSUME Inv, RequestsClosed \/ NothingRemoved \/ ResolveSeeds
  PROVE  Inv'
<1>1. Mesh /\ RecordsOK /\ ComputeOK BY DEF Inv
<1>2. SameMesh /\ records' = records /\ seeds' = seeds /\ phase # "rest"
  BY DEF RequestsClosed, NothingRemoved, ResolveSeeds, meshVars, SameMesh
<1>3. /\ Mesh' /\ Count' = Count /\ Nodes' = Nodes /\ VisibleNodes' = VisibleNodes
      /\ active' = active
  BY <1>1, <1>2, SameMeshKeepsMesh DEF SameMesh
<1>4. RecordsOK' BY <1>1, <1>2, StoredRecords
<1>5. CASE RequestsClosed
  <2>1. /\ phase' \in {"removal", "repair"} /\ requests' = {} /\ block' = {}
        /\ UNCHANGED <<outcome, old, remover, rounds, settings, dirty, listed, sweeps>>
        /\ phase # "sweep"
    BY <1>5 DEF RequestsClosed
  <2>2. ComputeOK' BY <1>1, <1>2, <1>3, <2>1 DEF ComputeOK, RequestsOK, Phases
  <2> QED BY <1>3, <1>4, <2>2 DEF Inv
<1>6. CASE NothingRemoved
  <2>1. /\ phase' = "repair" /\ phase # "sweep"
        /\ UNCHANGED <<outcome, block, old, requests, remover, rounds, settings, dirty,
                       listed, sweeps>>
    BY <1>6 DEF NothingRemoved
  <2>2. ComputeOK' BY <1>1, <1>2, <1>3, <2>1 DEF ComputeOK, RequestsOK, Phases
  <2> QED BY <1>3, <1>4, <2>2 DEF Inv
<1>7. CASE ResolveSeeds
  <2>1. /\ phase' = "sweep" /\ listed' = StillStored /\ dirty' = CellsOf(StillStored)
        /\ UNCHANGED <<outcome, block, old, requests, remover, rounds, settings, sweeps>>
    BY <1>7 DEF ResolveSeeds
  <2>2. listed' \subseteq records /\ dirty' \subseteq active
    BY <2>1 DEF StillStored, CellsOf, VisibleNodes
  <2>3. ComputeOK' BY <1>1, <1>2, <1>3, <2>1, <2>2 DEF ComputeOK, RequestsOK, Phases
  <2> QED BY <1>3, <1>4, <2>3 DEF Inv
<1> QED BY <1>5, <1>6, <1>7

\* RemoveVoronoi stores vertices of the cells that lost some.
LEMMA CloseHolesKeepsInv == ASSUME Inv, CloseHoles PROVE Inv'
<1>1. Mesh /\ RecordsOK /\ ComputeOK BY DEF Inv
<1>2. SameMesh /\ phase = "removal" BY DEF CloseHoles, SameMesh
<1>3. /\ Mesh' /\ Count' = Count /\ Nodes' = Nodes /\ VisibleNodes' = VisibleNodes
      /\ active' = active
  BY <1>1, <1>2, SameMeshKeepsMesh DEF SameMesh
<1>4. PICK found \in Found(remover.affected \cap active, records) :
        /\ records' = records \cup (found \ Suppressed(found))
        /\ requests' = RequestsOf(found)
  BY DEF CloseHoles
<1>5. \A sigma \in found : Reportable(sigma)
  <2> DEFINE front == remover.affected \cap active
  <2>1. front \subseteq active /\ found \in Found(front, records) /\ phase # "rest" BY <1>2
  <2> HIDE DEF front
  <2> QED BY <1>1, <2>1, FoundIsReportable
<1>6. RecordsOK'
  <2>1. ASSUME NEW sigma \in records'
        PROVE  sigma \in records \/ (Reportable(sigma) /\ ~OnPeriodicPlane(sigma))
    BY <1>4, <1>5 DEF Suppressed
  <2> QED BY <1>1, <1>2, <2>1, StoredRecords
<1>7. RequestsOK' BY <1>1, <1>3, <1>4, RequestsAreTyped DEF RequestsOK
<1>8. ComputeOK'
  <2>1. /\ phase' = "closing"
        /\ UNCHANGED <<outcome, block, old, rounds, settings, dirty, listed, sweeps, seeds>>
    BY DEF CloseHoles
  <2>2. remover' \in [status : {"none", "removed", "computed"}, affected : SUBSET active]
    BY <1>1 DEF CloseHoles, ComputeOK
  <2>3. listed' = {} /\ listed = {} BY <1>1, <1>2, <2>1 DEF ComputeOK
  <2> QED BY <1>1, <1>3, <1>7, <2>1, <2>2, <2>3 DEF ComputeOK, Phases
<1> QED BY <1>3, <1>6, <1>8 DEF Inv

\* A sweep stores what it finds, and throws if that is at a copy.
LEMMA SweepKeepsInv == ASSUME Inv, Sweep PROVE Inv'
<1>1. Mesh /\ RecordsOK /\ ComputeOK BY DEF Inv
<1>2. SameMesh /\ seeds' = seeds /\ phase = "sweep" BY DEF Sweep, SameMesh
<1>3. /\ Mesh' /\ Count' = Count /\ Nodes' = Nodes /\ VisibleNodes' = VisibleNodes
      /\ active' = active
  BY <1>1, <1>2, SameMeshKeepsMesh DEF SameMesh
<1>4. PICK walked \in Found(dirty, listed) :
        LET found == walked \ (records \cup Suppressed(walked)) IN
        /\ records' = records \cup (found \ AtCopy(found))
        /\ IF AtCopy(found) # {} THEN GiveUp("copy met")
           ELSE /\ dirty' = CellsOf(found)
                /\ listed' = listed \cup found
                /\ sweeps' = sweeps + 1
                /\ UNCHANGED <<phase, outcome, block, old, requests, remover, rounds, settings>>
  BY DEF Sweep
<1>5. \A sigma \in walked : Reportable(sigma)
  <2>1. dirty \subseteq active /\ listed \subseteq records /\ phase # "rest"
    BY <1>1, <1>2 DEF ComputeOK
  <2> QED BY <1>1, <2>1, FoundIsReportable
<1> DEFINE found == walked \ (records \cup Suppressed(walked))
<1>6. RecordsOK'
  <2>1. ASSUME NEW sigma \in records'
        PROVE  sigma \in records \/ (Reportable(sigma) /\ ~OnPeriodicPlane(sigma))
    BY <1>4, <1>5 DEF Suppressed
  <2> QED BY <1>1, <1>2, <2>1, StoredRecords
<1>7. CASE AtCopy(found) # {}
  <2>1. GiveUp("copy met") BY <1>4, <1>7
  <2>2. "copy met" \in Outcomes BY DEF Outcomes
  <2> QED BY <1>2, <1>6, <2>1, <2>2, GivingUpKeepsInv
<1>8. CASE AtCopy(found) = {}
  <2>1. /\ dirty' = CellsOf(found) /\ listed' = listed \cup found /\ sweeps' = sweeps + 1
        /\ UNCHANGED <<phase, outcome, block, old, requests, remover, rounds, settings>>
        /\ records' = records \cup found
    BY <1>4, <1>8
  <2>2. dirty' \subseteq active BY <2>1 DEF CellsOf, VisibleNodes
  <2>3. listed' \subseteq records'
    <3> HIDE DEF found
    <3> QED BY <1>1, <2>1 DEF ComputeOK
  <2>4. sweeps' \in Nat BY <1>1, <2>1 DEF ComputeOK
  <2>5. ComputeOK'
    <3> HIDE DEF found
    <3> QED BY <1>1, <1>2, <1>3, <2>1, <2>2, <2>3, <2>4 DEF ComputeOK, RequestsOK, Phases
  <2> QED BY <1>3, <1>6, <2>5 DEF Inv
<1> QED BY <1>7, <1>8

\* When nothing is dirty, the deleted nodes can be forgotten: no record names them.
LEMMA FinishKeepsInv == ASSUME Inv, Finish PROVE Inv'
<1>1. Mesh /\ RecordsOK /\ ComputeOK BY DEF Inv
<1>2. /\ phase = "sweep" /\ UNCHANGED <<slots, active, boundary, records, seeds>>
      /\ integrated' = Count /\ pendingDeleted' = {} /\ GiveUp("complete")
  BY DEF Finish
<1>3. Count' = Count /\ Slot' = Slot /\ Nodes' = Nodes BY <1>2 DEF Count, Slot, Nodes
<1>4. Count \in Nat BY <1>1, SlotFacts DEF Mesh
<1>5. Mesh'
  <2>1. SlotsOK' BY <1>1, <1>2, <1>3 DEF SlotsOK, Mesh
  <2>2. OneCopyEach' BY <1>1, <1>3 DEF OneCopyEach, Mesh
  <2>3. CopiesLive' BY <1>1, <1>2, <1>3 DEF CopiesLive, Mesh
  <2>4. ActiveOK' BY <1>1, <1>2, <1>3, <1>4 DEF ActiveOK, Mesh
  <2>5. BoundaryOK' BY <1>1, <1>2, <1>3 DEF BoundaryOK, Mesh
  <2> QED BY <2>1, <2>2, <2>3, <2>4, <2>5 DEF Mesh
<1>6. RecordsOK'
  <2>1. phase' = "rest" BY <1>2 DEF GiveUp
  <2> QED BY <1>1, <1>2, <1>3, <2>1 DEF RecordsOK
<1>7. ComputeOK'
  <2>1. remover' = NoRemover
          /\ NoRemover \in [status : {"none", "removed", "computed"}, affected : SUBSET active']
    BY <1>2 DEF GiveUp, NoRemover
  <2>2. settings' \in [rounds : Nat, sweeps : Nat] BY <1>2 DEF GiveUp, NoSettings
  <2>3. seeds' \subseteq SUBSET (Nodes' \cup BoundaryCodes) BY <1>1, <1>2, <1>3 DEF ComputeOK
  <2>4. old' \in Nat /\ old' <= Count' BY <1>2, <1>3, <1>4 DEF GiveUp
  <2> QED BY <1>2, <2>1, <2>2, <2>3, <2>4 DEF GiveUp, ComputeOK, RequestsOK, Phases, Outcomes
<1> QED BY <1>5, <1>6, <1>7 DEF Inv

\* A step that changes nothing.
LEMMA StutterKeepsInv == ASSUME Inv, UNCHANGED vars PROVE Inv'
<1>1. Mesh /\ RecordsOK /\ ComputeOK BY DEF Inv
<1>2. SameMesh BY DEF vars, meshVars, SameMesh
<1>3. /\ Mesh' /\ Count' = Count /\ Nodes' = Nodes /\ VisibleNodes' = VisibleNodes
  BY <1>1, <1>2, SameMeshKeepsMesh
<1>4. RecordsOK' BY <1>1, <1>3 DEF RecordsOK, vars, meshVars, computeVars
<1>5. ComputeOK' BY <1>1, <1>3 DEF ComputeOK, RequestsOK, vars, meshVars, computeVars
<1> QED BY <1>3, <1>4, <1>5 DEF Inv

\* So every step keeps the invariant.
LEMMA StepKeepsInv == Inv /\ [Next]_vars => Inv'
<1> SUFFICES ASSUME Inv, [Next]_vars PROVE Inv'
  OBVIOUS
<1>1. CASE UNCHANGED vars BY <1>1, StutterKeepsInv
<1>2. CASE Next
  <2>1. ASSUME NEW point \in MorePoints, AppendVisibleNode(point) PROVE Inv'
    BY <2>1, AppendNodeKeepsInv
  <2>2. ASSUME NEW p \in DOMAIN PublicToInternal, EraseVisibleNodes({p}) PROVE Inv'
    BY <2>2, EraseNodesKeepsInv
  <2>3. ASSUME NEW maxima \in [rounds : MaximumRounds, sweeps : MaximumSweeps],
               NEW sameObject \in BOOLEAN, Begin(maxima, sameObject)
        PROVE  Inv'
    BY <2>3, BeginKeepsInv
  <2>4. CASE ComputeStep
    BY <2>4, RefineBlockKeepsInv, LimitsKeepInv, AppendReferencesKeepsInv, QuietStepsKeepInv,
       CloseHolesKeepsInv, SweepKeepsInv, FinishKeepsInv DEF ComputeStep
  <2> QED BY <1>2, <2>1, <2>2, <2>3, <2>4 DEF Next
<1> QED BY <1>1, <1>2

\* The invariant holds in every reachable state: after any calls of append_visible_node,
\* erase_visible_nodes and compute(), and within compute().
THEOREM InvHolds == Spec => []Inv
BY InitInv, StepKeepsInv, PTL DEF Spec

-----------------------------------------------------------------------------
(* What follows.                                                           *)

\* A copy stands for one visible node, appended before it: it lies where the node's image under
\* the periodic shift lies, no other copy stands for the same image, and it is deleted exactly
\* when the node is (erase_visible_nodes takes the copies along, and the closure appends a copy
\* only where FindReferenceCopy finds none).
CopiesFollowTheirNodes ==
  \A i \in DOMAIN Slot : ~Slot[i].visible =>
    LET node == Slot[i].reference IN
    /\ node \in DOMAIN Slot /\ node < i /\ Slot[node].visible
    /\ Slot[i].shift \in ShiftMasks(PeriodicPlanes) /\ Slot[i].shift # {}
    /\ Slot[i].point = Sum2(Slot[node].point, PeriodicShift(Slot[i].shift))
    /\ i \in active <=> node \in active
    /\ \A j \in DOMAIN Slot :
         ~Slot[j].visible /\ Slot[j].reference = node /\ Slot[j].shift = Slot[i].shift => j = i

\* A stored vertex names active nodes only, from the start of compute() to its end, and after it
\* but for nodes that were erased since and wait for the next one; it lies on no periodic plane.
RecordsNameTheLiving ==
  \A sigma \in records :
    /\ Ordinary(sigma) \subseteq active \cup (IF phase = "rest" THEN pendingDeleted ELSE {})
    /\ Ordinary(sigma) \subseteq DOMAIN Slot
    /\ ~OnPeriodicPlane(sigma)

\* The internal boundary contains every node and copy that was ever appended, and beyond a
\* periodic plane of the domain there is as much room outside a copy as lies between it and that
\* plane; the walls that are not periodic stay where they are.
BoundaryHasRoom ==
  /\ \A i \in DOMAIN Slot :
       /\ Contains(boundary, Slot[i].point)
       /\ \A plane \in PeriodicPlanes : RoomFor(Slot[i].point, plane) <= 0
  /\ \A plane \in Planes \ PeriodicPlanes : boundary[plane] = ExternalBoundary[plane]

\* No step changes a node that is in the mesh, moves the internal boundary inwards, or brings a
\* deleted node back: internal numbers keep their meaning.
NodesKeepTheirNumbers ==
  /\ \A i \in DOMAIN Slot : i \in DOMAIN Slot' /\ Slot'[i] = Slot[i]
  /\ active' \cap DOMAIN Slot \subseteq active
  /\ \A plane \in Planes : boundary[plane] <= boundary'[plane]

\* Copies live, die and lie with their nodes, whatever is appended, erased and requested.
THEOREM CopiesFollowTheirNodesHolds == Spec => []CopiesFollowTheirNodes
<1>1. Inv => CopiesFollowTheirNodes
  <2> SUFFICES ASSUME Inv, NEW i \in DOMAIN Slot, ~Slot[i].visible
               PROVE  LET node == Slot[i].reference IN
                      /\ node \in DOMAIN Slot /\ node < i /\ Slot[node].visible
                      /\ Slot[i].shift \in ShiftMasks(PeriodicPlanes) /\ Slot[i].shift # {}
                      /\ Slot[i].point = Sum2(Slot[node].point, PeriodicShift(Slot[i].shift))
                      /\ i \in active <=> node \in active
                      /\ \A j \in DOMAIN Slot :
                           ~Slot[j].visible /\ Slot[j].reference = node
                             /\ Slot[j].shift = Slot[i].shift => j = i
    BY DEF CopiesFollowTheirNodes
  <2>1. SlotsOK /\ OneCopyEach /\ CopiesLive BY DEF Inv, Mesh
  <2>2. DOMAIN Slot = Nodes BY <2>1, SlotFacts
  <2>3. IsCopySlot(Slot, Slot[i]) /\ Slot[i].reference < i
    BY <2>1, <2>2 DEF SlotsOK, IsVisibleSlot
  <2>4. i \in active <=> Slot[i].reference \in active BY <2>1, <2>2 DEF CopiesLive
  <2>5. \A j \in DOMAIN Slot :
          ~Slot[j].visible /\ Slot[j].reference = Slot[i].reference
            /\ Slot[j].shift = Slot[i].shift => j = i
    BY <2>1, <2>2 DEF OneCopyEach
  <2> QED BY <2>3, <2>4, <2>5 DEF IsCopySlot
<1> QED BY <1>1, InvHolds, PTL

\* No stored vertex survives the deletion of a node it names past the start of the next
\* compute(), and none is stored on a periodic plane.
THEOREM RecordsNameTheLivingHolds == Spec => []RecordsNameTheLiving
<1>1. Inv => RecordsNameTheLiving
  <2> SUFFICES ASSUME Inv, NEW sigma \in records
               PROVE  /\ Ordinary(sigma) \subseteq
                           active \cup (IF phase = "rest" THEN pendingDeleted ELSE {})
                      /\ Ordinary(sigma) \subseteq DOMAIN Slot
                      /\ ~OnPeriodicPlane(sigma)
    BY DEF RecordsNameTheLiving
  <2>1. DOMAIN Slot = Nodes BY DEF Slot, Nodes
  <2>2. /\ Ordinary(sigma) \subseteq active \cup pendingDeleted
        /\ phase # "rest" => Ordinary(sigma) \subseteq active
        /\ ~OnPeriodicPlane(sigma)
    BY DEF Inv, RecordsOK
  <2>3. active \cup pendingDeleted \subseteq Nodes BY DEF Inv, Mesh, ActiveOK
  <2> QED BY <2>1, <2>2, <2>3
<1> QED BY <1>1, InvHolds, PTL

\* However many rounds of copies are appended, the internal boundary keeps room around all.
THEOREM BoundaryHasRoomHolds == Spec => []BoundaryHasRoom
<1>1. Inv => BoundaryHasRoom
  <2> SUFFICES ASSUME Inv PROVE BoundaryHasRoom
    OBVIOUS
  <2>1. SlotsOK /\ BoundaryOK BY DEF Inv, Mesh
  <2>2. DOMAIN Slot = Nodes BY <2>1, SlotFacts
  <2>3. ASSUME NEW i \in Nodes
        PROVE  /\ Contains(boundary, Slot[i].point)
               /\ \A plane \in PeriodicPlanes : RoomFor(Slot[i].point, plane) <= 0
    <3> DEFINE p == Slot[i].point
    <3>1. HasRoom(boundary, p) BY <2>1 DEF BoundaryOK
    <3>2. p \in Point BY <2>1, SlotFacts DEF SlotRecord
    <3>3. Contains(boundary, p) BY <3>1 DEF HasRoom, Contains
    <3>4. ASSUME NEW plane \in PeriodicPlanes PROVE RoomFor(p, plane) <= 0
      <4> DEFINE h == HalfspaceValue(boundary, plane, p)
                 o == HalfspaceValue(ExternalBoundary, plane, p)
      <4>1. plane \in Planes BY DEF PeriodicPlanes
      <4>2. h \in Int /\ o \in Int
        <5>1. Dot(Normal(plane), p) \in Int BY <3>2, <4>1, DotFacts
        <5>2. boundary[plane] \in Int /\ ExternalBoundary[plane] \in Int
          BY <2>1, <4>1, ExternalFacts DEF BoundaryOK
        <5> QED BY <5>1, <5>2 DEF HalfspaceValue
      <4>3. h <= 0 /\ (o > 0 => h + o <= 0) BY <3>1, <4>1 DEF HasRoom
      <4>4. RoomFor(p, plane) = h + (IF o > 0 THEN o ELSE 0) BY DEF RoomFor
      <4> HIDE DEF h, o
      <4> QED BY <4>2, <4>3, <4>4
    <3> QED BY <3>3, <3>4
  <2>4. \A plane \in Planes \ PeriodicPlanes : boundary[plane] = ExternalBoundary[plane]
    BY <2>1 DEF BoundaryOK
  <2> QED BY <2>2, <2>3, <2>4 DEF BoundaryHasRoom
<1> QED BY <1>1, InvHolds, PTL

\* An internal number means the same node for good, and the boundary only grows.
THEOREM NodesKeepTheirNumbersHolds == Spec => [][NodesKeepTheirNumbers]_vars
<1>1. Inv /\ [Next]_vars => [NodesKeepTheirNumbers]_vars
  <2> SUFFICES ASSUME Inv, Next PROVE NodesKeepTheirNumbers
    OBVIOUS
  <2>1. Mesh /\ SlotsOK /\ ActiveOK /\ BoundaryOK /\ ComputeOK BY DEF Inv, Mesh
  <2>2. /\ Count \in Nat /\ DOMAIN Slot = Nodes /\ DOMAIN Slot' = Nodes'
        /\ boundary \in [Planes -> Int]
    BY <2>1, SlotFacts DEF Slot, Nodes, BoundaryOK
  <2>3. \A plane \in Planes : boundary[plane] \in Int BY <2>2
  <2>4. ASSUME UNCHANGED <<slots, boundary>>, active' \subseteq active
        PROVE  NodesKeepTheirNumbers
    <3>1. Slot' = Slot BY <2>4 DEF Slot, Count
    <3>2. \A plane \in Planes : boundary[plane] <= boundary'[plane] BY <2>3, <2>4
    <3> QED BY <2>4, <3>1, <3>2 DEF NodesKeepTheirNumbers
  <2>5. ASSUME NEW point \in MorePoints, AppendVisibleNode(point) PROVE NodesKeepTheirNumbers
    <3> DEFINE slot == Visible(point)
    <3>1. slots' = Append(slots, slot) /\ boundary' = boundary /\ active' = active \cup {Count}
      BY <2>5 DEF AppendVisibleNode
    <3>2. slots \in Seq(SlotRecord) /\ Count = Len(slots) BY <2>1 DEF SlotsOK, Count
    <3> HIDE DEF slot
    <3>3. Len(slots') = Len(slots) + 1 BY <3>1, <3>2
    <3>4. Count' = Count + 1 BY <3>2, <3>3 DEF Count
    <3>5. ASSUME NEW i \in Nodes PROVE i \in Nodes' /\ Slot'[i] = Slot[i]
      <4>1. i \in 0 .. Count - 1 /\ i \in 0 .. Count' - 1 BY <2>2, <3>4 DEF Nodes
      <4>2. i + 1 \in 1 .. Len(slots) BY <2>2, <3>2, <4>1
      <4>3. slots'[i + 1] = slots[i + 1] BY <3>1, <3>2, <4>2
      <4>4. Slot'[i] = slots'[i + 1] /\ Slot[i] = slots[i + 1] BY <4>1 DEF Slot
      <4> QED BY <4>1, <4>3, <4>4 DEF Nodes
    <3>6. Count \notin Nodes BY <2>2 DEF Nodes
    <3>7. \A plane \in Planes : boundary[plane] <= boundary'[plane] BY <2>3, <3>1
    <3> QED BY <2>2, <3>1, <3>5, <3>6, <3>7 DEF NodesKeepTheirNumbers
  <2>6. ASSUME NEW p \in DOMAIN PublicToInternal, EraseVisibleNodes({p})
        PROVE  NodesKeepTheirNumbers
    BY <2>4, <2>6 DEF EraseVisibleNodes
  <2>7. ASSUME NEW maxima \in [rounds : MaximumRounds, sweeps : MaximumSweeps],
               NEW sameObject \in BOOLEAN, Begin(maxima, sameObject)
        PROVE  NodesKeepTheirNumbers
    BY <2>4, <2>7 DEF Begin
  <2>8. CASE AppendReferences
    <3>1. /\ Mesh' /\ \A i \in Nodes : i \in Nodes' /\ Slot'[i] = Slot[i]
      BY <2>1, <2>8, AppendCopiesKeepsMesh DEF ComputeOK
    <3>2. active' = active \cup block' /\ block' = Count .. Count' - 1
      BY <2>1, <2>8, AppendCopiesKeepsMesh DEF AppendReferences, ComputeOK
    <3>3. active' \cap Nodes \subseteq active BY <2>2, <3>2 DEF Nodes
    <3>4. \A plane \in Planes : boundary[plane] <= boundary'[plane]
      BY <2>1, <2>8, AppendCopiesKeepsMesh DEF ComputeOK
    <3> QED BY <2>2, <3>1, <3>3, <3>4 DEF NodesKeepTheirNumbers
  <2>9. CASE ComputeStep /\ ~AppendReferences
    <3>1. UNCHANGED <<slots, boundary>> /\ active' \subseteq active
      BY <2>9 DEF ComputeStep, RefineBlock, RoundLimit, RequestsClosed, CloseHoles,
                  NothingRemoved, ResolveSeeds, Sweep, SweepLimit, Finish, meshVars
    <3> QED BY <2>4, <3>1
  <2> QED BY <2>5, <2>6, <2>7, <2>8, <2>9 DEF Next
<1> QED BY <1>1, InvHolds, PTL DEF Spec
=============================================================================
