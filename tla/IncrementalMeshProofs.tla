------------------------ MODULE IncrementalMeshProofs ------------------------
(***************************************************************************)
(* What refinements and removals preserve on one mesh, in whatever order   *)
(* they are called and however they overlap, for every geometry that       *)
(* TableAssumption and GeometryAssumption allow.                           *)
(***************************************************************************)
EXTENDS VoronoiIntegral, SequenceTheorems, FiniteSetTheorems, TLAPS

-----------------------------------------------------------------------------
(* The public order.                                                       *)

Increasing(order) ==
  \A p, q \in 1 .. Len(order) : p < q => order[p] < order[q]

\* The number of smaller nodes numbers the nodes of a finite set.
LEMMA RankIsBijective ==
  ASSUME NEW nodes \in SUBSET Nat, IsFiniteSet(nodes)
  PROVE  LET rank == [i \in nodes |-> Cardinality({j \in nodes : j < i})] IN
         /\ \A i, j \in nodes : i < j => rank[i] < rank[j]
         /\ \A i \in nodes : rank[i] \in 0 .. Cardinality(nodes) - 1
         /\ \A m \in 0 .. Cardinality(nodes) - 1 : \E i \in nodes : rank[i] = m
<1> DEFINE below(i) == {j \in nodes : j < i}
           rank == [i \in nodes |-> Cardinality(below(i))]
           n == Cardinality(nodes)
<1>1. n \in Nat
  BY FS_CardinalityType
<1>2. \A i \in nodes : IsFiniteSet(below(i)) /\ Cardinality(below(i)) \in Nat
  BY FS_Subset, FS_CardinalityType
<1>3. \A i, j \in nodes : i < j => rank[i] < rank[j]
  <2> SUFFICES ASSUME NEW i \in nodes, NEW j \in nodes, i < j
               PROVE  Cardinality(below(i)) < Cardinality(below(j))
    OBVIOUS
  <2>1. i \in Nat /\ j \in Nat
    OBVIOUS
  <2>2. below(i) \subseteq below(j)
    <3> SUFFICES ASSUME NEW k \in nodes, k < i PROVE k < j
      OBVIOUS
    <3> QED BY <2>1
  <2>3. i \in below(j) /\ i \notin below(i)
    BY <2>1
  <2>4. below(i) # below(j)
    BY <2>3
  <2> HIDE DEF below
  <2>5. Cardinality(below(i)) <= Cardinality(below(j))
        /\ Cardinality(below(i)) # Cardinality(below(j))
    BY <1>2, <2>2, <2>4, FS_Subset
  <2> QED BY <1>2, <2>5
<1>4. \A i \in nodes : rank[i] \in 0 .. n - 1
  <2> SUFFICES ASSUME NEW i \in nodes PROVE Cardinality(below(i)) \in 0 .. n - 1
    OBVIOUS
  <2>1. below(i) \subseteq nodes /\ i \notin below(i)
    OBVIOUS
  <2>2. below(i) # nodes
    BY <2>1
  <2> HIDE DEF below
  <2>3. Cardinality(below(i)) <= n /\ Cardinality(below(i)) # n
    BY <2>1, <2>2, FS_Subset
  <2> QED BY <1>1, <1>2, <2>3
<1> HIDE DEF below
<1>5. rank \in Injection(nodes, 0 .. n - 1)
  <2>1. rank \in [nodes -> 0 .. n - 1]
    BY <1>4
  <2>2. \A i, j \in nodes : rank[i] = rank[j] => i = j
    <3> SUFFICES ASSUME NEW i \in nodes, NEW j \in nodes, i # j PROVE rank[i] # rank[j]
      OBVIOUS
    <3>1. i < j \/ j < i
      OBVIOUS
    <3>2. rank[i] \in Nat /\ rank[j] \in Nat
      BY <1>2
    <3> QED BY <1>3, <3>1, <3>2
  <2> QED BY <2>1, <2>2 DEF Injection, IsInjective
<1>6. IsFiniteSet(0 .. n - 1) /\ Cardinality(0 .. n - 1) = n
  <2>1. 0 \in Int /\ n - 1 \in Int
    BY <1>1
  <2> HIDE DEF n
  <2>2. /\ IsFiniteSet(0 .. n - 1)
        /\ Cardinality(0 .. n - 1) = IF 0 > n - 1 THEN 0 ELSE n - 1 - 0 + 1
    BY <2>1, FS_Interval
  <2> QED BY <1>1, <2>2
<1>7. rank \in Surjection(nodes, 0 .. n - 1)
  <2> HIDE DEF rank, n
  <2> QED BY <1>5, <1>6, FS_Injection DEF n
<1>8. \A m \in 0 .. n - 1 : \E i \in nodes : rank[i] = m
  BY <1>7 DEF Surjection
<1> QED BY <1>3, <1>4, <1>8 DEF below

\* The rebuilt order lists the nodes it is given, each once, in slot order.
LEMMA RebuiltIsTheOrder ==
  ASSUME NEW nodes \in SUBSET Nat, IsFiniteSet(nodes)
  PROVE  /\ Rebuilt(nodes) \in Seq(nodes)
         /\ Len(Rebuilt(nodes)) = Cardinality(nodes)
         /\ Increasing(Rebuilt(nodes))
         /\ Range(Rebuilt(nodes)) = nodes
<1> DEFINE rank == [i \in nodes |-> Cardinality({j \in nodes : j < i})]
           n == Cardinality(nodes)
           order == Rebuilt(nodes)
<1>1. n \in Nat
  BY FS_CardinalityType
<1>2. /\ \A i, j \in nodes : i < j => rank[i] < rank[j]
      /\ \A i \in nodes : rank[i] \in 0 .. n - 1
      /\ \A m \in 0 .. n - 1 : \E i \in nodes : rank[i] = m
  BY RankIsBijective
<1> DEFINE below(i) == {j \in nodes : j < i}
<1>3. order = [p \in 1 .. n |-> CHOOSE i \in nodes : Cardinality(below(i)) = p - 1]
  BY DEF Rebuilt
<1>0. \A i \in nodes : rank[i] = Cardinality(below(i))
  OBVIOUS
<1> HIDE DEF below
<1> HIDE DEF rank, order, n
<1>4. \A p \in 1 .. n : order[p] \in nodes /\ rank[order[p]] = p - 1
  <2> SUFFICES ASSUME NEW p \in 1 .. n PROVE order[p] \in nodes /\ rank[order[p]] = p - 1
    OBVIOUS
  <2>1. p - 1 \in 0 .. n - 1
    BY <1>1
  <2>2. \E i \in nodes : Cardinality(below(i)) = p - 1
    BY <1>2, <1>0, <2>1
  <2>3. order[p] = CHOOSE i \in nodes : Cardinality(below(i)) = p - 1
    BY <1>3
  <2>4. order[p] \in nodes /\ Cardinality(below(order[p])) = p - 1
    BY <2>2, <2>3
  <2> QED BY <1>0, <2>4
<1>5. order \in [1 .. n -> nodes] /\ order \in Seq(nodes) /\ Len(order) = n
  <2>1. order \in [1 .. n -> nodes]
    BY <1>3, <1>4
  <2> QED BY <1>1, <2>1
<1>6. Increasing(order)
  <2> SUFFICES ASSUME NEW p \in 1 .. n, NEW q \in 1 .. n, p < q PROVE order[p] < order[q]
    BY <1>5 DEF Increasing
  <2>1. rank[order[p]] = p - 1 /\ rank[order[q]] = q - 1
    BY <1>4
  <2>2. order[p] \in nodes /\ order[q] \in nodes
    BY <1>4
  <2>3. order[p] # order[q]
    <3>1. p - 1 # q - 1
      BY <1>1
    <3> QED BY <2>1, <3>1
  <2>4. ~(order[q] < order[p])
    <3> SUFFICES ASSUME order[q] < order[p] PROVE FALSE
      OBVIOUS
    <3>1. rank[order[q]] < rank[order[p]]
      BY <1>2, <2>2
    <3> QED BY <1>1, <2>1, <3>1
  <2>5. order[p] \in Nat /\ order[q] \in Nat
    BY <2>2
  <2> QED BY <2>3, <2>4, <2>5
<1>7. Range(order) = nodes
  <2>1. ASSUME NEW i \in nodes PROVE \E p \in 1 .. n : order[p] = i
    <3>1. rank[i] \in 0 .. n - 1
      BY <1>2
    <3>2. rank[i] + 1 \in 1 .. n
      BY <1>1, <3>1
    <3>3. rank[order[rank[i] + 1]] = rank[i] /\ order[rank[i] + 1] \in nodes
      BY <1>1, <1>4, <3>1, <3>2
    <3>4. order[rank[i] + 1] = i
      <4> DEFINE j == order[rank[i] + 1]
      <4>1. j \in nodes /\ rank[j] = rank[i]
        BY <3>3
      <4> HIDE DEF j
      <4>2. rank[i] \in Int
        BY <1>1, <3>1
      <4>3. ~(i < j) /\ ~(j < i)
        BY <1>2, <4>1, <4>2
      <4>4. i \in Nat /\ j \in Nat
        BY <4>1
      <4>5. i = j
        BY <4>3, <4>4
      <4> QED BY <4>5 DEF j
    <3> QED BY <3>2, <3>4
  <2> QED BY <1>5, <2>1 DEF Range
<1> QED BY <1>5, <1>6, <1>7 DEF order, n

\* An increasing order has as many entries as nodes.
LEMMA OrderCounts ==
  ASSUME NEW order \in Seq(Nat), Increasing(order)
  PROVE  /\ IsFiniteSet(Range(order)) /\ Len(order) \in Nat
         /\ Cardinality(Range(order)) = Len(order)
         /\ \A p, q \in 1 .. Len(order) : order[p] = order[q] => p = q
<1> DEFINE n == Len(order)
<1>1. n \in Nat /\ order \in [1 .. n -> Nat] /\ DOMAIN order = 1 .. n
  BY LenProperties
<1>2. \A p, q \in 1 .. n : order[p] = order[q] => p = q
  <2> SUFFICES ASSUME NEW p \in 1 .. n, NEW q \in 1 .. n, p # q PROVE order[p] # order[q]
    OBVIOUS
  <2>1. p < q \/ q < p
    BY <1>1
  <2>2. order[p] < order[q] \/ order[q] < order[p]
    BY <2>1 DEF Increasing
  <2>3. order[p] \in Nat /\ order[q] \in Nat
    BY <1>1
  <2> QED BY <2>2, <2>3
<1>3. Range(order) = {order[p] : p \in 1 .. n}
  BY <1>1 DEF Range
<1>4. order \in Surjection(1 .. n, Range(order))
  BY <1>1, <1>3 DEF Surjection
<1>5. order \in Injection(1 .. n, Range(order))
  BY <1>1, <1>2, <1>3 DEF Injection, IsInjective
<1>6. IsFiniteSet(1 .. n) /\ Cardinality(1 .. n) = n
  <2> HIDE DEF n
  <2>1. /\ IsFiniteSet(1 .. n)
        /\ Cardinality(1 .. n) = IF 1 > n THEN 0 ELSE n - 1 + 1
    BY <1>1, FS_Interval
  <2> QED BY <1>1, <2>1
<1>7. IsFiniteSet(Range(order)) /\ Cardinality(Range(order)) = Cardinality(1 .. n)
  BY <1>4, <1>5, <1>6, FS_Surjection
<1> QED BY <1>1, <1>2, <1>6, <1>7

\* A block of n nodes is appended behind the others.
LEMMA AppendedOrder ==
  ASSUME NEW t \in Nat, NEW n \in Nat, NEW order \in Seq(0 .. t - 1), Increasing(order)
  PROVE  LET block == t .. t + n - 1 IN
         /\ Appended(order, block) \in Seq(0 .. t + n - 1)
         /\ Increasing(Appended(order, block))
         /\ Range(Appended(order, block)) = Range(order) \cup block
         /\ n = 0 => Appended(order, block) = order
<1> DEFINE block == t .. t + n - 1
           tail  == Rebuilt(block)
           S     == 0 .. t + n - 1
<1>1. block \in SUBSET Nat /\ IsFiniteSet(block) /\ block \subseteq S
  <2>1. IsFiniteSet(block)
    BY FS_Interval
  <2> QED BY <2>1
<1>2. /\ tail \in Seq(block) /\ Increasing(tail) /\ Range(tail) = block
      /\ Len(tail) = Cardinality(block)
  <2> HIDE DEF block
  <2> QED BY <1>1, RebuiltIsTheOrder
<1>3. tail \in Seq(S)
  BY <1>1, <1>2, SeqMonotonic
<1>4. order \in Seq(S)
  <2>1. 0 .. t - 1 \subseteq S
    OBVIOUS
  <2> HIDE DEF S
  <2> QED BY <2>1, SeqMonotonic
<1>5. n = 0 => tail = <<>>
  <2> SUFFICES ASSUME n = 0 PROVE tail = <<>>
    OBVIOUS
  <2>1. block = {}
    OBVIOUS
  <2>2. Len(tail) = 0
    BY <1>2, <2>1, FS_EmptySet
  <2> HIDE DEF tail
  <2> QED BY <1>3, <2>2, EmptySeq
<1>6. \A p \in 1 .. Len(tail) : tail[p] \in block
  BY <1>2, ElementOfSeq
<1> HIDE DEF tail, block, S
<1> DEFINE whole == order \o tail
<1>7. /\ whole \in Seq(S) /\ Len(whole) = Len(order) + Len(tail)
      /\ \A p \in 1 .. Len(order) + Len(tail) : whole[p] =
           IF p <= Len(order) THEN order[p] ELSE tail[p - Len(order)]
  BY <1>3, <1>4, ConcatProperties
<1>8. Range(whole) = Range(order) \cup block
  BY <1>2, <1>3, <1>4, RangeConcatenation
<1>9. n = 0 => whole = order
  BY <1>4, <1>5, ConcatEmptySeq
<1>10. Len(order) \in Nat /\ Len(tail) \in Nat
  BY <1>3, <1>4, LenProperties
<1> HIDE DEF whole
<1>11. Increasing(whole)
  <2> SUFFICES ASSUME NEW p \in 1 .. Len(whole), NEW q \in 1 .. Len(whole), p < q
               PROVE  whole[p] < whole[q]
    BY DEF Increasing
  <2>1. CASE q <= Len(order)
    <3>1. p \in 1 .. Len(order) /\ q \in 1 .. Len(order)
      BY <1>7, <1>10, <2>1
    <3>2. whole[p] = order[p] /\ whole[q] = order[q]
      BY <1>7, <1>10, <3>1
    <3> QED BY <3>1, <3>2 DEF Increasing
  <2>2. CASE p <= Len(order) /\ ~(q <= Len(order))
    <3>1. p \in 1 .. Len(order) /\ q - Len(order) \in 1 .. Len(tail)
      BY <1>7, <1>10, <2>2
    <3>2. whole[p] = order[p] /\ whole[q] = tail[q - Len(order)]
      BY <1>7, <1>10, <2>2
    <3>3. order[p] \in 0 .. t - 1 /\ tail[q - Len(order)] \in t .. t + n - 1
      BY <1>6, <3>1, ElementOfSeq DEF block
    <3> QED BY <3>2, <3>3
  <2>3. CASE ~(p <= Len(order))
    <3>1. p - Len(order) \in 1 .. Len(tail) /\ q - Len(order) \in 1 .. Len(tail)
      BY <1>7, <1>10, <2>3
    <3>2. whole[p] = tail[p - Len(order)] /\ whole[q] = tail[q - Len(order)]
      BY <1>7, <1>10, <2>3
    <3>3. p - Len(order) < q - Len(order)
      BY <1>7, <1>10
    <3> QED BY <1>2, <3>1, <3>2, <3>3 DEF Increasing
  <2> QED BY <1>7, <1>10, <2>1, <2>2, <2>3
<1> QED BY <1>7, <1>8, <1>9, <1>11 DEF Appended, tail, block, whole, S

-----------------------------------------------------------------------------
(* The geometry.                                                           *)

\* What the records lack of the diagram of some nodes.
Holes(nodes, recs, stored) ==
  (Diagram(nodes) \ recs) \cup (UnboundedEdges(nodes) \ stored)

\* Every generator of what is missing is one of some cells.
Within(nodes, recs, stored, cells) == UNION Holes(nodes, recs, stored) \subseteq cells

\* The records contradict no node and name only nodes that are there.
Sound(nodes, recs, stored) ==
  /\ recs \subseteq Diagram(nodes)
  /\ stored \subseteq DOMAIN Beyond /\ UNION stored \subseteq nodes

\* A block makes obsolete every vertex that it contradicts: all generators of
\* the vertex are AFFECTED, so invalidate_old_vertices looks at it.
LEMMA RefinementIsSound ==
  ASSUME NEW old \in Admissible, NEW block, old \cup block \in Admissible,
         old \cap block = {}, NEW recs, NEW stored, Sound(old, recs, stored)
  PROVE  LET nodes    == old \cup block
             pushed   == NewVertices(block, nodes, recs)
             edges    == NewInfinite(block, nodes, stored)
             obsolete == Obsolete(recs, Observed(pushed \cup edges, old), block)
         IN  /\ Sound(nodes, (recs \ obsolete) \cup pushed, stored \cup edges)
             /\ Holes(nodes, (recs \ obsolete) \cup pushed, stored \cup edges)
                  \subseteq Holes(old, recs, stored)
<1> DEFINE nodes    == old \cup block
           pushed   == NewVertices(block, nodes, recs)
           edges    == NewInfinite(block, nodes, stored)
           affected == Observed(pushed \cup edges, old)
           obsolete == Obsolete(recs, affected, block)
           recs2    == (recs \ obsolete) \cup pushed
           stored2  == stored \cup edges
<1>1. pushed = {sigma \in Diagram(nodes) : sigma \cap block # {}} \ recs
  BY DEF NewVertices, Touching
<1>2. edges = {e \in UnboundedEdges(nodes) : e \cap block # {}} \ stored
  BY DEF NewInfinite, Touching
<1>3. \A i \in old, tau \in pushed \cup edges : i \in tau => i \in affected
  <2> HIDE DEF pushed, edges
  <2> QED BY DEF Observed
<1>4. obsolete = {sigma \in recs : sigma \subseteq affected /\ Inside[sigma] \cap block # {}}
  BY DEF Obsolete, IsCandidate
<1>5. \A sigma : sigma \in Diagram(old) <=>
         sigma \in DOMAIN Inside /\ sigma \subseteq old /\ Inside[sigma] \cap old = {}
  BY DEF Diagram
<1>6. \A sigma : sigma \in Diagram(nodes) <=>
         sigma \in DOMAIN Inside /\ sigma \subseteq nodes /\ Inside[sigma] \cap nodes = {}
  BY DEF Diagram
<1>7. \A e : e \in UnboundedEdges(nodes) => e \in DOMAIN Beyond /\ e \subseteq nodes
  BY DEF UnboundedEdges
<1>8. \A e : e \in UnboundedEdges(nodes) /\ e \cap block = {} => e \in UnboundedEdges(old)
  BY DEF UnboundedEdges
<1>9. \A sigma \in recs : sigma \in Diagram(old)
  BY DEF Sound
<1>10. \A e \in stored : e \in DOMAIN Beyond /\ e \subseteq old
  BY DEF Sound
<1>11. \A sigma \in recs : Inside[sigma] \cap block # {} => sigma \in obsolete
  <2> SUFFICES ASSUME NEW sigma \in recs, Inside[sigma] \cap block # {}
               PROVE  sigma \subseteq affected
    BY <1>4
  <2>1. sigma \in Diagram(old) \ Diagram(nodes)
    BY <1>6, <1>9
  <2>2. sigma \subseteq old
    BY <1>5, <2>1
  <2>3. \A i \in sigma : \E tau \in Diagram(nodes) \cup UnboundedEdges(nodes) :
          i \in tau /\ tau \cap (nodes \ old) # {}
    BY <2>1, GeometryAssumption
  <2>4. ASSUME NEW i \in sigma PROVE i \in affected
    <3>1. PICK tau \in Diagram(nodes) \cup UnboundedEdges(nodes) :
            i \in tau /\ tau \cap block # {}
      BY <2>3
    <3>2. ~(tau \subseteq old)
      BY <3>1
    <3>3. tau \notin recs /\ tau \notin stored
      BY <1>5, <1>9, <1>10, <3>2
    <3>4. tau \in pushed \cup edges
      BY <1>1, <1>2, <3>1, <3>3
    <3> QED BY <1>3, <2>2, <3>1, <3>4
  <2> QED BY <2>4
<1>12. Sound(nodes, recs2, stored2)
  <2>1. \A sigma \in recs2 : sigma \in Diagram(nodes)
    <3> SUFFICES ASSUME NEW sigma \in recs \ obsolete PROVE sigma \in Diagram(nodes)
      BY <1>1
    <3>1. Inside[sigma] \cap block = {}
      BY <1>11
    <3> QED BY <1>5, <1>6, <1>9, <3>1, ZenonT(60)
  <2>2. \A e \in stored2 : e \in DOMAIN Beyond /\ e \subseteq nodes
    BY <1>2, <1>7, <1>10
  <2> QED BY <2>1, <2>2 DEF Sound
<1>13. Holes(nodes, recs2, stored2) \subseteq Holes(old, recs, stored)
  <2>1. ASSUME NEW sigma \in Diagram(nodes), sigma \notin recs2
        PROVE  sigma \in Diagram(old) /\ sigma \notin recs
    <3>1. sigma \notin recs
      BY <1>4, <1>6, <2>1
    <3>2. sigma \cap block = {}
      BY <1>1, <2>1, <3>1
    <3> QED BY <1>5, <1>6, <3>1, <3>2
  <2>2. ASSUME NEW e \in UnboundedEdges(nodes), e \notin stored2
        PROVE  e \in UnboundedEdges(old) /\ e \notin stored
    BY <1>2, <1>8, <2>2
  <2> QED BY <2>1, <2>2 DEF Holes
<1> QED BY <1>12, <1>13

\* A removal widens the holes by cells of its own front only.
LEMMA RemovalWidensHoles ==
  ASSUME NEW nodes \in Admissible, NEW doomed, nodes \ doomed \in Admissible,
         NEW recs, NEW stored, Sound(nodes, recs, stored),
         NEW pending, Within(nodes, recs, stored, pending)
  PROVE  LET left  == WithoutVerticesOf(recs, doomed)
             ends  == WithoutRaysOf(stored, doomed)
             front == Bereaved(Touching(recs, doomed), Touching(stored, doomed), doomed)
         IN  /\ Sound(nodes \ doomed, left, ends)
             /\ Within(nodes \ doomed, left, ends, pending \cup front)
             /\ front \subseteq nodes \ doomed
<1> DEFINE rest  == nodes \ doomed
           left  == WithoutVerticesOf(recs, doomed)
           ends  == WithoutRaysOf(stored, doomed)
           front == Bereaved(Touching(recs, doomed), Touching(stored, doomed), doomed)
<1>1. left = {sigma \in recs : sigma \cap doomed = {}}
  BY DEF WithoutVerticesOf, Touching
<1>2. ends = {e \in stored : e \cap doomed = {}}
  BY DEF WithoutRaysOf, Touching
<1> DEFINE hit == {tau \in recs \cup stored : tau \cap doomed # {}}
<1>0. front = (UNION hit) \ doomed
  <2>1. Touching(recs, doomed) \cup Touching(stored, doomed) = hit
    BY DEF Touching
  <2> HIDE DEF hit
  <2> QED BY <2>1 DEF Bereaved
<1>3. /\ \A i \in front : i \notin doomed /\ \E tau \in recs \cup stored : i \in tau
      /\ \A tau \in recs \cup stored : tau \cap doomed # {} =>
           \A i \in tau \ doomed : i \in front
  <2>1. \A tau : tau \in hit <=> tau \in recs \cup stored /\ tau \cap doomed # {}
    OBVIOUS
  <2> HIDE DEF hit, front
  <2>2. ASSUME NEW i \in front
        PROVE  i \notin doomed /\ \E tau \in recs \cup stored : i \in tau
    <3>1. PICK tau \in hit : i \in tau
      BY <1>0
    <3> QED BY <1>0, <2>1, <3>1
  <2>3. ASSUME NEW tau \in recs \cup stored, tau \cap doomed # {}, NEW i \in tau \ doomed
        PROVE  i \in front
    <3>1. tau \in hit
      BY <2>1, <2>3
    <3> QED BY <1>0, <3>1
  <2> QED BY <2>2, <2>3
<1> HIDE DEF front
<1>4. \A sigma : sigma \in Diagram(nodes) <=>
         sigma \in DOMAIN Inside /\ sigma \subseteq nodes /\ Inside[sigma] \cap nodes = {}
  BY DEF Diagram
<1>5. \A sigma : sigma \in Diagram(rest) <=>
         sigma \in DOMAIN Inside /\ sigma \subseteq rest /\ Inside[sigma] \cap rest = {}
  BY DEF Diagram
<1>6. \A e : e \in UnboundedEdges(rest) => e \subseteq rest
  BY DEF UnboundedEdges
<1>7. \A sigma \in recs : sigma \in Diagram(nodes)
  BY DEF Sound
<1>8. \A e \in stored : e \in DOMAIN Beyond /\ e \subseteq nodes
  BY DEF Sound
<1>9. Sound(rest, left, ends)
  <2>1. \A sigma \in left : sigma \in Diagram(rest)
    BY <1>1, <1>4, <1>5, <1>7, ZenonT(60)
  <2>2. \A e \in ends : e \in DOMAIN Beyond /\ e \subseteq rest
    BY <1>2, <1>8
  <2> QED BY <2>1, <2>2 DEF Sound
<1>10. front \subseteq rest
  <2> SUFFICES ASSUME NEW i \in front PROVE i \in rest
    OBVIOUS
  <2>1. PICK tau \in recs \cup stored : i \in tau
    BY <1>3
  <2>2. tau \subseteq nodes
    BY <1>4, <1>7, <1>8
  <2> QED BY <1>3, <2>1, <2>2
<1>11. \A tau \in Diagram(nodes) \cup UnboundedEdges(nodes) :
          tau \in recs \cup stored \/ tau \subseteq pending
  BY DEF Holes, Within
<1>12. ASSUME NEW sigma \in Holes(rest, left, ends) PROVE sigma \subseteq pending \cup front
  <2>1. sigma \subseteq rest
    BY <1>5, <1>6 DEF Holes
  <2> DEFINE lost == (Diagram(rest) \ Diagram(nodes))
                       \cup (UnboundedEdges(rest) \ UnboundedEdges(nodes))
  <2>2. CASE sigma \notin lost
    <3>1. sigma \cap doomed = {}
      BY <2>1
    <3>2. \/ sigma \in Diagram(nodes) /\ sigma \notin left
          \/ sigma \in UnboundedEdges(nodes) /\ sigma \notin ends
      BY <1>12, <2>2 DEF Holes
    <3>3. sigma \in Holes(nodes, recs, stored)
      BY <1>1, <1>2, <3>1, <3>2 DEF Holes
    <3> QED BY <3>3 DEF Within
  <2>3. CASE sigma \in lost
    <3>2. \A i \in sigma : \E tau \in Diagram(nodes) \cup UnboundedEdges(nodes) :
            i \in tau /\ tau \cap (nodes \ rest) # {}
      BY <2>3, GeometryAssumption
    <3>3. ASSUME NEW i \in sigma PROVE i \in pending \cup front
      <4>1. PICK tau \in Diagram(nodes) \cup UnboundedEdges(nodes) :
              i \in tau /\ tau \cap doomed # {}
        BY <3>2
      <4>2. CASE tau \subseteq pending
        BY <4>1, <4>2
      <4>3. CASE tau \in recs \cup stored
        BY <1>3, <2>1, <4>1, <4>3
      <4> QED BY <1>11, <4>2, <4>3
    <3> QED BY <3>3
  <2> QED BY <2>2, <2>3
<1> QED BY <1>9, <1>10, <1>12 DEF front, Within

\* Closing the holes around a front leaves those of the other fronts.
LEMMA ClosingNarrowsHoles ==
  ASSUME NEW nodes, NEW recs, NEW stored, Sound(nodes, recs, stored),
         NEW pending, NEW front,
         Within(nodes, recs, stored, pending \cup front)
  PROVE  LET recs2   == recs \cup NewVertices(front \cap nodes, nodes, recs)
             stored2 == stored \cup NewInfinite(front \cap nodes, nodes, stored)
         IN  /\ Sound(nodes, recs2, stored2)
             /\ Within(nodes, recs2, stored2, pending)
<1> DEFINE pushed  == NewVertices(front \cap nodes, nodes, recs)
           edges   == NewInfinite(front \cap nodes, nodes, stored)
           recs2   == recs \cup pushed
           stored2 == stored \cup edges
<1>1. pushed = {sigma \in Diagram(nodes) : sigma \cap (front \cap nodes) # {}} \ recs
  BY DEF NewVertices, Touching
<1>2. edges = {e \in UnboundedEdges(nodes) : e \cap (front \cap nodes) # {}} \ stored
  BY DEF NewInfinite, Touching
<1>3. \A sigma \in Diagram(nodes) : sigma \subseteq nodes
  BY DEF Diagram
<1>4. \A e \in UnboundedEdges(nodes) : e \in DOMAIN Beyond /\ e \subseteq nodes
  BY DEF UnboundedEdges
<1>5. Sound(nodes, recs2, stored2)
  BY <1>1, <1>2, <1>4 DEF Sound
<1>6. ASSUME NEW sigma \in Holes(nodes, recs2, stored2) PROVE sigma \subseteq pending
  <2>1. sigma \in Holes(nodes, recs, stored) /\ sigma \cap (front \cap nodes) = {}
    BY <1>1, <1>2 DEF Holes
  <2>2. sigma \subseteq nodes /\ sigma \subseteq pending \cup front
    BY <1>3, <1>4, <2>1 DEF Holes, Within
  <2> QED BY <2>1, <2>2
<1> QED BY <1>5, <1>6 DEF Within
-----------------------------------------------------------------------------
(* The inductive invariant.                                                *)

InUse(t) == 0 .. t - 1

OrderInv(t, order) == order \in Seq(InUse(t)) /\ Increasing(order)

\* The neighbour lists and every set of dirty bits name slots in use.
ListsInv(t) ==
  /\ neighbours \in [Slots -> (SUBSET InUse(t)) \cup {NoRecord}]
  /\ dirty \in SUBSET InUse(t)
  /\ tracker \in [Consumers -> SUBSET InUse(t)]

Remover == [status : {"none", "constructed", "removed", "computed"},
            publicCount : Nat, internalCount : Nat, publicNodes : SUBSET Nat,
            doomed : SUBSET Nat, affected : SUBSET Nat]

\* The node count alone does not tell whether a removal's public indices are
\* still valid, nor does the public count: a removal that has been constructed
\* can only find as many public nodes as then, without a node appended since,
\* if no other call renumbered them.
ChoiceInv(t, order, q) ==
  /\ q.publicNodes # {}
  /\ q.internalCount = t =>
       /\ Len(order) <= q.publicCount
       /\ q.publicCount = Len(order) =>
            /\ q.publicNodes \subseteq 0 .. Len(order) - 1
            /\ q.doomed = {order[p + 1] : p \in q.publicNodes}

RemoverInv(t, order, q) ==
  /\ q.internalCount <= t
  /\ q.doomed \subseteq InUse(t) /\ q.affected \subseteq InUse(t)
  /\ q.status = "constructed" => ChoiceInv(t, order, q)
  /\ q.status = "removed" => q.affected \subseteq InUse(q.internalCount)

RemoversInv(t, order, rem) ==
  /\ rem \in [Removers -> Remover]
  /\ \A r \in Removers : RemoverInv(t, order, rem[r])

\* The fronts that are still to be closed, all but those of some removals.
PendingBut(rem, some) ==
  UNION {rem[r].affected : r \in {q \in Removers \ some : rem[q].status = "removed"}}
Pending(rem) == PendingBut(rem, {})

\* Every generator of a vertex or an unbounded edge that is missing, not only
\* one of them, is in the front of a removal that has still to be computed.
HolesInv == Within(Active, records, rays, Pending(remover))

MeshInv ==
  /\ total \in InitialCount .. Capacity
  /\ OrderInv(total, publicToInternal)
  /\ ListsInv(total)
  /\ RemoversInv(total, publicToInternal, remover)
  /\ Active \in Admissible
  /\ Sound(Active, records, rays)
  /\ HolesInv
  /\ CleanListsAreCurrent

-----------------------------------------------------------------------------
(* The parts of the invariant under the parts of a step.                   *)

LEMMA CountsAreNatural ==
  /\ Capacity \in Nat /\ InitialCount \in 1 .. Capacity
  /\ \A t \in InitialCount .. Capacity : t \in Nat /\ InUse(t) \subseteq Slots
  /\ \A t \in InitialCount .. Capacity : Capacity \notin InUse(t)
BY TableAssumption DEF Slots, InUse

LEMMA InUseGrows ==
  \A t, u \in Nat : t <= u => InUse(t) \subseteq InUse(u)
BY DEF InUse

LEMMA ActiveInUse ==
  ASSUME NEW t \in Nat, NEW order, OrderInv(t, order)
  PROVE  /\ order \in Seq(Nat) /\ Range(order) \subseteq InUse(t)
         /\ IsFiniteSet(Range(order)) /\ Len(order) \in Nat
         /\ Cardinality(Range(order)) = Len(order)
         /\ \A p \in 1 .. Len(order) : order[p] \in Range(order)
<1>1. InUse(t) \subseteq Nat
  BY DEF InUse
<1>2. order \in Seq(Nat)
  BY <1>1, SeqMonotonic DEF OrderInv
<1>3. Range(order) \subseteq InUse(t)
  BY RangeOfSeq DEF OrderInv
<1>4. \A p \in 1 .. Len(order) : order[p] \in Range(order)
  BY <1>2, LenProperties DEF Range
<1> QED BY <1>2, <1>3, <1>4, OrderCounts DEF OrderInv

LEMMA ListsAfterMark ==
  ASSUME total \in Nat, total' \in Nat, total <= total', ListsInv(total),
         neighbours' = neighbours, NEW changed, changed \subseteq InUse(total'),
         MarkAndPropagate(changed)
  PROVE  ListsInv(total)'
<1>1. SUBSET InUse(total) \subseteq SUBSET InUse(total')
  <2>1. InUse(total) \subseteq InUse(total')
    BY InUseGrows
  <2> QED BY <2>1
<1>2. dirty' \in SUBSET InUse(total')
  BY <1>1 DEF MarkAndPropagate, ListsInv
<1>3. tracker' \in [Consumers -> SUBSET InUse(total')]
  <2>1. tracker' = [k \in Consumers |-> tracker[k] \cup dirty']
    BY DEF MarkAndPropagate, Propagated
  <2>2. \A k \in Consumers : tracker[k] \in SUBSET InUse(total')
    BY <1>1 DEF ListsInv
  <2> QED BY <1>2, <2>1, <2>2
<1>4. neighbours' \in [Slots -> (SUBSET InUse(total')) \cup {NoRecord}]
  BY <1>1 DEF ListsInv
<1> QED BY <1>2, <1>3, <1>4 DEF ListsInv

\* A list goes stale only with a record that is stored or erased.
LEMMA CleanListsAfterMark ==
  ASSUME NEW changed, CleanListsAreCurrent, neighbours' = neighbours,
         dirty' = dirty \cup changed,
         \A i \in 0 .. total' - 1 : i \in 0 .. total - 1 \/ i \in changed,
         \A sigma \in records \ records' : sigma \subseteq changed,
         \A sigma \in records' \ records : sigma \subseteq changed
  PROVE  CleanListsAreCurrent'
<1> SUFFICES ASSUME NEW i \in 0 .. total' - 1, i \notin dirty'
             PROVE  neighbours'[i] = NeighboursIn(records', i)
  BY DEF CleanListsAreCurrent
<1>1. i \notin changed /\ i \notin dirty /\ i \in 0 .. total - 1
  OBVIOUS
<1>2. {sigma \in records' : i \in sigma} = {sigma \in records : i \in sigma}
  BY <1>1
<1>3. NeighboursIn(records', i) = NeighboursIn(records, i)
  BY <1>2, Zenon DEF NeighboursIn
<1>4. neighbours[i] = NeighboursIn(records, i)
  BY <1>1 DEF CleanListsAreCurrent
<1> QED BY <1>3, <1>4

\* Storing the lists of some cells and clearing their bits.
LEMMA ListsAreStored ==
  ASSUME total \in InitialCount .. Capacity, ListsInv(total), NEW cells,
         records \subseteq SUBSET InUse(total), CleanListsAreCurrent,
         neighbours' = WithLists(neighbours, records, cells),
         dirty' = dirty \ cells, total' = total, records' = records,
         tracker' \in [Consumers -> SUBSET InUse(total)]
  PROVE  ListsInv(total)' /\ CleanListsAreCurrent'
<1>1. ASSUME NEW i PROVE NeighboursIn(records, i) \in SUBSET InUse(total)
  BY DEF NeighboursIn
<1>2. neighbours' = [i \in Slots |-> IF i \in cells THEN NeighboursIn(records, i)
                                                      ELSE neighbours[i]]
  BY DEF WithLists
<1>3. neighbours' \in [Slots -> (SUBSET InUse(total)) \cup {NoRecord}]
  <2> SUFFICES ASSUME NEW i \in Slots
               PROVE  neighbours'[i] \in (SUBSET InUse(total)) \cup {NoRecord}
    BY <1>2
  <2>1. neighbours[i] \in (SUBSET InUse(total)) \cup {NoRecord}
    BY DEF ListsInv
  <2> QED BY <1>1, <1>2, <2>1
<1>4. ListsInv(total)'
  BY <1>3 DEF ListsInv
<1>5. CleanListsAreCurrent'
  <2> SUFFICES ASSUME NEW i \in 0 .. total - 1, i \notin dirty'
               PROVE  neighbours'[i] = NeighboursIn(records, i)
    BY DEF CleanListsAreCurrent
  <2>1. i \in Slots
    BY CountsAreNatural DEF InUse
  <2>2. CASE i \in cells
    BY <1>2, <2>1, <2>2
  <2>3. CASE i \notin cells
    <3>1. neighbours'[i] = neighbours[i]
      BY <1>2, <2>1, <2>3
    <3>2. i \notin dirty
      BY <2>3
    <3> QED BY <3>1, <3>2 DEF CleanListsAreCurrent
  <2> QED BY <2>2, <2>3
<1> QED BY <1>4, <1>5

\* A removal whose owner is unchanged deletes the nodes it was constructed for.
LEMMA ErasedAreTheChosen ==
  ASSUME MeshInv, NEW r \in Removers, remover[r].status = "constructed", OwnerUnchanged(r)
  PROVE  /\ Erased(r) = remover[r].doomed
         /\ remover[r].doomed # {} /\ remover[r].doomed \subseteq Active
<1> DEFINE q == remover[r]
<1>1. ChoiceInv(total, publicToInternal, q)
  BY DEF MeshInv, RemoversInv, RemoverInv
<1>2. q.internalCount = total /\ q.publicCount = Len(publicToInternal)
  BY DEF OwnerUnchanged
<1>3. /\ q.publicNodes # {} /\ q.publicNodes \subseteq PublicIndices
      /\ q.doomed = {Internal(p) : p \in q.publicNodes}
  BY <1>1, <1>2 DEF ChoiceInv, Internal, PublicIndices
<1>4. q.publicNodes \cap PublicIndices = q.publicNodes
  BY <1>3
<1>5. Erased(r) = q.doomed
  BY <1>3, <1>4, Zenon DEF Erased
<1>6. \A p \in PublicIndices : Internal(p) \in Active
  <2>1. /\ Len(publicToInternal) \in Nat
        /\ \A p \in 1 .. Len(publicToInternal) : publicToInternal[p] \in Active
    BY CountsAreNatural, ActiveInUse DEF MeshInv, Active
  <2> SUFFICES ASSUME NEW p \in PublicIndices PROVE Internal(p) \in Active
    OBVIOUS
  <2>2. p + 1 \in 1 .. Len(publicToInternal)
    BY <2>1 DEF PublicIndices
  <2> QED BY <2>1, <2>2 DEF Internal
<1> QED BY <1>3, <1>5, <1>6

\* What remove() makes of a consistent mesh.
LEMMA RemovalLeaves ==
  ASSUME MeshInv, NEW r \in Removers, remover[r].status = "constructed", OwnerUnchanged(r),
         Range(AfterRemoval(r).order) \in Admissible
  PROVE  LET after == AfterRemoval(r)
             left  == Active \ remover[r].doomed
         IN  /\ OrderInv(total, after.order) /\ Range(after.order) = left
             /\ Len(after.order) < Len(publicToInternal)
             /\ Sound(left, after.records, after.rays)
             /\ Within(left, after.records, after.rays,
                       PendingBut(remover, {r}) \cup after.affected)
             /\ after.affected \subseteq InUse(total)
             /\ after.changed \subseteq InUse(total)
             /\ after.records \subseteq records
             /\ \A sigma \in records \ after.records : sigma \subseteq after.changed
<1> DEFINE doomed == remover[r].doomed
           after  == AfterRemoval(r)
           left   == Active \ doomed
<1>1. Erased(r) = doomed /\ doomed # {} /\ doomed \subseteq Active
  BY ErasedAreTheChosen
<1>2. doomed \cup Erased(r) = doomed
  BY <1>1
<1>3. /\ after.order = Rebuilt(left)
      /\ after.records = WithoutVerticesOf(records, doomed)
      /\ after.rays = WithoutRaysOf(rays, doomed)
      /\ after.changed = UNION Touching(records, doomed)
      /\ after.affected = Bereaved(Touching(records, doomed), Touching(rays, doomed), doomed)
  BY <1>1, <1>2 DEF AfterRemoval
<1>4. total \in Nat
  BY CountsAreNatural DEF MeshInv
<1>5. /\ Active \subseteq InUse(total) /\ IsFiniteSet(Active)
      /\ Cardinality(Active) = Len(publicToInternal) /\ Len(publicToInternal) \in Nat
  BY <1>4, ActiveInUse DEF MeshInv, Active
<1>6. /\ left \in SUBSET Nat /\ IsFiniteSet(left) /\ Cardinality(left) \in Nat
      /\ Cardinality(left) < Cardinality(Active)
  <2>1. left \subseteq Active /\ left # Active
    BY <1>1
  <2>2. left \in SUBSET Nat
    <3>1. InUse(total) \subseteq Nat
      BY DEF InUse
    <3> QED BY <1>5, <2>1, <3>1
  <2> HIDE DEF left
  <2>3. /\ IsFiniteSet(left) /\ Cardinality(left) <= Cardinality(Active)
        /\ Cardinality(left) # Cardinality(Active)
    BY <1>5, <2>1, FS_Subset
  <2>4. Cardinality(left) \in Nat
    BY <2>3, FS_CardinalityType
  <2> QED BY <1>5, <2>2, <2>3, <2>4
<1>7. OrderInv(total, after.order) /\ Range(after.order) = left
      /\ Len(after.order) < Len(publicToInternal)
  <2>1. left \subseteq InUse(total)
    BY <1>5
  <2> HIDE DEF left
  <2>2. /\ Rebuilt(left) \in Seq(left) /\ Increasing(Rebuilt(left))
        /\ Range(Rebuilt(left)) = left /\ Len(Rebuilt(left)) = Cardinality(left)
    BY <1>6, RebuiltIsTheOrder
  <2>3. Rebuilt(left) \in Seq(InUse(total))
    BY <2>1, <2>2, SeqMonotonic
  <2> QED BY <1>3, <1>5, <1>6, <2>2, <2>3 DEF OrderInv
<1>8. Pending(remover) = PendingBut(remover, {r})
  <2>1. {q \in Removers \ {} : remover[q].status = "removed"}
          = {q \in Removers \ {r} : remover[q].status = "removed"}
    OBVIOUS
  <2> QED BY <2>1 DEF Pending, PendingBut
<1>9. /\ Sound(left, after.records, after.rays)
      /\ Within(left, after.records, after.rays,
                PendingBut(remover, {r}) \cup after.affected)
      /\ after.affected \subseteq left
  <2>1. Within(Active, records, rays, PendingBut(remover, {r}))
    BY <1>8 DEF MeshInv, HolesInv
  <2>2. Active \in Admissible /\ left \in Admissible /\ Sound(Active, records, rays)
    BY <1>7 DEF MeshInv
  <2> DEFINE pending == PendingBut(remover, {r})
             front == Bereaved(Touching(records, doomed), Touching(rays, doomed), doomed)
  <2> HIDE DEF doomed, after, pending
  <2>3. /\ Sound(left, WithoutVerticesOf(records, doomed), WithoutRaysOf(rays, doomed))
        /\ Within(left, WithoutVerticesOf(records, doomed), WithoutRaysOf(rays, doomed),
                  pending \cup front)
        /\ front \subseteq left
    <3>1. Within(Active, records, rays, pending)
      BY <2>1 DEF pending
    <3>2. Active \ doomed \in Admissible /\ left = Active \ doomed
      BY <2>2
    <3> HIDE DEF left
    <3>3. Sound(Active \ doomed, WithoutVerticesOf(records, doomed), WithoutRaysOf(rays, doomed))
      BY <2>2, <3>1, <3>2, RemovalWidensHoles
    <3>4. Within(Active \ doomed, WithoutVerticesOf(records, doomed), WithoutRaysOf(rays, doomed),
                  pending \cup front)
      BY <2>2, <3>1, <3>2, RemovalWidensHoles
    <3>5. front \subseteq Active \ doomed
      BY <2>2, <3>1, <3>2, RemovalWidensHoles
    <3> QED BY <3>2, <3>3, <3>4, <3>5
  <2> QED BY <1>3, <2>3 DEF pending
<1>10. after.records \subseteq records
  BY <1>3 DEF WithoutVerticesOf
<1>11. \A sigma \in records \ after.records : sigma \subseteq after.changed
  <2> SUFFICES ASSUME NEW sigma \in records \ after.records PROVE sigma \subseteq after.changed
    OBVIOUS
  <2>1. sigma \in Touching(records, doomed)
    BY <1>3 DEF WithoutVerticesOf
  <2> QED BY <1>3, <2>1
<1>12. after.changed \subseteq InUse(total)
  <2>1. \A sigma \in Touching(records, doomed) : sigma \subseteq Active
    BY DEF Touching, MeshInv, Sound, Diagram
  <2> QED BY <1>3, <1>5, <2>1
<1> QED BY <1>5, <1>7, <1>9, <1>10, <1>11, <1>12
LEMMA RemoversAfter ==
  ASSUME NEW t \in Nat, NEW order, NEW order2, NEW rem, NEW rem2, NEW r \in Removers,
         RemoversInv(t, order, rem), Len(order) \in Nat, Len(order2) \in Nat,
         order2 = order \/ Len(order2) < Len(order),
         rem2 \in [Removers -> Remover], RemoverInv(t, order2, rem2[r]),
         \A q \in Removers \ {r} : rem2[q] = rem[q]
  PROVE  RemoversInv(t, order2, rem2)
<1> SUFFICES ASSUME NEW q \in Removers, q # r PROVE RemoverInv(t, order2, rem2[q])
  BY DEF RemoversInv
<1>1. rem2[q] = rem[q] /\ RemoverInv(t, order, rem[q]) /\ rem[q] \in Remover
  BY DEF RemoversInv
<1>2. ChoiceInv(t, order, rem[q]) => ChoiceInv(t, order2, rem[q])
  BY <1>1 DEF ChoiceInv, Remover
<1> QED BY <1>1, <1>2 DEF RemoverInv

LEMMA PendingAfter ==
  ASSUME NEW rem, NEW rem2, NEW r \in Removers,
         \A q \in Removers \ {r} : rem2[q] = rem[q]
  PROVE  /\ PendingBut(rem, {r}) \subseteq Pending(rem2)
         /\ rem2[r].status = "removed" => rem2[r].affected \subseteq Pending(rem2)
         /\ Pending(rem) \subseteq PendingBut(rem, {r}) \cup rem[r].affected
         /\ rem[r].status # "removed" => Pending(rem) \subseteq PendingBut(rem, {r})
<1>1. \A i : i \in Pending(rem2) <=>
         \E q \in Removers : rem2[q].status = "removed" /\ i \in rem2[q].affected
  BY DEF Pending, PendingBut
<1>2. \A i : i \in Pending(rem) <=>
         \E q \in Removers : rem[q].status = "removed" /\ i \in rem[q].affected
  BY DEF Pending, PendingBut
<1>3. \A i : i \in PendingBut(rem, {r}) <=>
         \E q \in Removers \ {r} : rem[q].status = "removed" /\ i \in rem[q].affected
  BY DEF PendingBut
<1> QED BY <1>1, <1>2, <1>3

-----------------------------------------------------------------------------
(* One lemma per operation.                                                *)

LEMMA RefineKeeps ==
  ASSUME MeshInv, NEW n \in 0 .. MaxBlock, Refine(n)
  PROVE  MeshInv'
<1> DEFINE block    == total .. total + n - 1
           nodes    == Active \cup block
           pushed   == NewVertices(block, nodes, records)
           edges    == NewInfinite(block, nodes, rays)
           obsolete == Obsolete(records, Observed(pushed \cup edges, Active), block)
           changed  == block \cup (UNION pushed) \cup (UNION obsolete)
<1>1. /\ total + n <= Capacity /\ nodes \in Admissible /\ total' = total + n
      /\ publicToInternal' = Appended(publicToInternal, block)
      /\ records' = (records \ obsolete) \cup pushed /\ rays' = rays \cup edges
      /\ MarkAndPropagate(changed) /\ neighbours' = neighbours /\ remover' = remover
  BY DEF Refine
<1>2. total \in Nat /\ n \in Nat /\ total + n \in Nat
  BY CountsAreNatural, TableAssumption DEF MeshInv
<1>3. total' \in InitialCount .. Capacity /\ total <= total'
  BY <1>1, <1>2, CountsAreNatural DEF MeshInv
<1>4. /\ OrderInv(total', publicToInternal') /\ Active' = nodes
      /\ n = 0 => publicToInternal' = publicToInternal
  <2>1. publicToInternal \in Seq(0 .. total - 1) /\ Increasing(publicToInternal)
    BY DEF MeshInv, OrderInv, InUse
  <2>2. /\ Appended(publicToInternal, block) \in Seq(0 .. total + n - 1)
        /\ Increasing(Appended(publicToInternal, block))
        /\ Range(Appended(publicToInternal, block)) = Range(publicToInternal) \cup block
        /\ n = 0 => Appended(publicToInternal, block) = publicToInternal
    BY <1>2, <2>1, AppendedOrder, ZenonT(60)
  <2> HIDE DEF block
  <2>3. Active' = nodes
    BY <1>1, <2>2 DEF Active
  <2>4. total' = total + n
    BY <1>1
  <2>5. OrderInv(total + n, publicToInternal')
    <3>1. publicToInternal' = Appended(publicToInternal, block)
      BY <1>1
    <3>2. total + n - 1 = (total + n) - 1
      BY <1>2
    <3>3. InUse(total + n) = 0 .. total + n - 1
      BY <3>2, Zenon DEF InUse
    <3> QED BY <2>2, <3>1, <3>3, Zenon DEF OrderInv
  <2>6. OrderInv(total', publicToInternal')
    BY <2>4, <2>5
  <2> QED BY <1>1, <2>2, <2>3, <2>6
<1>5. Active \subseteq InUse(total) /\ Len(publicToInternal) \in Nat
  BY <1>2, ActiveInUse DEF MeshInv, Active
<1>6. Active \cap block = {}
  BY <1>2, <1>5 DEF InUse
<1>7. /\ Sound(nodes, records', rays')
      /\ Holes(nodes, records', rays') \subseteq Holes(Active, records, rays)
  <2>1. Active \in Admissible /\ Sound(Active, records, rays)
    BY DEF MeshInv
  <2> HIDE DEF block
  <2>2. /\ Sound(nodes, (records \ obsolete) \cup pushed, rays \cup edges)
        /\ Holes(nodes, (records \ obsolete) \cup pushed, rays \cup edges)
             \subseteq Holes(Active, records, rays)
    BY <1>1, <1>6, <2>1, RefinementIsSound
  <2> QED BY <1>1, <2>2
<1>8. HolesInv'
  <2>1. Within(nodes, records', rays', Pending(remover))
    BY <1>7 DEF MeshInv, HolesInv, Within
  <2> HIDE DEF nodes
  <2> QED BY <1>1, <1>4, <2>1 DEF HolesInv
<1>9. changed \in SUBSET InUse(total') /\ nodes \subseteq InUse(total')
  <2>1. nodes \subseteq InUse(total')
    BY <1>1, <1>2, <1>5 DEF InUse
  <2>2. \A sigma \in pushed : sigma \subseteq nodes
    BY DEF NewVertices, Touching, Diagram
  <2>3. \A sigma \in obsolete : sigma \subseteq Active
    BY DEF Obsolete, MeshInv, Sound, Diagram
  <2> HIDE DEF pushed, obsolete, block
  <2> QED BY <2>1, <2>2, <2>3
<1>10. ListsInv(total)'
  <2> HIDE DEF changed
  <2>1. ListsInv(total) /\ total' \in Nat
    BY <1>1, <1>2 DEF MeshInv
  <2> QED BY <1>1, <1>2, <1>3, <1>9, <2>1, ListsAfterMark
<1>11. CleanListsAreCurrent'
  <2>1. CleanListsAreCurrent /\ dirty' = dirty \cup changed
    BY <1>1 DEF MeshInv, MarkAndPropagate
  <2>2. \A i \in 0 .. total' - 1 : i \in 0 .. total - 1 \/ i \in changed
    BY <1>1, <1>2
  <2>3. /\ \A sigma \in records \ records' : sigma \subseteq changed
        /\ \A sigma \in records' \ records : sigma \subseteq changed
    <3> HIDE DEF pushed, obsolete, block
    <3> QED BY <1>1
  <2> HIDE DEF changed
  <2> QED BY <1>1, <2>1, <2>2, <2>3, CleanListsAfterMark
<1>12. RemoversInv(total', publicToInternal', remover')
  <2> SUFFICES ASSUME NEW q \in Removers
               PROVE  RemoverInv(total', publicToInternal', remover[q])
    BY <1>1 DEF RemoversInv, MeshInv
  <2>1. RemoverInv(total, publicToInternal, remover[q]) /\ remover[q] \in Remover
    BY DEF RemoversInv, MeshInv
  <2>2. InUse(total) \subseteq InUse(total')
    BY <1>1, <1>2, <1>3 DEF InUse
  <2>3. remover[q].internalCount \in Nat
    BY <2>1 DEF Remover
  <2>4. ChoiceInv(total, publicToInternal, remover[q])
          => ChoiceInv(total', publicToInternal', remover[q])
    <3>1. CASE n = 0
      BY <1>1, <1>2, <1>4, <3>1
    <3>2. CASE n # 0
      BY <1>1, <1>2, <2>1, <2>3, <3>2 DEF ChoiceInv, RemoverInv
    <3> QED BY <3>1, <3>2
  <2> QED BY <1>2, <1>3, <2>1, <2>2, <2>3, <2>4 DEF RemoverInv
<1>13. Active' \in Admissible /\ Sound(Active', records', rays')
  BY <1>1, <1>4, <1>7
<1> QED BY <1>3, <1>4, <1>8, <1>10, <1>11, <1>12, <1>13 DEF MeshInv

LEMMA ConstructKeeps ==
  ASSUME MeshInv, NEW r \in Removers, NEW public \in SUBSET PublicIndices,
         Cardinality(public) \in 1 .. MaxDoomed, ConstructRemover(r, public)
  PROVE  MeshInv'
<1> DEFINE q == [status |-> "constructed", publicCount |-> Len(publicToInternal),
                 internalCount |-> total, publicNodes |-> public,
                 doomed |-> {Internal(p) : p \in public}, affected |-> {}]
<1>1. /\ remover' = [remover EXCEPT ![r] = q] /\ remover[r].status = "none"
      /\ UNCHANGED <<total, publicToInternal, records, rays, neighbours, dirty, tracker>>
  BY DEF ConstructRemover
<1>2. /\ total \in Nat /\ Len(publicToInternal) \in Nat
      /\ Active \subseteq InUse(total)
      /\ \A p \in 1 .. Len(publicToInternal) : publicToInternal[p] \in Active
  <2>1. total \in Nat /\ OrderInv(total, publicToInternal)
    BY CountsAreNatural DEF MeshInv
  <2> QED BY <2>1, ActiveInUse DEF Active
<1>3. public # {}
  BY FS_EmptySet
<1>4. \A p \in public : Internal(p) \in Active /\ Internal(p) = publicToInternal[p + 1]
  <2> SUFFICES ASSUME NEW p \in public PROVE Internal(p) \in Active
    BY DEF Internal
  <2>1. p + 1 \in 1 .. Len(publicToInternal)
    BY <1>2 DEF PublicIndices
  <2> QED BY <1>2, <2>1 DEF Internal
<1>5. q.doomed \subseteq InUse(total) /\ q.doomed = {publicToInternal[p + 1] : p \in public}
  BY <1>2, <1>4
<1>6. InUse(total) \subseteq Nat /\ PublicIndices \subseteq Nat
  BY DEF InUse, PublicIndices
<1>7. q \in Remover
  BY <1>2, <1>5, <1>6 DEF Remover
<1>8. RemoverInv(total, publicToInternal, q)
  <2>1. ChoiceInv(total, publicToInternal, q)
    <3>1. public \subseteq 0 .. Len(publicToInternal) - 1
      BY DEF PublicIndices
    <3> HIDE DEF q
    <3>2. q.publicNodes = public /\ q.publicCount = Len(publicToInternal)
      BY DEF q
    <3> QED BY <1>2, <1>3, <1>5, <3>1, <3>2 DEF ChoiceInv
  <2> QED BY <1>2, <1>5, <2>1 DEF RemoverInv
<1> HIDE DEF q
<1>9. /\ RemoversInv(total, publicToInternal, remover)
      /\ remover \in [Removers -> Remover]
  BY DEF MeshInv, RemoversInv
<1>10. /\ remover' \in [Removers -> Remover] /\ remover'[r] = q
       /\ \A p \in Removers \ {r} : remover'[p] = remover[p]
  BY <1>1, <1>7, <1>9
<1>11. RemoversInv(total, publicToInternal, remover')
  BY <1>2, <1>8, <1>9, <1>10, RemoversAfter
<1>12. Pending(remover) \subseteq Pending(remover')
  <2>1. remover[r].status # "removed"
    BY <1>1
  <2>2. /\ PendingBut(remover, {r}) \subseteq Pending(remover')
        /\ Pending(remover) \subseteq PendingBut(remover, {r})
    BY <1>10, <2>1, PendingAfter
  <2> QED BY <2>2
<1>13. Active' = Active
  BY <1>1 DEF Active
<1>14. HolesInv'
  BY <1>1, <1>12, <1>13 DEF HolesInv, Within, MeshInv
<1>15. ListsInv(total)' /\ CleanListsAreCurrent'
  BY <1>1 DEF MeshInv, ListsInv, CleanListsAreCurrent
<1> QED BY <1>1, <1>11, <1>13, <1>14, <1>15 DEF MeshInv
\* A removal moves on, with the front it has.
MovesOn(r, status, front) ==
  remover' = [remover EXCEPT ![r].status = status, ![r].affected = front]

LEMMA RemoverMovesOn ==
  ASSUME total \in Nat, RemoversInv(total, publicToInternal, remover),
         NEW r \in Removers, NEW order2, Len(publicToInternal) \in Nat, Len(order2) \in Nat,
         order2 = publicToInternal \/ Len(order2) < Len(publicToInternal),
         NEW status \in {"removed", "computed"},
         NEW front, front \subseteq InUse(remover[r].internalCount),
         MovesOn(r, status, front)
  PROVE  /\ RemoversInv(total, order2, remover')
         /\ remover'[r].status = status /\ remover'[r].affected = front
         /\ \A q \in Removers \ {r} : remover'[q] = remover[q]
<1> DEFINE q == [remover[r] EXCEPT !.status = status, !.affected = front]
<1>1. remover \in [Removers -> Remover] /\ RemoverInv(total, publicToInternal, remover[r])
  BY DEF RemoversInv
<1>2. remover' = [remover EXCEPT ![r] = q]
  BY <1>1 DEF MovesOn
<1>3. remover[r].internalCount \in Nat /\ remover[r].internalCount <= total
  BY <1>1 DEF RemoverInv, Remover
<1>4. front \subseteq InUse(total) /\ InUse(total) \subseteq Nat
  <2>1. InUse(remover[r].internalCount) \subseteq InUse(total)
    BY <1>3, InUseGrows
  <2> QED BY <2>1 DEF InUse
<1>5. q \in Remover
  BY <1>1, <1>4 DEF Remover
<1>6. /\ q.status = status /\ q.affected = front /\ q.doomed = remover[r].doomed
      /\ q.internalCount = remover[r].internalCount
  BY <1>1 DEF Remover
<1> HIDE DEF q
<1>7. RemoverInv(total, order2, q)
  BY <1>1, <1>3, <1>4, <1>6 DEF RemoverInv
<1>8. /\ remover' \in [Removers -> Remover] /\ remover'[r] = q
      /\ \A p \in Removers \ {r} : remover'[p] = remover[p]
  BY <1>1, <1>2, <1>5
<1>9. RemoversInv(total, order2, remover')
  <2>1. RemoverInv(total, order2, remover'[r])
    BY <1>7, <1>8
  <2>2. /\ remover' \in [Removers -> Remover]
        /\ \A p \in Removers \ {r} : remover'[p] = remover[p]
    BY <1>8
  <2> QED BY ONLY <2>1, <2>2, RemoversAfter, total \in Nat, Len(publicToInternal) \in Nat,
              Len(order2) \in Nat, RemoversInv(total, publicToInternal, remover), r \in Removers,
              order2 = publicToInternal \/ Len(order2) < Len(publicToInternal)
<1> QED BY <1>6, <1>8, <1>9

LEMMA RemoveKeeps ==
  ASSUME MeshInv, NEW r \in Removers, RemoveNodes(r)
  PROVE  MeshInv' /\ Active' = Active \ remover[r].doomed
<1> DEFINE after == AfterRemoval(r)
           left  == Active \ remover[r].doomed
<1>1. /\ remover[r].status = "constructed" /\ OwnerUnchanged(r)
      /\ Range(after.order) \in Admissible
      /\ publicToInternal' = after.order /\ records' = after.records /\ rays' = after.rays
      /\ MarkAndPropagate(after.changed)
      /\ remover' = [remover EXCEPT ![r].status = "removed", ![r].affected = after.affected]
      /\ total' = total /\ neighbours' = neighbours
  BY DEF RemoveNodes
<1>2. /\ OrderInv(total, after.order) /\ Range(after.order) = left
      /\ Len(after.order) < Len(publicToInternal)
      /\ Sound(left, after.records, after.rays)
      /\ Within(left, after.records, after.rays, PendingBut(remover, {r}) \cup after.affected)
      /\ after.affected \subseteq InUse(total) /\ after.changed \subseteq InUse(total)
      /\ after.records \subseteq records
      /\ \A sigma \in records \ after.records : sigma \subseteq after.changed
  BY <1>1, RemovalLeaves
<1> HIDE DEF after
<1>3. total \in Nat /\ Len(publicToInternal) \in Nat /\ Len(after.order) \in Nat
  <2>1. total \in Nat
    BY CountsAreNatural DEF MeshInv
  <2> QED BY <1>2, <2>1, ActiveInUse DEF MeshInv
<1>4. Active' = left
  BY <1>1, <1>2 DEF Active
<1>5. /\ RemoversInv(total, after.order, remover')
      /\ remover'[r].status = "removed" /\ remover'[r].affected = after.affected
      /\ \A q \in Removers \ {r} : remover'[q] = remover[q]
  <2>1. after.affected \subseteq InUse(remover[r].internalCount)
    BY <1>1, <1>2 DEF OwnerUnchanged
  <2>2. RemoversInv(total, publicToInternal, remover)
    BY DEF MeshInv
  <2>3. MovesOn(r, "removed", after.affected)
    BY <1>1, Zenon DEF MovesOn
  <2> QED BY <1>2, <1>3, <2>1, <2>2, <2>3, RemoverMovesOn
<1>6. HolesInv'
  <2>1. PendingBut(remover, {r}) \subseteq Pending(remover')
        /\ after.affected \subseteq Pending(remover')
    BY <1>5, PendingAfter
  <2>2. Within(left, records', rays', Pending(remover'))
    BY <1>1, <1>2, <2>1 DEF Within
  <2> HIDE DEF left
  <2> QED BY <1>4, <2>2 DEF HolesInv
<1>7. ListsInv(total)'
  BY <1>1, <1>2, <1>3, ListsAfterMark DEF MeshInv
<1>8. CleanListsAreCurrent'
  <2>1. CleanListsAreCurrent /\ dirty' = dirty \cup after.changed
    BY <1>1 DEF MeshInv, MarkAndPropagate
  <2>2. \A sigma \in records' \ records : sigma \subseteq after.changed
    BY <1>1, <1>2
  <2> QED BY <1>1, <1>2, <2>1, <2>2, CleanListsAfterMark
<1>9. Active' \in Admissible /\ Sound(Active', records', rays')
  <2> HIDE DEF left
  <2> QED BY <1>1, <1>2, <1>4
<1>10. total' \in InitialCount .. Capacity /\ OrderInv(total', publicToInternal')
       /\ RemoversInv(total', publicToInternal', remover')
  BY <1>1, <1>2, <1>5 DEF MeshInv
<1> QED BY <1>4, <1>6, <1>7, <1>8, <1>9, <1>10 DEF MeshInv

LEMMA CloseKeeps ==
  ASSUME MeshInv, NEW r \in Removers, CloseHoles(r)
  PROVE  /\ MeshInv'
         /\ remover[r].status = "constructed" => Active' = Active \ remover[r].doomed
<1> DEFINE before == IF remover[r].status = "removed" THEN AsItIs(r) ELSE AfterRemoval(r)
           nodes  == Range(before.order)
           limit  == remover[r].internalCount
           front  == ActiveAffected(before.affected, nodes, limit)
           pushed == NewVertices(front, nodes, before.records)
           edges  == NewInfinite(front, nodes, before.rays)
           changed == before.changed \cup (UNION pushed)
<1>1. /\ remover[r].status \in {"constructed", "removed"}
      /\ remover[r].status = "constructed" => OwnerUnchanged(r)
      /\ nodes \in Admissible
      /\ publicToInternal' = before.order /\ records' = before.records \cup pushed
      /\ rays' = before.rays \cup edges
      /\ MarkAndPropagate(changed)
      /\ remover' = [remover EXCEPT ![r].status = "computed", ![r].affected = before.affected]
      /\ total' = total /\ neighbours' = neighbours
  BY DEF CloseHoles
<1>2. /\ total \in Nat /\ Len(publicToInternal) \in Nat /\ RemoverInv(total, publicToInternal, remover[r])
      /\ OrderInv(total, publicToInternal)
  <2>1. total \in Nat
    BY CountsAreNatural DEF MeshInv
  <2> QED BY <2>1, ActiveInUse DEF MeshInv, RemoversInv
<1>3. /\ OrderInv(total, before.order)
      /\ before.order = publicToInternal \/ Len(before.order) < Len(publicToInternal)
      /\ Sound(nodes, before.records, before.rays)
      /\ Within(nodes, before.records, before.rays,
                PendingBut(remover, {r}) \cup before.affected)
      /\ before.affected \subseteq InUse(limit) /\ before.changed \subseteq InUse(total)
      /\ before.records \subseteq records
      /\ \A sigma \in records \ before.records : sigma \subseteq before.changed
  <2>1. CASE remover[r].status = "removed"
    <3>1. /\ before.order = publicToInternal /\ before.records = records
          /\ before.rays = rays /\ before.changed = {}
          /\ before.affected = remover[r].affected
      BY <2>1 DEF AsItIs
    <3> HIDE DEF before
    <3>2. nodes = Active
      BY <3>1 DEF Active
    <3>3. Pending(remover) \subseteq PendingBut(remover, {r}) \cup before.affected
      BY <3>1, PendingAfter
    <3>4. Sound(Active, records, rays) /\ Within(Active, records, rays, Pending(remover))
      BY DEF MeshInv, HolesInv
    <3>5. Within(Active, records, rays, PendingBut(remover, {r}) \cup before.affected)
      BY <3>3, <3>4 DEF Within
    <3>6. before.affected \subseteq InUse(limit)
      BY <1>2, <2>1, <3>1 DEF RemoverInv
    <3> HIDE DEF nodes
    <3> QED BY <1>2, <3>1, <3>2, <3>4, <3>5, <3>6
  <2>2. CASE remover[r].status = "constructed"
    <3>1. before = AfterRemoval(r) /\ OwnerUnchanged(r)
      BY <1>1, <2>2
    <3>2. limit = total
      BY <3>1 DEF OwnerUnchanged
    <3>3. LET after == AfterRemoval(r)
              left  == Active \ remover[r].doomed
          IN  /\ OrderInv(total, after.order) /\ Range(after.order) = left
              /\ Len(after.order) < Len(publicToInternal)
              /\ Sound(left, after.records, after.rays)
              /\ Within(left, after.records, after.rays,
                        PendingBut(remover, {r}) \cup after.affected)
              /\ after.affected \subseteq InUse(total) /\ after.changed \subseteq InUse(total)
              /\ after.records \subseteq records
              /\ \A sigma \in records \ after.records : sigma \subseteq after.changed
      BY <1>1, <2>2, <3>1, RemovalLeaves
    <3> HIDE DEF before
    <3> QED BY <3>1, <3>2, <3>3
  <2> QED BY <1>1, <2>1, <2>2
<1>4. remover[r].status = "constructed" => nodes = Active \ remover[r].doomed
  <2> SUFFICES ASSUME remover[r].status = "constructed"
               PROVE  nodes = Active \ remover[r].doomed
    OBVIOUS
  <2>1. before = AfterRemoval(r) /\ OwnerUnchanged(r)
    BY <1>1
  <2> HIDE DEF before
  <2> QED BY <1>1, <2>1, RemovalLeaves
<1> HIDE DEF before
<1>5. Len(before.order) \in Nat /\ nodes \subseteq InUse(total)
  BY <1>2, <1>3, ActiveInUse
<1>6. Active' = nodes
  BY <1>1 DEF Active
<1> HIDE DEF nodes
<1>7. front = before.affected \cap nodes
  BY <1>3 DEF ActiveAffected, InUse
<1>8. /\ Sound(nodes, records', rays')
      /\ Within(nodes, records', rays', PendingBut(remover, {r}))
  <2> DEFINE pending == PendingBut(remover, {r})
             cells   == before.affected
             recs    == before.records
             stored  == before.rays
  <2>1. Sound(nodes, recs, stored) /\ Within(nodes, recs, stored, pending \cup cells)
    BY <1>3
  <2>2. /\ records' = recs \cup NewVertices(cells \cap nodes, nodes, recs)
        /\ rays' = stored \cup NewInfinite(cells \cap nodes, nodes, stored)
    BY <1>1, <1>7
  <2> HIDE DEF pending, cells, recs, stored
  <2>3. /\ Sound(nodes, recs \cup NewVertices(cells \cap nodes, nodes, recs),
                 stored \cup NewInfinite(cells \cap nodes, nodes, stored))
        /\ Within(nodes, recs \cup NewVertices(cells \cap nodes, nodes, recs),
                  stored \cup NewInfinite(cells \cap nodes, nodes, stored), pending)
    BY <2>1, ClosingNarrowsHoles
  <2> QED BY <2>2, <2>3 DEF pending
<1>9. /\ RemoversInv(total, before.order, remover')
      /\ \A q \in Removers \ {r} : remover'[q] = remover[q]
  <2>1. RemoversInv(total, publicToInternal, remover)
    BY DEF MeshInv
  <2>2. MovesOn(r, "computed", before.affected)
    BY <1>1, Zenon DEF MovesOn
  <2> QED BY <1>2, <1>3, <1>5, <2>1, <2>2, RemoverMovesOn
<1>10. HolesInv'
  <2>1. PendingBut(remover, {r}) \subseteq Pending(remover')
    BY <1>9, PendingAfter
  <2>2. Within(nodes, records', rays', Pending(remover'))
    BY <1>8, <2>1 DEF Within
  <2> QED BY <1>6, <2>2 DEF HolesInv
<1>11. changed \subseteq InUse(total)
  <2>1. \A sigma \in pushed : sigma \subseteq nodes
    BY DEF NewVertices, Touching, Diagram
  <2> HIDE DEF pushed
  <2> QED BY <1>3, <1>5, <2>1
<1>12. /\ \A sigma \in records \ records' : sigma \subseteq changed
       /\ \A sigma \in records' \ records : sigma \subseteq changed
  <2> HIDE DEF pushed
  <2> QED BY <1>1, <1>3
<1> HIDE DEF changed, pushed, edges, front
<1>13. ListsInv(total)'
  BY <1>1, <1>2, <1>11, ListsAfterMark DEF MeshInv
<1>14. CleanListsAreCurrent'
  <2>1. CleanListsAreCurrent /\ dirty' = dirty \cup changed
    BY <1>1 DEF MeshInv, MarkAndPropagate
  <2> QED BY <1>1, <1>12, <2>1, CleanListsAfterMark
<1>15. Active' \in Admissible /\ Sound(Active', records', rays')
  BY <1>1, <1>6, <1>8
<1>16. total' \in InitialCount .. Capacity /\ OrderInv(total', publicToInternal')
       /\ RemoversInv(total', publicToInternal', remover')
  BY <1>1, <1>3, <1>9 DEF MeshInv
<1> QED BY <1>4, <1>6, <1>10, <1>13, <1>14, <1>15, <1>16 DEF MeshInv

\* Steps that only store lists and clear bits.
LEMMA ListStepKeeps ==
  ASSUME MeshInv, NEW cells,
         neighbours' = WithLists(neighbours, records, cells), dirty' = dirty \ cells,
         tracker' \in [Consumers -> SUBSET InUse(total)],
         UNCHANGED <<total, publicToInternal, records, rays, remover>>
  PROVE  MeshInv'
<1>1. records \subseteq SUBSET InUse(total)
  <2>1. \A sigma \in records : sigma \subseteq Active
    BY DEF MeshInv, Sound, Diagram
  <2>2. Active \subseteq InUse(total)
    BY CountsAreNatural, ActiveInUse DEF MeshInv, Active
  <2> QED BY <2>1, <2>2
<1>2. ListsInv(total)' /\ CleanListsAreCurrent'
  BY <1>1, ListsAreStored DEF MeshInv
<1>3. Active' = Active
  BY DEF Active
<1>4. HolesInv'
  BY <1>3 DEF MeshInv, HolesInv
<1> QED BY <1>2, <1>3, <1>4 DEF MeshInv
LEMMA InitEstablishes ==
  ASSUME MeshInit
  PROVE  MeshInv
<1> DEFINE nodes == 0 .. InitialCount - 1
<1>1. /\ total = InitialCount /\ publicToInternal = Rebuilt(nodes)
      /\ records = Diagram(nodes) /\ rays = UnboundedEdges(nodes)
      /\ neighbours = [i \in Slots |-> NoRecord] /\ dirty = nodes
      /\ tracker = [k \in Consumers |-> nodes] /\ remover = [r \in Removers |-> Unborn]
  BY DEF MeshInit
<1>2. InitialCount \in Nat /\ Capacity \in Nat /\ InitialCount \in InitialCount .. Capacity
  BY CountsAreNatural
<1>3. nodes \in SUBSET Nat /\ IsFiniteSet(nodes) /\ nodes = InUse(InitialCount)
  BY <1>2, FS_Interval DEF InUse
<1>4. nodes \in Admissible
  BY TableAssumption
<1> HIDE DEF nodes
<1>5. /\ Rebuilt(nodes) \in Seq(nodes) /\ Increasing(Rebuilt(nodes))
      /\ Range(Rebuilt(nodes)) = nodes
  BY <1>3, RebuiltIsTheOrder
<1>6. OrderInv(total, publicToInternal) /\ Active = nodes
  BY <1>1, <1>3, <1>5 DEF OrderInv, Active
<1>7. ListsInv(total)
  BY <1>1, <1>3 DEF ListsInv
<1>8. RemoversInv(total, publicToInternal, remover)
  <2>1. Unborn \in Remover
    BY DEF Unborn, Remover
  <2>2. RemoverInv(total, publicToInternal, Unborn)
    BY <1>1, <1>2 DEF Unborn, RemoverInv
  <2> QED BY <1>1, <2>1, <2>2 DEF RemoversInv
<1>9. Sound(nodes, records, rays)
  BY <1>1 DEF Sound, UnboundedEdges
<1>10. HolesInv
  <2>1. Holes(nodes, records, rays) = {}
    BY <1>1 DEF Holes
  <2>2. Within(nodes, records, rays, Pending(remover))
    BY <2>1 DEF Within
  <2> QED BY <1>6, <2>2 DEF HolesInv
<1>11. CleanListsAreCurrent
  BY <1>1, <1>3 DEF CleanListsAreCurrent, InUse
<1> QED BY <1>1, <1>2, <1>4, <1>6, <1>7, <1>8, <1>9, <1>10, <1>11 DEF MeshInv

\* What integrate() does to the mesh: it makes lists current.
LEMMA EnsureListsKeeps ==
  ASSUME MeshInv, NEW cells, EnsureLists(cells),
         tracker' \in [Consumers -> SUBSET InUse(total)],
         UNCHANGED <<total, publicToInternal, records, rays, remover>>
  PROVE  MeshInv'
<1>1. /\ neighbours' = WithLists(neighbours, records, Outdated(cells))
      /\ dirty' = dirty \ Outdated(cells)
  BY DEF EnsureLists
<1> QED BY <1>1, ListStepKeeps

LEMMA NextKeeps ==
  ASSUME MeshInv, [Next]_vars
  PROVE  MeshInv'
<1>1. tracker \in [Consumers -> SUBSET InUse(total)]
  BY DEF MeshInv, ListsInv
<1>2. ASSUME NEW n \in 0 .. MaxBlock, Refine(n) PROVE MeshInv'
  BY <1>2, RefineKeeps
<1>3. ASSUME NEW r \in Removers, NEW public \in SUBSET PublicIndices,
             Cardinality(public) \in 1 .. MaxDoomed, ConstructRemover(r, public)
      PROVE  MeshInv'
  BY <1>3, ConstructKeeps
<1>4. ASSUME NEW r \in Removers, RemoveNodes(r) PROVE MeshInv'
  BY <1>4, RemoveKeeps
<1>5. ASSUME NEW r \in Removers, CloseHoles(r) PROVE MeshInv'
  BY <1>5, CloseKeeps
<1>6. ASSUME NEW i \in Active \cap Asked, ComputeNeighbors(i) PROVE MeshInv'
  BY <1>1, <1>6, ListStepKeeps DEF ComputeNeighbors
<1>7. ASSUME NEW k \in Consumers, Integrate(k) PROVE MeshInv'
  <2> DEFINE plan == Plan(k)
  <2>1. /\ EnsureLists(plan.cells) /\ tracker' = [tracker EXCEPT ![k] = @ \ plan.cells]
        /\ UNCHANGED <<total, publicToInternal, records, rays, remover>>
    BY <1>7 DEF Integrate, FinishUpdate
  <2> HIDE DEF plan
  <2>2. tracker' \in [Consumers -> SUBSET InUse(total)]
    BY <1>1, <2>1
  <2> QED BY <2>1, <2>2, EnsureListsKeeps
<1>8. ASSUME NEW k \in Consumers, IntegrateThrows(k) PROVE MeshInv'
  <2>1. PICK cells : EnsureLists(cells)
    BY <1>8 DEF IntegrateThrows, MeasuringThrows, PublishingThrows
  <2>2. UNCHANGED <<total, publicToInternal, records, rays, tracker, remover>>
    BY <1>8 DEF IntegrateThrows
  <2> QED BY <1>1, <2>1, <2>2, EnsureListsKeeps
<1>9. CASE UNCHANGED vars
  BY <1>9 DEF vars, meshVars, MeshInv, Active, ListsInv, HolesInv, CleanListsAreCurrent
<1> QED BY <1>2, <1>3, <1>4, <1>5, <1>6, <1>7, <1>8, <1>9 DEF Next, MeshNext

-----------------------------------------------------------------------------
(* The theorems.                                                           *)

\* Refinements, removals and integrals, in any order and however removals
\* overlap, keep the invariant: they are the whole of what changes a mesh.
THEOREM MeshInvariant == Spec => []MeshInv
<1>1. Init => MeshInv
  BY InitEstablishes DEF Init
<1>2. MeshInv /\ [Next]_vars => MeshInv'
  BY NextKeeps
<1> QED BY <1>1, <1>2, PTL DEF Spec

\* No call leaves a slot number, a dirty bit, a list or a front outside the
\* slots in use, and the public numbering always follows slot order.
THEOREM TypeInvariant == Spec => []TypeOK
<1>1. MeshInv => TypeOK
  <2> SUFFICES ASSUME MeshInv PROVE TypeOK
    OBVIOUS
  <2>1. total \in InitialCount .. Capacity /\ total \in Nat /\ Len(publicToInternal) \in Nat
    BY CountsAreNatural, ActiveInUse DEF MeshInv
  <2>2. publicToInternal \in Seq(0 .. total - 1)
    BY DEF MeshInv, OrderInv, InUse
  <2>3. ASSUME NEW p \in PublicIndices, p > 0 PROVE Internal(p - 1) < Internal(p)
    <3>1. (p - 1) + 1 \in 1 .. Len(publicToInternal) /\ p + 1 \in 1 .. Len(publicToInternal)
          /\ (p - 1) + 1 < p + 1
      BY <2>1, <2>3 DEF PublicIndices
    <3> QED BY <3>1 DEF MeshInv, OrderInv, Increasing, Internal
  <2>4. records \subseteq DOMAIN Inside /\ rays \subseteq DOMAIN Beyond
    BY DEF MeshInv, Sound, Diagram
  <2>5. /\ neighbours \in [Slots -> (SUBSET (0 .. total - 1)) \cup {NoRecord}]
        /\ dirty \subseteq 0 .. total - 1
        /\ tracker \in [Consumers -> SUBSET (0 .. total - 1)]
    BY DEF MeshInv, ListsInv, InUse
  <2>6. ASSUME NEW r \in Removers
        PROVE  /\ remover[r].status \in {"none", "constructed", "removed", "computed"}
               /\ remover[r].doomed \cup remover[r].affected \subseteq 0 .. total - 1
    BY DEF MeshInv, RemoversInv, RemoverInv, Remover, InUse
  <2> QED BY <2>1, <2>2, <2>3, <2>4, <2>5, <2>6 DEF TypeOK
<1> QED BY <1>1, MeshInvariant, PTL

\* invalidate_old_vertices looks at the AFFECTED cells only, and is right to:
\* between two calls no stored vertex has an active node inside its sphere,
\* with holes open or not.
THEOREM NoVertexIsStale == Spec => []NoStaleVertex
<1>1. MeshInv => NoStaleVertex
  BY DEF MeshInv, Sound, NoStaleVertex
<1> QED BY <1>1, MeshInvariant, PTL

\* Whatever the mesh lacks of its diagram is beside the front of a removal that
\* has still to be computed: a mesh without such removals is complete.
THEOREM HolesStayRemembered == Spec => []HolesAreRemembered
<1>1. MeshInv => HolesAreRemembered
  <2> SUFFICES ASSUME MeshInv, NEW sigma \in Holes(Active, records, rays)
               PROVE  \E r \in Removers : /\ remover[r].status = "removed"
                                          /\ remover[r].affected \cap sigma # {}
    BY DEF HolesAreRemembered, Holes
  <2>1. sigma # {}
    BY TableAssumption DEF Holes, Diagram, UnboundedEdges
  <2>2. PICK i \in sigma : TRUE
    BY <2>1
  <2>3. i \in Pending(remover)
    BY <2>2 DEF MeshInv, HolesInv, Within
  <2>4. PICK r \in Removers : remover[r].status = "removed" /\ i \in remover[r].affected
    BY <2>3 DEF Pending, PendingBut
  <2> QED BY <2>2, <2>4
<1> QED BY <1>1, MeshInvariant, PTL

\* A neighbour list whose dirty bit is clear is the list that the stored
\* vertices give now.
THEOREM CleanListsStayCurrent == Spec => []CleanListsAreCurrent
<1>1. MeshInv => CleanListsAreCurrent
  BY DEF MeshInv
<1> QED BY <1>1, MeshInvariant, PTL

\* remove() and compute() delete exactly the nodes that the constructor was
\* given, though they find them by public indices other calls renumber.
THEOREM ChosenNodesAreRemoved == Spec => RemovesTheChosenNodes
<1> DEFINE Chosen ==
      \A r \in Removers :
        remover[r].status = "constructed" /\ remover'[r].status \in {"removed", "computed"}
          => Active' = Active \ remover[r].doomed
<1>1. MeshInv /\ [Next]_vars => [Chosen]_meshVars
  <2> SUFFICES ASSUME MeshInv, [Next]_vars, NEW r \in Removers,
                      remover[r].status = "constructed",
                      remover'[r].status \in {"removed", "computed"}
               PROVE  Active' = Active \ remover[r].doomed
    OBVIOUS
  <2>1. remover \in [Removers -> Remover]
    BY DEF MeshInv, RemoversInv
  <2>2. remover'[r] # remover[r]
    OBVIOUS
  <2>3. ASSUME NEW q \in Removers, RemoveNodes(q) PROVE Active' = Active \ remover[r].doomed
    <3>1. q = r
      BY <2>1, <2>2, <2>3 DEF RemoveNodes
    <3> QED BY <2>3, <3>1, RemoveKeeps
  <2>4. ASSUME NEW q \in Removers, CloseHoles(q) PROVE Active' = Active \ remover[r].doomed
    <3>1. q = r
      BY <2>1, <2>2, <2>4 DEF CloseHoles
    <3> QED BY <2>4, <3>1, CloseKeeps
  <2>5. ASSUME NEW q \in Removers, NEW public, ConstructRemover(q, public) PROVE FALSE
    <3>1. q = r
      BY <2>1, <2>2, <2>5 DEF ConstructRemover
    <3> QED BY <2>5, <3>1 DEF ConstructRemover
  <2>6. remover' # remover
    BY <2>2
  <2>7. \E q \in Removers : \/ RemoveNodes(q) \/ CloseHoles(q)
                            \/ \E public : ConstructRemover(q, public)
    <3>1. ~UNCHANGED vars
      BY <2>6 DEF vars, meshVars
    <3>2. \A n \in 0 .. MaxBlock : ~Refine(n)
      BY <2>6 DEF Refine
    <3>3. \A i \in Active \cap Asked : ~ComputeNeighbors(i)
      BY <2>6 DEF ComputeNeighbors
    <3>4. \A k \in Consumers : ~Integrate(k) /\ ~IntegrateThrows(k)
      BY <2>6 DEF Integrate, IntegrateThrows
    <3> QED BY <3>1, <3>2, <3>3, <3>4 DEF Next, MeshNext
  <2> QED BY <2>3, <2>4, <2>5, <2>7
<1> QED BY <1>1, MeshInvariant, PTL DEF Spec, RemovesTheChosenNodes
=============================================================================
