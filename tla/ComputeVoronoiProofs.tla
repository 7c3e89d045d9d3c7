------------------------ MODULE ComputeVoronoiProofs ------------------------
(***************************************************************************)
(* The queue protocol and the registration of vertices are right for every *)
(* finite diagram and every number of branches and workers; so are the     *)
(* division of the cells among the branches and their numberings.          *)
(*                                                                         *)
(* The inductive invariant Inv has five parts: the types; what a worker's  *)
(* position says about its local variables; the queue protocol; the lists; *)
(* the count of new vertices.  Each part has a lemma *Stays for the many   *)
(* steps that do not concern it.                                           *)
(***************************************************************************)
EXTENDS ComputeVoronoi, FiniteSetTheorems, TLAPS

-----------------------------------------------------------------------------
(* The division of the cells and the renumberings of the branches are      *)
(* right for every mesh size, range and number of mesh threads.            *)

\* Division with remainder.
LEMMA Division ==
  ASSUME NEW n \in Nat, NEW d \in Nat \ {0}
  PROVE  n \div d \in Nat /\ n % d \in 0 .. d - 1 /\ n = d * (n \div d) + (n % d)
OBVIOUS

\* The sizes of the blocks.
LEMMA Blocks ==
  /\ TotalCells \in Nat \ {0}
  /\ BranchCount \in 1 .. TotalCells
  /\ BaseLength \in Nat \ {0}
  /\ Remainder \in 0 .. BranchCount - 1
  /\ TotalCells = BranchCount * BaseLength + Remainder
<1>1. TotalCells \in Nat \ {0} /\ BranchCount \in 1 .. TotalCells
  BY BranchAssumption DEF TotalCells, BranchCount
<1>2. /\ BaseLength \in Nat /\ Remainder \in 0 .. BranchCount - 1
      /\ TotalCells = BranchCount * BaseLength + Remainder
  BY <1>1, Division DEF BaseLength, Remainder
<1>3. BaseLength # 0
  BY <1>1, <1>2
<1> QED BY <1>1, <1>2, <1>3

\* The first and the last cell of a block.
LEMMA BlockTypes ==
  ASSUME NEW b \in Branches
  PROVE  /\ b \in Nat /\ CellCount(b) \in Nat \ {0} /\ FirstCell(b) \in Nat
         /\ LastCell(b) \in Nat
         /\ LastCell(b) = FirstCell(b) + CellCount(b) - 1
<1>1. b \in Nat BY Blocks DEF Branches
<1>2. b * BaseLength \in Nat BY <1>1, Blocks
<1> QED BY <1>1, <1>2, Blocks DEF CellCount, FirstCell, LastCell

\* The blocks follow one another without a gap or an overlap.
LEMMA BlocksAreAdjacent ==
  /\ FirstCell(0) = 0
  /\ LastCell(BranchCount - 1) = RangeEnd
  /\ \A b, c \in Branches : b < c => LastCell(b) < FirstCell(c)
<1>1. FirstCell(0) = 0
  BY Blocks DEF FirstCell
<1>2. LastCell(BranchCount - 1) = RangeEnd
  <2>1. (BranchCount - 1) * BaseLength = BranchCount * BaseLength - BaseLength
    BY Blocks
  <2> QED BY <2>1, Blocks, BranchAssumption DEF FirstCell, LastCell, CellCount, TotalCells
<1>3. ASSUME NEW b \in Branches, NEW c \in Branches, b < c
      PROVE  LastCell(b) < FirstCell(c)
  <2>1. b \in Nat /\ c \in Nat BY BlockTypes
  <2>2. PICK d \in Nat : c = b + 1 + d
    <3>1. c - b - 1 \in Nat /\ c = b + 1 + (c - b - 1) BY <2>1, <1>3
    <3> QED BY <3>1
  <2>3. c * BaseLength = b * BaseLength + BaseLength + d * BaseLength
    BY <2>1, <2>2, Blocks
  <2>4. d * BaseLength \in Nat /\ b * BaseLength \in Nat
    BY <2>1, <2>2, Blocks
  <2>5. c * BaseLength \in Nat BY <2>1, Blocks
  <2>6. c * BaseLength >= b * BaseLength + BaseLength BY <2>3, <2>4, Blocks
  <2> HIDE <2>2, <2>3
  <2> QED BY <1>3, <2>1, <2>4, <2>5, <2>6, Blocks DEF FirstCell, LastCell, CellCount
<1> QED BY <1>1, <1>2, <1>3

\* Every block ends in the range.
LEMMA BlocksEndInRange ==
  ASSUME NEW b \in Branches
  PROVE  LastCell(b) <= RangeEnd
<1>1. CASE b = BranchCount - 1
  BY <1>1, BlocksAreAdjacent, BranchAssumption
<1>2. CASE b # BranchCount - 1
  <2>1. BranchCount - 1 \in Branches /\ b < BranchCount - 1
    BY <1>2, Blocks DEF Branches
  <2>2. LastCell(b) < FirstCell(BranchCount - 1)
    BY <2>1, BlocksAreAdjacent
  <2>3. FirstCell(BranchCount - 1) <= RangeEnd
    BY <2>1, BlockTypes, BlocksAreAdjacent
  <2> QED
    BY <2>1, <2>2, <2>3, BlockTypes, BranchAssumption
<1> QED
  BY <1>1, <1>2

\* Every cell of the range belongs to the block of exactly one branch
\* (compute_voronoi.hpp 387-443).
THEOREM BranchesPartitionCells ==
  \A g \in 0 .. RangeEnd :
    \E b \in Branches : /\ g \in FirstCell(b) .. LastCell(b)
                        /\ \A c \in Branches :
                             g \in FirstCell(c) .. LastCell(c) => c = b
<1> SUFFICES ASSUME NEW g \in 0 .. RangeEnd
             PROVE  \E b \in Branches : /\ g \in FirstCell(b) .. LastCell(b)
                                        /\ \A c \in Branches :
                                             g \in FirstCell(c) .. LastCell(c) => c = b
  OBVIOUS
<1>t. g \in Nat /\ g < TotalCells
  BY BranchAssumption DEF TotalCells
<1>1. \E b \in Branches : g \in FirstCell(b) .. LastCell(b)
  <2> DEFINE Long == BaseLength + 1
             Wide == Remainder * Long
  <2>0. /\ Long \in Nat \ {0} /\ Wide \in Nat /\ Wide = Remainder * BaseLength + Remainder
    BY Blocks
  <2>1. CASE g < Wide
    <3> DEFINE b == g \div Long
               r == g % Long
    <3>1. b \in Nat /\ r \in 0 .. Long - 1 /\ g = Long * b + r
      BY <1>t, <2>0, Division
    <3> HIDE DEF b, r
    <3>2. b < Remainder
      <4>1. SUFFICES ASSUME b >= Remainder PROVE FALSE BY <3>1, Blocks
      <4>2. PICK d \in Nat : b = Remainder + d
        <5>1. b - Remainder \in Nat /\ b = Remainder + (b - Remainder) BY <3>1, <4>1, Blocks
        <5> QED BY <5>1
      <4>3. Long * b = Wide + Long * d BY <4>2, <2>0, Blocks
      <4>4. Long * d \in Nat BY <4>2, <2>0
      <4>5. Long * b >= Wide BY <4>3, <4>4, <2>0
      <4>6. Long * b \in Nat BY <3>1, <2>0
      <4> QED BY <4>5, <4>6, <3>1, <2>1, <2>0, <1>t
    <3>3. b \in Branches BY <3>1, <3>2, Blocks DEF Branches
    <3>4. b * BaseLength + b = Long * b BY <3>1, Blocks
    <3>5. b * BaseLength \in Nat BY <3>1, Blocks
    <3>6. g \in FirstCell(b) .. LastCell(b)
      BY <3>1, <3>2, <3>4, <3>5, Blocks, <1>t DEF FirstCell, LastCell, CellCount
    <3> QED BY <3>3, <3>6
  <2>2. CASE g >= Wide
    <3> DEFINE rest == g - Wide
               d == rest \div BaseLength
               r == rest % BaseLength
               b == Remainder + d
    <3>1. rest \in Nat /\ g = Wide + rest BY <2>0, <2>2, <1>t
    <3> HIDE DEF rest
    <3>2. d \in Nat /\ r \in 0 .. BaseLength - 1 /\ rest = BaseLength * d + r
      BY <3>1, Blocks, Division
    <3> HIDE DEF d, r
    <3>3. b \in Nat /\ b >= Remainder BY <3>2, Blocks
    <3>4. b * BaseLength = Remainder * BaseLength + BaseLength * d BY <3>2, Blocks
    <3>5. g = b * BaseLength + Remainder + r
      BY <3>1, <3>2, <3>4, <2>0, Blocks
    <3> HIDE DEF b
    <3>6. b < BranchCount
      <4>1. SUFFICES ASSUME b >= BranchCount PROVE FALSE BY <3>3, Blocks
      <4>2. PICK x \in Nat : b = BranchCount + x
        <5>1. b - BranchCount \in Nat /\ b = BranchCount + (b - BranchCount)
          BY <3>3, <4>1, Blocks
        <5> QED BY <5>1
      <4>3. b * BaseLength = BranchCount * BaseLength + x * BaseLength BY <4>2, Blocks
      <4>4. x * BaseLength \in Nat /\ BranchCount * BaseLength \in Nat BY <4>2, Blocks
      <4>5. b * BaseLength >= BranchCount * BaseLength BY <4>3, <4>4
      <4>6. b * BaseLength \in Nat BY <3>3, Blocks
      <4> QED BY <4>4, <4>5, <4>6, <3>5, <3>2, <1>t, Blocks
    <3>7. b \in Branches BY <3>3, <3>6, Blocks DEF Branches
    <3>8. b * BaseLength \in Nat BY <3>3, Blocks
    <3>9. g \in FirstCell(b) .. LastCell(b)
      BY <3>2, <3>3, <3>5, <3>8, Blocks, <1>t DEF FirstCell, LastCell, CellCount
    <3> QED BY <3>7, <3>9
  <2> QED BY <2>0, <2>1, <2>2, <1>t
<1>2. PICK b \in Branches : g \in FirstCell(b) .. LastCell(b)
  BY <1>1
<1>3. ASSUME NEW c \in Branches, g \in FirstCell(c) .. LastCell(c)
      PROVE  c = b
  <2>1. ~(b < c) /\ ~(c < b)
    BY <1>2, <1>3, <1>t, BlocksAreAdjacent, BlockTypes
  <2> QED BY <2>1, BlockTypes
<1> QED BY <1>2, <1>3

\* A branch's view of the generators is a bijection, SwitchView's two functions
\* are inverse to each other (mesh/detail/hvview.hpp 169-187), and the branch's
\* own cells are the first ones in its numbering: the smallest generator of a
\* signature is one of them whenever there is one.
THEOREM ViewIsBijective ==
  \A b \in Branches :
    \A i \in 0 .. NodeCount - 1 :
      /\ MapIndex(b, i) \in 0 .. NodeCount - 1
      /\ UnmapIndex(b, i) \in 0 .. NodeCount - 1
      /\ UnmapIndex(b, MapIndex(b, i)) = i
      /\ MapIndex(b, UnmapIndex(b, i)) = i
      /\ MapIndex(b, i) < CellCount(b) <=> i \in FirstCell(b) .. LastCell(b)
<1> TAKE b \in Branches
<1> TAKE i \in 0 .. NodeCount - 1
<1>1. LastCell(b) <= RangeEnd BY BlocksEndInRange
<1>2. LastCell(b) < NodeCount BY <1>1, BlockTypes, BranchAssumption
<1> QED BY <1>2, BlockTypes, BranchAssumption DEF MapIndex, UnmapIndex

-----------------------------------------------------------------------------
(* The inductive invariant.                                                *)

PCs == {"idle", "next", "pop", "edges", "claim", "proto", "push", "store", "list",
        "broadcast"}
Phases == {"retire", "wipe", "open", "iterate", "descend", "explore", "done", "failed"}
Busy        == {"iterate", "descend", "explore"}    \* phases with running workers
Calling     == {"claim", "proto", "push"}           \* in queue_vertex()
Registering == Calling \cup {"store", "list", "broadcast"}

MeshTypes ==
  /\ stored \in SUBSET Vertices /\ Known \subseteq stored
  /\ lists \in [Ordinary -> SUBSET Vertices]
  /\ dirty \in SUBSET Ordinary
  /\ infinite \subseteq UNION {EdgesOf(v) : v \in Vertices}
  /\ newVertices \in Nat

BranchTypes ==
  /\ phase \in [Branches -> Phases]
  /\ cell \in [Branches -> Nat] /\ upcoming \in [Branches -> Nat]
  /\ published \in [Branches -> BOOLEAN] /\ consumed \in [Branches -> BOOLEAN]
  /\ \A b \in Branches : cell[b] < CellCount(b) /\ upcoming[b] <= CellCount(b)

QueueTypes ==
  /\ pending \in [Branches -> SUBSET SUBSET Nat]
  /\ queue \in [Branches -> Seq(SUBSET Nat)]
  /\ claimed \in [Branches -> SUBSET SUBSET Nat]
  /\ prototype \in [Branches -> Workers \cup {NoWorker}]
  /\ \A b \in Branches : /\ pending[b] \subseteq Diagram(b)
                         /\ claimed[b] \subseteq Diagram(b)
                         /\ ToSet(queue[b]) \subseteq claimed[b]

EdgeTypes ==
  /\ DOMAIN edges = Branches
  /\ \A b \in Branches : \A e \in DOMAIN edges[b] :
       edges[b][e] \in Seq(Nat) /\ Len(edges[b][e]) \in 1 .. 2

\* What the position of a worker says about its local variables.
Consistent(w, p, f) ==
  /\ p \in PCs /\ f \in Frames
  /\ f.rest \subseteq Branches \ {Own(w)}
  /\ f.left \subseteq f.origin
  /\ f.origin \in Diagram(Own(w)) \cup {None}
  /\ p \in Calling => f.task \in Diagram(f.at)
  /\ p \in Registering => f.sigma \in Diagram(Own(w))
  /\ f.fresh => p \in {"list", "broadcast"} \/ (p \in Calling /\ f.at # Own(w))
  /\ p = "idle" => f.origin = None

WorkersAreConsistent ==
  /\ DOMAIN pc = Workers /\ DOMAIN frame = Workers
  /\ \A w \in Workers : Consistent(w, pc[w], frame[w])

CrewsAreJoined ==
  \A w \in Workers : phase[Own(w)] \notin Busy => pc[w] = "idle"

\* The queue protocol.
IsInside(w) == pc[w] \in {"proto", "push"}

TasksFitCells ==
  /\ \A w \in Workers : IsInside(w) =>
       /\ frame[w].arg = cell[frame[w].at]
       /\ frame[w].arg \in frame[w].task
       /\ frame[w].task \in claimed[frame[w].at]
  /\ \A b \in Branches : \A v \in ToSet(queue[b]) : cell[b] \in v
  /\ \A w \in Workers : frame[w].origin # None => frame[w].origin \in claimed[Own(w)]

TasksAreAlone ==
  \A w \in Workers : IsInside(w) =>
    /\ frame[w].task \notin ToSet(queue[frame[w].at])
    /\ \A x \in Workers :
         /\ x # w /\ IsInside(x) /\ frame[x].at = frame[w].at
              => frame[x].task # frame[w].task
         /\ Own(x) = frame[w].at /\ frame[x].origin # None
              => frame[x].origin # frame[w].task

\* The lists: a stored vertex is listed, or one worker is still listing it.
Listed(v) ==
  \A g \in v \cap Ordinary : v \in lists[g] /\ (v \notin Known => g \in dirty)

ListedBy(w, v) ==
  /\ pc[w] = "list" /\ frame[w].fresh
  /\ ToMesh(Own(w), frame[w].sigma) = v
  /\ \A g \in v \cap Ordinary : v \in lists[g] \/ g \in frame[w].unlisted

ListsInv ==
  /\ \A g \in Ordinary : lists[g] \subseteq stored
  /\ \A w \in Workers : pc[w] = "list" => ToMesh(Own(w), frame[w].sigma) \in stored
  /\ \A v \in stored : Listed(v) \/ \E w \in Workers : ListedBy(w, v)

\* The count: what is stored and not counted is carried by a worker.
Carriers == {w \in Workers : frame[w].fresh}

CountInv ==
  /\ IsFiniteSet(Carriers)
  /\ Cardinality(stored \ Known) = newVertices + Cardinality(Carriers)

Types == MeshTypes /\ BranchTypes /\ QueueTypes /\ EdgeTypes
Workings == WorkersAreConsistent /\ CrewsAreJoined
Queueings == TasksFitCells /\ TasksAreAlone
Shapes    == pc = [w \in Workers |-> pc[w]] /\ frame = [w \in Workers |-> frame[w]]
Inv == Types /\ Shapes /\ Workings /\ Queueings /\ ListsInv /\ CountInv

-----------------------------------------------------------------------------
(* Numbers, sets and renumberings *)

\* Every nonempty set of naturals has a smallest element: among the initial
\* segments that end in it, one is minimal for inclusion.
LEMMA MinIsLeast ==
  ASSUME NEW S \in SUBSET Nat, S # {}
  PROVE  Min(S) \in S /\ \A y \in S : Min(S) <= y
<1> DEFINE Below == {0 .. n : n \in S}
<1>1. Below \subseteq FiniteSubsetsOf(Nat) /\ Below # {}
  <2>1. \A n \in S : IsFiniteSet(0 .. n)
    BY FS_Interval
  <2>2. \A n \in S : 0 .. n \in SUBSET Nat
    OBVIOUS
  <2>3. \A n \in S : 0 .. n \in FiniteSubsetsOf(Nat)
    BY <2>1, <2>2 DEF FiniteSubsetsOf
  <2>4. Below # {}
    OBVIOUS
  <2>5. Below \subseteq FiniteSubsetsOf(Nat)
    BY <2>3
  <2> QED
    BY <2>4, <2>5
<1> HIDE DEF Below
<1>2. \E x \in Below : \A y \in Below : ~(<<y, x>> \in StrictSubsetOrdering(Nat))
  BY <1>1, FS_StrictSubsetOrderingWellFounded, WFMin
<1>3. PICK n \in S : \A m \in S : ~(<<0 .. m, 0 .. n>> \in StrictSubsetOrdering(Nat))
  BY <1>2 DEF Below
<1>4. \A m \in S : n <= m
  <2> SUFFICES ASSUME NEW m \in S, m < n
               PROVE  FALSE
    OBVIOUS
  <2>1. /\ 0 .. m \subseteq 0 .. n /\ n \in 0 .. n /\ n \notin 0 .. m
        /\ 0 .. n \subseteq Nat
    OBVIOUS
  <2>2. 0 .. m # 0 .. n
    BY <2>1
  <2>3. 0 .. m \in SUBSET Nat /\ 0 .. n \in SUBSET Nat
    BY <2>1
  <2>4. <<0 .. m, 0 .. n>> \in StrictSubsetOrdering(Nat)
    BY <2>1, <2>2, <2>3 DEF StrictSubsetOrdering
  <2> QED
    BY <1>3, <2>4
<1>5. \E x \in S : \A y \in S : x <= y
  BY <1>4
<1> QED
  BY <1>5 DEF Min

\* The operations on the slots of a queue.
LEMMA QueueOperations ==
  ASSUME NEW q \in Seq(SUBSET Nat), NEW v \in SUBSET Nat
  PROVE  /\ Append(q, v) \in Seq(SUBSET Nat) /\ ToSet(Append(q, v)) = ToSet(q) \cup {v}
         /\ q # <<>> => /\ Front(q) \in Seq(SUBSET Nat) /\ ToSet(Front(q)) \subseteq ToSet(q)
                        /\ Last(q) \in ToSet(q)
<1>1. Append(q, v) \in Seq(SUBSET Nat)
  OBVIOUS
<1>2. ToSet(Append(q, v)) = ToSet(q) \cup {v}
  <2>1. /\ DOMAIN Append(q, v) = 1 .. Len(q) + 1 /\ DOMAIN q = 1 .. Len(q)
        /\ Append(q, v)[Len(q) + 1] = v
        /\ \A i \in 1 .. Len(q) : Append(q, v)[i] = q[i]
    OBVIOUS
  <2>2. Len(q) + 1 \in 1 .. Len(q) + 1 /\ 1 .. Len(q) + 1 = (1 .. Len(q)) \cup {Len(q) + 1}
    OBVIOUS
  <2> QED
    BY <2>1, <2>2 DEF ToSet
<1>3. ASSUME q # <<>>
      PROVE  /\ Front(q) \in Seq(SUBSET Nat) /\ ToSet(Front(q)) \subseteq ToSet(q)
             /\ Last(q) \in ToSet(q)
  BY <1>3 DEF Front, Last, ToSet
<1> QED
  BY <1>1, <1>2, <1>3

\* One generator, from the mesh's numbering to the branch's and back.
Renumbered(b, g) == IF g < NodeCount THEN MapIndex(b, g) ELSE g
Restored(b, g)   == IF g < NodeCount THEN UnmapIndex(b, g) ELSE g

LEMMA Renumbering ==
  ASSUME NEW b \in Branches, NEW g \in Nat
  PROVE  /\ Renumbered(b, g) \in Nat
         /\ Restored(b, Renumbered(b, g)) = g
<1>1. CASE g < NodeCount
  <2>1. g \in 0 .. NodeCount - 1
    BY <1>1, BranchAssumption
  <2>2. /\ MapIndex(b, g) \in 0 .. NodeCount - 1
        /\ UnmapIndex(b, MapIndex(b, g)) = g
    BY <2>1, ViewIsBijective
  <2> QED
    BY <1>1, <2>2, BranchAssumption DEF Renumbered, Restored
<1>2. CASE ~(g < NodeCount)
  BY <1>2 DEF Renumbered, Restored
<1> QED
  BY <1>1, <1>2

LEMMA SignatureRenumbering ==
  ASSUME NEW b \in Branches, NEW v \in SUBSET Nat
  PROVE  /\ ToBranch(b, v) \in SUBSET Nat
         /\ ToMesh(b, ToBranch(b, v)) = v
         /\ \A s \in ToBranch(b, v) :
              \E g \in v : ToMesh(b, ToBranch(b, v) \ {s}) = v \ {g}
<1>1. ToBranch(b, v) = {Renumbered(b, g) : g \in v}
  BY DEF ToBranch, Renumbered
<1>2. \A sigma : ToMesh(b, sigma) = {Restored(b, g) : g \in sigma}
  BY DEF ToMesh, Restored
<1>3. \A g \in v : Renumbered(b, g) \in Nat /\ Restored(b, Renumbered(b, g)) = g
  BY Renumbering
<1>4. ToMesh(b, ToBranch(b, v)) = v
  <2>1. {Restored(b, k) : k \in {Renumbered(b, g) : g \in v}} = v
    BY <1>3
  <2> QED
    BY <1>1, <1>2, <2>1
<1>5. ASSUME NEW s \in ToBranch(b, v)
      PROVE  \E g \in v : ToMesh(b, ToBranch(b, v) \ {s}) = v \ {g}
  <2>1. PICK g \in v : s = Renumbered(b, g)
    BY <1>1, <1>5
  <2>2. \A h \in v : Renumbered(b, h) = s <=> h = g
    BY <2>1, <1>3
  <2>3. {Renumbered(b, h) : h \in v} \ {s} = {Renumbered(b, h) : h \in v \ {g}}
    BY <2>2
  <2>4. {Restored(b, k) : k \in {Renumbered(b, h) : h \in v \ {g}}} = v \ {g}
    BY <1>3
  <2>5. ToMesh(b, ToBranch(b, v) \ {s}) = v \ {g}
    BY <1>1, <1>2, <2>3, <2>4
  <2> QED
    BY <2>5
<1> QED
  BY <1>1, <1>3, <1>4, <1>5

\* What can be done with a signature of the diagram.
LEMMA Signatures ==
  ASSUME NEW b \in Branches, NEW sigma \in Diagram(b)
  PROVE  /\ sigma \in SUBSET Nat
         /\ ToMesh(b, sigma) \in Vertices
         /\ \A c \in Branches : ToBranch(c, ToMesh(b, sigma)) \in Diagram(c)
         /\ \A s \in sigma :
              ToMesh(b, sigma \ {s}) \in UNION {EdgesOf(v) : v \in Vertices}
<1>1. PICK v \in Vertices : sigma = ToBranch(b, v)
  BY DEF Diagram
<1>2. v \in SUBSET Nat
  BY GeometryAssumption
<1>3. sigma \in SUBSET Nat /\ ToMesh(b, sigma) = v
  BY <1>1, <1>2, SignatureRenumbering
<1>4. ASSUME NEW s \in sigma
      PROVE  ToMesh(b, sigma \ {s}) \in UNION {EdgesOf(u) : u \in Vertices}
  <2>1. PICK g \in v : ToMesh(b, sigma \ {s}) = v \ {g}
    BY <1>1, <1>2, <1>4, SignatureRenumbering
  <2>2. v \ {g} \in EdgesOf(v)
    BY DEF EdgesOf
  <2> QED
    BY <2>1, <2>2
<1>5. \A c \in Branches : ToBranch(c, ToMesh(b, sigma)) \in Diagram(c)
  BY <1>3 DEF Diagram
<1> QED
  BY <1>3, <1>4, <1>5

LEMMA WorkerFacts ==
  /\ \A w \in Workers : Own(w) \in Branches
  /\ \A b \in Branches : <<b, 1>> \in Workers /\ Own(<<b, 1>>) = b
  /\ \A b \in Branches : b \in Nat
  /\ 0 \in Branches
<1>1. 0 \in Branches /\ \A b \in Branches : b \in Nat
  BY Blocks DEF Branches
<1>2. 1 \in 1 .. CastThreads
  BY GeometryAssumption
<1> QED
  BY <1>1, <1>2 DEF Workers, Own

-----------------------------------------------------------------------------
(* The steps of a worker keep its local variables consistent *)

\* A step that moves one worker.
OnlyMoves(w) ==
  /\ DOMAIN pc' = DOMAIN pc /\ DOMAIN frame' = DOMAIN frame
  /\ \A x \in Workers \ {w} : pc'[x] = pc[x] /\ frame'[x] = frame[x]

LEMMA WorkerStepsMoveOne ==
  ASSUME NEW w \in Workers, WorkersAreConsistent, WorkerStep(w)
  PROVE  OnlyMoves(w)
BY DEF WorkerStep, OnlyMoves, WorkersAreConsistent, NextVertex, NoNextVertex, PopVertex,
       NothingToPop, ExploreEdge, VertexExplored, ClaimVertex, ClaimFails, TakePrototype,
       QueueEdge, FinishQueueing, StoreVertex, Registered, ListVertex, VertexListed,
       InformBranch, VertexRegistered, stateVars, iterVars, branchVars, meshVars

\* queue_vertex() is called of the worker's own branch.
LEMMA LocalCallIsConsistent ==
  ASSUME NEW w \in Workers, NEW p, NEW f, Consistent(w, p, f), f.fresh = FALSE,
         NEW sigma \in Diagram(Own(w)), BranchTypes
  PROVE  Consistent(w, "claim", QueueLocally(f, Own(w), sigma))
<1>1. Own(w) \in Branches /\ cell[Own(w)] \in Nat
  BY WorkerFacts DEF BranchTypes
<1>2. sigma \in SUBSET Nat
  BY <1>1, Signatures
<1> QED
  BY <1>1, <1>2 DEF Consistent, Frames, QueueLocally, PCs, Calling, Registering

LEMMA EmptyFrameIsConsistent ==
  ASSUME NEW w \in Workers
  PROVE  /\ \A p \in {"idle", "next", "pop"} : Consistent(w, p, EmptyFrame)
         /\ \A p \in {"next", "pop"}, job \in {"iterate", "explore"} :
              Consistent(w, p, [EmptyFrame EXCEPT !.job = job])
BY WorkerFacts, ZenonT(60) DEF Consistent, Frames, EmptyFrame, None, PCs, Calling, Registering

LEMMA WorkerStaysConsistent ==
  ASSUME NEW w \in Workers, Types, WorkersAreConsistent, WorkerStep(w)
  PROVE  Consistent(w, pc'[w], frame'[w])
<1> DEFINE b == Own(w)
           f == frame[w]
<1>b. b \in Branches
  BY WorkerFacts
<1>c. /\ Consistent(w, pc[w], f) /\ DOMAIN pc = Workers /\ DOMAIN frame = Workers
      /\ BranchTypes /\ QueueTypes
  BY DEF WorkersAreConsistent, Types
<1> HIDE DEF b, f
<1>1. CASE NextVertex(w)
  <2>1. PICK v \in pending[Own(w)] : frame' = [frame EXCEPT ![w] = QueueLocally(@, Own(w), v)]
    BY <1>1 DEF NextVertex
  <2>2. v \in Diagram(Own(w))
    BY <1>b, <1>c DEF QueueTypes, b
  <2>3. f.fresh = FALSE
    BY <1>1, <1>c DEF NextVertex, Consistent, Frames, Calling, f
  <2>4. pc'[w] = "claim" /\ frame'[w] = QueueLocally(f, Own(w), v)
    BY <1>1, <1>c, <2>1 DEF NextVertex, f
  <2> QED
    BY <1>c, <2>2, <2>3, <2>4, LocalCallIsConsistent
<1>2. CASE NoNextVertex(w) \/ NothingToPop(w)
  <2>1. pc'[w] = "idle" /\ frame'[w] = EmptyFrame
    BY <1>2, <1>c DEF NoNextVertex, NothingToPop
  <2> QED
    BY <2>1, EmptyFrameIsConsistent
<1>3. CASE VertexExplored(w)
  <2>1. pc'[w] = "pop" /\ frame'[w] = [EmptyFrame EXCEPT !.job = "explore"]
    BY <1>3, <1>c DEF VertexExplored
  <2> QED
    BY <2>1, EmptyFrameIsConsistent
<1>4. CASE PopVertex(w)
  <2> DEFINE v == Last(queue[Own(w)])
             left == OwnedSkips(v, cell[Own(w)])
  <2>1. /\ pc[w] = "pop" /\ pc'[w] = "edges"
        /\ frame'[w] = [f EXCEPT !.origin = v, !.left = left]
    BY <1>4, <1>c DEF PopVertex, f
  <2>2. v \in Diagram(Own(w))
    <3>1. queue[b] \in Seq(SUBSET Nat) /\ queue[b] # <<>>
      BY <1>4, <1>b, <1>c DEF PopVertex, QueueTypes, b
    <3>2. Last(queue[b]) \in ToSet(queue[b])
      BY <3>1, QueueOperations
    <3> QED
      BY <3>2, <1>b, <1>c DEF QueueTypes, b
  <2>3. v \in SUBSET Nat /\ left \subseteq v
    BY <2>2, <1>b, Signatures DEF OwnedSkips, b
  <2> HIDE DEF v, left
  <2>4. left \in SUBSET Nat
    BY <2>3
  <2> QED
    BY <1>c, <2>1, <2>2, <2>3, <2>4 DEF Consistent, Frames, PCs, Calling, Registering
<1>5. CASE ExploreEdge(w)
  <2> DEFINE g == [f EXCEPT !.left = @ \ {Min(f.left)}]
  <2>1. /\ pc[w] = "edges"
        /\ \/ pc'[w] = "edges" /\ frame'[w] = g
           \/ /\ pc'[w] = "claim"
              /\ \E u \in Diagram(Own(w)) : frame'[w] = QueueLocally(g, Own(w), u)
    BY <1>5, <1>c DEF ExploreEdge, f
  <2>2. Consistent(w, "edges", g) /\ g.fresh = FALSE
    BY <2>1, <1>c DEF Consistent, Frames, PCs, Calling, Registering
  <2> HIDE DEF g
  <2>3. ASSUME NEW u \in Diagram(Own(w))
        PROVE  Consistent(w, "claim", QueueLocally(g, Own(w), u))
    BY <2>2, <1>c, LocalCallIsConsistent
  <2> QED
    BY <2>1, <2>2, <2>3
<1>6. CASE ClaimVertex(w)
  <2>1. /\ pc[w] = "claim" /\ pc'[w] \in {"push", "proto"}
        /\ frame'[w] = [f EXCEPT !.todo = OwnedSkips(f.task, f.arg), !.complete = TRUE]
    BY <1>6, <1>c DEF ClaimVertex, f
  <2>2. OwnedSkips(f.task, f.arg) \subseteq f.task
    BY DEF OwnedSkips
  <2> QED
    BY <1>c, <2>1, <2>2 DEF Consistent, Frames, PCs, Calling, Registering
<1>7. CASE ClaimFails(w)
  <2>1. pc[w] = "claim" /\ pc'[w] = AfterQueueing(w) /\ frame'[w] = f
    BY <1>7, <1>c DEF ClaimFails, f
  <2> QED
    BY <1>c, <2>1 DEF AfterQueueing, Consistent, PCs, Calling, Registering, f
<1>8. CASE TakePrototype(w)
  <2>1. pc[w] = "proto" /\ pc'[w] = "push" /\ frame'[w] = f
    BY <1>8, <1>c DEF TakePrototype, f
  <2> QED
    BY <1>c, <2>1 DEF Consistent, PCs, Calling, Registering
<1>9. CASE QueueEdge(w)
  <2> DEFINE done == f.complete /\ AlreadyComplete(f.at, f.task \ {Min(f.todo)})
             todo == f.todo \ {Min(f.todo)}
  <2>1. /\ pc[w] = "push" /\ pc'[w] = "push"
        /\ frame'[w] = [f EXCEPT !.todo = todo, !.complete = done]
    BY <1>9, <1>c DEF QueueEdge, f
  <2>2. done \in BOOLEAN /\ todo \in SUBSET Nat
    BY <1>c DEF Consistent, Frames
  <2> HIDE DEF done, todo
  <2> QED
    BY <1>c, <2>1, <2>2 DEF Consistent, Frames, PCs, Calling, Registering
<1>10. CASE FinishQueueing(w)
  <2>1. pc[w] = "push" /\ pc'[w] = AfterQueueing(w) /\ frame'[w] = f
    BY <1>10, <1>c DEF FinishQueueing, f
  <2> QED
    BY <1>c, <2>1 DEF AfterQueueing, Consistent, PCs, Calling, Registering, f
<1>11. CASE StoreVertex(w)
  <2>1. PICK fresh \in BOOLEAN, toList \in SUBSET Ordinary :
          /\ pc[w] = "store" /\ pc'[w] = "list"
          /\ frame'[w] = [f EXCEPT !.fresh = fresh, !.unlisted = toList, !.rest = Rest(w)]
    <3> DEFINE sigma == ToMesh(Own(w), frame[w].sigma)
               fresh == sigma \notin stored
               toList == IF sigma \in stored THEN {} ELSE sigma \cap Ordinary
    <3>1. fresh \in BOOLEAN /\ toList \in SUBSET Ordinary
      OBVIOUS
    <3>2. /\ pc[w] = "store" /\ pc'[w] = "list"
          /\ frame'[w] = [f EXCEPT !.fresh = fresh, !.unlisted = toList, !.rest = Rest(w)]
      BY <1>11, <1>c DEF StoreVertex, Registered, f
    <3> HIDE DEF fresh, toList
    <3> QED
      BY <3>1, <3>2
  <2> QED
    BY <1>c, <2>1 DEF Rest, Consistent, Frames, PCs, Calling, Registering
<1>12. CASE ListVertex(w)
  <2>1. /\ pc[w] = "list" /\ pc'[w] = "list"
        /\ frame'[w] = [f EXCEPT !.unlisted = @ \ {Min(f.unlisted)}]
    BY <1>12, <1>c DEF ListVertex, f
  <2> QED
    BY <1>c, <2>1 DEF Consistent, Frames, PCs, Calling, Registering
<1>13. CASE VertexListed(w)
  <2>1. pc[w] = "list" /\ pc'[w] = "broadcast" /\ frame'[w] = f
    BY <1>13, <1>c DEF VertexListed, f
  <2> QED
    BY <1>c, <2>1 DEF Consistent, PCs, Calling, Registering
<1>14. CASE InformBranch(w)
  <2> DEFINE target == Min(f.rest)
             task == ToBranch(target, ToMesh(Own(w), f.sigma))
             arg == CurrentCell(target)
  <2>1. /\ pc[w] = "broadcast" /\ pc'[w] = "claim" /\ f.rest # {}
        /\ frame'[w] = [f EXCEPT !.rest = @ \ {target}, !.at = target, !.task = task,
                                 !.arg = arg]
    BY <1>14, <1>c DEF InformBranch, f
  <2>2. f.rest \subseteq Branches \ {Own(w)} /\ f.sigma \in Diagram(Own(w))
    BY <1>c, <2>1 DEF Consistent, Registering
  <2>3. target \in Branches \ {Own(w)}
    <3>1. f.rest \in SUBSET Nat
      BY <2>2, WorkerFacts
    <3> QED
      BY <2>1, <2>2, <3>1, MinIsLeast
  <2>4. task \in Diagram(target)
    BY <2>2, <2>3, <1>b, Signatures DEF b
  <2>5. task \in SUBSET Nat
    BY <2>3, <2>4, Signatures
  <2>6. arg \in Nat \cup {NoCell}
    BY <1>c, <2>3 DEF CurrentCell, BranchTypes
  <2> HIDE DEF target, task, arg
  <2> QED
    BY <1>c, <2>1, <2>3, <2>4, <2>5, <2>6, ZenonT(60)
       DEF Consistent, Frames, PCs, Calling, Registering
<1>15. CASE VertexRegistered(w)
  <2> DEFINE g == [EmptyFrame EXCEPT !.job = "explore", !.origin = f.origin, !.left = f.left]
  <2>1. \/ pc'[w] = "edges" /\ frame'[w] = g
        \/ pc'[w] = "idle" /\ frame'[w] = EmptyFrame
    BY <1>15, <1>c DEF VertexRegistered, f
  <2>2. Consistent(w, "edges", g)
    BY <1>c, WorkerFacts DEF Consistent, Frames, EmptyFrame, None, PCs, Calling, Registering
  <2> QED
    BY <2>1, <2>2, EmptyFrameIsConsistent
<1> QED
  BY <1>1, <1>2, <1>3, <1>4, <1>5, <1>6, <1>7, <1>8, <1>9, <1>10, <1>11, <1>12, <1>13,
     <1>14, <1>15 DEF WorkerStep

-----------------------------------------------------------------------------
(* Positions, local variables and phases *)

LEMMA WorkerStepKeepsWorkings ==
  ASSUME NEW w \in Workers, Types, Workings, WorkerStep(w)
  PROVE  Workings'
<1>1. WorkersAreConsistent'
  BY WorkerStepsMoveOne, WorkerStaysConsistent
     DEF Workings, WorkersAreConsistent, OnlyMoves, Consistent
<1>2. UNCHANGED phase /\ pc[w] # "idle"
  BY DEF WorkerStep, NextVertex, NoNextVertex, PopVertex, NothingToPop, ExploreEdge,
         VertexExplored, ClaimVertex, ClaimFails, TakePrototype, QueueEdge, FinishQueueing,
         StoreVertex, Registered, ListVertex, VertexListed, InformBranch, VertexRegistered,
         branchVars
<1>3. CrewsAreJoined'
  BY <1>2, WorkerStepsMoveOne DEF Workings, CrewsAreJoined, OnlyMoves
<1> QED
  BY <1>1, <1>3 DEF Workings

\* All workers of a branch start a loop.
LEMMA RunningKeepsWorkings ==
  ASSUME NEW b \in Branches, Types, Workings, NEW next \in Busy,
         NEW loop \in {"next", "pop"}, NEW job \in {"iterate", "explore"},
         RunWorkers(b, loop, job), phase' = [phase EXCEPT ![b] = next]
  PROVE  Workings'
<1>1. /\ DOMAIN pc' = Workers /\ DOMAIN frame' = Workers
      /\ \A w \in Workers :
           IF Own(w) = b
           THEN pc'[w] = loop /\ frame'[w] = [EmptyFrame EXCEPT !.job = job]
           ELSE pc'[w] = pc[w] /\ frame'[w] = frame[w]
  BY DEF RunWorkers, Crew
<1>2. \A w \in Workers : Own(w) = b => Consistent(w, pc'[w], frame'[w])
  BY <1>1, EmptyFrameIsConsistent
<1>3. \A w \in Workers : Own(w) # b => Consistent(w, pc'[w], frame'[w])
  BY <1>1 DEF Workings, WorkersAreConsistent
<1>4. WorkersAreConsistent'
  BY <1>1, <1>2, <1>3 DEF WorkersAreConsistent, Consistent
<1>5. \A w \in Workers : phase'[Own(w)] = IF Own(w) = b THEN next ELSE phase[Own(w)]
  BY WorkerFacts DEF Types, BranchTypes
<1>6. CrewsAreJoined'
  BY <1>1, <1>5 DEF Workings, CrewsAreJoined
<1> QED
  BY <1>4, <1>6 DEF Workings

\* The branch goes on while its workers rest.
LEMMA RestingKeepsWorkings ==
  ASSUME NEW b \in Branches, Types, Workings, Joined(b), NEW next,
         UNCHANGED <<pc, frame>>, phase' = [phase EXCEPT ![b] = next]
  PROVE  Workings'
<1>1. WorkersAreConsistent'
  BY DEF Workings, WorkersAreConsistent, Consistent
<1>2. \A w \in Workers : Own(w) # b => phase'[Own(w)] = phase[Own(w)]
  BY WorkerFacts DEF Types, BranchTypes
<1>3. \A w \in Workers : Own(w) = b => pc[w] = "idle"
  BY DEF Joined, Crew
<1>4. CrewsAreJoined'
  BY <1>2, <1>3 DEF Workings, CrewsAreJoined
<1> QED
  BY <1>1, <1>4 DEF Workings

LEMMA BranchStepKeepsWorkings ==
  ASSUME NEW b \in Branches, Types, Workings, BranchStep(b)
  PROVE  Workings'
<1>1. CASE OpenIterator(b)
  BY <1>1, RunningKeepsWorkings DEF OpenIterator, Busy
<1>2. CASE StartExploring(b)
  BY <1>2, RunningKeepsWorkings DEF StartExploring, Busy
<1>3. CASE DescentThrows(b) \/ CompleteCell(b)
  BY <1>3, RestingKeepsWorkings DEF DescentThrows, CompleteCell
<1>4. CASE RetireCell(b) \/ WipeCell(b)
  <2>1. phase[b] \notin Busy
    BY <1>4 DEF RetireCell, WipeCell, Busy
  <2>2. Joined(b)
    BY <2>1 DEF Joined, Crew, Workings, CrewsAreJoined
  <2>3. /\ UNCHANGED <<pc, frame>>
        /\ \E next : phase' = [phase EXCEPT ![b] = next]
    BY <1>4 DEF RetireCell, WipeCell, ClearCell
  <2> QED
    BY <2>2, <2>3, RestingKeepsWorkings
<1>5. CASE Descend(b)
  <2> DEFINE w == <<b, 1>>
  <2>1. w \in Workers /\ Own(w) = b
    BY WorkerFacts
  <2>2. PICK v \in Diagram(b) :
          frame' = [frame EXCEPT ![w] = [QueueLocally(@, b, v) EXCEPT !.job = "descend"]]
    BY <1>5 DEF Descend
  <2>3. pc[w] = "idle" /\ DOMAIN pc = Workers /\ DOMAIN frame = Workers
    BY <1>5, <2>1 DEF Descend, Joined, Crew, Workings, WorkersAreConsistent
  <2>4. Consistent(w, "idle", frame[w]) /\ frame[w].fresh = FALSE
    BY <2>1, <2>3
       DEF Workings, WorkersAreConsistent, Consistent, Frames, PCs, Calling
  <2> HIDE DEF w
  <2>5. Consistent(w, "claim", QueueLocally(frame[w], b, v))
    BY <2>1, <2>4, LocalCallIsConsistent DEF Types
  <2>6. Consistent(w, "claim", [QueueLocally(frame[w], b, v) EXCEPT !.job = "descend"])
    <3> DEFINE f == QueueLocally(frame[w], b, v)
    <3>1. Consistent(w, "claim", f)
      BY <2>5
    <3> HIDE DEF f
    <3>2. Consistent(w, "claim", [f EXCEPT !.job = "descend"])
      BY <3>1 DEF Consistent, Frames, PCs, Calling, Registering
    <3> QED
      BY <3>2 DEF f
  <2>7. /\ pc' = [pc EXCEPT ![w] = "claim"]
        /\ phase' = [phase EXCEPT ![b] = "descend"]
    BY <1>5 DEF Descend, w
  <2>8. WorkersAreConsistent'
    BY <2>1, <2>2, <2>3, <2>6, <2>7
       DEF Workings, WorkersAreConsistent, Consistent
  <2>9. CrewsAreJoined'
    BY <2>1, <2>3, <2>7, WorkerFacts
       DEF Workings, CrewsAreJoined, Busy, Types, BranchTypes
  <2> QED
    BY <2>8, <2>9 DEF Workings
<1> QED
  BY <1>1, <1>2, <1>3, <1>4, <1>5 DEF BranchStep

-----------------------------------------------------------------------------
(* Types *)

LEMMA WorkerStepKeepsMeshTypes ==
  ASSUME NEW w \in Workers, Types, Workings, WorkerStep(w)
  PROVE  MeshTypes'
<1> DEFINE sigma == frame[w].sigma
           v     == ToMesh(Own(w), sigma)
<1>1. MeshTypes /\ Consistent(w, pc[w], frame[w]) /\ Own(w) \in Branches
  BY WorkerFacts DEF Types, Workings, WorkersAreConsistent
<1>2. pc[w] \in Registering => v \in Vertices
  BY <1>1, Signatures DEF Consistent
<1> HIDE DEF v, sigma
<1>3. CASE StoreVertex(w)
  <2>1. v \in Vertices /\ stored' = stored \cup {v}
        /\ UNCHANGED <<lists, dirty, infinite, newVertices>>
    BY <1>2, <1>3 DEF StoreVertex, Registered, Registering, v, sigma
  <2> QED
    BY <1>1, <2>1 DEF MeshTypes
<1>4. CASE ListVertex(w)
  <2>1. /\ v \in Vertices /\ UNCHANGED <<stored, dirty, infinite, newVertices>>
        /\ \E g : lists' = [lists EXCEPT ![g] = @ \cup {v}]
    BY <1>2, <1>4 DEF ListVertex, Registering, v, sigma
  <2> QED
    BY <1>1, <2>1 DEF MeshTypes
<1>5. CASE VertexListed(w)
  <2>1. /\ UNCHANGED <<stored, lists, infinite, newVertices>>
        /\ dirty' \subseteq dirty \cup Ordinary
    BY <1>5 DEF VertexListed
  <2> QED
    BY <1>1, <2>1 DEF MeshTypes
<1>6. CASE ExploreEdge(w)
  <2> DEFINE edge == frame[w].origin \ {Min(frame[w].left)}
  <2>1. /\ UNCHANGED <<stored, lists, dirty, newVertices>> /\ frame[w].left # {}
        /\ infinite' \subseteq infinite \cup {ToMesh(Own(w), edge)}
    BY <1>6 DEF ExploreEdge
  <2>2. frame[w].left \subseteq frame[w].origin /\ frame[w].left \in SUBSET Nat
    BY <1>1 DEF Consistent, Frames
  <2>3. frame[w].origin \in Diagram(Own(w)) /\ Min(frame[w].left) \in frame[w].origin
    BY <1>1, <2>1, <2>2, MinIsLeast DEF Consistent, None
  <2>4. ToMesh(Own(w), edge) \in UNION {EdgesOf(u) : u \in Vertices}
    BY <1>1, <2>3, Signatures
  <2> HIDE DEF edge
  <2> QED
    BY <1>1, <2>1, <2>4 DEF MeshTypes
<1>7. CASE VertexRegistered(w)
  <2>1. /\ UNCHANGED <<stored, lists, dirty, infinite>>
        /\ newVertices' \in {newVertices, newVertices + 1}
    BY <1>1, <1>7 DEF VertexRegistered, MeshTypes
  <2> QED
    BY <1>1, <2>1 DEF MeshTypes
<1>8. CASE UNCHANGED meshVars
  BY <1>1, <1>8 DEF MeshTypes, meshVars
<1> QED
  BY <1>3, <1>4, <1>5, <1>6, <1>7, <1>8
     DEF WorkerStep, NextVertex, NoNextVertex, PopVertex, NothingToPop, VertexExplored,
         ClaimVertex, ClaimFails, TakePrototype, QueueEdge, FinishQueueing, InformBranch

LEMMA WorkerStepKeepsQueueTypes ==
  ASSUME NEW w \in Workers, Types, Workings, TasksFitCells, WorkerStep(w)
  PROVE  QueueTypes'
<1> DEFINE b == Own(w)
           f == frame[w]
<1>1. QueueTypes /\ Consistent(w, pc[w], f) /\ b \in Branches
  BY WorkerFacts DEF Types, Workings, WorkersAreConsistent
<1> HIDE DEF b, f
<1>2. CASE NextVertex(w)
  <2>1. /\ UNCHANGED <<queue, claimed, prototype>>
        /\ \E v : pending' = [pending EXCEPT ![b] = @ \ {v}]
    BY <1>2 DEF NextVertex, stateVars, b
  <2> QED
    BY <1>1, <2>1 DEF QueueTypes
<1>3. CASE PopVertex(w)
  <2>1. /\ UNCHANGED <<pending, claimed, prototype>> /\ queue[b] # <<>>
        /\ queue' = [queue EXCEPT ![b] = Front(@)]
    BY <1>3 DEF PopVertex, iterVars, b
  <2>2. queue[b] \in Seq(SUBSET Nat)
    BY <1>1 DEF QueueTypes
  <2>3. Front(queue[b]) \in Seq(SUBSET Nat) /\ ToSet(Front(queue[b])) \subseteq ToSet(queue[b])
    BY <2>1, <2>2, QueueOperations
  <2> QED
    BY <1>1, <2>1, <2>3 DEF QueueTypes
<1>4. CASE ClaimVertex(w)
  <2>1. /\ UNCHANGED <<pending, queue, prototype>> /\ f.task \in Diagram(f.at)
        /\ claimed' = [claimed EXCEPT ![f.at] = @ \cup {f.task}]
    BY <1>1, <1>4 DEF ClaimVertex, Consistent, Calling, iterVars, f
  <2>2. f.task \in SUBSET Nat
    BY <1>1 DEF Consistent, Frames
  <2> QED
    BY <1>1, <2>1, <2>2 DEF QueueTypes
<1>5. CASE TakePrototype(w)
  <2>1. /\ UNCHANGED <<pending, queue, claimed>>
        /\ prototype' = [prototype EXCEPT ![f.at] = w]
    BY <1>5 DEF TakePrototype, iterVars, f
  <2> QED
    BY <1>1, <2>1 DEF QueueTypes
<1>6. CASE FinishQueueing(w)
  <2>1. /\ UNCHANGED <<pending, claimed>> /\ pc[w] = "push"
        /\ queue' \in {queue, [queue EXCEPT ![f.at] = Append(@, f.task)]}
        /\ prototype' \in {prototype, [prototype EXCEPT ![f.at] = NoWorker]}
    BY <1>1, <1>6 DEF FinishQueueing, iterVars, f, QueueTypes
  <2>2. f.task \in claimed[f.at] /\ f.at \in Branches /\ f.task \in SUBSET Nat
    BY <1>1, <2>1 DEF TasksFitCells, IsInside, Consistent, Frames, f
  <2>3. queue[f.at] \in Seq(SUBSET Nat) /\ ToSet(queue[f.at]) \subseteq claimed[f.at]
    BY <1>1, <2>2 DEF QueueTypes
  <2>4. /\ Append(queue[f.at], f.task) \in Seq(SUBSET Nat)
        /\ ToSet(Append(queue[f.at], f.task)) \subseteq claimed[f.at]
    <3>1. /\ Append(queue[f.at], f.task) \in Seq(SUBSET Nat)
          /\ ToSet(Append(queue[f.at], f.task)) = ToSet(queue[f.at]) \cup {f.task}
      BY <2>2, <2>3, QueueOperations, Zenon
    <3> QED
      BY <2>2, <2>3, <3>1
  <2>5. /\ queue' \in [Branches -> Seq(SUBSET Nat)]
        /\ \A c \in Branches : ToSet(queue'[c]) \subseteq claimed'[c]
    BY <1>1, <2>1, <2>2, <2>4 DEF QueueTypes
  <2> QED
    BY <1>1, <2>1, <2>5 DEF QueueTypes
<1>7. CASE UNCHANGED <<pending, queue, claimed, prototype>>
  BY <1>1, <1>7 DEF QueueTypes
<1> QED
  BY <1>2, <1>3, <1>4, <1>5, <1>6, <1>7
     DEF WorkerStep, NoNextVertex, NothingToPop, ExploreEdge, VertexExplored, ClaimFails,
         QueueEdge, StoreVertex, Registered, ListVertex, VertexListed, InformBranch,
         VertexRegistered, stateVars, iterVars

\* The edge table records one or two tokens for an edge.
LEMMA TokensAreFew ==
  ASSUME NEW old \in Seq(Nat), Len(old) <= 2, NEW token \in Nat, NEW mode \in BOOLEAN
  PROVE  /\ PushedTokens(old, token, mode) \in Seq(Nat)
         /\ Len(PushedTokens(old, token, mode)) \in 1 .. 2
<1> DEFINE new == PushedTokens(old, token, mode)
<1>1. old = <<>> => new = <<token>>
  BY Zenon DEF PushedTokens
<1>2. old # <<>> => new = old \/ (Len(old) = 1 /\ new = Append(old, token))
  BY Zenon DEF PushedTokens
<1>3. old # <<>> => Len(old) \in Nat /\ Len(old) # 0
  OBVIOUS
<1> HIDE DEF new
<1>4. new \in Seq(Nat) /\ Len(new) \in 1 .. 2
  <2>1. <<token>> \in Seq(Nat) /\ Len(<<token>>) \in 1 .. 2
    OBVIOUS
  <2>2. Append(old, token) \in Seq(Nat) /\ Len(Append(old, token)) = Len(old) + 1
    OBVIOUS
  <2>3. Len(old) = 1 => Len(Append(old, token)) \in 1 .. 2
    BY <2>2
  <2>4. old # <<>> => Len(old) \in 1 .. 2
    <3>1. \A n \in Nat : n # 0 /\ n <= 2 => n \in 1 .. 2
      OBVIOUS
    <3> QED
      BY <1>3, <3>1, Zenon
  <2> QED
    BY <1>1, <1>2, <2>1, <2>2, <2>3, <2>4, Zenon
<1> QED
  BY <1>4 DEF new

LEMMA PushEdgeKeepsEdgeTypes ==
  ASSUME EdgeTypes, NEW b \in Branches, NEW e, NEW token \in Nat, NEW mode \in BOOLEAN,
         PushEdgeInto(b, e, token, mode)
  PROVE  EdgeTypes'
<1> DEFINE old == Tokens(b, e)
           new == PushedTokens(old, token, mode)
<1>1. old \in Seq(Nat) /\ Len(old) <= 2
  <2>1. CASE e \in DOMAIN edges[b]
    <3>1. old = edges[b][e]
      BY <2>1, Zenon DEF Tokens
    <3> HIDE DEF old
    <3>2. old \in Seq(Nat) /\ Len(old) \in 1 .. 2
      BY <2>1, <3>1, Zenon DEF EdgeTypes
    <3>3. \A n \in 1 .. 2 : n <= 2
      OBVIOUS
    <3> QED
      BY <3>2, <3>3, Zenon
  <2>2. CASE e \notin DOMAIN edges[b]
    <3>1. old = <<>>
      BY <2>2 DEF Tokens
    <3> HIDE DEF old
    <3>2. <<>> \in Seq(Nat) /\ Len(<<>>) = 0
      OBVIOUS
    <3> QED
      BY <3>1, <3>2
  <2> QED
    BY <2>1, <2>2
<1>2. new \in Seq(Nat) /\ Len(new) \in 1 .. 2
  BY <1>1, TokensAreFew, Zenon
<1> HIDE DEF old, new
<1>3. edges' = [edges EXCEPT ![b] = [f \in DOMAIN edges[b] \cup {e} |->
                                       IF f = e THEN new ELSE edges[b][f]]]
  BY DEF PushEdgeInto, old, new
<1> QED
  BY <1>2, <1>3 DEF EdgeTypes

LEMMA WorkerStepKeepsEdgeTypes ==
  ASSUME NEW w \in Workers, Types, Workings, WorkerStep(w)
  PROVE  EdgeTypes'
<1>1. EdgeTypes /\ BranchTypes /\ Consistent(w, pc[w], frame[w]) /\ Own(w) \in Branches
  BY WorkerFacts DEF Types, Workings, WorkersAreConsistent
<1>2. CASE ExploreEdge(w)
  <2>1. \E e : PushEdgeInto(Own(w), e, cell[Own(w)], TRUE)
    BY <1>2 DEF ExploreEdge
  <2>2. cell[Own(w)] \in Nat
    BY <1>1 DEF BranchTypes
  <2> QED
    BY <1>1, <2>1, <2>2, PushEdgeKeepsEdgeTypes
<1>3. CASE QueueEdge(w)
  <2>1. /\ frame[w].todo # {}
        /\ \E e : PushEdgeInto(frame[w].at, e, Min(frame[w].todo), FALSE)
    BY <1>3 DEF QueueEdge
  <2>2. frame[w].at \in Branches /\ frame[w].todo \in SUBSET Nat
    BY <1>1 DEF Consistent, Frames
  <2>3. Min(frame[w].todo) \in Nat
    BY <2>1, <2>2, MinIsLeast
  <2> QED
    BY <1>1, <2>1, <2>2, <2>3, PushEdgeKeepsEdgeTypes
<1>4. CASE UNCHANGED edges
  BY <1>1, <1>4 DEF EdgeTypes
<1> QED
  BY <1>2, <1>3, <1>4
     DEF WorkerStep, NextVertex, NoNextVertex, PopVertex, NothingToPop, VertexExplored,
         ClaimVertex, ClaimFails, TakePrototype, FinishQueueing, StoreVertex, Registered,
         ListVertex, VertexListed, InformBranch, VertexRegistered, stateVars

LEMMA WorkerStepKeepsTypes ==
  ASSUME NEW w \in Workers, Types, Workings, TasksFitCells, WorkerStep(w)
  PROVE  Types'
<1>1. BranchTypes'
  <2>1. UNCHANGED branchVars /\ consumed' \in {consumed, [consumed EXCEPT ![Own(w)] = TRUE]}
    BY DEF WorkerStep, NextVertex, NoNextVertex, PopVertex, NothingToPop, ExploreEdge,
           VertexExplored, ClaimVertex, ClaimFails, TakePrototype, QueueEdge,
           FinishQueueing, StoreVertex, Registered, ListVertex, VertexListed, InformBranch,
           VertexRegistered, iterVars
  <2>2. BranchTypes
    BY DEF Types
  <2> QED
    BY <2>1, <2>2 DEF BranchTypes, branchVars
<1> QED
  BY <1>1, WorkerStepKeepsMeshTypes, WorkerStepKeepsQueueTypes, WorkerStepKeepsEdgeTypes
     DEF Types

LEMMA BranchStepKeepsTypes ==
  ASSUME NEW b \in Branches, Types, BranchStep(b)
  PROVE  Types'
<1>1. MeshTypes /\ BranchTypes /\ QueueTypes /\ EdgeTypes
  BY DEF Types
<1>2. MeshTypes'
  <2>1. UNCHANGED meshVars
    BY DEF BranchStep, OpenIterator, Descend, DescentThrows, StartExploring, CompleteCell,
           RetireCell, WipeCell, ClearCell
  <2> QED
    BY <1>1, <2>1 DEF MeshTypes, meshVars
<1>3. CASE OpenIterator(b)
  <2> DEFINE seen == {ToBranch(b, v) : v \in lists[UnmapIndex(b, cell[b])]}
  <2>1. /\ UNCHANGED <<cell, published, upcoming, queue, claimed, edges, prototype>>
        /\ phase' = [phase EXCEPT ![b] = "iterate"]
        /\ pending' = [pending EXCEPT ![b] = seen]
        /\ consumed' = [consumed EXCEPT ![b] = FALSE]
    BY <1>3 DEF OpenIterator, stateVars
  <2>2. cell[b] \in 0 .. NodeCount - 1
    <3>1. /\ cell[b] \in Nat /\ cell[b] < CellCount(b)
          /\ FirstCell(b) + CellCount(b) - 1 <= RangeEnd
      BY <1>1, BlocksEndInRange, BlockTypes DEF BranchTypes
    <3> QED
      BY <3>1, BlockTypes, BranchAssumption
  <2>3. UnmapIndex(b, cell[b]) \in Ordinary
    BY <2>2, ViewIsBijective DEF Ordinary
  <2>4. seen \subseteq Diagram(b)
    BY <1>1, <2>3 DEF MeshTypes, Diagram
  <2>5. seen \in SUBSET SUBSET Nat
    BY <2>4, Signatures
  <2> HIDE DEF seen
  <2>6. BranchTypes'
    BY <1>1, <2>1 DEF BranchTypes, Phases
  <2>7. QueueTypes'
    BY <1>1, <2>1, <2>4, <2>5 DEF QueueTypes
  <2>8. EdgeTypes'
    BY <1>1, <2>1 DEF EdgeTypes
  <2> QED
    BY <1>2, <2>6, <2>7, <2>8 DEF Types
<1>4. CASE Descend(b) \/ DescentThrows(b) \/ StartExploring(b) \/ RetireCell(b)
  <2>1. /\ UNCHANGED <<cell, upcoming, consumed, pending, queue, claimed, edges, prototype>>
        /\ \E next \in Phases : phase' = [phase EXCEPT ![b] = next]
        /\ published' \in {published, [published EXCEPT ![b] = FALSE]}
    BY <1>4 DEF Descend, DescentThrows, StartExploring, RetireCell, stateVars, iterVars,
                Phases
  <2> QED
    BY <1>1, <1>2, <2>1 DEF Types, BranchTypes, QueueTypes, EdgeTypes
<1>5. CASE CompleteCell(b)
  <2>1. /\ UNCHANGED <<cell, published, consumed, pending, queue, claimed, edges, prototype>>
        /\ phase' = [phase EXCEPT ![b] = "retire"]
        /\ upcoming' = [upcoming EXCEPT ![b] = cell[b] + 1]
    BY <1>5 DEF CompleteCell, stateVars, iterVars
  <2>2. cell[b] + 1 \in Nat /\ cell[b] + 1 <= CellCount(b)
    BY <1>1, BlockTypes DEF BranchTypes
  <2>3. BranchTypes'
    BY <1>1, <2>1, <2>2 DEF BranchTypes, Phases
  <2> QED
    BY <1>1, <1>2, <2>1, <2>3 DEF Types, QueueTypes, EdgeTypes
<1>6. CASE WipeCell(b)
  <2>1. /\ UNCHANGED <<upcoming, consumed, pending, prototype>>
        /\ queue' = [queue EXCEPT ![b] = <<>>] /\ claimed' = [claimed EXCEPT ![b] = {}]
        /\ edges' = [edges EXCEPT ![b] = [e \in {} |-> <<>>]]
        /\ \E next \in Phases : phase' = [phase EXCEPT ![b] = next]
        /\ published' \in {published, [published EXCEPT ![b] = TRUE]}
        /\ \/ UNCHANGED cell
           \/ upcoming[b] < CellCount(b) /\ cell' = [cell EXCEPT ![b] = upcoming[b]]
    BY <1>6 DEF WipeCell, ClearCell, iterVars, Phases
  <2>2. BranchTypes'
    BY <1>1, <2>1 DEF BranchTypes
  <2>3. QueueTypes'
    BY <1>1, <2>1 DEF QueueTypes, ToSet
  <2>4. EdgeTypes'
    BY <1>1, <2>1 DEF EdgeTypes
  <2> QED
    BY <1>2, <2>2, <2>3, <2>4 DEF Types
<1> QED
  BY <1>3, <1>4, <1>5, <1>6 DEF BranchStep

-----------------------------------------------------------------------------
(* The queue protocol *)

\* Steps that leave queues and claims alone, and only let workers go.
LEMMA QueueStays ==
  ASSUME Queueings, UNCHANGED <<cell, queue, claimed>>,
         \A x \in Workers :
           /\ IsInside(x)' => /\ IsInside(x) /\ frame'[x].at = frame[x].at
                              /\ frame'[x].task = frame[x].task
                              /\ frame'[x].arg = frame[x].arg
           /\ frame'[x].origin \in {frame[x].origin, None}
  PROVE  Queueings'
<1>1. TasksFitCells'
  BY DEF Queueings, TasksFitCells
<1>2. TasksAreAlone'
  BY DEF Queueings, TasksAreAlone
<1> QED
  BY <1>1, <1>2 DEF Queueings

\* A step of a worker that leaves the queues alone, outside of a claim.
LeavesQueues(w) ==
  /\ UNCHANGED <<cell, queue, claimed>>
  /\ IsInside(w)' => /\ IsInside(w) /\ frame'[w].at = frame[w].at
                     /\ frame'[w].task = frame[w].task /\ frame'[w].arg = frame[w].arg
  /\ frame'[w].origin \in {frame[w].origin, None}

LEMMA OtherStepsLeaveQueues ==
  ASSUME NEW w \in Workers, Types, Workings, WorkerStep(w),
         ~PopVertex(w), ~ClaimVertex(w), ~FinishQueueing(w)
  PROVE  LeavesQueues(w)
<1> DEFINE f == frame[w]
<1>1. /\ DOMAIN pc = Workers /\ DOMAIN frame = Workers /\ f \in Frames
  BY DEF Workings, WorkersAreConsistent, Consistent
<1> HIDE DEF f
<1>2. CASE NextVertex(w)
  <2>1. /\ UNCHANGED <<cell, queue, claimed>> /\ pc'[w] = "claim"
        /\ \E v : frame' = [frame EXCEPT ![w] = QueueLocally(@, Own(w), v)]
    BY <1>1, <1>2 DEF NextVertex, branchVars, stateVars
  <2> QED
    BY <1>1, <2>1 DEF LeavesQueues, IsInside, QueueLocally, Frames, f
<1>3. CASE NoNextVertex(w) \/ NothingToPop(w) \/ VertexExplored(w)
  <2>1. /\ UNCHANGED <<cell, queue, claimed>> /\ pc'[w] \in {"idle", "pop"}
        /\ frame'[w].origin = None
    BY <1>1, <1>3 DEF NoNextVertex, NothingToPop, VertexExplored, EmptyFrame, branchVars,
                      stateVars
  <2> QED
    BY <2>1 DEF LeavesQueues, IsInside
<1>4. CASE ExploreEdge(w)
  <2> DEFINE g == [f EXCEPT !.left = @ \ {Min(f.left)}]
  <2>1. /\ UNCHANGED <<cell, queue, claimed>> /\ pc'[w] \in {"edges", "claim"}
        /\ frame'[w] = g \/ \E u : frame'[w] = QueueLocally(g, Own(w), u)
    BY <1>1, <1>4 DEF ExploreEdge, branchVars, f
  <2>2. g.origin = f.origin /\ \A u : QueueLocally(g, Own(w), u).origin = f.origin
    BY <1>1 DEF Frames, QueueLocally
  <2> HIDE DEF g
  <2> QED
    BY <2>1, <2>2 DEF LeavesQueues, IsInside, f
<1>5. CASE ClaimFails(w)
  <2>1. /\ UNCHANGED <<cell, queue, claimed, frame>> /\ pc'[w] = AfterQueueing(w)
    BY <1>1, <1>5 DEF ClaimFails, branchVars, stateVars
  <2> QED
    BY <2>1 DEF LeavesQueues, IsInside, AfterQueueing
<1>6. CASE TakePrototype(w)
  <2>1. UNCHANGED <<cell, queue, claimed, frame>> /\ IsInside(w)
    BY <1>6 DEF TakePrototype, IsInside, branchVars
  <2> QED
    BY <2>1 DEF LeavesQueues
<1>7. CASE QueueEdge(w)
  <2> DEFINE done == f.complete /\ AlreadyComplete(f.at, f.task \ {Min(f.todo)})
             todo == f.todo \ {Min(f.todo)}
  <2>1. /\ UNCHANGED <<cell, queue, claimed>> /\ IsInside(w)
        /\ frame'[w] = [f EXCEPT !.todo = todo, !.complete = done]
    BY <1>1, <1>7 DEF QueueEdge, IsInside, branchVars, f
  <2> HIDE DEF done, todo
  <2>2. /\ frame'[w].at = f.at /\ frame'[w].task = f.task
        /\ frame'[w].arg = f.arg /\ frame'[w].origin = f.origin
    BY <1>1, <2>1 DEF Frames
  <2> QED
    BY <2>1, <2>2 DEF LeavesQueues, f
<1>8. CASE StoreVertex(w) \/ ListVertex(w) \/ VertexListed(w) \/ InformBranch(w)
  <2>1. /\ UNCHANGED <<cell, queue, claimed>>
        /\ pc'[w] \in {"list", "broadcast", "claim"} /\ frame'[w].origin = f.origin
    BY <1>1, <1>8 DEF StoreVertex, Registered, ListVertex, VertexListed, InformBranch,
                      branchVars, stateVars, Frames, f
  <2> QED
    BY <2>1 DEF LeavesQueues, IsInside, f
<1>9. CASE VertexRegistered(w)
  <2> DEFINE g == [EmptyFrame EXCEPT !.job = "explore", !.origin = f.origin, !.left = f.left]
  <2>1. UNCHANGED <<cell, queue, claimed>>
    BY <1>9 DEF VertexRegistered, branchVars, stateVars
  <2>2. \/ pc'[w] = "edges" /\ frame'[w] = g
        \/ pc'[w] = "idle" /\ frame'[w] = EmptyFrame
    BY <1>1, <1>9 DEF VertexRegistered, f
  <2>3. g.origin = f.origin /\ EmptyFrame.origin = None
    BY DEF EmptyFrame
  <2> HIDE DEF g
  <2> QED
    BY <2>1, <2>2, <2>3 DEF LeavesQueues, IsInside, f
<1> QED
  BY <1>2, <1>3, <1>4, <1>5, <1>6, <1>7, <1>8, <1>9 DEF WorkerStep

LEMMA WorkerStepKeepsQueueings ==
  ASSUME NEW w \in Workers, Types, Workings, Queueings, WorkerStep(w)
  PROVE  Queueings'
<1> DEFINE f == frame[w]
<1>1. /\ QueueTypes /\ BranchTypes /\ Own(w) \in Branches
      /\ DOMAIN pc = Workers /\ DOMAIN frame = Workers
      /\ Consistent(w, pc[w], f) /\ f \in Frames
  BY WorkerFacts DEF Types, Workings, WorkersAreConsistent, Consistent
<1>2. OnlyMoves(w)
  BY WorkerStepsMoveOne DEF Workings
<1> HIDE DEF f
<1>3. CASE LeavesQueues(w)
  <2>1. \A x \in Workers \ {w} : pc'[x] = pc[x] /\ frame'[x] = frame[x]
    BY <1>2 DEF OnlyMoves
  <2>2. \A x \in Workers :
           /\ IsInside(x)' => /\ IsInside(x) /\ frame'[x].at = frame[x].at
                              /\ frame'[x].task = frame[x].task
                              /\ frame'[x].arg = frame[x].arg
           /\ frame'[x].origin \in {frame[x].origin, None}
    BY <1>3, <2>1 DEF LeavesQueues, IsInside
  <2> QED
    BY <1>3, <2>2, QueueStays DEF LeavesQueues
<1>4. CASE PopVertex(w)
  <2> DEFINE b == Own(w)
             v == Last(queue[b])
             rest == Front(queue[b])
  <2>1. /\ UNCHANGED <<pending, claimed, cell>> /\ pc[w] = "pop"
        /\ pc' = [pc EXCEPT ![w] = "edges"]
        /\ queue' = [queue EXCEPT ![b] = rest] /\ queue[b] # <<>>
        /\ \E left : frame' = [frame EXCEPT ![w].origin = v, ![w].left = left]
    BY <1>4 DEF PopVertex, iterVars, branchVars
  <2>2. queue[b] \in Seq(SUBSET Nat)
    BY <1>1 DEF QueueTypes
  <2>3. ToSet(rest) \subseteq ToSet(queue[b]) /\ v \in ToSet(queue[b])
    BY <2>1, <2>2, QueueOperations
  <2>4. v \in claimed[b]
    BY <1>1, <2>3 DEF QueueTypes
  <2> HIDE DEF v, rest
  <2>5. \A x \in Workers :
          /\ IsInside(x)' => /\ x # w /\ IsInside(x) /\ frame'[x] = frame[x]
          /\ frame'[x].origin = IF x = w THEN v ELSE frame[x].origin
    BY <1>1, <2>1 DEF IsInside, Frames
  <2>6. \A c \in Branches : ToSet(queue'[c]) \subseteq ToSet(queue[c])
    BY <1>1, <2>1, <2>3 DEF QueueTypes
  <2>7. TasksFitCells'
    BY <2>1, <2>4, <2>5, <2>6, WorkerFacts DEF Queueings, TasksFitCells
  <2>8. TasksAreAlone'
    <3> SUFFICES ASSUME NEW x \in Workers, IsInside(x)'
                 PROVE  /\ frame'[x].task \notin ToSet(queue'[frame'[x].at])
                        /\ \A y \in Workers :
                             /\ y # x /\ IsInside(y)' /\ frame'[y].at = frame'[x].at
                                  => frame'[y].task # frame'[x].task
                             /\ Own(y) = frame'[x].at /\ frame'[y].origin # None
                                  => frame'[y].origin # frame'[x].task
      BY DEF TasksAreAlone
    <3>1. IsInside(x) /\ frame'[x] = frame[x] /\ frame[x].at \in Branches
      BY <2>5 DEF Workings, WorkersAreConsistent, Consistent, Frames
    <3>2. /\ frame[x].task \notin ToSet(queue[frame[x].at])
          /\ \A y \in Workers :
               /\ y # x /\ IsInside(y) /\ frame[y].at = frame[x].at
                    => frame[y].task # frame[x].task
               /\ Own(y) = frame[x].at /\ frame[y].origin # None
                    => frame[y].origin # frame[x].task
      BY <3>1 DEF Queueings, TasksAreAlone
    <3> QED
      BY <2>3, <2>5, <2>6, <3>1, <3>2
  <2> QED
    BY <2>7, <2>8 DEF Queueings
<1>5. CASE ClaimVertex(w)
  <2>1. /\ UNCHANGED <<queue, cell>> /\ pc[w] = "claim"
        /\ claimed' = [claimed EXCEPT ![f.at] = @ \cup {f.task}]
        /\ \E todo : frame' = [frame EXCEPT ![w].todo = todo, ![w].complete = TRUE]
        /\ f.arg = CurrentCell(f.at) /\ f.arg \in f.task /\ f.task \notin claimed[f.at]
    BY <1>5 DEF ClaimVertex, Accepts, branchVars, f
  <2>2. f.at \in Branches /\ f.task \in SUBSET Nat /\ f.arg \in Nat
    BY <1>1, <2>1 DEF Frames
  <2>3. f.arg = cell[f.at]
    BY <2>1, <2>2 DEF CurrentCell, NoCell
  <2>4. /\ \A x \in Workers : /\ frame'[x].at = frame[x].at
                              /\ frame'[x].task = frame[x].task
                              /\ frame'[x].arg = frame[x].arg
                              /\ frame'[x].origin = frame[x].origin
        /\ \A x \in Workers \ {w} : IsInside(x)' => IsInside(x)
    <3>1. \A x \in Workers \ {w} : pc'[x] = pc[x] /\ frame'[x] = frame[x]
      BY <1>2 DEF OnlyMoves
    <3>2. /\ frame'[w].at = f.at /\ frame'[w].task = f.task
          /\ frame'[w].arg = f.arg /\ frame'[w].origin = f.origin
      BY <1>1, <2>1 DEF Frames, f
    <3> QED
      BY <3>1, <3>2 DEF IsInside, f
  <2>5. /\ \A c \in Branches : claimed[c] \subseteq claimed'[c]
        /\ f.task \in claimed'[f.at]
    BY <1>1, <2>1, <2>2 DEF QueueTypes
  <2>6. \A x \in Workers : frame[x].at \in Branches /\ Own(x) \in Branches
    BY WorkerFacts DEF Workings, WorkersAreConsistent, Consistent, Frames
  <2>7. TasksFitCells'
    <3>1. ASSUME NEW x \in Workers, IsInside(x)'
          PROVE  /\ frame[x].arg = cell[frame[x].at] /\ frame[x].arg \in frame[x].task
                 /\ frame[x].task \in claimed'[frame[x].at]
      <4>1. CASE x = w
        BY <2>1, <2>3, <2>5, <4>1 DEF f
      <4>2. CASE x # w
        BY <2>4, <2>5, <2>6, <3>1, <4>2 DEF Queueings, TasksFitCells
      <4> QED
        BY <4>1, <4>2
    <3>2. \A x \in Workers : frame[x].origin # None => frame[x].origin \in claimed'[Own(x)]
      BY <2>5, <2>6 DEF Queueings, TasksFitCells
    <3>3. \A b \in Branches : \A v \in ToSet(queue[b]) : cell[b] \in v
      BY DEF Queueings, TasksFitCells
    <3> QED
      BY <2>1, <2>4, <3>1, <3>2, <3>3 DEF TasksFitCells
  <2>8. ASSUME NEW x \in Workers \ {w}, IsInside(x), frame[x].at = f.at
        PROVE  frame[x].task # f.task
    BY <2>1, <2>8 DEF Queueings, TasksFitCells
  <2>9. ASSUME NEW x \in Workers, Own(x) = f.at, frame[x].origin # None
        PROVE  frame[x].origin # f.task
    BY <2>1, <2>9 DEF Queueings, TasksFitCells
  <2>10. f.task \notin ToSet(queue[f.at])
    BY <1>1, <2>1, <2>2 DEF QueueTypes
  <2>11. TasksAreAlone'
    <3> SUFFICES ASSUME NEW x \in Workers, IsInside(x)'
                 PROVE  /\ frame'[x].task \notin ToSet(queue'[frame'[x].at])
                        /\ \A y \in Workers :
                             /\ y # x /\ IsInside(y)' /\ frame'[y].at = frame'[x].at
                                  => frame'[y].task # frame'[x].task
                             /\ Own(y) = frame'[x].at /\ frame'[y].origin # None
                                  => frame'[y].origin # frame'[x].task
      BY DEF TasksAreAlone
    <3> SUFFICES /\ frame[x].task \notin ToSet(queue[frame[x].at])
                 /\ \A y \in Workers :
                      /\ y # x /\ IsInside(y)' /\ frame[y].at = frame[x].at
                           => frame[y].task # frame[x].task
                      /\ Own(y) = frame[x].at /\ frame[y].origin # None
                           => frame[y].origin # frame[x].task
      BY <2>1, <2>4
    <3>1. CASE x = w
      BY <2>4, <2>8, <2>9, <2>10, <3>1 DEF f
    <3>2. CASE x # w
      BY <2>4, <2>8, <3>2 DEF f, Queueings, TasksAreAlone
    <3> QED
      BY <3>1, <3>2
  <2> QED
    BY <2>7, <2>11 DEF Queueings
<1>6. CASE FinishQueueing(w)
  <2>1. /\ UNCHANGED <<cell, claimed, frame>> /\ pc[w] = "push"
        /\ pc' = [pc EXCEPT ![w] = AfterQueueing(w)]
        /\ queue' \in {queue, [queue EXCEPT ![f.at] = Append(@, f.task)]}
    BY <1>1, <1>6 DEF FinishQueueing, branchVars, f, QueueTypes
  <2>2. IsInside(w) /\ ~IsInside(w)'
    BY <1>1, <2>1 DEF IsInside, AfterQueueing
  <2>3. \A x \in Workers : IsInside(x)' => x # w /\ IsInside(x)
    BY <1>2, <2>2 DEF OnlyMoves, IsInside
  <2>4. f.at \in Branches /\ f.task \in SUBSET Nat
    BY <1>1 DEF Frames
  <2>5. \A c \in Branches : \/ ToSet(queue'[c]) = ToSet(queue[c])
                            \/ c = f.at /\ ToSet(queue'[c]) = ToSet(queue[c]) \cup {f.task}
    <3>1. queue[f.at] \in Seq(SUBSET Nat)
      BY <1>1, <2>4 DEF QueueTypes
    <3>2. ToSet(Append(queue[f.at], f.task)) = ToSet(queue[f.at]) \cup {f.task}
      BY <2>4, <3>1, QueueOperations, Zenon
    <3> QED
      BY <1>1, <2>1, <2>4, <3>2 DEF QueueTypes
  <2>6. cell[f.at] \in f.task
    BY <2>2 DEF Queueings, TasksFitCells, f
  <2>7. TasksFitCells'
    BY <2>1, <2>3, <2>5, <2>6 DEF Queueings, TasksFitCells
  <2>8. \A x \in Workers : x # w /\ IsInside(x) /\ frame[x].at = f.at
                             => frame[x].task # f.task
    BY <2>2 DEF Queueings, TasksAreAlone, f
  <2>9. \A x \in Workers : frame[x].at \in Branches
    BY DEF Workings, WorkersAreConsistent, Consistent, Frames
  <2>10. TasksAreAlone'
    <3> SUFFICES ASSUME NEW x \in Workers, IsInside(x)'
                 PROVE  /\ frame[x].task \notin ToSet(queue'[frame[x].at])
                        /\ \A y \in Workers :
                             /\ y # x /\ IsInside(y)' /\ frame[y].at = frame[x].at
                                  => frame[y].task # frame[x].task
                             /\ Own(y) = frame[x].at /\ frame[y].origin # None
                                  => frame[y].origin # frame[x].task
      BY <2>1 DEF TasksAreAlone
    <3>1. x # w /\ IsInside(x)
      BY <2>3
    <3>2. frame[x].task \notin ToSet(queue'[frame[x].at])
      BY <2>5, <2>8, <2>9, <3>1 DEF Queueings, TasksAreAlone
    <3> QED
      BY <2>3, <3>1, <3>2 DEF Queueings, TasksAreAlone
  <2> QED
    BY <2>7, <2>10 DEF Queueings
<1> QED
  BY <1>3, <1>4, <1>5, <1>6, OtherStepsLeaveQueues

LEMMA BranchStepKeepsQueueings ==
  ASSUME NEW b \in Branches, Types, Workings, Queueings, BranchStep(b)
  PROVE  Queueings'
<1>1. /\ QueueTypes /\ BranchTypes /\ DOMAIN pc = Workers /\ DOMAIN frame = Workers
      /\ \A x \in Workers : /\ Consistent(x, pc[x], frame[x]) /\ frame[x].at \in Branches
                            /\ Own(x) \in Branches
  BY WorkerFacts DEF Types, Workings, WorkersAreConsistent, Consistent, Frames
<1>2. CASE OpenIterator(b) \/ StartExploring(b)
  <2>1. /\ UNCHANGED <<cell, queue, claimed>>
        /\ \E loop \in {"next", "pop"} : \E job : RunWorkers(b, loop, job)
    BY <1>2 DEF OpenIterator, StartExploring, branchVars, stateVars
  <2>2. \A x \in Workers :
          \/ pc'[x] = pc[x] /\ frame'[x] = frame[x]
          \/ pc'[x] \in {"next", "pop"} /\ frame'[x].origin = None
    BY <2>1 DEF RunWorkers, EmptyFrame
  <2> QED
    BY <2>1, <2>2, QueueStays DEF IsInside
<1>3. CASE DescentThrows(b) \/ CompleteCell(b) \/ RetireCell(b)
  <2>1. UNCHANGED <<cell, queue, claimed, pc, frame>>
    BY <1>3 DEF DescentThrows, CompleteCell, RetireCell, stateVars
  <2> QED
    BY <2>1, QueueStays DEF IsInside
<1>4. CASE Descend(b)
  <2> DEFINE w == <<b, 1>>
  <2>1. w \in Workers
    BY WorkerFacts
  <2>2. /\ UNCHANGED <<cell, queue, claimed>> /\ pc' = [pc EXCEPT ![w] = "claim"]
        /\ \E v : frame' = [frame EXCEPT ![w] =
                              [QueueLocally(@, b, v) EXCEPT !.job = "descend"]]
    BY <1>4 DEF Descend, stateVars
  <2>3. frame[w] \in Frames
    BY <1>1, <2>1 DEF Consistent
  <2> HIDE DEF w
  <2>4. pc'[w] = "claim" /\ frame'[w].origin = frame[w].origin
    BY <1>1, <2>1, <2>2, <2>3 DEF QueueLocally, Frames
  <2>5. \A x \in Workers \ {w} : pc'[x] = pc[x] /\ frame'[x] = frame[x]
    BY <1>1, <2>2
  <2>6. \A x \in Workers :
          \/ pc'[x] = pc[x] /\ frame'[x] = frame[x]
          \/ pc'[x] = "claim" /\ frame'[x].origin = frame[x].origin
    BY <2>4, <2>5
  <2> QED
    BY <2>2, <2>6, QueueStays DEF IsInside
<1>5. CASE WipeCell(b)
  <2>1. /\ UNCHANGED <<pc, frame>> /\ Inside(b) = {} /\ phase[b] \notin Busy
        /\ queue' = [queue EXCEPT ![b] = <<>>]
        /\ claimed' = [claimed EXCEPT ![b] = {}]
        /\ cell' \in {cell, [cell EXCEPT ![b] = upcoming[b]]}
    BY <1>1, <1>5 DEF WipeCell, ClearCell, Busy
  <2>2. \A x \in Workers : IsInside(x) => frame[x].at # b
    BY <2>1 DEF Inside, IsInside
  <2>3. \A x \in Workers : Own(x) = b => frame[x].origin = None
    BY <1>1, <2>1 DEF Workings, CrewsAreJoined, Consistent
  <2>4. \A c \in Branches \ {b} : /\ queue'[c] = queue[c] /\ claimed'[c] = claimed[c]
                                  /\ cell'[c] = cell[c]
    BY <1>1, <2>1 DEF QueueTypes, BranchTypes
  <2>5. ToSet(queue'[b]) = {}
    BY <1>1, <2>1 DEF QueueTypes, ToSet
  <2>6. TasksFitCells'
    BY <1>1, <2>1, <2>2, <2>3, <2>4, <2>5 DEF Queueings, TasksFitCells, IsInside
  <2>7. TasksAreAlone'
    BY <1>1, <2>1, <2>2, <2>4 DEF Queueings, TasksAreAlone, IsInside
  <2> QED
    BY <2>6, <2>7 DEF Queueings
<1> QED
  BY <1>2, <1>3, <1>4, <1>5 DEF BranchStep

-----------------------------------------------------------------------------
(* The lists *)

\* Steps that neither store nor list, nor let a worker begin or end listing.
LEMMA ListsStay ==
  ASSUME ListsInv, UNCHANGED <<stored, lists, dirty>>,
         \A x \in Workers : pc[x] = "list" \/ pc'[x] = "list"
                              => pc'[x] = pc[x] /\ frame'[x] = frame[x]
  PROVE  ListsInv'
<1>1. \A v : Listed(v) => Listed(v)'
  BY DEF Listed
<1>2. ASSUME NEW v, NEW x \in Workers, ListedBy(x, v)
      PROVE  ListedBy(x, v)'
  BY <1>2 DEF ListedBy
<1> QED
  BY <1>1, <1>2 DEF ListsInv

LEMMA WorkerStepKeepsLists ==
  ASSUME NEW w \in Workers, Types, Workings, ListsInv, WorkerStep(w)
  PROVE  ListsInv'
<1> DEFINE f == frame[w]
           v == ToMesh(Own(w), f.sigma)
<1>1. /\ MeshTypes /\ Own(w) \in Branches /\ f \in Frames
      /\ DOMAIN pc = Workers /\ DOMAIN frame = Workers /\ Consistent(w, pc[w], f)
  BY WorkerFacts DEF Types, Workings, WorkersAreConsistent, Consistent
<1>2. \A x \in Workers \ {w} : pc'[x] = pc[x] /\ frame'[x] = frame[x]
  BY WorkerStepsMoveOne DEF Workings, OnlyMoves
<1>3. pc[w] \in Registering => v \in Vertices
  BY <1>1, Signatures DEF Consistent
<1> HIDE DEF f, v
<1>4. CASE StoreVertex(w)
  <2>1. /\ pc[w] = "store" /\ pc'[w] = "list" /\ stored' = stored \cup {v}
        /\ UNCHANGED <<lists, dirty>>
    BY <1>1, <1>4 DEF StoreVertex, Registered, v, f
  <2>2. frame'[w].sigma = f.sigma
    BY <1>1, <1>4 DEF StoreVertex, Registered, Frames, f
  <2>3. v \notin stored => frame'[w].fresh /\ frame'[w].unlisted = v \cap Ordinary
    BY <1>1, <1>4 DEF StoreVertex, Registered, Frames, v, f
  <2>4. ASSUME NEW u, u = v, u \notin stored
        PROVE  ListedBy(w, u)'
    BY <2>1, <2>2, <2>3, <2>4 DEF ListedBy, v
  <2>5. \A u : Listed(u) => Listed(u)'
    BY <2>1 DEF Listed
  <2>6. \A u : \A x \in Workers : ListedBy(x, u) => x # w
    BY <2>1 DEF ListedBy
  <2>7. ASSUME NEW u, NEW x \in Workers, ListedBy(x, u)
        PROVE  ListedBy(x, u)'
    BY <1>2, <2>1, <2>6, <2>7 DEF ListedBy
  <2>8. \A u \in stored' : Listed(u)' \/ \E x \in Workers : ListedBy(x, u)'
    BY <2>1, <2>4, <2>5, <2>7 DEF ListsInv
  <2>9. \A x \in Workers : pc'[x] = "list" => ToMesh(Own(x), frame'[x].sigma) \in stored'
    BY <1>2, <2>1, <2>2 DEF ListsInv, v
  <2> QED
    BY <2>1, <2>8, <2>9 DEF ListsInv
<1>5. CASE ListVertex(w)
  <2> DEFINE g == Min(f.unlisted)
  <2>1. /\ pc[w] = "list" /\ f.unlisted # {} /\ UNCHANGED <<stored, dirty, pc>>
        /\ lists' = [lists EXCEPT ![g] = @ \cup {v}]
        /\ frame' = [frame EXCEPT ![w].unlisted = @ \ {g}]
    BY <1>5 DEF ListVertex, v, f
  <2>2. frame'[w].sigma = f.sigma /\ frame'[w].fresh = f.fresh
    BY <1>1, <2>1 DEF Frames, f
  <2>3. frame'[w].unlisted = f.unlisted \ {g}
    BY <1>1, <2>1 DEF Frames, f
  <2> HIDE DEF g
  <2>4. v \in stored
    BY <2>1 DEF ListsInv, v, f
  <2>5. /\ \A h \in Ordinary : lists[h] \subseteq lists'[h] /\ lists'[h] \subseteq stored
        /\ g \in Ordinary => v \in lists'[g]
    BY <1>1, <2>1, <2>4 DEF MeshTypes, ListsInv
  <2>6. \A u : Listed(u) => Listed(u)'
    BY <2>1, <2>5 DEF Listed
  <2>7. ASSUME NEW u, NEW x \in Workers, ListedBy(x, u)
        PROVE  ListedBy(x, u)'
    <3>1. CASE x = w
      <4>1. u = v /\ f.fresh
        BY <2>7, <3>1 DEF ListedBy, v, f
      <4>2. \A h \in v \cap Ordinary : v \in lists[h] \/ h \in f.unlisted
        BY <2>7, <3>1, <4>1 DEF ListedBy, f
      <4>3. \A h \in v \cap Ordinary : v \in lists'[h] \/ h \in frame'[w].unlisted
        BY <2>3, <2>5, <4>2
      <4> QED
        BY <2>1, <2>2, <3>1, <4>1, <4>3 DEF ListedBy, v
    <3>2. CASE x # w
      BY <1>2, <2>1, <2>5, <2>7, <3>2 DEF ListedBy
    <3> QED
      BY <3>1, <3>2
  <2>8. \A u \in stored' : Listed(u)' \/ \E x \in Workers : ListedBy(x, u)'
    BY <2>1, <2>6, <2>7 DEF ListsInv
  <2>9. \A x \in Workers : pc'[x] = "list" => ToMesh(Own(x), frame'[x].sigma) \in stored'
    BY <1>2, <2>1, <2>2 DEF ListsInv, f
  <2> QED
    BY <2>1, <2>5, <2>8, <2>9 DEF ListsInv
<1>6. CASE VertexListed(w)
  <2>1. /\ pc[w] = "list" /\ f.unlisted = {} /\ UNCHANGED <<stored, lists, frame>>
        /\ pc'[w] = "broadcast"
        /\ dirty' = IF f.fresh THEN dirty \cup (v \cap Ordinary) ELSE dirty
    BY <1>1, <1>6 DEF VertexListed, v, f
  <2>2. dirty \subseteq dirty'
    BY <2>1
  <2>3. \A u : Listed(u) => Listed(u)'
    BY <2>1, <2>2 DEF Listed
  <2>4. ASSUME NEW u, ListedBy(w, u)
        PROVE  Listed(u)'
    BY <2>1, <2>4 DEF ListedBy, Listed, v, f
  <2>5. ASSUME NEW u, NEW x \in Workers \ {w}, ListedBy(x, u)
        PROVE  ListedBy(x, u)'
    BY <1>2, <2>1, <2>5 DEF ListedBy
  <2>6. \A u \in stored' : Listed(u)' \/ \E x \in Workers : ListedBy(x, u)'
    BY <2>1, <2>3, <2>4, <2>5 DEF ListsInv
  <2>7. \A x \in Workers : pc'[x] = "list" => ToMesh(Own(x), frame'[x].sigma) \in stored'
    BY <1>2, <2>1 DEF ListsInv
  <2> QED
    BY <2>1, <2>6, <2>7 DEF ListsInv
<1>7. CASE UNCHANGED <<stored, lists, dirty>> /\ pc[w] # "list" /\ pc'[w] # "list"
  BY <1>2, <1>7, ListsStay
<1>8. ASSUME ~StoreVertex(w), ~ListVertex(w), ~VertexListed(w)
      PROVE  UNCHANGED <<stored, lists, dirty>> /\ pc[w] # "list" /\ pc'[w] # "list"
  BY <1>1, <1>8
     DEF WorkerStep, NextVertex, NoNextVertex, PopVertex, NothingToPop, ExploreEdge,
         VertexExplored, ClaimVertex, ClaimFails, TakePrototype, QueueEdge, FinishQueueing,
         InformBranch, VertexRegistered, AfterQueueing, meshVars
<1> QED
  BY <1>4, <1>5, <1>6, <1>7, <1>8

\* The branches start their workers only when these rest.
LEMMA BranchStepsMoveIdlers ==
  ASSUME NEW b \in Branches, Workings, BranchStep(b), NEW x \in Workers
  PROVE  \/ pc'[x] = pc[x] /\ frame'[x] = frame[x]
         \/ pc[x] = "idle" /\ pc'[x] \in {"next", "pop", "claim"} /\ frame'[x].fresh = FALSE
<1>1. /\ DOMAIN pc = Workers /\ DOMAIN frame = Workers
      /\ \A y \in Workers : Consistent(y, pc[y], frame[y]) /\ frame[y] \in Frames
  BY DEF Workings, WorkersAreConsistent, Consistent
<1>2. CASE OpenIterator(b) \/ StartExploring(b)
  <2>1. \E loop \in {"next", "pop"} : \E job : RunWorkers(b, loop, job)
    BY <1>2 DEF OpenIterator, StartExploring
  <2>2. \A y \in Crew(b) : pc[y] = "idle"
    BY <1>2 DEF OpenIterator, StartExploring, Joined, Workings, CrewsAreJoined, Busy, Crew
  <2> QED
    BY <2>1, <2>2 DEF RunWorkers, EmptyFrame
<1>3. CASE Descend(b)
  <2> DEFINE w == <<b, 1>>
  <2>1. w \in Workers /\ Own(w) = b
    BY WorkerFacts
  <2>2. /\ pc' = [pc EXCEPT ![w] = "claim"] /\ pc[w] = "idle"
        /\ \E v : frame' = [frame EXCEPT ![w] =
                              [QueueLocally(@, b, v) EXCEPT !.job = "descend"]]
    BY <1>3, <2>1 DEF Descend, Joined, Crew
  <2>3. frame[w].fresh = FALSE /\ frame[w] \in Frames
    BY <1>1, <2>1, <2>2 DEF Consistent, Calling, Frames
  <2> HIDE DEF w
  <2>4. pc'[w] = "claim" /\ frame'[w].fresh = FALSE
    BY <1>1, <2>1, <2>2, <2>3 DEF QueueLocally, Frames
  <2>5. \A y \in Workers \ {w} : pc'[y] = pc[y] /\ frame'[y] = frame[y]
    BY <1>1, <2>2
  <2> QED
    BY <2>2, <2>4, <2>5
<1>4. CASE DescentThrows(b) \/ CompleteCell(b) \/ RetireCell(b) \/ WipeCell(b)
  BY <1>4 DEF DescentThrows, CompleteCell, RetireCell, WipeCell, ClearCell
<1> QED
  BY <1>2, <1>3, <1>4 DEF BranchStep

LEMMA BranchStepKeepsLists ==
  ASSUME NEW b \in Branches, Workings, ListsInv, BranchStep(b)
  PROVE  ListsInv'
<1>1. UNCHANGED <<stored, lists, dirty>>
  BY DEF BranchStep, OpenIterator, Descend, DescentThrows, StartExploring, CompleteCell,
         RetireCell, WipeCell, ClearCell, meshVars
<1> QED
  BY <1>1, BranchStepsMoveIdlers, ListsStay

-----------------------------------------------------------------------------
(* The count of new vertices *)

LEMMA CountStays ==
  ASSUME CountInv, UNCHANGED <<stored, newVertices>>,
         \A x \in Workers : frame'[x].fresh = frame[x].fresh
  PROVE  CountInv'
<1>1. Carriers' = Carriers
  BY DEF Carriers
<1> QED
  BY <1>1 DEF CountInv

LEMMA WorkerStepKeepsCount ==
  ASSUME NEW w \in Workers, Types, Workings, CountInv, WorkerStep(w)
  PROVE  CountInv'
<1> DEFINE f == frame[w]
           v == ToMesh(Own(w), f.sigma)
<1>1. /\ MeshTypes /\ Own(w) \in Branches /\ f \in Frames
      /\ DOMAIN pc = Workers /\ DOMAIN frame = Workers /\ Consistent(w, pc[w], f)
  BY WorkerFacts DEF Types, Workings, WorkersAreConsistent, Consistent
<1>2. \A x \in Workers \ {w} : frame'[x] = frame[x]
  BY WorkerStepsMoveOne DEF Workings, OnlyMoves
<1> HIDE DEF f, v
<1>3. Cardinality(Carriers) \in Nat /\ newVertices \in Nat /\ IsFiniteSet(Carriers)
  BY <1>1, FS_CardinalityType DEF CountInv, MeshTypes
<1>4. CASE StoreVertex(w)
  <2>1. /\ pc[w] = "store" /\ stored' = stored \cup {v} /\ UNCHANGED newVertices
        /\ frame'[w].fresh = (v \notin stored)
    BY <1>1, <1>4 DEF StoreVertex, Registered, Frames, v, f
  <2>2. f.fresh = FALSE
    BY <1>1, <2>1 DEF Consistent, Calling, Frames
  <2>3. CASE v \in stored
    <3>1. \A x \in Workers : frame'[x].fresh = frame[x].fresh
      BY <1>2, <2>1, <2>2, <2>3 DEF f
    <3>2. stored' = stored
      BY <2>1, <2>3
    <3> QED
      BY <2>1, <3>1, <3>2, CountStays
  <2>4. CASE v \notin stored
    <3>1. Carriers' = Carriers \cup {w} /\ w \notin Carriers
      BY <1>2, <2>1, <2>2, <2>4 DEF Carriers, f
    <3>2. IsFiniteSet(Carriers') /\ Cardinality(Carriers') = Cardinality(Carriers) + 1
      BY <1>3, <3>1, FS_AddElement
    <3>3. stored' \ Known = (stored \ Known) \cup {v} /\ v \notin stored \ Known
      BY <1>1, <2>1, <2>4 DEF MeshTypes
    <3>4. IsFiniteSet(stored \ Known)
      BY <1>1, GeometryAssumption, FS_Subset DEF MeshTypes
    <3>5. Cardinality(stored' \ Known) = Cardinality(stored \ Known) + 1
      BY <3>3, <3>4, FS_AddElement
    <3> QED
      BY <1>3, <2>1, <3>2, <3>5 DEF CountInv
  <2> QED
    BY <2>3, <2>4
<1>5. CASE VertexRegistered(w)
  <2>1. /\ UNCHANGED stored /\ frame'[w].fresh = FALSE
        /\ newVertices' = newVertices + (IF f.fresh THEN 1 ELSE 0)
    <3> DEFINE g == [EmptyFrame EXCEPT !.job = "explore", !.origin = f.origin,
                                       !.left = f.left]
    <3>1. /\ UNCHANGED stored /\ newVertices' = newVertices + (IF f.fresh THEN 1 ELSE 0)
          /\ frame'[w] = g \/ frame'[w] = EmptyFrame
      BY <1>1, <1>5 DEF VertexRegistered, f
    <3>2. g.fresh = FALSE /\ EmptyFrame.fresh = FALSE
      BY DEF EmptyFrame
    <3> HIDE DEF g
    <3> QED
      BY <3>1, <3>2
  <2>2. CASE f.fresh
    <3>1. Carriers' = Carriers \ {w} /\ w \in Carriers
      BY <1>2, <2>1, <2>2 DEF Carriers, f
    <3>2. IsFiniteSet(Carriers') /\ Cardinality(Carriers') = Cardinality(Carriers) - 1
      BY <1>3, <3>1, FS_RemoveElement
    <3>3. newVertices' = newVertices + 1
      BY <2>1, <2>2
    <3> QED
      BY <1>3, <2>1, <3>2, <3>3 DEF CountInv
  <2>3. CASE ~f.fresh
    <3>1. f.fresh = FALSE
      BY <1>1, <2>3 DEF Frames
    <3>2. \A x \in Workers : frame'[x].fresh = frame[x].fresh
      BY <1>2, <2>1, <3>1 DEF f
    <3>3. newVertices' = newVertices
      BY <1>3, <2>1, <2>3
    <3> QED
      BY <2>1, <3>2, <3>3, CountStays
  <2> QED
    BY <2>2, <2>3
<1>6. ASSUME ~StoreVertex(w), ~VertexRegistered(w)
      PROVE  UNCHANGED <<stored, newVertices>>
  BY <1>6
     DEF WorkerStep, NextVertex, NoNextVertex, PopVertex, NothingToPop, ExploreEdge,
         VertexExplored, ClaimVertex, ClaimFails, TakePrototype, QueueEdge, FinishQueueing,
         ListVertex, VertexListed, InformBranch, meshVars
<1>7. ASSUME NoNextVertex(w) \/ NothingToPop(w) \/ VertexExplored(w)
      PROVE  frame'[w].fresh = frame[w].fresh
  <2>1. pc[w] \in {"next", "pop", "edges"} /\ frame'[w].fresh = FALSE
    BY <1>1, <1>7 DEF NoNextVertex, NothingToPop, VertexExplored, EmptyFrame
  <2>2. f.fresh = FALSE
    BY <1>1, <2>1 DEF Consistent, Calling, Frames
  <2> QED
    BY <2>1, <2>2 DEF f
<1>8. ASSUME NextVertex(w)
      PROVE  frame'[w].fresh = frame[w].fresh
  <2>1. \E u : frame' = [frame EXCEPT ![w] = QueueLocally(@, Own(w), u)]
    BY <1>8 DEF NextVertex
  <2> QED
    BY <1>1, <2>1 DEF QueueLocally, Frames, f
<1>9. ASSUME ExploreEdge(w)
      PROVE  frame'[w].fresh = frame[w].fresh
  <2> DEFINE g == [f EXCEPT !.left = @ \ {Min(f.left)}]
  <2>1. frame'[w] = g \/ \E u : frame'[w] = QueueLocally(g, Own(w), u)
    BY <1>1, <1>9 DEF ExploreEdge, f
  <2>2. g.fresh = f.fresh /\ \A u : QueueLocally(g, Own(w), u).fresh = f.fresh
    BY <1>1 DEF Frames, QueueLocally
  <2> HIDE DEF g
  <2> QED
    BY <2>1, <2>2 DEF f
<1>10. ASSUME QueueEdge(w)
       PROVE  frame'[w].fresh = frame[w].fresh
  <2> DEFINE done == f.complete /\ AlreadyComplete(f.at, f.task \ {Min(f.todo)})
             todo == f.todo \ {Min(f.todo)}
  <2>1. frame'[w] = [f EXCEPT !.todo = todo, !.complete = done]
    BY <1>1, <1>10 DEF QueueEdge, f
  <2> HIDE DEF done, todo
  <2> QED
    BY <1>1, <2>1 DEF Frames, f
<1>11. ASSUME \/ PopVertex(w) \/ ClaimVertex(w) \/ ClaimFails(w) \/ TakePrototype(w)
              \/ FinishQueueing(w) \/ ListVertex(w) \/ VertexListed(w) \/ InformBranch(w)
       PROVE  frame'[w].fresh = frame[w].fresh
  <2>1. frame'[w].fresh = f.fresh
    BY <1>1, <1>11 DEF PopVertex, ClaimVertex, ClaimFails, TakePrototype, FinishQueueing,
                       ListVertex, VertexListed, InformBranch, Frames, f
  <2> QED
    BY <2>1 DEF f
<1> QED
  <2>1. ASSUME ~StoreVertex(w), ~VertexRegistered(w)
        PROVE  \A x \in Workers : frame'[x].fresh = frame[x].fresh
    BY <1>2, <1>7, <1>8, <1>9, <1>10, <1>11, <2>1 DEF WorkerStep
  <2> QED
    BY <1>4, <1>5, <1>6, <2>1, CountStays

LEMMA BranchStepKeepsCount ==
  ASSUME NEW b \in Branches, Workings, CountInv, BranchStep(b)
  PROVE  CountInv'
<1>1. UNCHANGED <<stored, newVertices>>
  BY DEF BranchStep, OpenIterator, Descend, DescentThrows, StartExploring, CompleteCell,
         RetireCell, WipeCell, ClearCell, meshVars
<1>2. ASSUME NEW x \in Workers
      PROVE  frame'[x].fresh = frame[x].fresh
  <2>1. pc[x] = "idle" => frame[x].fresh = FALSE
    BY DEF Workings, WorkersAreConsistent, Consistent, Calling, Frames
  <2> QED
    BY <2>1, BranchStepsMoveIdlers
<1> QED
  BY <1>1, <1>2, CountStays

-----------------------------------------------------------------------------
(* The invariant *)

LEMMA InitInv == Init => Inv
<1> SUFFICES ASSUME Init
             PROVE  Inv
  OBVIOUS
<1>1. \A b \in Branches : CellCount(b) \in Nat /\ 0 < CellCount(b)
  BY BlockTypes
<1>2. MeshTypes
  <2>1. stored = Known /\ Known \in SUBSET Vertices /\ newVertices = 0
    BY GeometryAssumption DEF Init
  <2>2. lists \in [Ordinary -> SUBSET Vertices]
    BY <2>1 DEF Init
  <2> QED
    BY <2>1, <2>2 DEF Init, MeshTypes
<1>3. BranchTypes
  BY <1>1 DEF Init, BranchTypes, Phases
<1>4. QueueTypes
  BY DEF Init, QueueTypes, ToSet
<1>5. EdgeTypes
  BY DEF Init, EdgeTypes
<1>6. Shapes
  BY DEF Init, Shapes
<1>7. Workings
  BY EmptyFrameIsConsistent DEF Init, Workings, WorkersAreConsistent, CrewsAreJoined
<1>8. Queueings
  <2>1. \A w \in Workers : ~IsInside(w) /\ frame[w].origin = None
    BY DEF Init, IsInside, EmptyFrame
  <2>2. \A b \in Branches : ToSet(queue[b]) = {}
    BY DEF Init, ToSet
  <2> QED
    BY <2>1, <2>2 DEF Queueings, TasksFitCells, TasksAreAlone
<1>9. ListsInv
  BY DEF Init, ListsInv, Listed
<1>10. CountInv
  <2>1. Carriers = {} /\ stored \ Known = {} /\ newVertices = 0
    BY DEF Init, Carriers, EmptyFrame
  <2> QED
    BY <2>1, FS_EmptySet DEF CountInv
<1> QED
  BY <1>2, <1>3, <1>4, <1>5, <1>6, <1>7, <1>8, <1>9, <1>10 DEF Inv, Types

LEMMA WorkerStepKeepsShapes ==
  ASSUME NEW w \in Workers, Shapes, Workings, WorkerStep(w)
  PROVE  Shapes'
<1>1. DOMAIN pc = Workers /\ DOMAIN frame = Workers
  BY DEF Workings, WorkersAreConsistent
<1>2. \/ UNCHANGED pc
      \/ \E p : pc' = [pc EXCEPT ![w] = p]
  BY DEF WorkerStep, NextVertex, NoNextVertex, PopVertex, NothingToPop, ExploreEdge,
         VertexExplored, ClaimVertex, ClaimFails, TakePrototype, QueueEdge, FinishQueueing,
         StoreVertex, Registered, ListVertex, VertexListed, InformBranch, VertexRegistered
<1>3. \/ UNCHANGED frame
      \/ \E f : frame' = [frame EXCEPT ![w] = f]
  BY DEF WorkerStep, NextVertex, NoNextVertex, PopVertex, NothingToPop, ExploreEdge,
         VertexExplored, ClaimVertex, ClaimFails, TakePrototype, QueueEdge, FinishQueueing,
         StoreVertex, Registered, ListVertex, VertexListed, InformBranch, VertexRegistered,
         stateVars
<1> QED
  BY <1>1, <1>2, <1>3 DEF Shapes

LEMMA BranchStepKeepsShapes ==
  ASSUME NEW b \in Branches, Shapes, Workings, BranchStep(b)
  PROVE  Shapes'
<1>1. DOMAIN pc = Workers /\ DOMAIN frame = Workers
  BY DEF Workings, WorkersAreConsistent
<1>2. \/ UNCHANGED <<pc, frame>>
      \/ \E loop, job : RunWorkers(b, loop, job)
      \/ \E w, f : pc' = [pc EXCEPT ![w] = "claim"] /\ frame' = [frame EXCEPT ![w] = f]
  BY DEF BranchStep, OpenIterator, Descend, DescentThrows, StartExploring, CompleteCell,
         RetireCell, WipeCell, ClearCell
<1> QED
  BY <1>1, <1>2 DEF Shapes, RunWorkers

LEMMA NextKeepsInv == Inv /\ [Next]_vars => Inv'
<1> SUFFICES ASSUME Inv, [Next]_vars
             PROVE  Inv'
  OBVIOUS
<1>1. Types /\ Shapes /\ Workings /\ Queueings /\ ListsInv /\ CountInv /\ TasksFitCells
  BY DEF Inv, Queueings
<1>2. ASSUME NEW w \in Workers, WorkerStep(w)
      PROVE  Inv'
  BY <1>1, <1>2, WorkerStepKeepsTypes, WorkerStepKeepsShapes, WorkerStepKeepsWorkings,
     WorkerStepKeepsQueueings, WorkerStepKeepsLists, WorkerStepKeepsCount DEF Inv
<1>3. ASSUME NEW b \in Branches, BranchStep(b)
      PROVE  Inv'
  BY <1>1, <1>3, BranchStepKeepsTypes, BranchStepKeepsShapes, BranchStepKeepsWorkings,
     BranchStepKeepsQueueings, BranchStepKeepsLists, BranchStepKeepsCount DEF Inv
<1>4. CASE UNCHANGED vars
  <2>1. /\ UNCHANGED <<stored, lists, dirty, infinite, newVertices>>
        /\ UNCHANGED <<phase, cell, published, upcoming, pending, consumed>>
        /\ UNCHANGED <<queue, claimed, edges, prototype, pc, frame>>
    BY <1>4 DEF vars, meshVars, branchVars, iterVars, stateVars
  <2>2. Types'
    BY <1>1, <2>1 DEF Types, MeshTypes, BranchTypes, QueueTypes, EdgeTypes
  <2>3. Shapes'
    BY <1>1, <2>1 DEF Shapes
  <2>4. Workings'
    BY <1>1, <2>1 DEF Workings, WorkersAreConsistent, CrewsAreJoined, Consistent
  <2>5. Queueings' /\ ListsInv' /\ CountInv'
    BY <1>1, <2>1, QueueStays, ListsStay, CountStays DEF IsInside
  <2> QED
    BY <2>2, <2>3, <2>4, <2>5 DEF Inv
<1> QED
  BY <1>2, <1>3, <1>4 DEF Next

LEMMA InvHolds == Spec => []Inv
BY InitInv, NextKeepsInv, PTL DEF Spec

-----------------------------------------------------------------------------
(* What the invariant shows *)

\* All variables keep their types; in particular new_vertices_ never counts more
\* than the diagram has, and a queue only holds claimed tasks.
THEOREM TypeInvariant == Spec => []TypeOK
<1>1. Inv => TypeOK
  <2> SUFFICES ASSUME Inv
               PROVE  TypeOK
    OBVIOUS
  <2>1. MeshTypes /\ BranchTypes /\ QueueTypes /\ EdgeTypes /\ Workings /\ Shapes /\ CountInv
    BY DEF Inv, Types
  <2>2. newVertices \in 0 .. Cardinality(Vertices)
    <3>1. stored \ Known \subseteq Vertices
      BY <2>1 DEF MeshTypes
    <3>2. Cardinality(stored \ Known) <= Cardinality(Vertices)
      BY <3>1, GeometryAssumption, FS_Subset
    <3>3. /\ Cardinality(Carriers) \in Nat /\ Cardinality(Vertices) \in Nat
          /\ Cardinality(stored \ Known) = newVertices + Cardinality(Carriers)
          /\ newVertices \in Nat
      BY <2>1, GeometryAssumption, FS_CardinalityType DEF CountInv, MeshTypes
    <3> QED
      BY <3>2, <3>3
  <2>3. \A b \in Branches :
          /\ cell[b] \in 0 .. CellCount(b) - 1 /\ upcoming[b] \in 0 .. CellCount(b)
          /\ published[b] \in BOOLEAN /\ consumed[b] \in BOOLEAN
    BY <2>1, BlockTypes DEF BranchTypes
  <2>4. \A b \in Branches :
          /\ pending[b] \subseteq Diagram(b) /\ claimed[b] \subseteq Diagram(b)
          /\ ToSet(queue[b]) \subseteq claimed[b]
          /\ \A e \in DOMAIN edges[b] : Len(edges[b][e]) \in 1 .. 2
          /\ prototype[b] \in Workers \cup {NoWorker}
    BY <2>1 DEF QueueTypes, EdgeTypes
  <2>5. pc \in [Workers -> PCs] /\ frame \in [Workers -> Frames]
    BY <2>1 DEF Workings, WorkersAreConsistent, Consistent, Shapes
  <2>6. phase \in [Branches -> Phases] /\ dirty \subseteq Ordinary
    BY <2>1 DEF BranchTypes, MeshTypes
  <2> QED
    BY <2>1, <2>2, <2>3, <2>4, <2>5, <2>6 DEF TypeOK, PCs, Phases, MeshTypes
<1> QED
  BY <1>1, InvHolds, PTL

\* No task of a retired cell reaches the queue of the next one: what
\* queue_vertex() checks under cell_state_lock_ is still true when it pushes,
\* however many branches offer vertices while a branch resets.
THEOREM QueueIsolation == Spec => []QueueBelongsToCell
<1>1. Inv => QueueBelongsToCell
  BY DEF Inv, Queueings, TasksFitCells, IsInside, Inside, QueueBelongsToCell
<1> QED
  BY <1>1, InvHolds, PTL

\* One worker at most records the edges of a signature in a branch, and nobody
\* explores the vertex meanwhile.
THEOREM ExclusiveEdgePass == Spec => []EdgePassIsExclusive
<1>1. Inv => EdgePassIsExclusive
  <2> SUFFICES ASSUME Inv, NEW w \in Workers, NEW x \in Workers, w # x, pc[w] = "push"
               PROVE  /\ pc[x] = "push" /\ frame[x].at = frame[w].at
                           => frame[x].task # frame[w].task
                      /\ frame[x].origin # None /\ Own(x) = frame[w].at
                           => frame[x].origin # frame[w].task
    BY DEF EdgePassIsExclusive
  <2> QED
    BY DEF Inv, Queueings, TasksAreAlone, IsInside
<1> QED
  BY <1>1, InvHolds, PTL

\* A stored vertex whose registration is over is listed for all its generators
\* and has marked them, and nothing is listed that is not stored.
THEOREM ListsAgree == Spec => []ListsFollowStore
<1>1. Inv => ListsFollowStore
  <2> SUFFICES ASSUME Inv
               PROVE  ListsFollowStore
    OBVIOUS
  <2>1. \A v \in stored \ BeingListed : Listed(v)
    BY DEF Inv, ListsInv, ListedBy, BeingListed
  <2>2. \A g \in Ordinary : lists[g] \subseteq stored
    BY DEF Inv, ListsInv
  <2> QED
    BY <2>1, <2>2 DEF ListsFollowStore, Listed
<1> QED
  BY <1>1, InvHolds, PTL

\* When compute() returns, new_vertices_ is the number of vertices it added,
\* however many branches and workers found each of them.
THEOREM ExactCount == Spec => []NewVertexCountIsExact
<1>1. Inv => NewVertexCountIsExact
  <2> SUFFICES ASSUME Inv, Ended
               PROVE  newVertices = Cardinality(stored \ Known)
    BY DEF NewVertexCountIsExact
  <2>1. \A w \in Workers : pc[w] = "idle"
    BY WorkerFacts DEF Ended, Joined, Crew
  <2>2. \A w \in Workers : frame[w].fresh = FALSE
    BY <2>1 DEF Inv, Workings, WorkersAreConsistent, Consistent, Calling, Frames
  <2>3. Carriers = {}
    BY <2>2 DEF Carriers
  <2>4. newVertices \in Nat /\ Cardinality(stored \ Known) = newVertices + Cardinality({})
    BY <2>3 DEF Inv, Types, MeshTypes, CountInv
  <2> QED
    BY <2>4, FS_EmptySet
<1> QED
  BY <1>1, InvHolds, PTL

-----------------------------------------------------------------------------
(***************************************************************************)
(* Why a cell is complete when the branch that computes it leaves it.      *)
(* Progress says that nothing is forgotten: every stored vertex of the     *)
(* current cell is claimed or on its way to the branch, every edge of a    *)
(* claimed vertex is full or will be explored, and both ends of a full     *)
(* edge are claimed or about to be.  When nothing is under way any more,   *)
(* the claimed vertices are closed under the edges the branch owns; the    *)
(* other edges belong to earlier cells.  A cell is connected, so they are  *)
(* all its vertices.                                                       *)
(***************************************************************************)

\* An edge of a vertex.
Without(x, g) == x \ {g}

\* A branch that has left its cell, one that works on a cell, and one that may
\* be told of vertices of its cell.
Left(b)   == phase[b] = "retire" /\ upcoming[b] = cell[b] + 1
Opened(b) == phase[b] \in Busy \/ Left(b)
Active(b) == phase[b] = "open" \/ Opened(b)

\* The vertex a worker holds, and a worker that has stored it and tells the
\* other branches of it.
Mesh(w) == ToMesh(Own(w), frame[w].sigma)
Abroad(w) == \/ pc[w] \in {"list", "broadcast"}
             \/ pc[w] \in Calling /\ frame[w].at # Own(w)

\* What the counters of a worker say of its frame.
JobFits(w) ==
  LET f == frame[w] IN
  /\ pc[w] # "idle" => f.job = phase[Own(w)]
  /\ pc[w] = "next" => f.job = "iterate"
  /\ pc[w] \in {"pop", "edges"} => f.job = "explore"
  /\ pc[w] \in {"store", "list", "broadcast"} => f.job # "iterate"
  /\ f.job # "explore" \/ pc[w] = "pop" => f.origin = None
  /\ pc[w] \in Calling => IF f.at = Own(w)
                          THEN f.task = f.sigma /\ f.arg = cell[f.at] /\ pc[w] # "proto"
                          ELSE f.task = ToBranch(f.at, Mesh(w)) /\ f.job # "iterate"
  /\ Abroad(w) \/ (pc[w] \in Calling /\ f.job = "iterate") => Mesh(w) \in stored
  /\ pc[w] = "list" => f.rest = Rest(w) /\ f.unlisted \subseteq Mesh(w)

\* What the phase of a branch says of its iterator.
PhaseFits(b) ==
  /\ phase[b] \in {"open", "retire"} \cup Busy => published[b]
  /\ phase[b] \in {"open"} \cup Busy => upcoming[b] = cell[b]
  /\ phase[b] = "done" => upcoming[b] = CellCount(b)
  /\ phase[b] # "iterate" \/ (\E w \in Crew(b) : pc[w] = "idle") => pending[b] = {}
  /\ \A u \in pending[b] : cell[b] \in u /\ ToMesh(b, u) \in stored

\* A generator lists its own vertices only.
ListsFit == \A g \in Ordinary : \A v \in lists[g] : g \in v

\* A claimed vertex touches the current cell, and is stored or on its way.
ClaimsFit(b) ==
  /\ \A v \in claimed[b] :
       /\ cell[b] \in v
       /\ \/ ToMesh(b, v) \in stored
          \/ \E w \in Crew(b) : /\ frame[w].sigma = v
                                /\ \/ pc[w] = "push" /\ frame[w].at = b
                                   \/ pc[w] = "store"
  /\ \A w \in Crew(b) : pc[w] = "store" /\ cell[b] \in frame[w].sigma
                           => frame[w].sigma \in claimed[b]

\* A worker about to claim a vertex for the current cell of a branch.
AtClaim(w, b, u) ==
  pc[w] = "claim" /\ frame[w].at = b /\ frame[w].task = u /\ frame[w].arg = cell[b]

\* The vertices an edge ends in.
Ends(b, e) == {u \in Diagram(b) : e \subseteq u}

\* An edge with one token was met from a claimed vertex; one with two tokens has
\* no unknown end, and is stored when it has one end only.
EdgeFits(b, e) ==
  LET t == Tokens(b, e) IN
  /\ cell[b] \in e
  /\ \E v \in Diagram(b) : \E g \in v : e = Without(v, g)
  /\ Len(t) = 1 => t[1] \notin e /\ e \cup {t[1]} \in claimed[b]
  /\ Len(t) = 2 =>
       /\ \A u \in Ends(b, e) : u \in claimed[b] \/ \E w \in Crew(b) : AtClaim(w, b, u)
       /\ (\A u, v \in Ends(b, e) : u = v) => ToMesh(b, e) \in infinite

\* A worker that will explore the edge of v opposite to g, or that is still in
\* the pass of queue_edges() which may queue v.
Awaits(w, b, v, g) ==
  \/ w \in Crew(b) /\ frame[w].origin = v /\ g \in frame[w].left
  \/ /\ IsInside(w) /\ frame[w].at = b /\ frame[w].task = v
     /\ g \in frame[w].todo \/ ~frame[w].complete

\* Both ends of the edge were met.
FullIn(table, e) == e \in DOMAIN table /\ Len(table[e]) = 2

\* Every edge of a claimed vertex is full, or somebody will explore it.
ClaimedAreSeen(b) ==
  \A v \in claimed[b] : \A g \in OwnedSkips(v, cell[b]) :
    \/ FullIn(edges[b], Without(v, g))
    \/ v \in ToSet(queue[b])
    \/ \E w \in Workers : Awaits(w, b, v, g)

\* The edge is in the table of the branch.
Recorded(b, v, g) == Without(v, g) \in DOMAIN edges[b]

\* An explored vertex was recorded before with all its edges.
TourFits(w, b) ==
  /\ frame[w].left \subseteq OwnedSkips(frame[w].origin, cell[b])
  /\ \A g \in OwnedSkips(frame[w].origin, cell[b]) : Recorded(b, frame[w].origin, g)

\* The pass of queue_edges() has recorded what it no longer has to do.
PassFits(w, b) ==
  IsInside(w) /\ frame[w].at = b =>
    /\ frame[w].todo \subseteq OwnedSkips(frame[w].task, cell[b])
    /\ \A g \in OwnedSkips(frame[w].task, cell[b]) \ frame[w].todo :
         Recorded(b, frame[w].task, g)

\* A queued vertex was recorded with all its edges.
QueueFits(b) ==
  \A v \in ToSet(queue[b]) : \A g \in OwnedSkips(v, cell[b]) : Recorded(b, v, g)

\* All tasks of a branch are recorded.
TasksAreRecorded(b) ==
  /\ QueueFits(b)
  /\ \A w \in Crew(b) : TourFits(w, b)
  /\ \A w \in Workers : PassFits(w, b)

\* A worker that will offer the branch the vertex.
Brings(w, b, u) ==
  \/ AtClaim(w, b, u)
  \/ /\ Abroad(w) /\ b \in frame[w].rest
     /\ ToBranch(b, Mesh(w)) = u

\* A stored vertex of the current cell is claimed for it, waits in the snapshot
\* of the iterator, or is on its way to the branch.
NewsArrive(b) ==
  \A u \in Diagram(b) : cell[b] \in u /\ ToMesh(b, u) \in stored =>
    u \in claimed[b] \/ u \in pending[b] \/ \E w \in Workers : Brings(w, b, u)

\* Somebody claims a vertex of the cell, unless the snapshot had none.
CellIsTouched(b) ==
  \/ phase[b] = "iterate" /\ ~consumed[b]
  \/ claimed[b] # {}
  \/ \E w \in Crew(b) : \E u \in Diagram(b) : AtClaim(w, b, u) /\ cell[b] \in u
\* Exploration and retirement start from a claimed vertex.
CellIsEntered(b) ==
  phase[b] \in {"explore", "retire"} => claimed[b] # {}

\* The invariant: nothing that a cell still lacks is forgotten.
Progress ==
  /\ \A w \in Workers : JobFits(w)
  /\ ListsFit
  /\ \A b \in Branches :
       /\ PhaseFits(b)
       /\ Active(b) => /\ ClaimsFit(b) /\ \A e \in DOMAIN edges[b] : EdgeFits(b, e)
                       /\ ClaimedAreSeen(b) /\ TasksAreRecorded(b)
       /\ Opened(b) => NewsArrive(b) /\ CellIsTouched(b) /\ CellIsEntered(b)

\* With one branch: a queue is not left with nobody working on it ...
QueueIsServed ==
  \A b \in Branches : phase[b] \in {"explore", "retire"} /\ queue[b] # <<>> =>
    \E w \in Crew(b) : pc[w] # "idle"
\* ... and the cells left behind are complete.
LeftCellsAreComplete ==
  \A b \in Branches : \A c \in 0 .. upcoming[b] - 1 :
    /\ CellVertices(b, c) \subseteq stored
    /\ {e \in Unbounded : UnmapIndex(b, c) \in e} \subseteq infinite

-----------------------------------------------------------------------------
(* The diagram in the numbering of a branch *)

\* The numbering of a branch and the numbering of the mesh are inverse on the diagram.
LEMMA WayBack ==
  ASSUME NEW b \in Branches
  PROVE  /\ \A sigma \in Diagram(b) : /\ sigma \in SUBSET Nat /\ ToMesh(b, sigma) \in Vertices
                                      /\ ToBranch(b, ToMesh(b, sigma)) = sigma
         /\ \A v \in Vertices : /\ v \in SUBSET Nat /\ ToBranch(b, v) \in Diagram(b)
                                /\ ToMesh(b, ToBranch(b, v)) = v
<1>1. ASSUME NEW v \in Vertices
      PROVE  /\ v \in SUBSET Nat /\ ToBranch(b, v) \in Diagram(b)
             /\ ToMesh(b, ToBranch(b, v)) = v
  BY GeometryAssumption, SignatureRenumbering DEF Diagram
<1>2. ASSUME NEW sigma \in Diagram(b)
      PROVE  /\ sigma \in SUBSET Nat /\ ToMesh(b, sigma) \in Vertices
             /\ ToBranch(b, ToMesh(b, sigma)) = sigma
  BY <1>1, Signatures DEF Diagram
<1> QED
  BY <1>1, <1>2

\* A part of a signature is renumbered to a part of its image.
LEMMA RenumberingIsMonotone ==
  ASSUME NEW b, NEW x, NEW y, x \subseteq y
  PROVE  ToMesh(b, x) \subseteq ToMesh(b, y) /\ ToBranch(b, x) \subseteq ToBranch(b, y)
BY DEF ToMesh, ToBranch

\* The generator of a cell of the branch.
LEMMA CellGenerator ==
  ASSUME NEW b \in Branches, NEW c \in 0 .. CellCount(b) - 1
  PROVE  /\ UnmapIndex(b, c) \in Ordinary
         /\ \A x \in SUBSET Nat : c \in x => UnmapIndex(b, c) \in ToMesh(b, x)
         /\ \A x \in SUBSET Nat : UnmapIndex(b, c) \in x => c \in ToBranch(b, x)
<1>1. c \in 0 .. NodeCount - 1 /\ c < NodeCount
  <2>1. FirstCell(b) + CellCount(b) - 1 <= RangeEnd
    BY BlocksEndInRange, BlockTypes
  <2> QED
    BY <2>1, BlockTypes, BranchAssumption
<1>2. /\ UnmapIndex(b, c) \in 0 .. NodeCount - 1
      /\ MapIndex(b, UnmapIndex(b, c)) = c
  BY <1>1, ViewIsBijective
<1>3. UnmapIndex(b, c) < NodeCount
  BY <1>2, BranchAssumption
<1>4. ASSUME NEW x \in SUBSET Nat, c \in x
      PROVE  UnmapIndex(b, c) \in ToMesh(b, x)
  BY <1>1, <1>4 DEF ToMesh
<1>5. ASSUME NEW x \in SUBSET Nat, UnmapIndex(b, c) \in x
      PROVE  c \in ToBranch(b, x)
  BY <1>2, <1>3, <1>5 DEF ToBranch
<1> QED
  BY <1>2, <1>4, <1>5 DEF Ordinary

\* A vertex touches a cell in both numberings.
LEMMA CellTouches ==
  ASSUME NEW b \in Branches, NEW c \in 0 .. CellCount(b) - 1, NEW u \in Diagram(b)
  PROVE  c \in u <=> UnmapIndex(b, c) \in ToMesh(b, u)
<1>1. /\ u \in SUBSET Nat /\ ToMesh(b, u) \in SUBSET Nat
      /\ ToBranch(b, ToMesh(b, u)) = u
  BY WayBack
<1> QED
  BY <1>1, CellGenerator

\* Dropping a generator commutes with the renumbering.
LEMMA GeneratorDropped ==
  ASSUME NEW b \in Branches, NEW u \in Diagram(b), NEW g \in ToMesh(b, u)
  PROVE  /\ Renumbered(b, g) \in u
         /\ ToMesh(b, Without(u, Renumbered(b, g))) = Without(ToMesh(b, u), g)
         /\ ToBranch(b, Without(ToMesh(b, u), g)) = Without(u, Renumbered(b, g))
<1> DEFINE v == ToMesh(b, u)
<1>1. v \in SUBSET Nat /\ ToBranch(b, v) = u
  BY WayBack
<1>2. g \in v
  OBVIOUS
<1> HIDE DEF v
<1>3. \A x : ToBranch(b, x) = {Renumbered(b, h) : h \in x}
  BY DEF ToBranch, Renumbered
<1>4. \A x : ToMesh(b, x) = {Restored(b, h) : h \in x}
  BY DEF ToMesh, Restored
<1>5. \A h \in v : Renumbered(b, h) \in Nat /\ Restored(b, Renumbered(b, h)) = h
  BY <1>1, Renumbering
<1>6. u = {Renumbered(b, h) : h \in v}
  BY <1>1, <1>3
<1>7. {Renumbered(b, h) : h \in Without(v, g)} = Without(u, Renumbered(b, g))
  BY <1>2, <1>5, <1>6 DEF Without
<1>8. {Restored(b, k) : k \in {Renumbered(b, h) : h \in Without(v, g)}} = Without(v, g)
  BY <1>5 DEF Without
<1>9. Renumbered(b, g) \in u
  BY <1>2, <1>6
<1> QED
  BY <1>3, <1>4, <1>7, <1>8, <1>9 DEF v

\* ... and so does dropping a slot in the numbering of the branch.
LEMMA SlotDropped ==
  ASSUME NEW b \in Branches, NEW u \in Diagram(b), NEW s \in u
  PROVE  \E g \in ToMesh(b, u) : s = Renumbered(b, g)
<1>1. u = ToBranch(b, ToMesh(b, u))
  BY WayBack
<1>2. ToBranch(b, ToMesh(b, u)) = {Renumbered(b, g) : g \in ToMesh(b, u)}
  BY DEF ToBranch, Renumbered
<1> QED
  BY <1>1, <1>2

\* The edges of the diagram end in at most two vertices.
LEMMA TwoEnds ==
  ASSUME NEW b \in Branches, NEW v \in Diagram(b), NEW s \in v
  PROVE  \A x, y \in Ends(b, Without(v, s)) : x # y => Ends(b, Without(v, s)) = {x, y}
<1> DEFINE e == ToMesh(b, Without(v, s))
           mesh == {u \in Vertices : e \subseteq u}
<1>1. IsFiniteSet(mesh) /\ Cardinality(mesh) \in Nat /\ Cardinality(mesh) <= 2
  <2>1. PICK g \in ToMesh(b, v) : e = Without(ToMesh(b, v), g)
    <3>1. PICK g \in ToMesh(b, v) : s = Renumbered(b, g)
      BY SlotDropped
    <3>2. ToMesh(b, Without(v, Renumbered(b, g))) = Without(ToMesh(b, v), g)
      BY <3>1, GeneratorDropped
    <3> QED
      BY <3>1, <3>2
  <2>2. ToMesh(b, v) \in Vertices /\ e \in EdgesOf(ToMesh(b, v))
    BY <2>1, WayBack DEF EdgesOf, Without
  <2>3. mesh \subseteq Vertices
    OBVIOUS
  <2>4. IsFiniteSet(mesh)
    BY <2>3, GeometryAssumption, FS_Subset
  <2> HIDE DEF e
  <2> QED
    BY <2>2, <2>4, GeometryAssumption, FS_CardinalityType
<1> SUFFICES ASSUME NEW x \in Ends(b, Without(v, s)), NEW y \in Ends(b, Without(v, s)), x # y,
                    NEW z \in Ends(b, Without(v, s)), z # x, z # y
             PROVE  FALSE
  OBVIOUS
<1>2. \A u \in Ends(b, Without(v, s)) : /\ ToMesh(b, u) \in mesh
                                 /\ ToBranch(b, ToMesh(b, u)) = u
  BY WayBack, RenumberingIsMonotone DEF Ends
<1> HIDE DEF mesh, e
<1> DEFINE three == {ToMesh(b, x), ToMesh(b, y), ToMesh(b, z)}
<1>3. ToMesh(b, x) # ToMesh(b, y) /\ ToMesh(b, x) # ToMesh(b, z) /\ ToMesh(b, y) # ToMesh(b, z)
  BY <1>2
<1>4. Cardinality(three) = 3
  <2>1. IsFiniteSet({}) /\ Cardinality({}) = 0
    BY FS_EmptySet
  <2>2. /\ IsFiniteSet({ToMesh(b, x)}) /\ Cardinality({ToMesh(b, x)}) = 1
    BY FS_Singleton
  <2> DEFINE two == {ToMesh(b, x)} \cup {ToMesh(b, y)}
  <2>3. IsFiniteSet(two) /\ Cardinality(two) = 2
    <3>1. ToMesh(b, y) \notin {ToMesh(b, x)}
      BY <1>3
    <3> QED
      BY <2>2, <3>1, FS_AddElement
  <2>4. ToMesh(b, z) \notin two
    BY <1>3
  <2>5. three = two \cup {ToMesh(b, z)}
    OBVIOUS
  <2> HIDE DEF two
  <2> QED
    BY <2>3, <2>4, <2>5, FS_AddElement
<1>5. three \subseteq mesh
  BY <1>2
<1> HIDE DEF three
<1>6. Cardinality(three) <= Cardinality(mesh)
  BY <1>1, <1>5, FS_Subset
<1> QED
  BY <1>1, <1>4, <1>6

\* A set of vertices of the cell that is closed under the edges of the cell is
\* empty or all of them.
LEMMA CellIsConnected ==
  ASSUME NEW b \in Branches, NEW c \in 0 .. CellCount(b) - 1,
         NEW S \in SUBSET {u \in Diagram(b) : c \in u}, S # {},
         \A v \in S : \A s \in v \ {c} : Ends(b, Without(v, s)) \subseteq S
  PROVE  S = {u \in Diagram(b) : c \in u}
<1> DEFINE g == UnmapIndex(b, c)
           T == {ToMesh(b, u) : u \in S}
<1>1. g \in Ordinary
  BY CellGenerator
<1>2. T \in SUBSET {v \in Vertices : g \in v} /\ T # {}
  BY CellTouches, WayBack
<1>3. ASSUME NEW u \in S, NEW x \in ToMesh(b, u) \ {g},
             NEW end \in {y \in Vertices : Without(ToMesh(b, u), x) \subseteq y}
      PROVE  end \in T
  <2>1. PICK s \in u : /\ ToBranch(b, Without(ToMesh(b, u), x)) = Without(u, s)
                       /\ ToMesh(b, Without(u, s)) = Without(ToMesh(b, u), x)
    <3>1. u \in Diagram(b) /\ x \in ToMesh(b, u)
      OBVIOUS
    <3> QED
      BY <3>1, GeneratorDropped
  <2>2. s # c
    <3>1. Without(ToMesh(b, u), x) \in SUBSET Nat /\ g \in Without(ToMesh(b, u), x)
      BY <1>2, <1>3, WayBack DEF Without
    <3>2. c \in Without(u, s)
      BY <2>1, <3>1, CellGenerator
    <3> QED
      BY <3>2 DEF Without
  <2>3. /\ ToBranch(b, end) \in Diagram(b) /\ ToMesh(b, ToBranch(b, end)) = end
        /\ Without(u, s) \subseteq ToBranch(b, end)
    <3>1. end \in Vertices /\ Without(ToMesh(b, u), x) \subseteq end
      OBVIOUS
    <3>2. ToBranch(b, Without(ToMesh(b, u), x)) \subseteq ToBranch(b, end)
      BY <3>1, RenumberingIsMonotone
    <3> QED
      BY <2>1, <3>1, <3>2, WayBack
  <2>4. ToBranch(b, end) \in S
    BY <2>2, <2>3 DEF Ends
  <2> QED
    BY <2>3, <2>4
<1> HIDE DEF g
<1>4. \A v \in T : \A x \in v \ {g} : {y \in Vertices : Without(v, x) \subseteq y} \subseteq T
  BY <1>3
<1> HIDE DEF T
<1>5. T = {v \in Vertices : g \in v}
  BY <1>1, <1>2, <1>4, ConnectednessAssumption DEF Without
<1>6. ASSUME NEW u \in Diagram(b), c \in u
      PROVE  u \in S
  <2>1. ToMesh(b, u) \in T
    BY <1>5, <1>6, WayBack, CellTouches DEF g
  <2>2. PICK v \in S : ToMesh(b, v) = ToMesh(b, u)
    BY <2>1 DEF T
  <2> QED
    BY <2>2, WayBack
<1> QED
  BY <1>6

-----------------------------------------------------------------------------
(* What each step of a worker does *)

\* Two frames agree on the tour, the vertex, the call, the pass.
SameTour(f, h)   == h.job = f.job /\ h.origin = f.origin /\ h.left = f.left
SameVertex(f, h) == h.sigma = f.sigma /\ h.rest = f.rest
SameCall(f, h)   == h.at = f.at /\ h.task = f.task /\ h.arg = f.arg
SamePass(f, h)   == h.todo = f.todo /\ h.complete = f.complete

\* The types of what a step of a worker reads.
LEMMA WorkerContext ==
  ASSUME NEW w \in Workers, Inv
  PROVE  /\ DOMAIN pc = Workers /\ DOMAIN frame = Workers
         /\ frame[w] \in Frames /\ Consistent(w, pc[w], frame[w])
         /\ Own(w) \in Branches /\ frame[w].at \in Branches
BY WorkerFacts DEF Inv, Workings, WorkersAreConsistent, Consistent, Frames

\* The variables a step changes only in one direction, or not at all.
LEMMA WorkerStepsKeep ==
  ASSUME NEW w \in Workers, Inv, WorkerStep(w)
  PROVE  /\ UNCHANGED <<phase, cell, published, upcoming>>
         /\ stored \subseteq stored' /\ infinite \subseteq infinite'
         /\ \A b \in Branches : claimed[b] \subseteq claimed'[b]
         /\ \A x \in Workers \ {w} : pc'[x] = pc[x] /\ frame'[x] = frame[x]
<1>1. DOMAIN claimed = Branches /\ WorkersAreConsistent
  BY DEF Inv, Types, QueueTypes, Workings
<1>2. UNCHANGED <<phase, cell, published, upcoming>>
  BY DEF WorkerStep, NextVertex, NoNextVertex, PopVertex, NothingToPop, ExploreEdge,
         VertexExplored, ClaimVertex, ClaimFails, TakePrototype, QueueEdge, FinishQueueing,
         StoreVertex, Registered, ListVertex, VertexListed, InformBranch, VertexRegistered,
         branchVars
<1>3. stored \subseteq stored' /\ infinite \subseteq infinite'
  BY DEF WorkerStep, NextVertex, NoNextVertex, PopVertex, NothingToPop, ExploreEdge,
         VertexExplored, ClaimVertex, ClaimFails, TakePrototype, QueueEdge, FinishQueueing,
         StoreVertex, Registered, ListVertex, VertexListed, InformBranch, VertexRegistered,
         meshVars
<1>4. UNCHANGED claimed \/ claimed' = [claimed EXCEPT ![frame[w].at] = @ \cup {frame[w].task}]
  BY DEF WorkerStep, NextVertex, NoNextVertex, PopVertex, NothingToPop, ExploreEdge,
         VertexExplored, ClaimVertex, ClaimFails, TakePrototype, QueueEdge, FinishQueueing,
         StoreVertex, Registered, ListVertex, VertexListed, InformBranch, VertexRegistered,
         stateVars
<1>5. \A b \in Branches : claimed[b] \subseteq claimed'[b]
  BY <1>1, <1>4
<1> QED
  BY <1>1, <1>2, <1>3, <1>5, WorkerStepsMoveOne DEF OnlyMoves

\* The lemmas named ...Does say what an action changes, in terms of the
\* invariant: here the iterator hands out a vertex of the snapshot.
LEMMA NextVertexDoes ==
  ASSUME NEW w \in Workers, Inv, NextVertex(w)
  PROVE  /\ UNCHANGED <<stored, lists, infinite, queue, claimed, edges>>
         /\ pc[w] = "next" /\ pc'[w] = "claim"
         /\ SameTour(frame[w], frame'[w]) /\ frame'[w].rest = frame[w].rest
         /\ \E v \in pending[Own(w)] :
              /\ pending' = [pending EXCEPT ![Own(w)] = @ \ {v}]
              /\ frame'[w].sigma = v /\ frame'[w].at = Own(w) /\ frame'[w].task = v
              /\ frame'[w].arg = cell[Own(w)]
         /\ consumed' = [consumed EXCEPT ![Own(w)] = TRUE]
<1>1. frame[w] \in Frames /\ DOMAIN frame = Workers /\ DOMAIN pc = Workers
  BY WorkerContext
<1>2. /\ UNCHANGED <<stored, lists, infinite, queue, claimed, edges>>
      /\ pc[w] = "next" /\ pc'[w] = "claim"
      /\ consumed' = [consumed EXCEPT ![Own(w)] = TRUE]
  BY <1>1 DEF NextVertex, meshVars, stateVars
<1>3. PICK v \in pending[Own(w)] :
        /\ pending' = [pending EXCEPT ![Own(w)] = @ \ {v}]
        /\ frame'[w] = QueueLocally(frame[w], Own(w), v)
  BY <1>1 DEF NextVertex
<1> QED
  BY <1>1, <1>2, <1>3 DEF QueueLocally, Frames, SameTour

\* A loop of a worker ends.
LEMMA ThreadEndDoes ==
  ASSUME NEW w \in Workers, Inv, NoNextVertex(w) \/ NothingToPop(w) \/ VertexExplored(w)
  PROVE  /\ UNCHANGED <<stored, lists, infinite, queue, claimed, edges, pending, consumed>>
         /\ \/ pc[w] = "next" /\ pc'[w] = "idle" /\ pending[Own(w)] = {}
            \/ pc[w] = "pop" /\ pc'[w] = "idle" /\ queue[Own(w)] = <<>>
            \/ /\ pc[w] = "edges" /\ pc'[w] = "pop" /\ frame[w].left = {}
               /\ frame'[w].job = "explore"
         /\ frame'[w].origin = None /\ frame'[w].left = {} /\ frame'[w].rest = {}
<1>1. DOMAIN frame = Workers /\ DOMAIN pc = Workers
  BY WorkerContext
<1>2. \/ frame'[w] = EmptyFrame
      \/ frame'[w] = [EmptyFrame EXCEPT !.job = "explore"]
  BY <1>1 DEF NoNextVertex, NothingToPop, VertexExplored
<1>3. frame'[w].origin = None /\ frame'[w].left = {} /\ frame'[w].rest = {}
  BY <1>2 DEF EmptyFrame
<1>4. VertexExplored(w) => frame'[w].job = "explore"
  BY <1>1 DEF VertexExplored, EmptyFrame
<1> QED
  BY <1>1, <1>3, <1>4 DEF NoNextVertex, NothingToPop, VertexExplored, meshVars, stateVars, iterVars

\* A worker takes the last task of the queue.
LEMMA PopVertexDoes ==
  ASSUME NEW w \in Workers, Inv, PopVertex(w)
  PROVE  /\ UNCHANGED <<stored, lists, infinite, claimed, edges, pending, consumed>>
         /\ pc[w] = "pop" /\ pc'[w] = "edges"
         /\ queue[Own(w)] # <<>> /\ queue' = [queue EXCEPT ![Own(w)] = Front(@)]
         /\ frame'[w].job = frame[w].job /\ frame'[w].origin = Last(queue[Own(w)])
         /\ frame'[w].left = OwnedSkips(Last(queue[Own(w)]), cell[Own(w)])
<1>1. frame[w] \in Frames /\ DOMAIN frame = Workers /\ DOMAIN pc = Workers
  BY WorkerContext
<1> DEFINE v == Last(queue[Own(w)])
           left == OwnedSkips(v, cell[Own(w)])
<1>2. frame'[w] = [frame[w] EXCEPT !.origin = v, !.left = left]
  BY <1>1 DEF PopVertex
<1> HIDE DEF v, left
<1>3. frame'[w].job = frame[w].job /\ frame'[w].origin = v /\ frame'[w].left = left
  BY <1>1, <1>2 DEF Frames
<1> QED
  BY <1>1, <1>3 DEF PopVertex, meshVars, iterVars, v, left

\* An edge of the task is followed to its other end, or to infinity.
LEMMA ExploreEdgeDoes ==
  ASSUME NEW w \in Workers, Inv, ExploreEdge(w)
  PROVE  LET b == Own(w)
             skip == Min(frame[w].left)
             edge == Without(frame[w].origin, skip)
         IN  /\ UNCHANGED <<stored, lists, claimed, pending, consumed, queue>>
             /\ pc[w] = "edges" /\ frame[w].left # {}
             /\ SameTour([frame[w] EXCEPT !.left = @ \ {skip}], frame'[w])
             /\ frame'[w].rest = frame[w].rest
             /\ PushEdgeInto(b, edge, cell[b], TRUE)
             /\ \/ AlreadyComplete(b, edge) /\ pc'[w] = "edges"
                \/ /\ ~AlreadyComplete(b, edge) /\ pc'[w] = "claim"
                   /\ \E u \in Ends(b, edge) \ {frame[w].origin} :
                        /\ frame'[w].sigma = u /\ frame'[w].task = u
                        /\ frame'[w].at = b /\ frame'[w].arg = cell[b]
                \/ /\ ~AlreadyComplete(b, edge) /\ pc'[w] = "edges"
                   /\ Ends(b, edge) \subseteq {frame[w].origin}
                   /\ ToMesh(b, edge) \in infinite'
<1>1. frame[w] \in Frames /\ DOMAIN frame = Workers /\ DOMAIN pc = Workers
  BY WorkerContext
<1> DEFINE b == Own(w)
           f == frame[w]
           skip == Min(f.left)
           edge == Without(f.origin, skip)
           after == [f EXCEPT !.left = @ \ {skip}]
<1>2. /\ UNCHANGED <<stored, lists, claimed, pending, consumed, queue>>
      /\ pc[w] = "edges" /\ f.left # {}
      /\ PushEdgeInto(b, edge, cell[b], TRUE)
  BY DEF ExploreEdge, iterVars, Without
<1>3. \/ AlreadyComplete(b, edge) /\ pc'[w] = "edges" /\ frame'[w] = after
      \/ /\ ~AlreadyComplete(b, edge) /\ pc'[w] = "claim"
         /\ \E u \in Ends(b, edge) \ {f.origin} : frame'[w] = QueueLocally(after, b, u)
      \/ /\ ~AlreadyComplete(b, edge) /\ pc'[w] = "edges" /\ frame'[w] = after
         /\ Ends(b, edge) \subseteq {f.origin} /\ ToMesh(b, edge) \in infinite'
  <2> DEFINE ends == Ends(b, edge) \ {f.origin}
  <2>1. \/ AlreadyComplete(b, edge) /\ frame' = [frame EXCEPT ![w] = after] /\ UNCHANGED pc
        \/ /\ ~AlreadyComplete(b, edge) /\ pc' = [pc EXCEPT ![w] = "claim"]
           /\ \E u \in ends : frame' = [frame EXCEPT ![w] = QueueLocally(after, b, u)]
        \/ /\ ~AlreadyComplete(b, edge) /\ ends = {} /\ UNCHANGED pc
           /\ infinite' = infinite \cup {ToMesh(b, edge)}
           /\ frame' = [frame EXCEPT ![w] = after]
    BY DEF ExploreEdge, Without, Ends
  <2>2. ends = {} => Ends(b, edge) \subseteq {f.origin}
    OBVIOUS
  <2> HIDE DEF ends, after, edge
  <2>3. \/ AlreadyComplete(b, edge) /\ pc'[w] = "edges" /\ frame'[w] = after
        \/ /\ ~AlreadyComplete(b, edge) /\ pc'[w] = "claim"
           /\ \E u \in ends : frame'[w] = QueueLocally(after, b, u)
        \/ /\ ~AlreadyComplete(b, edge) /\ pc'[w] = "edges" /\ frame'[w] = after
           /\ Ends(b, edge) \subseteq {f.origin} /\ ToMesh(b, edge) \in infinite'
    BY <1>1, <1>2, <2>1, <2>2
  <2> QED
    BY <2>3 DEF ends
<1>4. after \in Frames
  BY <1>1 DEF Frames
<1> HIDE DEF after, edge
<1>5. \A u : LET h == QueueLocally(after, b, u) IN
        /\ SameTour(after, h) /\ h.rest = after.rest
        /\ h.sigma = u /\ h.task = u /\ h.at = b /\ h.arg = cell[b]
  BY <1>4 DEF QueueLocally, Frames, SameTour
<1>6. after.rest = f.rest
  BY <1>1 DEF Frames, after
<1>7. SameTour(after, after)
  BY DEF SameTour
<1>8. SameTour(after, frame'[w]) /\ frame'[w].rest = f.rest
  BY <1>3, <1>5, <1>6, <1>7
<1>9. \/ AlreadyComplete(b, edge) /\ pc'[w] = "edges"
      \/ /\ ~AlreadyComplete(b, edge) /\ pc'[w] = "claim"
         /\ \E u \in Ends(b, edge) \ {f.origin} :
              /\ frame'[w].sigma = u /\ frame'[w].task = u
              /\ frame'[w].at = b /\ frame'[w].arg = cell[b]
      \/ /\ ~AlreadyComplete(b, edge) /\ pc'[w] = "edges"
         /\ Ends(b, edge) \subseteq {f.origin} /\ ToMesh(b, edge) \in infinite'
  BY <1>3, <1>5
<1> QED
  BY <1>2, <1>8, <1>9, Zenon DEF after, edge

\* The vertex is new to the branch.
LEMMA ClaimVertexDoes ==
  ASSUME NEW w \in Workers, Inv, ClaimVertex(w)
  PROVE  LET f == frame[w] IN
         /\ UNCHANGED <<stored, lists, infinite, pending, consumed, queue, edges>>
         /\ pc[w] = "claim" /\ pc'[w] = IF f.at = Own(w) THEN "push" ELSE "proto"
         /\ f.arg = CurrentCell(f.at) /\ f.arg \in f.task /\ f.task \notin claimed[f.at]
         /\ claimed' = [claimed EXCEPT ![f.at] = @ \cup {f.task}]
         /\ SameTour(f, frame'[w]) /\ SameVertex(f, frame'[w]) /\ SameCall(f, frame'[w])
         /\ frame'[w].todo = OwnedSkips(f.task, f.arg) /\ frame'[w].complete = TRUE
<1>1. frame[w] \in Frames /\ DOMAIN frame = Workers /\ DOMAIN pc = Workers
  BY WorkerContext
<1> DEFINE skips == OwnedSkips(frame[w].task, frame[w].arg)
<1>2. frame'[w] = [frame[w] EXCEPT !.todo = skips, !.complete = TRUE]
  BY <1>1 DEF ClaimVertex
<1> HIDE DEF skips
<1>3. /\ SameTour(frame[w], frame'[w]) /\ SameVertex(frame[w], frame'[w])
      /\ SameCall(frame[w], frame'[w])
      /\ frame'[w].todo = skips /\ frame'[w].complete = TRUE
  BY <1>1, <1>2 DEF Frames, SameTour, SameVertex, SameCall
<1> QED
  BY <1>1, <1>3 DEF ClaimVertex, Accepts, meshVars, iterVars, skips

\* The vertex is known to the branch, or it does not concern its cell.
LEMMA ClaimFailsDoes ==
  ASSUME NEW w \in Workers, Inv, ClaimFails(w)
  PROVE  /\ UNCHANGED <<stored, lists, infinite, pending, consumed, queue, edges, claimed, frame>>
         /\ pc[w] = "claim" /\ pc'[w] = AfterQueueing(w)
         /\ ~Accepts(w)
BY WorkerContext DEF ClaimFails, meshVars, iterVars, stateVars

\* A visitor waits for the iterator of the other branch.
LEMMA TakePrototypeDoes ==
  ASSUME NEW w \in Workers, Inv, TakePrototype(w)
  PROVE  /\ UNCHANGED <<stored, lists, infinite, pending, consumed, queue, edges, claimed, frame>>
         /\ pc[w] = "proto" /\ pc'[w] = "push"
BY WorkerContext DEF TakePrototype, meshVars, iterVars

\* An edge of the claimed vertex is recorded.
LEMMA QueueEdgeDoes ==
  ASSUME NEW w \in Workers, Inv, QueueEdge(w)
  PROVE  LET f    == frame[w]
             skip == Min(f.todo)
             edge == Without(f.task, skip)
         IN  /\ UNCHANGED <<stored, lists, infinite, pending, consumed, queue, claimed>>
             /\ pc[w] = "push" /\ pc'[w] = "push" /\ f.todo # {}
             /\ PushEdgeInto(f.at, edge, skip, FALSE)
             /\ SameTour(f, frame'[w]) /\ SameVertex(f, frame'[w]) /\ SameCall(f, frame'[w])
             /\ frame'[w].todo = f.todo \ {skip}
             /\ frame'[w].complete = (f.complete /\ AlreadyComplete(f.at, edge))
<1>1. frame[w] \in Frames /\ DOMAIN frame = Workers /\ DOMAIN pc = Workers
  BY WorkerContext
<1> DEFINE f == frame[w]
           skip == Min(f.todo)
           edge == Without(f.task, skip)
           todo == f.todo \ {skip}
           complete == f.complete /\ AlreadyComplete(f.at, edge)
<1>2. frame'[w] = [f EXCEPT !.todo = todo, !.complete = complete]
  BY <1>1 DEF QueueEdge, Without
<1>3. /\ UNCHANGED <<stored, lists, infinite, pending, consumed, queue, claimed>>
      /\ pc[w] = "push" /\ pc'[w] = "push" /\ f.todo # {}
      /\ PushEdgeInto(f.at, edge, skip, FALSE)
  BY <1>1 DEF QueueEdge, Without, meshVars, iterVars
<1> HIDE DEF edge, todo, complete
<1>4. /\ SameTour(f, frame'[w]) /\ SameVertex(f, frame'[w]) /\ SameCall(f, frame'[w])
      /\ frame'[w].todo = todo /\ frame'[w].complete = complete
  BY <1>1, <1>2 DEF Frames, SameTour, SameVertex, SameCall
<1> QED
  BY <1>3, <1>4 DEF edge, todo, complete

\* The vertex is queued if an edge of it needs exploring.
LEMMA FinishQueueingDoes ==
  ASSUME NEW w \in Workers, Inv, FinishQueueing(w)
  PROVE  LET f == frame[w] IN
         /\ UNCHANGED <<stored, lists, infinite, pending, consumed, edges, claimed, frame>>
         /\ pc[w] = "push" /\ pc'[w] = AfterQueueing(w) /\ f.todo = {}
         /\ queue' = [queue EXCEPT ![f.at] = IF f.complete THEN @ ELSE Append(@, f.task)]
BY WorkerContext DEF FinishQueueing, meshVars, iterVars

\* The vertex enters the data base.
LEMMA StoreVertexDoes ==
  ASSUME NEW w \in Workers, Inv, StoreVertex(w)
  PROVE  LET f == frame[w] IN
         /\ UNCHANGED <<lists, infinite, pending, consumed, queue, edges, claimed>>
         /\ pc[w] = "store" /\ pc'[w] = "list"
         /\ stored' = stored \cup {Mesh(w)}
         /\ SameTour(f, frame'[w]) /\ SameCall(f, frame'[w]) /\ frame'[w].sigma = f.sigma
         /\ frame'[w].rest = Rest(w) /\ frame'[w].unlisted \subseteq Mesh(w)
<1>1. frame[w] \in Frames /\ DOMAIN frame = Workers /\ DOMAIN pc = Workers
  BY WorkerContext
<1>2. PICK fresh \in BOOLEAN, toList \in SUBSET Mesh(w) :
        frame'[w] = [frame[w] EXCEPT !.fresh = fresh, !.unlisted = toList, !.rest = Rest(w)]
  <2> DEFINE fresh == Mesh(w) \notin stored
             toList == IF Mesh(w) \in stored THEN {} ELSE Mesh(w) \cap Ordinary
  <2>1. fresh \in BOOLEAN /\ toList \in SUBSET Mesh(w)
    OBVIOUS
  <2>2. frame'[w] = [frame[w] EXCEPT !.fresh = fresh, !.unlisted = toList, !.rest = Rest(w)]
    BY <1>1 DEF StoreVertex, Registered, Mesh
  <2> HIDE DEF fresh, toList
  <2> QED
    BY <2>1, <2>2
<1>3. /\ SameTour(frame[w], frame'[w]) /\ SameCall(frame[w], frame'[w])
      /\ frame'[w].sigma = frame[w].sigma /\ frame'[w].rest = Rest(w)
      /\ frame'[w].unlisted \subseteq Mesh(w)
  BY <1>1, <1>2 DEF Frames, SameTour, SameCall
<1> QED
  BY <1>1, <1>3 DEF StoreVertex, Registered, iterVars, stateVars, Mesh

\* A generator lists the vertex.
LEMMA ListVertexDoes ==
  ASSUME NEW w \in Workers, Inv, ListVertex(w)
  PROVE  LET f == frame[w] IN
         /\ UNCHANGED <<stored, infinite, pending, consumed, queue, edges, claimed>>
         /\ pc[w] = "list" /\ pc'[w] = "list" /\ f.unlisted # {}
         /\ lists' = [lists EXCEPT ![Min(f.unlisted)] = @ \cup {Mesh(w)}]
         /\ SameTour(f, frame'[w]) /\ SameVertex(f, frame'[w]) /\ SameCall(f, frame'[w])
         /\ frame'[w].unlisted \subseteq f.unlisted
<1>1. frame[w] \in Frames /\ DOMAIN frame = Workers /\ DOMAIN pc = Workers
  BY WorkerContext
<1>2. frame'[w] = [frame[w] EXCEPT !.unlisted = @ \ {Min(frame[w].unlisted)}]
  BY <1>1 DEF ListVertex
<1>3. /\ SameTour(frame[w], frame'[w]) /\ SameVertex(frame[w], frame'[w])
      /\ SameCall(frame[w], frame'[w]) /\ frame'[w].unlisted \subseteq frame[w].unlisted
  BY <1>1, <1>2 DEF Frames, SameTour, SameVertex, SameCall
<1> QED
  BY <1>1, <1>3 DEF ListVertex, iterVars, stateVars, Mesh

\* All generators list the vertex.
LEMMA VertexListedDoes ==
  ASSUME NEW w \in Workers, Inv, VertexListed(w)
  PROVE  /\ UNCHANGED <<stored, lists, infinite, pending, consumed, queue, edges, claimed, frame>>
         /\ pc[w] = "list" /\ pc'[w] = "broadcast"
BY WorkerContext DEF VertexListed, iterVars, stateVars

\* The next branch is told of the vertex.
LEMMA InformBranchDoes ==
  ASSUME NEW w \in Workers, Inv, InformBranch(w)
  PROVE  LET f == frame[w]
             target == Min(f.rest)
         IN  /\ UNCHANGED <<stored, lists, infinite, pending, consumed, queue, edges, claimed>>
             /\ pc[w] = "broadcast" /\ pc'[w] = "claim"
             /\ target \in Branches \ {Own(w)}
             /\ SameTour(f, frame'[w]) /\ frame'[w].sigma = f.sigma
             /\ frame'[w].rest = f.rest \ {target} /\ frame'[w].at = target
             /\ frame'[w].task = ToBranch(target, Mesh(w))
             /\ frame'[w].arg = CurrentCell(target)
<1>1. /\ frame[w] \in Frames /\ DOMAIN frame = Workers /\ DOMAIN pc = Workers
      /\ frame[w].rest \subseteq Branches \ {Own(w)}
  BY WorkerContext DEF Consistent
<1> DEFINE target == Min(frame[w].rest)
           task == ToBranch(target, Mesh(w))
           arg == CurrentCell(target)
           rest == frame[w].rest \ {target}
<1>2. target \in Branches \ {Own(w)}
  <2>1. frame[w].rest \in SUBSET Nat /\ frame[w].rest # {}
    BY <1>1, WorkerFacts DEF InformBranch
  <2> QED
    BY <1>1, <2>1, MinIsLeast
<1>3. frame'[w] = [frame[w] EXCEPT !.rest = rest, !.at = target, !.task = task, !.arg = arg]
  BY <1>1 DEF InformBranch, Mesh
<1> HIDE DEF target, task, arg, rest
<1>4. /\ SameTour(frame[w], frame'[w]) /\ frame'[w].sigma = frame[w].sigma
      /\ frame'[w].rest = rest /\ frame'[w].at = target /\ frame'[w].task = task
      /\ frame'[w].arg = arg
  BY <1>1, <1>3 DEF Frames, SameTour
<1> QED
  BY <1>1, <1>2, <1>4
     DEF InformBranch, meshVars, iterVars, stateVars, target, task, arg, rest

\* All branches are told of the vertex.
LEMMA VertexRegisteredDoes ==
  ASSUME NEW w \in Workers, Inv, VertexRegistered(w)
  PROVE  LET f == frame[w] IN
         /\ UNCHANGED <<stored, lists, infinite, pending, consumed, queue, edges, claimed>>
         /\ pc[w] = "broadcast" /\ f.rest = {}
         /\ \/ pc'[w] = "edges" /\ f.job = "explore" /\ SameTour(f, frame'[w])
            \/ /\ pc'[w] = "idle" /\ f.job = "descend"
               /\ frame'[w].origin = None /\ frame'[w].left = {}
         /\ frame'[w].rest = {}
<1>1. frame[w] \in Frames /\ DOMAIN frame = Workers /\ DOMAIN pc = Workers
  BY WorkerContext
<1> DEFINE g == [EmptyFrame EXCEPT !.job = "explore", !.origin = frame[w].origin,
                                   !.left = frame[w].left]
<1>2. \/ pc'[w] = "edges" /\ frame'[w] = g /\ frame[w].job = "explore"
      \/ pc'[w] = "idle" /\ frame'[w] = EmptyFrame /\ frame[w].job = "descend"
  BY <1>1 DEF VertexRegistered
<1>3. frame[w].job = "explore" => SameTour(frame[w], g)
  BY DEF EmptyFrame, SameTour
<1>4. EmptyFrame.origin = None /\ EmptyFrame.left = {} /\ EmptyFrame.rest = {} /\ g.rest = {}
  BY DEF EmptyFrame
<1>5. /\ UNCHANGED <<stored, lists, infinite, pending, consumed, queue, edges, claimed>>
      /\ pc[w] = "broadcast" /\ frame[w].rest = {}
  BY DEF VertexRegistered, iterVars, stateVars
<1> HIDE DEF g
<1> QED
  BY <1>2, <1>3, <1>4, <1>5

\* Where the worker is tells what it may do next.
LEMMA StepsByPlace ==
  ASSUME NEW w \in Workers, Inv, WorkerStep(w)
  PROVE  /\ \/ NextVertex(w) /\ pc[w] = "next" /\ pc'[w] = "claim"
            \/ /\ NoNextVertex(w) \/ NothingToPop(w) \/ VertexExplored(w)
               /\ pc[w] \in {"next", "pop", "edges"} /\ pc'[w] \in {"idle", "pop"}
            \/ PopVertex(w) /\ pc[w] = "pop" /\ pc'[w] = "edges"
            \/ ExploreEdge(w) /\ pc[w] = "edges" /\ pc'[w] \in {"edges", "claim"}
            \/ ClaimVertex(w) /\ pc[w] = "claim" /\ pc'[w] \in {"push", "proto"}
            \/ ClaimFails(w) /\ pc[w] = "claim" /\ pc'[w] = AfterQueueing(w)
            \/ TakePrototype(w) /\ pc[w] = "proto" /\ pc'[w] = "push"
            \/ QueueEdge(w) /\ pc[w] = "push" /\ pc'[w] = "push"
            \/ FinishQueueing(w) /\ pc[w] = "push" /\ pc'[w] = AfterQueueing(w)
            \/ StoreVertex(w) /\ pc[w] = "store" /\ pc'[w] = "list"
            \/ ListVertex(w) /\ pc[w] = "list" /\ pc'[w] = "list"
            \/ VertexListed(w) /\ pc[w] = "list" /\ pc'[w] = "broadcast"
            \/ InformBranch(w) /\ pc[w] = "broadcast" /\ pc'[w] = "claim"
            \/ VertexRegistered(w) /\ pc[w] = "broadcast" /\ pc'[w] \in {"edges", "idle"}
         /\ AfterQueueing(w) \in {"broadcast", "next", "store"}
<1>1. AfterQueueing(w) \in {"broadcast", "next", "store"}
  BY DEF AfterQueueing
<1>2. CASE NextVertex(w)
  BY <1>1, <1>2, NextVertexDoes
<1>3. CASE NoNextVertex(w) \/ NothingToPop(w) \/ VertexExplored(w)
  BY <1>1, <1>3, ThreadEndDoes
<1>4. CASE PopVertex(w)
  BY <1>1, <1>4, PopVertexDoes
<1>5. CASE ExploreEdge(w)
  BY <1>1, <1>5, ExploreEdgeDoes
<1>6. CASE ClaimVertex(w)
  BY <1>1, <1>6, ClaimVertexDoes
<1>7. CASE ClaimFails(w)
  BY <1>1, <1>7, ClaimFailsDoes
<1>8. CASE TakePrototype(w)
  BY <1>1, <1>8, TakePrototypeDoes
<1>9. CASE QueueEdge(w)
  BY <1>1, <1>9, QueueEdgeDoes
<1>10. CASE FinishQueueing(w)
  BY <1>1, <1>10, FinishQueueingDoes
<1>11. CASE StoreVertex(w)
  BY <1>1, <1>11, StoreVertexDoes
<1>12. CASE ListVertex(w)
  BY <1>1, <1>12, ListVertexDoes
<1>13. CASE VertexListed(w)
  BY <1>1, <1>13, VertexListedDoes
<1>14. CASE InformBranch(w)
  BY <1>1, <1>14, InformBranchDoes
<1>15. CASE VertexRegistered(w)
  BY <1>1, <1>15, VertexRegisteredDoes
<1> QED
  BY <1>2, <1>3, <1>4, <1>5, <1>6, <1>7, <1>8, <1>9, <1>10, <1>11, <1>12, <1>13, <1>14, <1>15
     DEF WorkerStep

-----------------------------------------------------------------------------
(* The workers' jobs, the phases and the lists *)

JobsFit   == \A w \in Workers : JobFits(w)
\* The phase part of the invariant.
PhasesFit == \A b \in Branches : PhaseFits(b)

\* A busy branch works on a cell of its own.
LEMMA CellBounds ==
  ASSUME Inv, NEW b \in Branches
  PROVE  /\ cell[b] \in 0 .. CellCount(b) - 1 /\ cell[b] \in Nat
         /\ upcoming[b] \in Nat /\ upcoming[b] <= CellCount(b) /\ CellCount(b) \in Nat
BY BlockTypes DEF Inv, Types, BranchTypes

\* A worker at work belongs to a busy branch.
LEMMA WorkingBranch ==
  ASSUME Inv, PhasesFit, NEW w \in Workers, pc[w] # "idle"
  PROVE  /\ phase[Own(w)] \in Busy /\ published[Own(w)]
         /\ CurrentCell(Own(w)) = cell[Own(w)]
BY WorkerFacts DEF Inv, Workings, CrewsAreJoined, PhasesFit, PhaseFits, CurrentCell

\* A step of a worker leaves the frames consistent ...
LEMMA WorkerStepKeepsJobs ==
  ASSUME NEW w \in Workers, Inv, JobsFit, PhasesFit, WorkerStep(w)
  PROVE  JobsFit'
<1>1. /\ UNCHANGED <<phase, cell>> /\ stored \subseteq stored'
      /\ \A x \in Workers \ {w} : pc'[x] = pc[x] /\ frame'[x] = frame[x]
  BY WorkerStepsKeep
<1>2. ASSUME NEW x \in Workers \ {w}
      PROVE  JobFits(x)'
  <2>1. JobFits(x) /\ pc'[x] = pc[x] /\ frame'[x] = frame[x]
    BY <1>1, <1>2 DEF JobsFit
  <2> QED
    BY <1>1, <2>1 DEF JobFits, Abroad, Mesh
<1> DEFINE f == frame[w]
           h == frame'[w]
<1>3. JobFits(w) /\ Own(w) \in Branches
  BY WorkerFacts DEF JobsFit
<1>4. CASE NextVertex(w)
  <2>1. PICK v \in pending[Own(w)] :
          /\ h.sigma = v /\ h.at = Own(w) /\ h.task = v /\ h.arg = cell[Own(w)]
    BY <1>4, NextVertexDoes
  <2>2. pc[w] = "next" /\ pc'[w] = "claim" /\ SameTour(f, h) /\ UNCHANGED stored
    BY <1>4, NextVertexDoes
  <2>3. ToMesh(Own(w), v) \in stored
    BY <1>3 DEF PhasesFit, PhaseFits
  <2> HIDE DEF f, h
  <2>4. f.job = "iterate" /\ f.job = phase[Own(w)] /\ f.origin = None
    BY <1>3, <2>2 DEF JobFits, f
  <2>5. JobFits(w)'
    BY <1>1, <2>1, <2>2, <2>3, <2>4 DEF JobFits, Abroad, Mesh, SameTour, h, Calling
  <2> QED
    BY <1>2, <2>5 DEF JobsFit
<1>5. CASE NoNextVertex(w) \/ NothingToPop(w) \/ VertexExplored(w)
  <2>1. /\ h.origin = None
        /\ \/ pc'[w] = "idle"
           \/ pc[w] = "edges" /\ pc'[w] = "pop" /\ h.job = "explore"
    BY <1>5, ThreadEndDoes
  <2>2. pc[w] = "edges" => phase[Own(w)] = "explore"
    BY <1>3 DEF JobFits
  <2> HIDE DEF f, h
  <2>3. JobFits(w)'
    BY <1>1, <2>1, <2>2 DEF JobFits, Abroad, Mesh, h, Calling
  <2> QED
    BY <1>2, <2>3 DEF JobsFit
<1>6. CASE PopVertex(w)
  <2>1. pc[w] = "pop" /\ pc'[w] = "edges" /\ h.job = f.job
    BY <1>6, PopVertexDoes
  <2> HIDE DEF f, h
  <2>2. JobFits(w)'
    BY <1>1, <1>3, <2>1 DEF JobFits, Abroad, Mesh, f, h, Calling
  <2> QED
    BY <1>2, <2>2 DEF JobsFit
<1>7. CASE ExploreEdge(w)
  <2>1. /\ pc[w] = "edges" /\ UNCHANGED stored
        /\ SameTour([f EXCEPT !.left = @ \ {Min(f.left)}], h)
    BY <1>7, ExploreEdgeDoes
  <2>2. \/ pc'[w] = "edges"
        \/ /\ pc'[w] = "claim"
           /\ h.sigma = h.task /\ h.at = Own(w) /\ h.arg = cell[Own(w)]
    BY <1>7, ExploreEdgeDoes
  <2>3. h.job = f.job
    <3>1. [f EXCEPT !.left = @ \ {Min(f.left)}].job = f.job
      BY WorkerContext DEF Frames
    <3> QED
      BY <2>1, <3>1 DEF SameTour
  <2> HIDE DEF f, h
  <2>4. f.job = "explore" /\ f.job = phase[Own(w)]
    BY <1>3, <2>1 DEF JobFits, f
  <2>5. JobFits(w)'
    BY <1>1, <2>2, <2>3, <2>4 DEF JobFits, Abroad, Mesh, h, Calling
  <2> QED
    BY <1>2, <2>5 DEF JobsFit
<1>8. CASE ClaimVertex(w) \/ QueueEdge(w) \/ TakePrototype(w)
  <2>1. /\ UNCHANGED stored /\ pc[w] \in Calling
        /\ SameTour(f, h) /\ SameVertex(f, h) /\ SameCall(f, h)
        /\ pc'[w] \in {"push", "proto"}
        /\ pc'[w] = "proto" => f.at # Own(w)
    <3>1. UNCHANGED frame => SameTour(f, h) /\ SameVertex(f, h) /\ SameCall(f, h)
      BY DEF SameTour, SameVertex, SameCall
    <3> QED
      BY <1>8, <3>1, ClaimVertexDoes, QueueEdgeDoes, TakePrototypeDoes DEF Calling
  <2> HIDE DEF f, h
  <2>2. JobFits(w)'
    BY <1>1, <1>3, <2>1
       DEF JobFits, Abroad, Mesh, SameTour, SameVertex, SameCall, f, h, Calling
  <2> QED
    BY <1>2, <2>2 DEF JobsFit
<1>9. CASE ClaimFails(w) \/ FinishQueueing(w)
  <2>1. UNCHANGED <<stored, frame>> /\ pc[w] \in Calling /\ pc'[w] = AfterQueueing(w)
    BY <1>9, ClaimFailsDoes, FinishQueueingDoes DEF Calling
  <2>2. JobFits(w)'
    BY <1>1, <1>3, <2>1 DEF JobFits, Abroad, Mesh, Calling, AfterQueueing
  <2> QED
    BY <1>2, <2>2 DEF JobsFit
<1>10. CASE StoreVertex(w)
  <2>1. /\ pc[w] = "store" /\ pc'[w] = "list" /\ stored' = stored \cup {Mesh(w)}
        /\ SameTour(f, h) /\ h.sigma = f.sigma
        /\ h.rest = Rest(w) /\ h.unlisted \subseteq Mesh(w)
    BY <1>10, StoreVertexDoes
  <2>2. Mesh(w)' = Mesh(w) /\ Rest(w)' = Rest(w)
    BY <2>1 DEF Mesh, Rest
  <2> HIDE DEF f, h
  <2>3. JobFits(w)'
    BY <1>1, <1>3, <2>1, <2>2 DEF JobFits, Abroad, SameTour, f, h, Calling
  <2> QED
    BY <1>2, <2>3 DEF JobsFit
<1>11. CASE ListVertex(w) \/ VertexListed(w)
  <2>1. /\ pc[w] = "list" /\ pc'[w] \in {"list", "broadcast"} /\ UNCHANGED stored
        /\ SameTour(f, h) /\ SameVertex(f, h) /\ h.unlisted \subseteq f.unlisted
    <3>1. UNCHANGED frame => SameTour(f, h) /\ SameVertex(f, h) /\ h.unlisted \subseteq f.unlisted
      BY DEF SameTour, SameVertex
    <3> QED
      BY <1>11, <3>1, ListVertexDoes, VertexListedDoes
  <2>2. Mesh(w)' = Mesh(w) /\ Rest(w)' = Rest(w)
    BY <2>1 DEF Mesh, Rest, SameVertex
  <2> HIDE DEF f, h
  <2>3. JobFits(w)'
    BY <1>1, <1>3, <2>1, <2>2 DEF JobFits, Abroad, SameTour, SameVertex, f, h, Calling
  <2> QED
    BY <1>2, <2>3 DEF JobsFit
<1>12. CASE InformBranch(w)
  <2>1. /\ pc[w] = "broadcast" /\ pc'[w] = "claim" /\ UNCHANGED stored
        /\ SameTour(f, h) /\ h.sigma = f.sigma /\ h.at # Own(w)
        /\ h.task = ToBranch(h.at, Mesh(w))
    BY <1>12, InformBranchDoes
  <2>2. Mesh(w)' = Mesh(w)
    BY <2>1 DEF Mesh
  <2> HIDE DEF f, h
  <2>3. JobFits(w)'
    BY <1>1, <1>3, <2>1, <2>2 DEF JobFits, Abroad, SameTour, f, h, Calling
  <2> QED
    BY <1>2, <2>3 DEF JobsFit
<1>13. CASE VertexRegistered(w)
  <2>1. /\ pc[w] = "broadcast"
        /\ \/ pc'[w] = "edges" /\ f.job = "explore" /\ SameTour(f, h)
           \/ pc'[w] = "idle" /\ h.origin = None
    BY <1>13, VertexRegisteredDoes
  <2> HIDE DEF f, h
  <2>2. JobFits(w)'
    BY <1>1, <1>3, <2>1 DEF JobFits, Abroad, SameTour, f, h, Calling
  <2> QED
    BY <1>2, <2>2 DEF JobsFit
<1> QED
  BY <1>4, <1>5, <1>6, <1>7, <1>8, <1>9, <1>10, <1>11, <1>12, <1>13 DEF WorkerStep

\* ... and the phases of the branches ...
LEMMA WorkerStepKeepsPhases ==
  ASSUME NEW w \in Workers, Inv, JobsFit, PhasesFit, WorkerStep(w)
  PROVE  PhasesFit'
<1>1. /\ UNCHANGED <<phase, cell, published, upcoming>> /\ stored \subseteq stored'
      /\ \A x \in Workers \ {w} : pc'[x] = pc[x]
  BY WorkerStepsKeep
<1>2. JobFits(w) /\ Own(w) \in Branches /\ PhaseFits(Own(w)) /\ DOMAIN pending = Branches
  BY WorkerFacts DEF JobsFit, PhasesFit, Inv, Types, QueueTypes
<1>3. \A b \in Branches : pending'[b] \subseteq pending[b]
  <2>1. UNCHANGED pending \/ \E v : pending' = [pending EXCEPT ![Own(w)] = @ \ {v}]
    <3>1. NextVertex(w) => \E v : pending' = [pending EXCEPT ![Own(w)] = @ \ {v}]
      BY NextVertexDoes
    <3>2. ~NextVertex(w) => UNCHANGED pending
      BY ThreadEndDoes, PopVertexDoes, ExploreEdgeDoes, ClaimVertexDoes, ClaimFailsDoes,
         TakePrototypeDoes, QueueEdgeDoes, FinishQueueingDoes, StoreVertexDoes,
         ListVertexDoes, VertexListedDoes, InformBranchDoes, VertexRegisteredDoes
         DEF WorkerStep
    <3> QED
      BY <3>1, <3>2
  <2> QED
    BY <1>2, <2>1
<1>4. pc'[w] = "idle" => pending[Own(w)] = {}
  <2>1. CASE NoNextVertex(w) \/ NothingToPop(w) \/ VertexExplored(w)
    <3>1. \/ pending[Own(w)] = {}
          \/ pc[w] = "pop"
          \/ pc'[w] = "pop"
      BY <2>1, ThreadEndDoes
    <3> QED
      BY <1>2, <3>1 DEF JobFits, PhaseFits
  <2>2. CASE VertexRegistered(w)
    <3>1. pc'[w] = "idle" => pc[w] = "broadcast" /\ frame[w].job = "descend"
      BY <2>2, VertexRegisteredDoes
    <3> QED
      BY <1>2, <3>1 DEF JobFits, PhaseFits
  <2>3. CASE ~(NoNextVertex(w) \/ NothingToPop(w) \/ VertexExplored(w) \/ VertexRegistered(w))
    BY <2>3, StepsByPlace
  <2> QED
    BY <2>1, <2>2, <2>3
<1>5. ASSUME NEW b \in Branches
      PROVE  PhaseFits(b)'
  <2>1. PhaseFits(b) /\ pending'[b] \subseteq pending[b]
    BY <1>3 DEF PhasesFit
  <2>2. (\E x \in Crew(b) : pc'[x] = "idle") => pending'[b] = {}
    <3>1. \A x \in Crew(b) : x \in Workers /\ Own(x) = b
      BY DEF Crew
    <3> QED
      BY <1>1, <1>4, <2>1, <3>1 DEF PhaseFits
  <2> QED
    BY <1>1, <2>1, <2>2 DEF PhaseFits, Crew
<1> QED
  BY <1>5 DEF PhasesFit

\* ... and the lists.
LEMMA WorkerStepKeepsListsFit ==
  ASSUME NEW w \in Workers, Inv, JobsFit, ListsFit, WorkerStep(w)
  PROVE  ListsFit'
<1>1. CASE UNCHANGED lists
  BY <1>1 DEF ListsFit
<1>2. CASE ListVertex(w)
  <2>1. /\ pc[w] = "list" /\ frame[w].unlisted # {}
        /\ lists' = [lists EXCEPT ![Min(frame[w].unlisted)] = @ \cup {Mesh(w)}]
    BY <1>2, ListVertexDoes
  <2>2. frame[w].unlisted \subseteq Mesh(w) /\ frame[w].unlisted \in SUBSET Nat
    BY <2>1, WorkerContext DEF JobsFit, JobFits, Frames, Ordinary
  <2>3. Min(frame[w].unlisted) \in Mesh(w)
    BY <2>1, <2>2, MinIsLeast
  <2>4. DOMAIN lists = Ordinary
    BY DEF Inv, Types, MeshTypes
  <2> QED
    BY <2>1, <2>3, <2>4 DEF ListsFit
<1> QED
  BY <1>1, <1>2, NextVertexDoes, ThreadEndDoes, PopVertexDoes, ExploreEdgeDoes, ClaimVertexDoes,
     ClaimFailsDoes, TakePrototypeDoes, QueueEdgeDoes, FinishQueueingDoes, StoreVertexDoes,
     VertexListedDoes, InformBranchDoes, VertexRegisteredDoes DEF WorkerStep

-----------------------------------------------------------------------------
(* The claims *)

\* The claim part of the invariant.
AllClaimsFit == \A b \in Branches : Active(b) => ClaimsFit(b)

\* A call for the current cell of a branch ends in a claim.
LEMMA CallsAreHeard ==
  ASSUME NEW w \in Workers, Inv, JobsFit, PhasesFit, WorkerStep(w),
         NEW b \in Branches, published[b], NEW u, cell[b] \in u,
         NEW x \in Workers, AtClaim(x, b, u)
  PROVE  AtClaim(x, b, u)' \/ u \in claimed'[b]
<1>1. /\ UNCHANGED <<phase, cell, published>>
      /\ \A y \in Workers \ {w} : pc'[y] = pc[y] /\ frame'[y] = frame[y]
      /\ claimed[b] \subseteq claimed'[b]
  BY WorkerStepsKeep
<1>2. CASE x # w
  BY <1>1, <1>2 DEF AtClaim
<1>3. CASE x = w
  <2>1. /\ pc[w] = "claim" /\ frame[w].at = b /\ frame[w].task = u /\ frame[w].arg = cell[b]
        /\ CurrentCell(b) = cell[b]
    BY <1>3 DEF AtClaim, CurrentCell
  <2>2. CASE ClaimVertex(w)
    <3>1. claimed' = [claimed EXCEPT ![b] = @ \cup {u}] /\ DOMAIN claimed = Branches
      BY <2>1, <2>2, ClaimVertexDoes DEF Inv, Types, QueueTypes
    <3> QED
      BY <3>1
  <2>3. CASE ClaimFails(w)
    <3>1. ~Accepts(w)
      BY <2>3, ClaimFailsDoes
    <3> QED
      BY <1>1, <2>1, <3>1 DEF Accepts
  <2> QED
    BY <2>1, <2>2, <2>3, StepsByPlace
<1> QED
  BY <1>2, <1>3

\* A branch that may be told of vertices has published its cell.
LEMMA ActiveIsPublished ==
  ASSUME PhasesFit, NEW b \in Branches, Active(b)
  PROVE  published[b]
BY DEF PhasesFit, PhaseFits, Active, Opened, Left

\* What carries a claimed vertex to the store.
Carries(x, b, v) ==
  /\ frame[x].sigma = v
  /\ \/ pc[x] = "push" /\ frame[x].at = b
     \/ pc[x] = "store"

\* A claimed vertex stays claimed until it is stored.
LEMMA WorkerStepKeepsClaims ==
  ASSUME NEW w \in Workers, Inv, JobsFit, PhasesFit, AllClaimsFit, WorkerStep(w)
  PROVE  AllClaimsFit'
<1>1. /\ UNCHANGED <<phase, cell, upcoming>> /\ stored \subseteq stored'
      /\ \A x \in Workers \ {w} : pc'[x] = pc[x] /\ frame'[x] = frame[x]
  BY WorkerStepsKeep
<1> SUFFICES ASSUME NEW b \in Branches, Active(b)
             PROVE  ClaimsFit(b)'
  BY <1>1 DEF AllClaimsFit, Active, Opened, Left
<1>2. /\ ClaimsFit(b) /\ published[b] /\ claimed[b] \subseteq claimed'[b] /\ JobFits(w)
      /\ CurrentCell(b) = cell[b] /\ DOMAIN claimed = Branches
  BY ActiveIsPublished, WorkerStepsKeep
     DEF AllClaimsFit, CurrentCell, Inv, Types, QueueTypes, JobsFit
<1>3. ASSUME NEW v \in claimed[b], w \in Crew(b), Carries(w, b, v), ToMesh(b, v) \notin stored'
      PROVE  Carries(w, b, v)'
  <2>1. Own(w) = b /\ Mesh(w) = ToMesh(b, v)
    BY <1>3 DEF Crew, Mesh, Carries
  <2>2. CASE QueueEdge(w)
    BY <1>3, <2>2, QueueEdgeDoes DEF Carries, SameVertex, SameCall
  <2>3. CASE FinishQueueing(w)
    <3>1. UNCHANGED <<stored, frame>> /\ pc[w] = "push" /\ pc'[w] = AfterQueueing(w)
      BY <2>3, FinishQueueingDoes
    <3>2. frame[w].at = b /\ frame[w].job # "iterate"
      BY <1>2, <1>3, <2>1, <3>1 DEF JobFits, Carries, Calling
    <3> QED
      BY <1>3, <2>1, <3>1, <3>2 DEF Carries, AfterQueueing
  <2>4. CASE StoreVertex(w)
    BY <1>3, <2>1, <2>4, StoreVertexDoes
  <2> QED
    BY <1>3, <2>2, <2>3, <2>4, StepsByPlace DEF Carries
<1>4. ASSUME NEW v \in claimed'[b], v \notin claimed[b]
      PROVE  /\ cell[b] \in v
             /\ ToMesh(b, v) \in stored \/ (w \in Crew(b) /\ Carries(w, b, v)')
  <2>1. ClaimVertex(w)
    BY <1>4, NextVertexDoes, ThreadEndDoes, PopVertexDoes, ExploreEdgeDoes, ClaimFailsDoes,
       TakePrototypeDoes, QueueEdgeDoes, FinishQueueingDoes, StoreVertexDoes, ListVertexDoes,
       VertexListedDoes, InformBranchDoes, VertexRegisteredDoes DEF WorkerStep
  <2>2. /\ claimed' = [claimed EXCEPT ![frame[w].at] = @ \cup {frame[w].task}]
        /\ pc[w] = "claim" /\ frame[w].arg = CurrentCell(frame[w].at)
        /\ frame[w].arg \in frame[w].task
        /\ frame[w].at = Own(w) => pc'[w] = "push"
        /\ SameVertex(frame[w], frame'[w]) /\ SameCall(frame[w], frame'[w])
    BY <2>1, ClaimVertexDoes
  <2>3. frame[w].at = b /\ frame[w].task = v /\ cell[b] \in v
    BY <1>2, <1>4, <2>2
  <2>4. CASE Own(w) = b
    <3>1. w \in Crew(b) /\ frame[w].sigma = v
      BY <1>2, <2>2, <2>3, <2>4 DEF Crew, JobFits, Calling
    <3> QED
      BY <2>2, <2>3, <2>4, <3>1 DEF Carries, SameVertex, SameCall
  <2>5. CASE Own(w) # b
    <3>1. v = ToBranch(b, Mesh(w)) /\ Mesh(w) \in stored
      BY <1>2, <2>2, <2>3, <2>5 DEF JobFits, Abroad, Calling
    <3>2. Mesh(w) \in Vertices
      BY <3>1 DEF Inv, Types, MeshTypes
    <3> QED
      BY <2>3, <3>1, <3>2, WayBack
  <2> QED
    BY <2>3, <2>4, <2>5
<1>5. ASSUME w \in Crew(b), pc'[w] = "store", cell[b] \in frame'[w].sigma
      PROVE  frame'[w].sigma \in claimed'[b]
  <2>0. Own(w) = b
    BY <1>5 DEF Crew
  <2>1. CASE ClaimFails(w)
    <3>1. UNCHANGED frame /\ pc[w] = "claim" /\ pc'[w] = AfterQueueing(w) /\ ~Accepts(w)
      BY <2>1, ClaimFailsDoes
    <3>2. frame[w].at = b
      BY <1>5, <2>0, <3>1 DEF AfterQueueing
    <3>3. frame[w].task = frame[w].sigma /\ frame[w].arg = cell[b]
      BY <1>2, <2>0, <3>1, <3>2 DEF JobFits, Calling
    <3> QED
      BY <1>2, <1>5, <3>1, <3>2, <3>3 DEF Accepts
  <2>2. CASE FinishQueueing(w)
    <3>1. UNCHANGED frame /\ pc[w] = "push" /\ pc'[w] = AfterQueueing(w)
      BY <2>2, FinishQueueingDoes
    <3>2. frame[w].at = b
      BY <1>5, <2>0, <3>1 DEF AfterQueueing
    <3>3. frame[w].task = frame[w].sigma
      BY <1>2, <2>0, <3>1, <3>2 DEF JobFits, Calling
    <3>4. frame[w].task \in claimed[b]
      BY <3>1, <3>2 DEF Inv, Queueings, TasksFitCells, IsInside
    <3> QED
      BY <1>2, <3>1, <3>3, <3>4
  <2> QED
    BY <1>5, <2>1, <2>2, StepsByPlace
<1>6. ASSUME NEW v \in claimed'[b]
      PROVE  /\ cell[b] \in v
             /\ ToMesh(b, v) \in stored' \/ \E x \in Crew(b) : Carries(x, b, v)'
  <2>1. CASE v \notin claimed[b]
    BY <1>1, <1>4, <2>1
  <2>2. CASE v \in claimed[b]
    <3>1. cell[b] \in v /\ (ToMesh(b, v) \in stored \/ \E x \in Crew(b) : Carries(x, b, v))
      BY <1>2, <2>2 DEF ClaimsFit, Carries
    <3>2. ASSUME NEW x \in Crew(b), Carries(x, b, v), ToMesh(b, v) \notin stored'
          PROVE  Carries(x, b, v)'
      <4>1. CASE x = w
        BY <1>3, <2>2, <3>2, <4>1
      <4>2. CASE x # w
        BY <1>1, <3>2, <4>2 DEF Carries, Crew
      <4> QED
        BY <4>1, <4>2
    <3> QED
      BY <1>1, <3>1, <3>2
  <2> QED
    BY <2>1, <2>2
<1>7. ASSUME NEW x \in Crew(b), pc'[x] = "store", cell[b] \in frame'[x].sigma
      PROVE  frame'[x].sigma \in claimed'[b]
  <2>1. CASE x = w
    BY <1>5, <1>7, <2>1
  <2>2. CASE x # w
    <3>1. x \in Workers \ {w}
      BY <2>2 DEF Crew
    <3> QED
      BY <1>1, <1>2, <1>7, <3>1 DEF ClaimsFit
  <2> QED
    BY <2>1, <2>2
<1> QED
  BY <1>1, <1>6, <1>7 DEF ClaimsFit, Carries, Crew

-----------------------------------------------------------------------------
(* The edge table *)

\* The edge part of the invariant.
AllEdgesFit ==
  \A b \in Branches : Active(b) => \A e \in DOMAIN edges[b] : EdgeFits(b, e)

\* pushedge() fills an entry with the second token, and a full entry stays.
LEMMA TokensGrow ==
  ASSUME NEW old \in Seq(Nat), Len(old) <= 2, NEW token \in Nat
  PROVE  LET explored == PushedTokens(old, token, TRUE)
             queued   == PushedTokens(old, token, FALSE)
         IN  /\ Len(old) = 2 => explored = old /\ queued = old
             /\ Len(old) = 1 => Len(explored) = 2
             /\ Len(old) = 1 /\ old[1] # token => Len(queued) = 2
             /\ Len(old) = 1 /\ old[1] = token => queued = old
             /\ Len(old) = 0 => queued = <<token>>
<1>1. Len(old) = 0 <=> old = <<>>
  OBVIOUS
<1>2. Len(Append(old, token)) = Len(old) + 1 /\ Len(old) \in Nat
  OBVIOUS
<1>3. /\ old = <<>> => PushedTokens(old, token, FALSE) = <<token>>
      /\ old # <<>> /\ Len(old) = 1 => PushedTokens(old, token, TRUE) = Append(old, token)
      /\ old # <<>> /\ Len(old) = 1 /\ old[1] # token
           => PushedTokens(old, token, FALSE) = Append(old, token)
      /\ old # <<>> /\ ~(Len(old) = 1 /\ old[1] # token)
           => PushedTokens(old, token, FALSE) = old
      /\ old # <<>> /\ Len(old) # 1 => PushedTokens(old, token, TRUE) = old
  BY Zenon DEF PushedTokens
<1> DEFINE explored == PushedTokens(old, token, TRUE)
           queued   == PushedTokens(old, token, FALSE)
<1> HIDE DEF explored, queued
<1>4. /\ old = <<>> => queued = <<token>>
      /\ old # <<>> /\ Len(old) = 1 => explored = Append(old, token)
      /\ old # <<>> /\ Len(old) = 1 /\ old[1] # token => queued = Append(old, token)
      /\ old # <<>> /\ ~(Len(old) = 1 /\ old[1] # token) => queued = old
      /\ old # <<>> /\ Len(old) # 1 => explored = old
  BY <1>3, Zenon DEF explored, queued
<1>5. Len(old) = 1 => Len(Append(old, token)) = 2
  BY <1>2
<1>6. Len(old) = 2 => old # <<>> /\ Len(old) # 1 /\ Len(old) # 0
  BY <1>1
<1>7. /\ Len(old) = 2 => explored = old /\ queued = old
      /\ Len(old) = 1 => Len(explored) = 2
      /\ Len(old) = 1 /\ old[1] # token => Len(queued) = 2
      /\ Len(old) = 1 /\ old[1] = token => queued = old
      /\ Len(old) = 0 => queued = <<token>>
  <2>1. Len(old) = 1 => old # <<>>
    BY <1>1
  <2> QED
    BY <1>1, <1>4, <1>5, <1>6, <2>1, Zenon
<1> QED
  BY <1>7 DEF explored, queued

\* An entry of an edge table holds at most two generators.
LEMMA TableTypes ==
  ASSUME Inv, NEW b \in Branches, NEW e
  PROVE  /\ Tokens(b, e) \in Seq(Nat) /\ Len(Tokens(b, e)) \in Nat
         /\ Len(Tokens(b, e)) \in 0 .. 2 /\ Len(Tokens(b, e)) <= 2
         /\ e \in DOMAIN edges[b] <=> SeenOnce(b, e)
<1>1. EdgeTypes
  BY DEF Inv, Types
<1>2. CASE e \in DOMAIN edges[b]
  <2>1. Tokens(b, e) = edges[b][e]
    BY <1>2, Zenon DEF Tokens
  <2>2. edges[b][e] \in Seq(Nat) /\ Len(edges[b][e]) \in 1 .. 2
    BY <1>1, <1>2, Zenon DEF EdgeTypes
  <2>3. \A n \in 1 .. 2 : n \in 0 .. 2 /\ n <= 2 /\ n >= 1 /\ n \in Nat
    OBVIOUS
  <2> QED
    BY <1>2, <2>1, <2>2, <2>3, Zenon DEF SeenOnce
<1>3. CASE e \notin DOMAIN edges[b]
  <2>1. Tokens(b, e) = <<>>
    BY <1>3, Zenon DEF Tokens
  <2>2. /\ <<>> \in Seq(Nat) /\ Len(<<>>) \in Nat /\ Len(<<>>) \in 0 .. 2 /\ Len(<<>>) <= 2
        /\ ~(Len(<<>>) >= 1)
    OBVIOUS
  <2> QED
    BY <1>3, <2>1, <2>2, Zenon DEF SeenOnce
<1> QED
  BY <1>2, <1>3

\* What pushedge() changes.
Puts(b, e, new) ==
  edges' = [edges EXCEPT ![b] = [f \in DOMAIN @ \cup {e} |-> IF f = e THEN new ELSE @[f]]]

\* A push changes one entry of one table.
LEMMA PushDoes ==
  ASSUME Inv, NEW b \in Branches, NEW e, NEW new, Puts(b, e, new)
  PROVE  /\ Tokens(b, e)' = new
         /\ \A c \in Branches : \A f : c # b \/ f # e =>
              /\ Tokens(c, f)' = Tokens(c, f)
              /\ f \in DOMAIN edges'[c] <=> f \in DOMAIN edges[c]
<1> DEFINE dom == DOMAIN edges[b] \cup {e}
           table == [f \in dom |-> IF f = e THEN new ELSE edges[b][f]]
<1>1. DOMAIN edges = Branches
  BY DEF Inv, Types, EdgeTypes
<1>2. edges' = [edges EXCEPT ![b] = table]
  BY DEF Puts
<1>3. e \in dom /\ \A f : f # e => (f \in dom <=> f \in DOMAIN edges[b])
  OBVIOUS
<1>4. DOMAIN table = dom /\ \A f \in dom : table[f] = IF f = e THEN new ELSE edges[b][f]
  OBVIOUS
<1> HIDE DEF dom, table
<1>5. edges'[b] = table /\ \A c \in Branches : c # b => edges'[c] = edges[c]
  BY <1>1, <1>2
<1>6. Tokens(b, e)' = new
  BY <1>3, <1>4, <1>5, Zenon DEF Tokens
<1>7. ASSUME NEW c \in Branches, NEW f, c # b \/ f # e
      PROVE  /\ Tokens(c, f)' = Tokens(c, f)
             /\ f \in DOMAIN edges'[c] <=> f \in DOMAIN edges[c]
  <2>1. CASE c # b
    <3>1. edges'[c] = edges[c]
      BY <1>5, <2>1
    <3> QED
      BY <3>1, Zenon DEF Tokens
  <2>2. CASE c = b /\ f # e
    <3>1. f \in DOMAIN edges'[b] <=> f \in DOMAIN edges[b]
      BY <1>3, <1>4, <1>5, <2>2, Zenon
    <3>2. f \in dom => edges'[b][f] = edges[b][f]
      BY <1>4, <1>5, <2>2, Zenon
    <3>3. f \in DOMAIN edges[b] => edges'[b][f] = edges[b][f]
      BY <1>3, <2>2, <3>2, Zenon
    <3>4. Tokens(b, f)' = Tokens(b, f)
      BY <3>1, <3>3, Zenon DEF Tokens
    <3> QED
      BY <2>2, <3>1, <3>4, Zenon
  <2> QED
    BY <1>7, <2>1, <2>2
<1> QED
  BY <1>6, <1>7

\* An edge stays recorded, and a full one full.
LEMMA TablesGrow ==
  ASSUME NEW w \in Workers, Inv, WorkerStep(w), NEW c \in Branches
  PROVE  /\ DOMAIN edges[c] \subseteq DOMAIN edges'[c]
         /\ \A f : FullIn(edges[c], f) => FullIn(edges'[c], f)
<1>1. CASE UNCHANGED edges
  BY <1>1
<1>2. CASE ~UNCHANGED edges
  <2>1. PICK b, e, new :
          b \in Branches /\ Puts(b, e, new) /\ (Len(Tokens(b, e)) = 2 => new = Tokens(b, e))
    <3>1. CASE ExploreEdge(w)
      <4> DEFINE b == Own(w)
                 e == Without(frame[w].origin, Min(frame[w].left))
                 new == PushedTokens(Tokens(b, e), cell[b], TRUE)
      <4>1. Puts(b, e, new)
        BY <3>1, ExploreEdgeDoes DEF PushEdgeInto, Puts
      <4>2. b \in Branches /\ cell[b] \in Nat
        BY WorkerFacts, CellBounds
      <4> HIDE DEF b, e
      <4>3. Len(Tokens(b, e)) = 2 => new = Tokens(b, e)
        BY <4>2, TableTypes, TokensGrow
      <4> QED
        BY <4>1, <4>2, <4>3
    <3>2. CASE QueueEdge(w)
      <4> DEFINE b == frame[w].at
                 skip == Min(frame[w].todo)
                 e == Without(frame[w].task, skip)
                 new == PushedTokens(Tokens(b, e), skip, FALSE)
      <4>1. Puts(b, e, new) /\ frame[w].todo # {}
        BY <3>2, QueueEdgeDoes DEF PushEdgeInto, Puts
      <4>2. b \in Branches /\ skip \in Nat
        BY <4>1, WorkerContext, MinIsLeast DEF Frames
      <4> HIDE DEF b, e, skip
      <4>3. Len(Tokens(b, e)) = 2 => new = Tokens(b, e)
        BY <4>2, TableTypes, TokensGrow
      <4> QED
        BY <4>1, <4>2, <4>3
    <3> QED
      BY <1>2, <3>1, <3>2, NextVertexDoes, ThreadEndDoes, PopVertexDoes, ClaimVertexDoes,
         ClaimFailsDoes, TakePrototypeDoes, FinishQueueingDoes, StoreVertexDoes,
         ListVertexDoes, VertexListedDoes, InformBranchDoes, VertexRegisteredDoes
         DEF WorkerStep
  <2>2. DOMAIN edges = Branches
    BY DEF Inv, Types, EdgeTypes
  <2>3. CASE c # b
    <3>1. edges'[c] = edges[c]
      BY <2>1, <2>2, <2>3 DEF Puts
    <3> QED
      BY <3>1
  <2>4. CASE c = b
    <3>1. edges'[b] = [f \in DOMAIN edges[b] \cup {e} |-> IF f = e THEN new ELSE edges[b][f]]
      BY <2>1, <2>2 DEF Puts
    <3>2. /\ DOMAIN edges'[b] = DOMAIN edges[b] \cup {e}
          /\ \A f \in DOMAIN edges[b] : f # e => edges'[b][f] = edges[b][f]
          /\ edges'[b][e] = new
      BY <3>1
    <3>3. FullIn(edges[b], e) => FullIn(edges'[b], e)
      <4>1. FullIn(edges[b], e) => Tokens(b, e) = edges[b][e] /\ Len(edges[b][e]) = 2
        BY DEF FullIn, Tokens
      <4> QED
        BY <2>1, <3>2, <4>1 DEF FullIn
    <3> QED
      BY <2>4, <3>2, <3>3 DEF FullIn
  <2> QED
    BY <2>3, <2>4
<1> QED
  BY <1>1, <1>2

\* An edge the step does not push keeps what is known of it.
LEMMA EdgeStays ==
  ASSUME NEW w \in Workers, Inv, JobsFit, PhasesFit, WorkerStep(w),
         NEW b \in Branches, Active(b), NEW e, EdgeFits(b, e),
         Tokens(b, e)' = Tokens(b, e)
  PROVE  EdgeFits(b, e)'
<1>1. /\ UNCHANGED <<cell>> /\ infinite \subseteq infinite' /\ published[b]
      /\ claimed[b] \subseteq claimed'[b]
  BY WorkerStepsKeep, ActiveIsPublished
<1>2. ASSUME NEW u \in Ends(b, e), u \in claimed[b] \/ \E x \in Crew(b) : AtClaim(x, b, u)
      PROVE  u \in claimed'[b] \/ \E x \in Crew(b) : AtClaim(x, b, u)'
  <2>1. cell[b] \in u
    BY DEF EdgeFits, Ends
  <2>2. \A x \in Crew(b) : AtClaim(x, b, u) => AtClaim(x, b, u)' \/ u \in claimed'[b]
    BY <1>1, <2>1, CallsAreHeard DEF Crew
  <2> QED
    BY <1>1, <1>2, <2>2
<1>3. Ends(b, e)' = Ends(b, e) /\ Crew(b)' = Crew(b) /\ Diagram(b)' = Diagram(b)
  BY DEF Ends, Crew, Diagram
<1>4. /\ cell[b] \in e
      /\ \E v \in Diagram(b) : \E g \in v : e = Without(v, g)
      /\ Len(Tokens(b, e)) = 1 => Tokens(b, e)[1] \notin e /\ e \cup {Tokens(b, e)[1]} \in claimed[b]
      /\ Len(Tokens(b, e)) = 2 =>
           /\ \A u \in Ends(b, e) : u \in claimed[b] \/ \E x \in Crew(b) : AtClaim(x, b, u)
           /\ (\A u, v \in Ends(b, e) : u = v) => ToMesh(b, e) \in infinite
  BY DEF EdgeFits
<1>5. cell'[b] \in e
  BY <1>1, <1>4
<1>6. Len(Tokens(b, e)') = 1 =>
        (Tokens(b, e)')[1] \notin e /\ e \cup {(Tokens(b, e)')[1]} \in claimed'[b]
  BY <1>1, <1>4
<1>7. Len(Tokens(b, e)') = 2 =>
        /\ \A u \in Ends(b, e) : u \in claimed'[b] \/ \E x \in Crew(b) : AtClaim(x, b, u)'
        /\ (\A u, v \in Ends(b, e) : u = v) => ToMesh(b, e) \in infinite'
  BY <1>1, <1>2, <1>4
<1> QED
  BY <1>3, <1>4, <1>5, <1>6, <1>7 DEF EdgeFits

\* The task part of the invariant.
AllTasksRecorded == \A b \in Branches : Active(b) => TasksAreRecorded(b)

\* The edge a worker explores next.
Explores(w, e) == e = Without(frame[w].origin, Min(frame[w].left))

\* systematic_explore_vertex() meets an edge for the second time: its other end,
\* if there is one, is about to be claimed.
LEMMA ExploredEdgeFits ==
  ASSUME NEW w \in Workers, Inv, JobsFit, PhasesFit, AllEdgesFit, AllTasksRecorded,
         ExploreEdge(w), NEW b \in Branches, w \in Crew(b), Active(b),
         NEW e, Explores(w, e)
  PROVE  EdgeFits(b, e)'
<1> DEFINE f == frame[w]
           skip == Min(f.left)
<1>0. WorkerStep(w)
  BY DEF WorkerStep
<1>1. /\ pc[w] = "edges" /\ f.left # {} /\ UNCHANGED claimed
      /\ PushEdgeInto(b, e, cell[b], TRUE)
      /\ \/ AlreadyComplete(b, e) /\ pc'[w] = "edges"
         \/ /\ ~AlreadyComplete(b, e) /\ pc'[w] = "claim"
            /\ \E u \in Ends(b, e) \ {f.origin} :
                 /\ frame'[w].sigma = u /\ frame'[w].task = u
                 /\ frame'[w].at = b /\ frame'[w].arg = cell[b]
         \/ /\ ~AlreadyComplete(b, e) /\ pc'[w] = "edges"
            /\ Ends(b, e) \subseteq {f.origin} /\ ToMesh(b, e) \in infinite'
  BY ExploreEdgeDoes DEF Crew, Explores
<1>2. b \in Branches /\ w \in Crew(b) /\ UNCHANGED cell
  BY <1>0, WorkerStepsKeep
<1>3. /\ skip \in OwnedSkips(f.origin, cell[b]) /\ SeenOnce(b, e)
      /\ f.origin \in Diagram(b) /\ f.origin \in claimed[b]
  <2>1. f.left \subseteq OwnedSkips(f.origin, cell[b])
    BY <1>2 DEF AllTasksRecorded, TasksAreRecorded, TourFits
  <2>2. f.left \in SUBSET Nat /\ f.left \subseteq f.origin
        /\ f.origin \in Diagram(b) \cup {None}
    BY WorkerContext DEF Consistent, Frames, Crew
  <2>3. skip \in f.left
    BY <1>1, <2>2, MinIsLeast
  <2>4. f.origin # None
    BY <2>2, <2>3 DEF None
  <2>5. Recorded(b, f.origin, skip)
    BY <1>2, <2>1, <2>3 DEF AllTasksRecorded, TasksAreRecorded, TourFits
  <2>6. f.origin \in claimed[b]
    BY <2>4 DEF Inv, Queueings, TasksFitCells, Crew
  <2> QED
    BY <2>1, <2>2, <2>3, <2>4, <2>5, <2>6, TableTypes DEF Recorded, Explores
<1>4. cell[b] \in e /\ skip \in f.origin /\ f.origin \in Ends(b, e)
  BY <1>3 DEF OwnedSkips, Without, Ends, Explores
<1>5. EdgeFits(b, e)
  BY <1>2, <1>3, TableTypes DEF AllEdgesFit
<1>6. /\ Tokens(b, e)' = PushedTokens(Tokens(b, e), cell[b], TRUE)
      /\ Tokens(b, e) \in Seq(Nat) /\ Len(Tokens(b, e)) <= 2
  <2>1. PICK new : Puts(b, e, new) /\ new = PushedTokens(Tokens(b, e), cell[b], TRUE)
    BY <1>1 DEF PushEdgeInto, Puts
  <2>2. Tokens(b, e)' = new
    BY <2>1, PushDoes
  <2> QED
    BY <2>1, <2>2, TableTypes
<1>7. cell[b] \in Nat
  BY <1>2, CellBounds
<1>8. CASE AlreadyComplete(b, e)
  <2>1. Tokens(b, e)' = Tokens(b, e)
    BY <1>6, <1>7, <1>8, TokensGrow DEF AlreadyComplete
  <2> QED
    BY <1>0, <1>2, <1>3, <1>5, <2>1, EdgeStays
<1>9. CASE ~AlreadyComplete(b, e)
  <2> HIDE DEF f, skip
  <2>1. Len(Tokens(b, e)') = 2
    <3>1. Len(Tokens(b, e)) = 1
      BY <1>2, <1>3, <1>9, TableTypes DEF AlreadyComplete, SeenOnce
    <3> QED
      BY <1>6, <1>7, <3>1, TokensGrow
  <2>2. \A u \in Ends(b, e) : u = f.origin \/ AtClaim(w, b, u)'
    <3>1. ASSUME NEW u \in Ends(b, e) \ {f.origin}
          PROVE  Ends(b, e) = {f.origin, u}
      BY <1>2, <1>3, <1>4, TwoEnds DEF f, skip, Explores
    <3> QED
      BY <1>1, <1>2, <1>9, <3>1 DEF AtClaim
  <2>3. (\A u, v \in Ends(b, e) : u = v) => ToMesh(b, e) \in infinite'
    BY <1>1, <1>4, <1>9
  <2>4. \E v \in Diagram(b) : \E g \in v : e = Without(v, g)
    BY <1>3, <1>4 DEF f, skip, Explores
  <2>5. \A u \in Ends(b, e) : u \in claimed'[b] \/ \E x \in Crew(b) : AtClaim(x, b, u)'
    BY <1>1, <1>2, <1>3, <2>2
  <2>6. /\ Ends(b, e)' = Ends(b, e) /\ Crew(b)' = Crew(b) /\ Diagram(b)' = Diagram(b)
        /\ cell'[b] \in e
    BY <1>2, <1>4 DEF Ends, Crew, Diagram
  <2>7. EdgeFits(b, e)'
    BY <2>1, <2>3, <2>4, <2>5, <2>6 DEF EdgeFits
  <2> QED
    BY <2>7
<1> QED
  BY <1>8, <1>9

\* The branch a worker visits, and the edge it records there.
CallsTo(w, b) == frame[w].at = b
Records(w, e) == e = Without(frame[w].task, Min(frame[w].todo))

\* queue_edges() records an edge: once for each of its ends.
LEMMA QueuedEdgeFits ==
  ASSUME NEW w \in Workers, Inv, JobsFit, PhasesFit, AllEdgesFit, AllTasksRecorded,
         QueueEdge(w), NEW b \in Branches, CallsTo(w, b), Active(b),
         NEW e, Records(w, e)
  PROVE  EdgeFits(b, e)'
<1> DEFINE f == frame[w]
           skip == Min(f.todo)
<1>0. WorkerStep(w)
  BY DEF WorkerStep
<1>1. /\ pc[w] = "push" /\ f.todo # {} /\ UNCHANGED claimed
      /\ PushEdgeInto(b, e, skip, FALSE)
  BY QueueEdgeDoes DEF CallsTo, Records
<1>2. b \in Branches /\ UNCHANGED cell
  BY <1>0, WorkerStepsKeep
<1>3. /\ skip \in OwnedSkips(f.task, cell[b]) /\ skip \in Nat
      /\ f.task \in Diagram(b) /\ f.task \in claimed[b]
  <2>1. IsInside(w)
    BY <1>1 DEF IsInside
  <2>2. f.todo \subseteq OwnedSkips(f.task, cell[b])
    BY <1>2, <2>1 DEF AllTasksRecorded, TasksAreRecorded, PassFits, CallsTo
  <2>3. f.todo \in SUBSET Nat /\ f.task \in Diagram(b)
    BY <1>1, WorkerContext DEF Consistent, Frames, Calling, CallsTo
  <2>4. skip \in f.todo
    BY <1>1, <2>3, MinIsLeast
  <2>5. f.task \in claimed[b]
    BY <2>1 DEF Inv, Queueings, TasksFitCells, CallsTo
  <2> QED
    BY <2>2, <2>3, <2>4, <2>5
<1>4. /\ cell[b] \in e /\ skip \in f.task /\ skip \notin e /\ f.task \in Ends(b, e)
      /\ e \cup {skip} = f.task
  BY <1>3 DEF OwnedSkips, Without, Ends, Records
<1>5. \E v \in Diagram(b) : \E g \in v : e = Without(v, g)
  BY <1>3, <1>4 DEF Records
<1>6. /\ Tokens(b, e)' = PushedTokens(Tokens(b, e), skip, FALSE)
      /\ Tokens(b, e) \in Seq(Nat) /\ Len(Tokens(b, e)) \in 0 .. 2 /\ Len(Tokens(b, e)) <= 2
  <2>1. PICK new : Puts(b, e, new) /\ new = PushedTokens(Tokens(b, e), skip, FALSE)
    BY <1>1 DEF PushEdgeInto, Puts
  <2>2. Tokens(b, e)' = new
    BY <2>1, PushDoes
  <2> QED
    BY <2>1, <2>2, TableTypes
<1>7. SeenOnce(b, e) => EdgeFits(b, e)
  BY <1>2, TableTypes DEF AllEdgesFit
<1> HIDE DEF f, skip
<1>8. Active(b)
  OBVIOUS
<1>9. /\ Ends(b, e)' = Ends(b, e) /\ Crew(b)' = Crew(b) /\ Diagram(b)' = Diagram(b)
      /\ cell'[b] \in e
  BY <1>2, <1>4 DEF Ends, Crew, Diagram
<1>10. CASE SeenOnce(b, e) /\ Tokens(b, e)' = Tokens(b, e)
  <2>1. EdgeFits(b, e)'
    BY <1>0, <1>2, <1>7, <1>8, <1>10, EdgeStays
  <2> QED
    BY <2>1
<1>11. CASE ~SeenOnce(b, e)
  <2>1. Tokens(b, e)' = <<skip>>
    <3>1. Len(Tokens(b, e)) = 0
      BY <1>6, <1>11 DEF SeenOnce
    <3> QED
      BY <1>3, <1>6, <3>1, TokensGrow
  <2>2. Tokens(b, e)' = <<skip>> /\ Len(<<skip>>) = 1 /\ <<skip>>[1] = skip
    BY <2>1
  <2>3. EdgeFits(b, e)'
    BY <1>1, <1>3, <1>4, <1>5, <1>9, <2>2 DEF EdgeFits
  <2> QED
    BY <2>3
<1>12. CASE SeenOnce(b, e) /\ Tokens(b, e)' # Tokens(b, e)
  <2> DEFINE t == Tokens(b, e)[1]
             x == e \cup {t}
  <2>1. Len(Tokens(b, e)) = 1 /\ t # skip /\ Len(Tokens(b, e)') = 2
    <3>1. Len(Tokens(b, e)) \in {1, 2}
      BY <1>6, <1>12 DEF SeenOnce
    <3> HIDE DEF t
    <3>2. Len(Tokens(b, e)) # 2
      BY <1>3, <1>6, <1>12, TokensGrow
    <3>3. Len(Tokens(b, e)) = 1 /\ t # skip
      BY <1>3, <1>6, <1>12, <3>1, <3>2, TokensGrow DEF t
    <3> QED
      BY <1>3, <1>6, <3>3, TokensGrow DEF t
  <2>2. t \notin e /\ x \in claimed[b]
    BY <1>7, <1>12, <2>1 DEF EdgeFits
  <2>3. x \in Diagram(b)
    BY <1>2, <2>2 DEF Inv, Types, QueueTypes
  <2>4. x \in Ends(b, e) /\ x # f.task
    <3>1. skip \notin x
      BY <1>4, <2>1
    <3> QED
      BY <1>4, <2>3, <3>1 DEF Ends
  <2>5. Ends(b, e) = {f.task, x}
    <3>1. \A y, z \in Ends(b, e) : y # z => Ends(b, e) = {y, z}
      <4>1. PICK v \in Diagram(b) : \E g \in v : e = Without(v, g)
        BY <1>5
      <4>2. PICK g \in v : e = Without(v, g)
        BY <4>1
      <4> QED
        BY <1>2, <4>1, <4>2, TwoEnds
    <3> QED
      BY <1>4, <2>4, <3>1
  <2> HIDE DEF x, t
  <2>6. /\ \A u \in Ends(b, e) : u \in claimed'[b]
        /\ ~(\A u, v \in Ends(b, e) : u = v)
    BY <1>1, <1>3, <2>2, <2>4, <2>5
  <2>7. EdgeFits(b, e)'
    BY <1>5, <1>9, <2>1, <2>6 DEF EdgeFits
  <2> QED
    BY <2>7
<1> QED
  BY <1>10, <1>11, <1>12

\* A step of a worker leaves every entry of the edge tables consistent.
LEMMA WorkerStepKeepsEdges ==
  ASSUME NEW w \in Workers, Inv, JobsFit, PhasesFit, AllEdgesFit, AllTasksRecorded,
         WorkerStep(w)
  PROVE  AllEdgesFit'
<1>1. UNCHANGED <<phase, cell, upcoming>>
  BY WorkerStepsKeep
<1> SUFFICES ASSUME NEW b \in Branches, Active(b), NEW e \in DOMAIN edges'[b]
             PROVE  EdgeFits(b, e)'
  BY <1>1 DEF AllEdgesFit, Active, Opened, Left
<1>2. ASSUME e \in DOMAIN edges[b], Tokens(b, e)' = Tokens(b, e)
      PROVE  EdgeFits(b, e)'
  <2>1. EdgeFits(b, e)
    BY <1>2 DEF AllEdgesFit
  <2> QED
    BY <1>2, <2>1, EdgeStays
<1>3. CASE UNCHANGED edges
  <2>1. Tokens(b, e)' = Tokens(b, e)
    BY <1>3 DEF Tokens
  <2> QED
    BY <1>2, <1>3, <2>1
<1>4. CASE ExploreEdge(w)
  <2> DEFINE d == Without(frame[w].origin, Min(frame[w].left))
  <2>1. PushEdgeInto(Own(w), d, cell[Own(w)], TRUE) /\ Own(w) \in Branches
    BY <1>4, ExploreEdgeDoes, WorkerFacts
  <2>2. CASE b = Own(w) /\ e = d
    BY <1>4, <2>2, ExploredEdgeFits, WorkerFacts DEF Crew, Explores
  <2>3. CASE ~(b = Own(w) /\ e = d)
    <3> HIDE DEF d
    <3>1. PICK c, x, new :
          c \in Branches /\ Puts(c, x, new) /\ (b # c \/ e # x)
      BY <2>1, <2>3 DEF PushEdgeInto, Puts
    <3>2. /\ Tokens(b, e)' = Tokens(b, e)
          /\ e \in DOMAIN edges'[b] <=> e \in DOMAIN edges[b]
      BY <3>1, PushDoes
    <3> QED
      BY <1>2, <3>2
  <2> QED
    BY <2>2, <2>3
<1>5. CASE QueueEdge(w)
  <2> DEFINE d == Without(frame[w].task, Min(frame[w].todo))
  <2>1. /\ PushEdgeInto(frame[w].at, d, Min(frame[w].todo), FALSE)
        /\ frame[w].at \in Branches
    BY <1>5, QueueEdgeDoes, WorkerContext
  <2>2. CASE b = frame[w].at /\ e = d
    BY <1>5, <2>2, QueuedEdgeFits DEF CallsTo, Records
  <2>3. CASE ~(b = frame[w].at /\ e = d)
    <3> HIDE DEF d
    <3>1. PICK c, x, new :
          c \in Branches /\ Puts(c, x, new) /\ (b # c \/ e # x)
      BY <2>1, <2>3 DEF PushEdgeInto, Puts
    <3>2. /\ Tokens(b, e)' = Tokens(b, e)
          /\ e \in DOMAIN edges'[b] <=> e \in DOMAIN edges[b]
      BY <3>1, PushDoes
    <3> QED
      BY <1>2, <3>2
  <2> QED
    BY <2>2, <2>3
<1> QED
  BY <1>3, <1>4, <1>5, NextVertexDoes, ThreadEndDoes, PopVertexDoes, ClaimVertexDoes,
     ClaimFailsDoes, TakePrototypeDoes, FinishQueueingDoes, StoreVertexDoes, ListVertexDoes,
     VertexListedDoes, InformBranchDoes, VertexRegisteredDoes DEF WorkerStep

\* The tour of a worker starts from a queued task and only shrinks.
LEMMA TourStays ==
  ASSUME NEW w \in Workers, Inv, WorkerStep(w), NEW b \in Branches, TasksAreRecorded(b),
         NEW x \in Crew(b)
  PROVE  TourFits(x, b)'
<1>1. /\ UNCHANGED cell /\ DOMAIN edges[b] \subseteq DOMAIN edges'[b]
      /\ \A y \in Workers \ {w} : frame'[y] = frame[y]
  BY WorkerStepsKeep, TablesGrow
<1>2. TourFits(x, b) /\ QueueFits(b) /\ x \in Workers /\ Own(x) = b
  BY DEF TasksAreRecorded, Crew
<1>3. CASE /\ frame'[x].origin = frame[x].origin
           /\ frame'[x].left \subseteq frame[x].left
  BY <1>1, <1>2, <1>3 DEF TourFits, Recorded
<1>4. CASE frame'[x].origin = None /\ frame'[x].left = {}
  BY <1>4 DEF TourFits, OwnedSkips, None
<1>5. CASE PopVertex(w) /\ x = w
  <2>1. /\ queue[b] # <<>> /\ frame'[x].origin = Last(queue[b])
        /\ frame'[x].left = OwnedSkips(Last(queue[b]), cell[b])
    BY <1>2, <1>5, PopVertexDoes
  <2>2. Last(queue[b]) \in ToSet(queue[b])
    BY <2>1, QueueOperations DEF Inv, Types, QueueTypes
  <2> QED
    BY <1>1, <1>2, <2>1, <2>2 DEF TourFits, QueueFits, Recorded
<1>6. CASE x # w
  <2>1. frame'[x] = frame[x]
    BY <1>1, <1>2, <1>6
  <2> QED
    BY <1>3, <2>1
<1>7. CASE ~PopVertex(w)
  <2>1. \/ SameTour(frame[w], frame'[w])
        \/ frame'[w].origin = frame[w].origin /\ frame'[w].left \subseteq frame[w].left
        \/ frame'[w].origin = None /\ frame'[w].left = {}
    <3>1. CASE ExploreEdge(w)
      <4>1. SameTour([frame[w] EXCEPT !.left = @ \ {Min(frame[w].left)}], frame'[w])
        BY <3>1, ExploreEdgeDoes
      <4>2. frame[w] \in Frames
        BY WorkerContext
      <4> QED
        BY <4>1, <4>2 DEF SameTour, Frames
    <3>2. UNCHANGED frame => SameTour(frame[w], frame'[w])
      BY DEF SameTour
    <3> QED
      BY <1>7, <3>1, <3>2, NextVertexDoes, ThreadEndDoes, ClaimVertexDoes, ClaimFailsDoes,
         TakePrototypeDoes, QueueEdgeDoes, FinishQueueingDoes, StoreVertexDoes,
         ListVertexDoes, VertexListedDoes, InformBranchDoes, VertexRegisteredDoes
         DEF WorkerStep
  <2> QED
    BY <1>3, <1>4, <1>6, <2>1 DEF SameTour
<1> QED
  BY <1>5, <1>6, <1>7

\* queue_edges() has recorded what it no longer has to do.
LEMMA PassStays ==
  ASSUME NEW w \in Workers, Inv, PhasesFit, WorkerStep(w), NEW b \in Branches, Active(b),
         TasksAreRecorded(b), NEW x \in Workers
  PROVE  PassFits(x, b)'
<1>1. /\ UNCHANGED cell /\ DOMAIN edges[b] \subseteq DOMAIN edges'[b]
      /\ \A y \in Workers \ {w} : frame'[y] = frame[y] /\ pc'[y] = pc[y]
      /\ CurrentCell(b) = cell[b]
  BY WorkerStepsKeep, TablesGrow, ActiveIsPublished DEF CurrentCell
<1>2. PassFits(x, b)
  BY DEF TasksAreRecorded
<1>3. CASE x # w
  BY <1>1, <1>2, <1>3 DEF PassFits, Recorded, IsInside
<1>4. CASE x = w /\ ClaimVertex(w)
  <2>1. /\ frame[w].arg = CurrentCell(frame[w].at) /\ SameCall(frame[w], frame'[w])
        /\ frame'[w].todo = OwnedSkips(frame[w].task, frame[w].arg)
    BY <1>4, ClaimVertexDoes
  <2> QED
    BY <1>1, <1>4, <2>1 DEF PassFits, SameCall
<1>5. CASE x = w /\ TakePrototype(w)
  <2>1. UNCHANGED frame /\ pc[w] = "proto"
    BY <1>5, TakePrototypeDoes
  <2> QED
    BY <1>1, <1>2, <1>5, <2>1 DEF PassFits, Recorded, IsInside
<1>6. CASE x = w /\ QueueEdge(w)
  <2> DEFINE skip == Min(frame[w].todo)
  <2>1. /\ pc[w] = "push" /\ SameCall(frame[w], frame'[w])
        /\ frame'[w].todo = frame[w].todo \ {skip}
        /\ PushEdgeInto(frame[w].at, Without(frame[w].task, skip), skip, FALSE)
    BY <1>6, QueueEdgeDoes
  <2>2. frame[w].at = b => Without(frame[w].task, skip) \in DOMAIN edges'[b]
    <3>1. DOMAIN edges = Branches
      BY DEF Inv, Types, EdgeTypes
    <3> QED
      BY <2>1, <3>1 DEF PushEdgeInto
  <2> HIDE DEF skip
  <2> QED
    BY <1>1, <1>2, <1>6, <2>1, <2>2 DEF PassFits, Recorded, IsInside, SameCall
<1>7. CASE x = w /\ ~(ClaimVertex(w) \/ TakePrototype(w) \/ QueueEdge(w))
  <2>1. pc'[w] \notin {"proto", "push"}
    BY <1>7, StepsByPlace
  <2> QED
    BY <1>7, <2>1 DEF PassFits, IsInside
<1> QED
  BY <1>3, <1>4, <1>5, <1>6, <1>7

\* A step of a worker leaves all tasks recorded.
LEMMA WorkerStepKeepsTasks ==
  ASSUME NEW w \in Workers, Inv, PhasesFit, AllTasksRecorded, WorkerStep(w)
  PROVE  AllTasksRecorded'
<1>1. UNCHANGED <<phase, cell, upcoming>>
  BY WorkerStepsKeep
<1> SUFFICES ASSUME NEW b \in Branches, Active(b), TasksAreRecorded(b)
             PROVE  TasksAreRecorded(b)'
  BY <1>1 DEF AllTasksRecorded, Active, Opened, Left
<1>2. QueueFits(b)'
  <2>1. DOMAIN edges[b] \subseteq DOMAIN edges'[b] /\ QueueFits(b) /\ queue[b] \in Seq(SUBSET Nat)
        /\ DOMAIN queue = Branches
    BY TablesGrow DEF TasksAreRecorded, Inv, Types, QueueTypes
  <2>2. CASE ToSet(queue'[b]) \subseteq ToSet(queue[b])
    BY <1>1, <2>1, <2>2 DEF QueueFits, Recorded
  <2>3. CASE PopVertex(w)
    <3>1. queue[Own(w)] # <<>> /\ queue' = [queue EXCEPT ![Own(w)] = Front(@)]
      BY <2>3, PopVertexDoes
    <3>2. CASE Own(w) = b
      <4>1. ToSet(Front(queue[b])) \subseteq ToSet(queue[b])
        BY <2>1, <3>1, <3>2, QueueOperations
      <4> QED
        BY <2>1, <2>2, <3>1, <3>2, <4>1
    <3> QED
      BY <2>1, <2>2, <3>1, <3>2
  <2>4. CASE FinishQueueing(w)
    <3>1. /\ pc[w] = "push" /\ frame[w].todo = {}
          /\ queue' = [queue EXCEPT ![frame[w].at] = IF frame[w].complete THEN @
                                                     ELSE Append(@, frame[w].task)]
      BY <2>4, FinishQueueingDoes
    <3>2. CASE frame[w].at = b /\ ~frame[w].complete
      <4>1. queue'[b] = Append(queue[b], frame[w].task) /\ frame[w].task \in SUBSET Nat
        BY <2>1, <3>1, <3>2, WorkerContext DEF Frames
      <4>2. ToSet(queue'[b]) = ToSet(queue[b]) \cup {frame[w].task}
        BY <2>1, <4>1, QueueOperations
      <4>3. \A g \in OwnedSkips(frame[w].task, cell[b]) : Recorded(b, frame[w].task, g)
        BY <3>1, <3>2 DEF TasksAreRecorded, PassFits, IsInside
      <4> QED
        BY <1>1, <2>1, <4>2, <4>3 DEF QueueFits, Recorded
    <3>3. CASE ~(frame[w].at = b /\ ~frame[w].complete)
      <4>1. queue'[b] = queue[b]
        BY <2>1, <3>1, <3>3
      <4> QED
        BY <2>2, <4>1
    <3> QED
      BY <3>2, <3>3
  <2>5. CASE UNCHANGED queue
    BY <2>2, <2>5
  <2> QED
    BY <2>3, <2>4, <2>5, NextVertexDoes, ThreadEndDoes, ExploreEdgeDoes, ClaimVertexDoes,
       ClaimFailsDoes, TakePrototypeDoes, QueueEdgeDoes, StoreVertexDoes, ListVertexDoes,
       VertexListedDoes, InformBranchDoes, VertexRegisteredDoes DEF WorkerStep
<1>3. \A x \in Crew(b) : TourFits(x, b)'
  BY TourStays
<1>4. \A x \in Workers : PassFits(x, b)'
  BY PassStays
<1> QED
  BY <1>2, <1>3, <1>4 DEF TasksAreRecorded, Crew

-----------------------------------------------------------------------------
(* What is claimed is explored *)

\* The exploration part of the invariant.
AllClaimsSeen == \A b \in Branches : Active(b) => ClaimedAreSeen(b)

\* A queue and its last element.
LEMMA QueueEnds ==
  ASSUME NEW q \in Seq(SUBSET Nat), q # <<>>
  PROVE  ToSet(q) \subseteq ToSet(Front(q)) \cup {Last(q)}
<1>1. /\ DOMAIN Front(q) = 1 .. Len(q) - 1
      /\ \A i \in 1 .. Len(q) - 1 : Front(q)[i] = q[i]
      /\ Last(q) = q[Len(q)] /\ Len(q) \in Nat
  BY DEF Front, Last
<1>2. \A i \in 1 .. Len(q) : i \in 1 .. Len(q) - 1 \/ i = Len(q)
  BY <1>1
<1> QED
  BY <1>1, <1>2 DEF ToSet

\* A task leaves the queue only to be explored.
LEMMA QueuedIsServed ==
  ASSUME NEW w \in Workers, Inv, WorkerStep(w), NEW b \in Branches,
         NEW v \in ToSet(queue[b]), NEW g \in OwnedSkips(v, cell[b])
  PROVE  v \in ToSet(queue'[b]) \/ Awaits(w, b, v, g)'
<1>1. DOMAIN queue = Branches /\ queue[b] \in Seq(SUBSET Nat)
  BY DEF Inv, Types, QueueTypes
<1>2. CASE PopVertex(w)
  <2>1. /\ queue[Own(w)] # <<>> /\ queue' = [queue EXCEPT ![Own(w)] = Front(@)]
        /\ frame'[w].origin = Last(queue[Own(w)])
        /\ frame'[w].left = OwnedSkips(Last(queue[Own(w)]), cell[Own(w)])
    BY <1>2, PopVertexDoes
  <2>2. CASE Own(w) = b
    <3>1. v \in ToSet(Front(queue[b])) \/ v = Last(queue[b])
      BY <1>1, <2>1, <2>2, QueueEnds
    <3> QED
      BY <1>1, <2>1, <2>2, <3>1 DEF Awaits, Crew
  <2> QED
    BY <1>1, <2>1, <2>2
<1>3. CASE FinishQueueing(w)
  <2>1. queue' = [queue EXCEPT ![frame[w].at] = IF frame[w].complete THEN @
                                                ELSE Append(@, frame[w].task)]
    BY <1>3, FinishQueueingDoes
  <2>2. queue'[b] = queue[b] \/ queue'[b] = Append(queue[b], frame[w].task)
    BY <1>1, <2>1
  <2>3. frame[w].task \in SUBSET Nat
    BY WorkerContext DEF Frames
  <2>4. ToSet(Append(queue[b], frame[w].task)) = ToSet(queue[b]) \cup {frame[w].task}
    BY <1>1, <2>3, QueueOperations
  <2> QED
    BY <2>2, <2>4
<1>4. CASE UNCHANGED queue
  BY <1>4
<1> QED
  BY <1>2, <1>3, <1>4, NextVertexDoes, ThreadEndDoes, ExploreEdgeDoes, ClaimVertexDoes,
     ClaimFailsDoes, TakePrototypeDoes, QueueEdgeDoes, StoreVertexDoes, ListVertexDoes,
     VertexListedDoes, InformBranchDoes, VertexRegisteredDoes DEF WorkerStep

\* An edge leaves a tour when it is full.
LEMMA TourIsWalked ==
  ASSUME NEW w \in Workers, Inv, JobsFit, WorkerStep(w), NEW b \in Branches,
         TasksAreRecorded(b), NEW v, NEW g, w \in Crew(b), frame[w].origin = v,
         g \in frame[w].left
  PROVE  FullIn(edges'[b], Without(v, g)) \/ Awaits(w, b, v, g)'
<1>0. /\ Own(w) = b /\ frame[w].left \subseteq frame[w].origin /\ frame[w].left \in SUBSET Nat
      /\ g \in OwnedSkips(v, cell[b]) /\ Recorded(b, v, g)
  BY WorkerContext DEF Crew, Consistent, Frames, TasksAreRecorded, TourFits
<1>1. frame[w].origin # None /\ JobFits(w)
  BY <1>0 DEF None, JobsFit
<1>2. pc[w] # "pop" /\ frame[w].job = "explore" /\ pc[w] # "next"
  BY <1>1 DEF JobFits
<1>3. CASE SameTour(frame[w], frame'[w])
  BY <1>3 DEF Awaits, SameTour, Crew
<1>4. CASE ExploreEdge(w)
  <2> DEFINE skip == Min(frame[w].left)
             e == Without(frame[w].origin, skip)
  <2>1. /\ SameTour([frame[w] EXCEPT !.left = @ \ {skip}], frame'[w])
        /\ PushEdgeInto(b, e, cell[b], TRUE)
    BY <1>0, <1>4, ExploreEdgeDoes
  <2>2. frame'[w].origin = v /\ frame'[w].left = frame[w].left \ {skip}
    <3>1. frame[w] \in Frames
      BY WorkerContext
    <3> QED
      BY <2>1, <3>1 DEF SameTour, Frames
  <2>3. CASE g # skip
    BY <2>2, <2>3 DEF Awaits, Crew
  <2>4. CASE g = skip
    <3>1. e \in DOMAIN edges[b] /\ e = Without(v, g)
      BY <1>0, <2>4 DEF Recorded
    <3> HIDE DEF e
    <3>2. /\ Tokens(b, e) = edges[b][e] /\ Tokens(b, e) \in Seq(Nat)
          /\ Len(Tokens(b, e)) \in {1, 2} /\ Len(Tokens(b, e)) <= 2
      <4>1. Tokens(b, e) = edges[b][e]
        BY <3>1 DEF Tokens
      <4>2. SeenOnce(b, e) /\ Tokens(b, e) \in Seq(Nat) /\ Len(Tokens(b, e)) \in 0 .. 2
        BY <3>1, TableTypes
      <4>3. \A n \in 0 .. 2 : n >= 1 => n \in {1, 2} /\ n <= 2
        OBVIOUS
      <4> QED
        BY <4>1, <4>2, <4>3, Zenon DEF SeenOnce
    <3>3. PICK new : Puts(b, e, new) /\ new = PushedTokens(Tokens(b, e), cell[b], TRUE)
      BY <2>1 DEF PushEdgeInto, Puts
    <3>4. cell[b] \in Nat
      BY CellBounds
    <3>5. Len(new) = 2
      BY <3>2, <3>3, <3>4, TokensGrow
    <3>6. DOMAIN edges = Branches
      BY DEF Inv, Types, EdgeTypes
    <3>7. e \in DOMAIN edges'[b] /\ edges'[b][e] = new
      BY <3>3, <3>6 DEF Puts
    <3> QED
      BY <3>1, <3>5, <3>7 DEF FullIn
  <2> QED
    BY <2>3, <2>4
<1>5. CASE UNCHANGED frame
  BY <1>5 DEF Awaits, Crew
<1>6. CASE NoNextVertex(w) \/ NothingToPop(w) \/ VertexExplored(w)
  BY <1>2, <1>6, ThreadEndDoes
<1>7. CASE VertexRegistered(w)
  <2>1. SameTour(frame[w], frame'[w])
    BY <1>2, <1>7, VertexRegisteredDoes
  <2> QED
    BY <1>3, <2>1
<1>8. CASE ClaimVertex(w) \/ QueueEdge(w) \/ StoreVertex(w) \/ ListVertex(w) \/ InformBranch(w)
  <2>1. SameTour(frame[w], frame'[w])
    BY <1>8, ClaimVertexDoes, QueueEdgeDoes, StoreVertexDoes, ListVertexDoes, InformBranchDoes
  <2> QED
    BY <1>3, <2>1
<1>9. CASE ClaimFails(w) \/ TakePrototype(w) \/ FinishQueueing(w) \/ VertexListed(w)
  <2>1. UNCHANGED frame
    BY <1>9, ClaimFailsDoes, TakePrototypeDoes, FinishQueueingDoes, VertexListedDoes
  <2> QED
    BY <1>5, <2>1
<1> QED
  BY <1>2, <1>4, <1>6, <1>7, <1>8, <1>9, StepsByPlace

\* A pass of queue_edges() ends with a full edge or a queued task.
LEMMA PassIsMade ==
  ASSUME NEW w \in Workers, Inv, WorkerStep(w), NEW b \in Branches, NEW v, NEW g,
         IsInside(w), frame[w].at = b, frame[w].task = v,
         g \in frame[w].todo \/ ~frame[w].complete
  PROVE  FullIn(edges'[b], Without(v, g)) \/ v \in ToSet(queue'[b]) \/ Awaits(w, b, v, g)'
<1>1. CASE TakePrototype(w)
  BY <1>1, TakePrototypeDoes DEF Awaits, IsInside
<1>2. CASE QueueEdge(w)
  <2> DEFINE skip == Min(frame[w].todo)
             e == Without(frame[w].task, skip)
  <2>1. /\ pc'[w] = "push" /\ SameCall(frame[w], frame'[w])
        /\ frame'[w].todo = frame[w].todo \ {skip}
        /\ frame'[w].complete = (frame[w].complete /\ AlreadyComplete(frame[w].at, e))
    BY <1>2, QueueEdgeDoes
  <2>2. CASE ~frame[w].complete \/ g # skip
    BY <2>1, <2>2 DEF Awaits, IsInside, SameCall
  <2>3. CASE g = skip
    <3>1. CASE AlreadyComplete(b, Without(v, g))
      <4>1. FullIn(edges[b], Without(v, g))
        <5>1. Len(<<>>) # 2
          OBVIOUS
        <5> QED
          BY <3>1, <5>1, Zenon DEF AlreadyComplete, Tokens, FullIn
      <4> QED
        BY <4>1, TablesGrow
    <3>2. CASE ~AlreadyComplete(b, Without(v, g))
      <4>1. frame'[w].complete = FALSE
        BY <2>1, <2>3, <3>2
      <4> QED
        BY <2>1, <4>1 DEF Awaits, IsInside, SameCall
    <3> QED
      BY <3>1, <3>2
  <2> QED
    BY <2>2, <2>3
<1>3. CASE FinishQueueing(w)
  <2>1. /\ frame[w].todo = {}
        /\ queue' = [queue EXCEPT ![frame[w].at] = IF frame[w].complete THEN @
                                                   ELSE Append(@, frame[w].task)]
    BY <1>3, FinishQueueingDoes
  <2>2. /\ DOMAIN queue = Branches /\ queue[b] \in Seq(SUBSET Nat)
        /\ frame[w].task \in SUBSET Nat
    BY WorkerContext DEF Inv, Types, QueueTypes, Frames
  <2>3. queue'[b] = Append(queue[b], frame[w].task)
    BY <2>1, <2>2
  <2>4. ToSet(Append(queue[b], frame[w].task)) = ToSet(queue[b]) \cup {frame[w].task}
    BY <2>2, QueueOperations
  <2> QED
    BY <2>3, <2>4
<1> QED
  BY <1>1, <1>2, <1>3, StepsByPlace DEF IsInside

\* No edge of a claimed vertex is forgotten by a step of a worker.
LEMMA WorkerStepKeepsSeen ==
  ASSUME NEW w \in Workers, Inv, JobsFit, PhasesFit, AllTasksRecorded, AllClaimsSeen,
         WorkerStep(w)
  PROVE  AllClaimsSeen'
<1>1. /\ UNCHANGED <<phase, cell, upcoming>>
      /\ \A x \in Workers \ {w} : pc'[x] = pc[x] /\ frame'[x] = frame[x]
  BY WorkerStepsKeep
<1> SUFFICES ASSUME NEW b \in Branches, Active(b), NEW v \in claimed'[b],
                    NEW g \in OwnedSkips(v, cell[b])
             PROVE  \/ FullIn(edges'[b], Without(v, g))
                    \/ v \in ToSet(queue'[b])
                    \/ \E x \in Workers : Awaits(x, b, v, g)'
  BY <1>1 DEF AllClaimsSeen, ClaimedAreSeen, Active, Opened, Left
<1>2. /\ ClaimedAreSeen(b) /\ TasksAreRecorded(b)
      /\ CurrentCell(b) = cell[b] /\ DOMAIN claimed = Branches
  BY ActiveIsPublished
     DEF AllClaimsSeen, AllTasksRecorded, CurrentCell, Inv, Types, QueueTypes
<1>3. CASE v \notin claimed[b]
  <2>1. ClaimVertex(w)
    BY <1>3, NextVertexDoes, ThreadEndDoes, PopVertexDoes, ExploreEdgeDoes, ClaimFailsDoes,
       TakePrototypeDoes, QueueEdgeDoes, FinishQueueingDoes, StoreVertexDoes, ListVertexDoes,
       VertexListedDoes, InformBranchDoes, VertexRegisteredDoes DEF WorkerStep
  <2>2. /\ claimed' = [claimed EXCEPT ![frame[w].at] = @ \cup {frame[w].task}]
        /\ frame[w].arg = CurrentCell(frame[w].at) /\ pc'[w] \in {"proto", "push"}
        /\ SameCall(frame[w], frame'[w])
        /\ frame'[w].todo = OwnedSkips(frame[w].task, frame[w].arg)
    BY <2>1, ClaimVertexDoes
  <2>3. frame[w].at = b /\ frame[w].task = v
    BY <1>2, <1>3, <2>2
  <2> QED
    BY <1>2, <2>2, <2>3 DEF Awaits, IsInside, SameCall
<1>4. CASE FullIn(edges[b], Without(v, g))
  BY <1>4, TablesGrow
<1>5. CASE v \in ToSet(queue[b])
  BY <1>5, QueuedIsServed
<1>6. ASSUME NEW x \in Workers, Awaits(x, b, v, g)
      PROVE  \/ FullIn(edges'[b], Without(v, g))
             \/ v \in ToSet(queue'[b])
             \/ Awaits(x, b, v, g)'
  <2>1. CASE x # w
    BY <1>1, <1>6, <2>1 DEF Awaits, IsInside, Crew
  <2>2. CASE x = w
    BY <1>2, <1>6, <2>2, TourIsWalked, PassIsMade DEF Awaits
  <2> QED
    BY <2>1, <2>2
<1> QED
  BY <1>2, <1>3, <1>4, <1>5, <1>6 DEF ClaimedAreSeen

-----------------------------------------------------------------------------
(* What is stored is brought to every branch *)

\* The parts of the invariant about news and about the start of a cell.
AllNewsArrive == \A b \in Branches : Opened(b) => NewsArrive(b)
AllCellsStart == \A b \in Branches : Opened(b) => CellIsTouched(b) /\ CellIsEntered(b)

\* A vertex on its way to a branch stays on its way until it is claimed.
LEMMA MessengersGoOn ==
  ASSUME NEW w \in Workers, Inv, JobsFit, PhasesFit, WorkerStep(w), NEW b \in Branches, Active(b),
         NEW u, Abroad(w), b \in frame[w].rest, ToBranch(b, Mesh(w)) = u
  PROVE  Brings(w, b, u)'
<1>1. UNCHANGED cell /\ CurrentCell(b) = cell[b] /\ DOMAIN frame = Workers
  BY WorkerStepsKeep, ActiveIsPublished, WorkerContext DEF CurrentCell
<1>2. pc[w] \in {"list", "broadcast"} \/ (pc[w] \in Calling /\ frame[w].at # Own(w))
  BY DEF Abroad
<1>3. CASE SameVertex(frame[w], frame'[w]) /\ Abroad(w)'
  <2>1. Mesh(w)' = Mesh(w) /\ b \in frame'[w].rest
    BY <1>3 DEF Mesh, SameVertex
  <2> QED
    BY <1>3, <2>1 DEF Brings
<1>4. CASE ClaimVertex(w) \/ TakePrototype(w) \/ QueueEdge(w)
  <2>1. /\ pc[w] \in Calling /\ pc'[w] \in Calling
        /\ SameVertex(frame[w], frame'[w]) /\ SameCall(frame[w], frame'[w])
    <3>1. UNCHANGED frame => SameVertex(frame[w], frame'[w]) /\ SameCall(frame[w], frame'[w])
      BY DEF SameVertex, SameCall
    <3> QED
      BY <1>4, <3>1, ClaimVertexDoes, TakePrototypeDoes, QueueEdgeDoes DEF Calling
  <2> QED
    BY <1>2, <1>3, <2>1 DEF Abroad, SameCall, Calling
<1>5. CASE ClaimFails(w) \/ FinishQueueing(w)
  <2>1. UNCHANGED frame /\ pc[w] \in Calling /\ pc'[w] = AfterQueueing(w)
    BY <1>5, ClaimFailsDoes, FinishQueueingDoes DEF Calling
  <2>2. pc'[w] = "broadcast"
    BY <1>2, <2>1 DEF AfterQueueing, Calling
  <2> QED
    BY <1>3, <2>1, <2>2 DEF Abroad, SameVertex
<1>6. CASE ListVertex(w) \/ VertexListed(w)
  <2>1. pc'[w] \in {"list", "broadcast"} /\ SameVertex(frame[w], frame'[w])
    <3>1. UNCHANGED frame => SameVertex(frame[w], frame'[w])
      BY DEF SameVertex
    <3> QED
      BY <1>6, <3>1, ListVertexDoes, VertexListedDoes
  <2> QED
    BY <1>3, <2>1 DEF Abroad
<1>7. CASE InformBranch(w)
  <2> DEFINE target == Min(frame[w].rest)
  <2>1. /\ pc'[w] = "claim" /\ target \in Branches \ {Own(w)} /\ frame'[w].sigma = frame[w].sigma
        /\ frame'[w].rest = frame[w].rest \ {target} /\ frame'[w].at = target
        /\ frame'[w].task = ToBranch(target, Mesh(w))
        /\ frame'[w].arg = CurrentCell(target)
    BY <1>7, InformBranchDoes
  <2> HIDE DEF target
  <2>2. CASE b = target
    BY <1>1, <2>1, <2>2 DEF Brings, AtClaim
  <2>3. CASE b # target
    <3>1. Mesh(w)' = Mesh(w)
      BY <2>1 DEF Mesh
    <3> QED
      BY <2>1, <2>3, <3>1 DEF Brings, Abroad, Calling
  <2> QED
    BY <2>2, <2>3
<1> QED
  BY <1>2, <1>4, <1>5, <1>6, <1>7, NextVertexDoes, ThreadEndDoes, PopVertexDoes, ExploreEdgeDoes,
     StoreVertexDoes, VertexRegisteredDoes DEF WorkerStep, Calling

\* No stored vertex is forgotten by a step of a worker.
LEMMA WorkerStepKeepsNews ==
  ASSUME NEW w \in Workers, Inv, JobsFit, PhasesFit, AllClaimsFit, AllNewsArrive, WorkerStep(w)
  PROVE  AllNewsArrive'
<1>1. /\ UNCHANGED <<phase, cell, published, upcoming>>
      /\ \A x \in Workers \ {w} : pc'[x] = pc[x] /\ frame'[x] = frame[x]
      /\ \A c \in Branches : claimed[c] \subseteq claimed'[c]
  BY WorkerStepsKeep
<1> SUFFICES ASSUME NEW b \in Branches, Opened(b),
                    NEW u \in Diagram(b), cell[b] \in u, ToMesh(b, u) \in stored'
             PROVE  u \in claimed'[b] \/ u \in pending'[b] \/ \E x \in Workers : Brings(x, b, u)'
  BY <1>1 DEF AllNewsArrive, NewsArrive, Opened, Left, Diagram
<1>2. Active(b) /\ published[b] /\ NewsArrive(b) /\ ClaimsFit(b) /\ DOMAIN pending = Branches
  BY ActiveIsPublished DEF Active, AllNewsArrive, AllClaimsFit, Inv, Types, QueueTypes
<1>3. CASE ToMesh(b, u) \notin stored
  <2>1. StoreVertex(w)
    BY <1>3, NextVertexDoes, ThreadEndDoes, PopVertexDoes, ExploreEdgeDoes, ClaimVertexDoes,
       ClaimFailsDoes, TakePrototypeDoes, QueueEdgeDoes, FinishQueueingDoes, ListVertexDoes,
       VertexListedDoes, InformBranchDoes, VertexRegisteredDoes DEF WorkerStep
  <2>2. /\ pc[w] = "store" /\ pc'[w] = "list" /\ stored' = stored \cup {Mesh(w)}
        /\ frame'[w].sigma = frame[w].sigma /\ frame'[w].rest = Rest(w)
    BY <2>1, StoreVertexDoes
  <2>3. Mesh(w) = ToMesh(b, u) /\ Mesh(w)' = Mesh(w) /\ ToBranch(b, Mesh(w)) = u
    BY <1>3, <2>2, WayBack DEF Mesh
  <2>4. CASE Own(w) = b
    <3>1. frame[w].sigma \in Diagram(b)
      BY <2>2, <2>4, WorkerContext DEF Consistent, Registering
    <3>2. frame[w].sigma = u
      BY <2>3, <2>4, <3>1, WayBack DEF Mesh
    <3> QED
      BY <1>1, <1>2, <2>2, <2>4, <3>2 DEF ClaimsFit, Crew
  <2>5. CASE Own(w) # b
    BY <2>2, <2>3, <2>5 DEF Brings, Abroad, Rest
  <2> QED
    BY <2>4, <2>5
<1>4. CASE u \in claimed[b]
  BY <1>1, <1>4
<1>5. CASE u \in pending[b]
  <2>1. CASE NextVertex(w)
    <3>1. PICK v \in pending[Own(w)] :
            /\ pending' = [pending EXCEPT ![Own(w)] = @ \ {v}]
            /\ frame'[w].at = Own(w) /\ frame'[w].task = v /\ frame'[w].arg = cell[Own(w)]
      BY <2>1, NextVertexDoes
    <3>2. pc'[w] = "claim"
      BY <2>1, NextVertexDoes
    <3>3. CASE Own(w) = b /\ u = v
      <4>1. AtClaim(w, b, u)'
        BY <1>1, <3>1, <3>2, <3>3 DEF AtClaim
      <4> QED
        BY <4>1 DEF Brings
    <3>4. CASE ~(Own(w) = b /\ u = v)
      BY <1>2, <1>5, <3>1, <3>4
    <3> QED
      BY <3>3, <3>4
  <2>2. CASE ~NextVertex(w)
    <3>1. UNCHANGED pending
      BY <2>2, ThreadEndDoes, PopVertexDoes, ExploreEdgeDoes, ClaimVertexDoes, ClaimFailsDoes,
         TakePrototypeDoes, QueueEdgeDoes, FinishQueueingDoes, StoreVertexDoes,
         ListVertexDoes, VertexListedDoes, InformBranchDoes, VertexRegisteredDoes
         DEF WorkerStep
    <3> QED
      BY <1>5, <3>1
  <2> QED
    BY <2>1, <2>2
<1>6. ASSUME NEW x \in Workers, Brings(x, b, u)
      PROVE  u \in claimed'[b] \/ Brings(x, b, u)'
  <2>1. CASE x # w
    BY <1>1, <1>6, <2>1 DEF Brings, AtClaim, Abroad, Mesh
  <2>2. CASE x = w /\ AtClaim(w, b, u)
    BY <1>2, <2>2, CallsAreHeard DEF Brings
  <2>3. CASE x = w /\ ~AtClaim(w, b, u)
    BY <1>2, <1>6, <2>3, MessengersGoOn DEF Brings
  <2> QED
    BY <2>1, <2>2, <2>3
<1> QED
  BY <1>2, <1>3, <1>4, <1>5, <1>6 DEF NewsArrive

\* A cell stays entered while its workers work.
LEMMA WorkerStepKeepsStarts ==
  ASSUME NEW w \in Workers, Inv, JobsFit, PhasesFit, AllCellsStart, WorkerStep(w)
  PROVE  AllCellsStart'
<1>1. /\ UNCHANGED <<phase, cell, published, upcoming>>
      /\ \A c \in Branches : claimed[c] \subseteq claimed'[c]
  BY WorkerStepsKeep
<1> SUFFICES ASSUME NEW b \in Branches, Opened(b)
             PROVE  CellIsTouched(b)' /\ CellIsEntered(b)'
  BY <1>1 DEF AllCellsStart, Opened, Left
<1>2. /\ Active(b) /\ published[b] /\ CellIsTouched(b) /\ CellIsEntered(b)
      /\ DOMAIN consumed = Branches /\ PhaseFits(b) /\ pending[b] \subseteq Diagram(b)
  BY ActiveIsPublished DEF Active, AllCellsStart, PhasesFit, Inv, Types, BranchTypes, QueueTypes
<1>3. CellIsEntered(b)'
  BY <1>1, <1>2 DEF CellIsEntered
<1>4. CASE phase[b] = "iterate" /\ ~consumed[b]
  <2>1. CASE NextVertex(w)
    <3>1. PICK v \in pending[Own(w)] :
            frame'[w].at = Own(w) /\ frame'[w].task = v /\ frame'[w].arg = cell[Own(w)]
      BY <2>1, NextVertexDoes
    <3>2. pc'[w] = "claim" /\ consumed' = [consumed EXCEPT ![Own(w)] = TRUE]
      BY <2>1, NextVertexDoes
    <3>3. CASE Own(w) = b
      <4>1. v \in Diagram(b) /\ cell[b] \in v /\ AtClaim(w, b, v)'
        BY <1>1, <1>2, <3>1, <3>2, <3>3 DEF AtClaim, PhaseFits
      <4> QED
        BY <1>1, <1>3, <3>3, <4>1 DEF CellIsTouched, Crew, Diagram
    <3>4. CASE Own(w) # b
      BY <1>1, <1>2, <1>3, <1>4, <3>2, <3>4 DEF CellIsTouched
    <3> QED
      BY <3>3, <3>4
  <2>2. CASE ~NextVertex(w)
    <3>1. UNCHANGED consumed
      BY <2>2, ThreadEndDoes, PopVertexDoes, ExploreEdgeDoes, ClaimVertexDoes, ClaimFailsDoes,
         TakePrototypeDoes, QueueEdgeDoes, FinishQueueingDoes, StoreVertexDoes,
         ListVertexDoes, VertexListedDoes, InformBranchDoes, VertexRegisteredDoes
         DEF WorkerStep
    <3> QED
      BY <1>1, <1>3, <1>4, <3>1 DEF CellIsTouched
  <2> QED
    BY <2>1, <2>2
<1>5. CASE claimed[b] # {}
  <2>1. claimed'[b] # {}
    BY <1>1, <1>5
  <2> QED
    BY <1>3, <2>1 DEF CellIsTouched
<1>6. CASE \E x \in Crew(b) : \E u \in Diagram(b) : AtClaim(x, b, u) /\ cell[b] \in u
  <2>1. PICK x \in Crew(b) : \E u \in Diagram(b) : AtClaim(x, b, u) /\ cell[b] \in u
    BY <1>6
  <2>2. PICK u \in Diagram(b) : AtClaim(x, b, u) /\ cell[b] \in u
    BY <2>1
  <2>3. AtClaim(x, b, u)' \/ u \in claimed'[b]
    BY <1>2, <2>2, CallsAreHeard DEF Crew
  <2>4. Crew(b)' = Crew(b) /\ Diagram(b)' = Diagram(b)
    BY DEF Crew, Diagram
  <2> QED
    BY <1>1, <1>3, <2>2, <2>3, <2>4 DEF CellIsTouched
<1> QED
  BY <1>2, <1>4, <1>5, <1>6 DEF CellIsTouched

-----------------------------------------------------------------------------
(* The steps of a branch *)

\* A branch starts workers only when they rest.
LEMMA CrewStarts ==
  ASSUME NEW b \in Branches, Inv, BranchStep(b), NEW x \in Workers
  PROVE  \/ pc'[x] = pc[x] /\ frame'[x] = frame[x]
         \/ /\ x \in Crew(b) /\ pc[x] = "idle"
            /\ frame[x].origin = None /\ frame[x].left = {}
            /\ frame'[x].origin = None /\ frame'[x].left = {}
            /\ pc'[x] \in {"next", "pop"} \/ (pc'[x] = "claim" /\ frame'[x].at = b)
<1>1. DOMAIN pc = Workers /\ DOMAIN frame = Workers /\ frame[x] \in Frames
  BY WorkerContext
<1>2. pc[x] = "idle" => frame[x].origin = None /\ frame[x].left = {}
  BY WorkerContext DEF Consistent, None
<1>3. CASE OpenIterator(b) \/ StartExploring(b)
  <2>1. \E loop \in {"next", "pop"} : \E job : RunWorkers(b, loop, job)
    BY <1>3 DEF OpenIterator, StartExploring
  <2>2. \A y \in Crew(b) : pc[y] = "idle"
    BY <1>3 DEF OpenIterator, StartExploring, Joined, Inv, Workings, CrewsAreJoined, Busy, Crew
  <2>3. x \in Crew(b) => frame'[x].origin = None /\ frame'[x].left = {}
    BY <2>1 DEF RunWorkers, EmptyFrame
  <2> QED
    BY <1>2, <2>1, <2>2, <2>3 DEF RunWorkers
<1>4. CASE Descend(b)
  <2> DEFINE w == <<b, 1>>
  <2>1. w \in Crew(b) /\ w \in Workers /\ pc[w] = "idle" /\ pc' = [pc EXCEPT ![w] = "claim"]
    BY <1>4, WorkerFacts DEF Descend, Joined, Crew
  <2>2. \E v : frame' = [frame EXCEPT ![w] = [QueueLocally(@, b, v) EXCEPT !.job = "descend"]]
    BY <1>4 DEF Descend
  <2> HIDE DEF w
  <2>3. CASE x = w
    <3>1. /\ frame'[x].origin = frame[x].origin /\ frame'[x].left = frame[x].left
          /\ frame'[x].at = b
      BY <1>1, <2>2, <2>3 DEF QueueLocally, Frames
    <3> QED
      BY <1>1, <1>2, <2>1, <2>3, <3>1
  <2>4. CASE x # w
    BY <1>1, <2>1, <2>2, <2>4
  <2> QED
    BY <2>3, <2>4
<1>5. CASE DescentThrows(b) \/ CompleteCell(b) \/ RetireCell(b) \/ WipeCell(b)
  BY <1>5 DEF DescentThrows, CompleteCell, RetireCell, WipeCell, ClearCell
<1> QED
  BY <1>3, <1>4, <1>5 DEF BranchStep

\* A branch touches neither the mesh nor the other branches.
LEMMA BranchesAreApart ==
  ASSUME NEW b \in Branches, Inv, BranchStep(b)
  PROVE  /\ UNCHANGED <<stored, lists, infinite>>
         /\ \A c \in Branches \ {b} :
              /\ phase'[c] = phase[c] /\ cell'[c] = cell[c] /\ published'[c] = published[c]
              /\ upcoming'[c] = upcoming[c] /\ pending'[c] = pending[c]
              /\ consumed'[c] = consumed[c] /\ queue'[c] = queue[c]
              /\ claimed'[c] = claimed[c] /\ edges'[c] = edges[c]
<1>1. /\ DOMAIN phase = Branches /\ DOMAIN cell = Branches /\ DOMAIN published = Branches
      /\ DOMAIN upcoming = Branches /\ DOMAIN pending = Branches /\ DOMAIN consumed = Branches
      /\ DOMAIN queue = Branches /\ DOMAIN claimed = Branches /\ DOMAIN edges = Branches
  BY DEF Inv, Types, BranchTypes, QueueTypes, EdgeTypes
<1>2. CASE OpenIterator(b)
  BY <1>1, <1>2 DEF OpenIterator, meshVars, stateVars
<1>3. CASE Descend(b) \/ DescentThrows(b) \/ StartExploring(b) \/ CompleteCell(b) \/ RetireCell(b)
  BY <1>1, <1>3 DEF Descend, DescentThrows, StartExploring, CompleteCell, RetireCell, meshVars,
                    stateVars, iterVars
<1>4. CASE WipeCell(b)
  BY <1>1, <1>4 DEF WipeCell, ClearCell, meshVars, iterVars
<1> QED
  BY <1>2, <1>3, <1>4 DEF BranchStep

\* The shared state of a cell stays as it is.
CellRests(c) == /\ cell'[c] = cell[c] /\ claimed'[c] = claimed[c] /\ edges'[c] = edges[c]
                /\ queue'[c] = queue[c]

\* The lemmas named ...Rest: a step of a branch leaves a part of the invariant
\* alone for a cell whose shared state it does not touch.
LEMMA ClaimsRest ==
  ASSUME NEW b \in Branches, Inv, BranchStep(b), NEW c \in Branches, CellRests(c), ClaimsFit(c)
  PROVE  ClaimsFit(c)'
<1>1. UNCHANGED stored /\ Crew(c)' = Crew(c) /\ \A x \in Crew(c) : x \in Workers
  BY BranchesAreApart DEF Crew
<1>2. \A x \in Workers : pc[x] \in {"push", "store"} \/ pc'[x] \in {"push", "store"} =>
        pc'[x] = pc[x] /\ frame'[x] = frame[x]
  BY CrewStarts
<1>3. ASSUME NEW v \in claimed[c]
      PROVE  /\ cell[c] \in v
             /\ ToMesh(c, v) \in stored \/ \E x \in Crew(c) : Carries(x, c, v)'
  <2>1. \A x \in Crew(c) : Carries(x, c, v) => Carries(x, c, v)'
    BY <1>1, <1>2 DEF Carries
  <2> QED
    BY <2>1 DEF ClaimsFit, Carries
<1>4. \A x \in Crew(c) : pc'[x] = "store" /\ cell[c] \in frame'[x].sigma
                           => frame'[x].sigma \in claimed[c]
  BY <1>1, <1>2 DEF ClaimsFit
<1> QED
  BY <1>1, <1>3, <1>4 DEF ClaimsFit, CellRests, Carries

\* The entries of its edge table.
LEMMA EdgesRest ==
  ASSUME NEW b \in Branches, Inv, BranchStep(b), NEW c \in Branches, CellRests(c),
         NEW e \in DOMAIN edges[c], EdgeFits(c, e)
  PROVE  EdgeFits(c, e)'
<1>1. /\ UNCHANGED infinite /\ Crew(c)' = Crew(c) /\ Ends(c, e)' = Ends(c, e)
      /\ Diagram(c)' = Diagram(c) /\ \A x \in Crew(c) : x \in Workers
  BY BranchesAreApart DEF Crew, Ends, Diagram
<1>2. ASSUME NEW u, NEW x \in Crew(c), AtClaim(x, c, u)
      PROVE  AtClaim(x, c, u)'
  <2>1. pc'[x] = pc[x] /\ frame'[x] = frame[x]
    BY <1>1, <1>2, CrewStarts DEF AtClaim
  <2> QED
    BY <1>2, <2>1 DEF AtClaim, CellRests
<1>3. Tokens(c, e)' = Tokens(c, e)
  BY DEF Tokens, CellRests
<1>4. EdgeFits(c, e)
  OBVIOUS
<1>5. Len(Tokens(c, e)) = 2 =>
        \A u \in Ends(c, e) : u \in claimed'[c] \/ \E x \in Crew(c) : AtClaim(x, c, u)'
  BY <1>2, <1>4 DEF EdgeFits, CellRests
<1>6. /\ cell'[c] \in e
      /\ Len(Tokens(c, e)) = 1 =>
           Tokens(c, e)[1] \notin e /\ e \cup {Tokens(c, e)[1]} \in claimed'[c]
      /\ Len(Tokens(c, e)) = 2 =>
           ((\A u, v \in Ends(c, e) : u = v) => ToMesh(c, e) \in infinite')
      /\ \E v \in Diagram(c) : \E g \in v : e = Without(v, g)
  BY <1>1, <1>4 DEF EdgeFits, CellRests
<1> QED
  BY <1>1, <1>3, <1>5, <1>6 DEF EdgeFits

\* The edges still to explore.
LEMMA SeenRest ==
  ASSUME NEW b \in Branches, Inv, BranchStep(b), NEW c \in Branches, CellRests(c),
         ClaimedAreSeen(c)
  PROVE  ClaimedAreSeen(c)'
<1>1. ASSUME NEW v, NEW g, NEW x \in Workers, Awaits(x, c, v, g)
      PROVE  Awaits(x, c, v, g)'
  <2>1. pc'[x] = pc[x] /\ frame'[x] = frame[x]
    BY <1>1, CrewStarts DEF Awaits, IsInside
  <2> QED
    BY <1>1, <2>1 DEF Awaits, IsInside, Crew
<1> QED
  BY <1>1 DEF ClaimedAreSeen, CellRests

\* The recorded tasks.
LEMMA TasksRest ==
  ASSUME NEW b \in Branches, Inv, BranchStep(b), NEW c \in Branches, CellRests(c),
         TasksAreRecorded(c)
  PROVE  TasksAreRecorded(c)'
<1>1. QueueFits(c)'
  BY DEF TasksAreRecorded, QueueFits, Recorded, CellRests
<1>2. ASSUME NEW x \in Crew(c)
      PROVE  TourFits(x, c)'
  <2>1. TourFits(x, c) /\ x \in Workers
    BY <1>2 DEF TasksAreRecorded, Crew
  <2>2. \/ frame'[x] = frame[x]
        \/ frame'[x].origin = None /\ frame'[x].left = {}
    BY <2>1, CrewStarts
  <2> QED
    BY <2>1, <2>2 DEF TourFits, Recorded, CellRests, OwnedSkips, None
<1>3. ASSUME NEW x \in Workers
      PROVE  PassFits(x, c)'
  <2>1. PassFits(x, c)
    BY <1>3 DEF TasksAreRecorded
  <2>2. \/ pc'[x] = pc[x] /\ frame'[x] = frame[x]
        \/ pc'[x] \notin {"proto", "push"}
    BY CrewStarts
  <2> QED
    BY <2>1, <2>2 DEF PassFits, Recorded, CellRests, IsInside
<1> QED
  BY <1>1, <1>2, <1>3 DEF TasksAreRecorded, Crew

\* The news on their way.
LEMMA NewsRest ==
  ASSUME NEW b \in Branches, Inv, BranchStep(b), NEW c \in Branches, CellRests(c),
         pending'[c] = pending[c], NewsArrive(c)
  PROVE  NewsArrive(c)'
<1>1. ASSUME NEW u, NEW x \in Workers, Brings(x, c, u)
      PROVE  Brings(x, c, u)'
  <2>1. pc'[x] = pc[x] /\ frame'[x] = frame[x]
    BY <1>1, CrewStarts DEF Brings, AtClaim, Abroad, Calling
  <2> QED
    BY <1>1, <2>1 DEF Brings, AtClaim, Abroad, Mesh, CellRests
<1>2. UNCHANGED stored /\ Diagram(c)' = Diagram(c)
  BY BranchesAreApart DEF Diagram
<1> QED
  BY <1>1, <1>2 DEF NewsArrive, CellRests

\* The cells whose shared state a step of the branch leaves behind.
LEMMA ActiveCells ==
  ASSUME NEW b \in Branches, Inv, BranchStep(b), NEW c \in Branches, Active(c)'
  PROVE  \/ Active(c) /\ CellRests(c)
         \/ /\ c = b /\ WipeCell(b)
            /\ claimed'[c] = {} /\ queue'[c] = <<>> /\ DOMAIN edges'[c] = {}
<1>1. /\ DOMAIN phase = Branches /\ DOMAIN cell = Branches /\ DOMAIN upcoming = Branches
      /\ DOMAIN queue = Branches /\ DOMAIN claimed = Branches /\ DOMAIN edges = Branches
  BY DEF Inv, Types, BranchTypes, QueueTypes, EdgeTypes
<1>2. CASE c # b
  BY <1>2, BranchesAreApart DEF Active, Opened, Left, CellRests
<1>3. CASE c = b
  <2>1. CASE OpenIterator(b)
    BY <1>3, <2>1 DEF OpenIterator, stateVars, Active, CellRests
  <2>2. CASE Descend(b) \/ StartExploring(b) \/ CompleteCell(b)
    BY <1>3, <2>2 DEF Descend, StartExploring, CompleteCell, stateVars, Active, Opened, Busy,
                      CellRests
  <2>3. CASE DescentThrows(b) \/ RetireCell(b)
    <3>1. phase'[c] \in {"failed", "wipe"}
      BY <1>1, <1>3, <2>3 DEF DescentThrows, RetireCell
    <3> QED
      BY <3>1 DEF Active, Opened, Left, Busy
  <2>4. CASE WipeCell(b)
    BY <1>1, <1>3, <2>4 DEF WipeCell, ClearCell
  <2> QED
    BY <2>1, <2>2, <2>3, <2>4 DEF BranchStep
<1> QED
  BY <1>2, <1>3

\* A cell that is worked on either was worked on before or is being opened.
LEMMA OpenedCells ==
  ASSUME NEW b \in Branches, Inv, BranchStep(b), NEW c \in Branches, Opened(c)'
  PROVE  \/ Opened(c) /\ CellRests(c) /\ pending'[c] = pending[c]
         \/ c = b /\ OpenIterator(b)
<1>1. /\ DOMAIN phase = Branches /\ DOMAIN cell = Branches /\ DOMAIN upcoming = Branches
      /\ DOMAIN pending = Branches
  BY DEF Inv, Types, BranchTypes, QueueTypes
<1>2. CASE c # b
  BY <1>2, BranchesAreApart DEF Opened, Left, CellRests
<1>3. CASE c = b
  <2>1. CASE Descend(b) \/ StartExploring(b) \/ CompleteCell(b)
    BY <1>3, <2>1 DEF Descend, StartExploring, CompleteCell, stateVars, iterVars, Opened, Busy,
                      CellRests
  <2>2. CASE DescentThrows(b) \/ RetireCell(b) \/ WipeCell(b)
    <3>1. phase'[c] \in {"failed", "wipe", "open", "done"}
      BY <1>1, <1>3, <2>2 DEF DescentThrows, RetireCell, WipeCell, ClearCell
    <3> QED
      BY <3>1 DEF Opened, Left, Busy
  <2> QED
    BY <1>3, <2>1, <2>2 DEF BranchStep
<1> QED
  BY <1>2, <1>3

\* A step of a branch leaves the claims, edges and tasks of all cells consistent.
LEMMA BranchStepKeepsCells ==
  ASSUME NEW b \in Branches, Inv, AllClaimsFit, AllEdgesFit, AllClaimsSeen, AllTasksRecorded,
         BranchStep(b)
  PROVE  AllClaimsFit' /\ AllEdgesFit' /\ AllClaimsSeen' /\ AllTasksRecorded'
<1>1. ASSUME NEW c \in Branches, Active(c)'
      PROVE  /\ ClaimsFit(c)' /\ \A e \in DOMAIN edges'[c] : EdgeFits(c, e)'
             /\ ClaimedAreSeen(c)' /\ TasksAreRecorded(c)'
  <2>1. CASE Active(c) /\ CellRests(c)
    <3>1. /\ ClaimsFit(c) /\ ClaimedAreSeen(c) /\ TasksAreRecorded(c)
          /\ \A e \in DOMAIN edges[c] : EdgeFits(c, e)
          /\ DOMAIN edges'[c] = DOMAIN edges[c]
      BY <2>1 DEF AllClaimsFit, AllEdgesFit, AllClaimsSeen, AllTasksRecorded, CellRests
    <3> QED
      BY <2>1, <3>1, ClaimsRest, EdgesRest, SeenRest, TasksRest
  <2>2. CASE /\ c = b /\ WipeCell(b)
             /\ claimed'[c] = {} /\ queue'[c] = <<>> /\ DOMAIN edges'[c] = {}
    <3>1. UNCHANGED <<pc, frame>> /\ Inside(c) = {} /\ phase[c] = "wipe"
      BY <2>2 DEF WipeCell, ClearCell
    <3>2. \A x \in Crew(c) : x \in Workers /\ pc[x] = "idle" /\ frame[x].origin = None
                             /\ frame[x].left = {}
      <4>1. \A x \in Crew(c) : x \in Workers /\ pc[x] = "idle"
        BY <3>1 DEF Crew, Inv, Workings, CrewsAreJoined, Busy
      <4> QED
        BY <4>1, WorkerContext DEF Consistent, None
    <3>3. ClaimsFit(c)'
      BY <2>2, <3>1, <3>2 DEF ClaimsFit, Crew
    <3>4. ClaimedAreSeen(c)'
      BY <2>2 DEF ClaimedAreSeen
    <3>5. TasksAreRecorded(c)'
      <4>1. ToSet(queue'[c]) = {}
        BY <2>2 DEF ToSet
      <4>2. \A x \in Workers : PassFits(x, c)'
        BY <3>1 DEF Inside, PassFits, IsInside
      <4>3. \A x \in Crew(c) : TourFits(x, c)'
        BY <3>1, <3>2 DEF TourFits, OwnedSkips, None
      <4> QED
        BY <4>1, <4>2, <4>3 DEF TasksAreRecorded, QueueFits, Crew
    <3> QED
      BY <2>2, <3>3, <3>4, <3>5
  <2> QED
    BY <1>1, <2>1, <2>2, ActiveCells
<1> QED
  BY <1>1 DEF AllClaimsFit, AllEdgesFit, AllClaimsSeen, AllTasksRecorded

\* A step of a branch forgets no stored vertex: opening takes the snapshot.
LEMMA BranchStepKeepsNews ==
  ASSUME NEW b \in Branches, Inv, JobsFit, AllNewsArrive, BranchStep(b)
  PROVE  AllNewsArrive'
<1>1. ASSUME NEW c \in Branches, Opened(c)'
      PROVE  NewsArrive(c)'
  <2>1. CASE Opened(c) /\ CellRests(c) /\ pending'[c] = pending[c]
    BY <2>1, NewsRest DEF AllNewsArrive
  <2>2. CASE c = b /\ OpenIterator(b)
    <3>1. /\ phase[b] = "open" /\ UNCHANGED <<stored, cell>>
          /\ pending'[b] = {ToBranch(b, v) : v \in lists[UnmapIndex(b, cell[b])]}
      BY <2>2 DEF OpenIterator, meshVars, Inv, Types, QueueTypes
    <3> SUFFICES ASSUME NEW u \in Diagram(b), cell[b] \in u, ToMesh(b, u) \in stored
                 PROVE  u \in pending'[b] \/ \E x \in Workers : Brings(x, b, u)'
      BY <2>2, <3>1 DEF NewsArrive, Diagram
    <3> DEFINE v == ToMesh(b, u)
               g == UnmapIndex(b, cell[b])
    <3>2. g \in v \cap Ordinary /\ ToBranch(b, v) = u
      BY CellBounds, CellGenerator, CellTouches, WayBack
    <3>3. v \in lists[g] => u \in pending'[b]
      BY <3>1, <3>2
    <3> HIDE DEF v, g
    <3>4. v \in lists[g] \/ \E x \in Workers : ListedBy(x, v)
      BY <3>2 DEF Inv, ListsInv, Listed, v
    <3>5. ASSUME NEW x \in Workers, ListedBy(x, v)
          PROVE  Brings(x, b, u)'
      <4>1. pc[x] = "list" /\ Mesh(x) = v
        BY <3>5 DEF ListedBy, Mesh
      <4>2. Own(x) # b
        BY <3>1, <4>1 DEF Inv, Workings, CrewsAreJoined, Busy
      <4>3. frame[x].rest = Rest(x) /\ pc'[x] = pc[x] /\ frame'[x] = frame[x]
        BY <4>1, CrewStarts DEF JobsFit, JobFits
      <4>4. b \in frame'[x].rest /\ Mesh(x)' = Mesh(x)
        BY <4>2, <4>3 DEF Rest, Mesh
      <4> QED
        BY <3>2, <4>1, <4>3, <4>4 DEF Brings, Abroad
    <3> QED
      BY <3>3, <3>4, <3>5
  <2> QED
    BY <1>1, <2>1, <2>2, OpenedCells
<1> QED
  BY <1>1 DEF AllNewsArrive

\* A step of a branch enters a cell with a vertex.
LEMMA BranchStepKeepsStarts ==
  ASSUME NEW b \in Branches, Inv, AllCellsStart, BranchStep(b)
  PROVE  AllCellsStart'
<1>0. /\ DOMAIN phase = Branches /\ DOMAIN consumed = Branches
      /\ queue[b] \in Seq(SUBSET Nat) /\ ToSet(queue[b]) \subseteq claimed[b]
  BY DEF Inv, Types, BranchTypes, QueueTypes
<1>1. ASSUME NEW c \in Branches, Opened(c)'
      PROVE  CellIsTouched(c)' /\ CellIsEntered(c)'
  <2>1. CASE c # b
    <3>1. Opened(c) /\ CellIsTouched(c) /\ CellIsEntered(c)
      BY <1>1, <2>1, OpenedCells DEF AllCellsStart
    <3>2. /\ phase'[c] = phase[c] /\ claimed'[c] = claimed[c] /\ consumed'[c] = consumed[c]
          /\ cell'[c] = cell[c]
      BY <2>1, BranchesAreApart
    <3>3. \A x \in Crew(c) : \A u : AtClaim(x, c, u) => AtClaim(x, c, u)'
      BY <3>2, CrewStarts DEF Crew, AtClaim
    <3> QED
      BY <3>1, <3>2, <3>3 DEF CellIsTouched, CellIsEntered, Crew, Diagram
  <2>2. CASE c = b /\ OpenIterator(b)
    <3>1. phase'[c] = "iterate" /\ consumed'[c] = FALSE
      BY <1>0, <2>2 DEF OpenIterator
    <3> QED
      BY <3>1 DEF CellIsTouched, CellIsEntered
  <2>3. CASE c = b /\ Descend(b)
    <3> DEFINE w == <<b, 1>>
    <3>1. PICK v \in Diagram(b) :
            /\ cell[b] \in v
            /\ frame' = [frame EXCEPT ![w] = [QueueLocally(@, b, v) EXCEPT !.job = "descend"]]
      BY <2>3 DEF Descend
    <3>2. /\ pc' = [pc EXCEPT ![w] = "claim"] /\ UNCHANGED cell
          /\ phase' = [phase EXCEPT ![b] = "descend"]
      BY <2>3 DEF Descend
    <3>3. w \in Crew(b) /\ w \in Workers
      BY WorkerFacts DEF Crew
    <3> HIDE DEF w
    <3>4. /\ frame'[w].at = b /\ frame'[w].task = v /\ frame'[w].arg = cell[b]
          /\ pc'[w] = "claim"
      <4>1. frame[w] \in Frames /\ DOMAIN frame = Workers /\ DOMAIN pc = Workers
        BY <3>3, WorkerContext
      <4> QED
        BY <3>1, <3>2, <3>3, <4>1 DEF QueueLocally, Frames
    <3>5. AtClaim(w, b, v)'
      BY <3>2, <3>4 DEF AtClaim
    <3> QED
      BY <1>0, <2>3, <3>1, <3>2, <3>3, <3>5 DEF CellIsTouched, CellIsEntered, Crew, Diagram
  <2>4. CASE c = b /\ (StartExploring(b) \/ CompleteCell(b))
    <3>1. Opened(b) /\ CellIsTouched(b) /\ CellIsEntered(b) /\ UNCHANGED claimed
      BY <2>4 DEF StartExploring, CompleteCell, stateVars, Opened, Busy, AllCellsStart
    <3>2. claimed[b] # {}
      <4>1. CASE phase[b] = "explore"
        BY <3>1, <4>1 DEF CellIsEntered
      <4>2. CASE phase[b] # "explore"
        <5>1. StartExploring(b) /\ \A x \in Crew(b) : pc[x] = "idle"
          BY <2>4, <4>2 DEF StartExploring, CompleteCell, Joined
        <5>2. phase[b] = "iterate" /\ ~consumed[b] => queue[b] # <<>>
          BY <5>1 DEF StartExploring, NeedsDescent
        <5>3. queue[b] # <<>> => claimed[b] # {}
          BY <1>0, QueueOperations
        <5> QED
          BY <3>1, <5>1, <5>2, <5>3 DEF CellIsTouched, AtClaim
      <4> QED
        BY <4>1, <4>2
    <3> QED
      BY <2>4, <3>1, <3>2 DEF CellIsTouched, CellIsEntered
  <2>5. CASE c = b /\ (DescentThrows(b) \/ RetireCell(b) \/ WipeCell(b))
    <3>1. phase'[c] \in {"failed", "wipe", "open", "done"}
      BY <1>0, <2>5 DEF DescentThrows, RetireCell, WipeCell, ClearCell
    <3> QED
      BY <1>1, <3>1 DEF Opened, Left, Busy
  <2> QED
    BY <2>1, <2>2, <2>3, <2>4, <2>5 DEF BranchStep
<1> QED
  BY <1>1 DEF AllCellsStart

\* A step of a branch starts its workers with consistent frames.
LEMMA BranchStepKeepsJobs ==
  ASSUME NEW b \in Branches, Inv, JobsFit, BranchStep(b)
  PROVE  JobsFit'
<1>1. /\ UNCHANGED stored /\ DOMAIN phase = Branches
      /\ DOMAIN pc = Workers /\ DOMAIN frame = Workers
      /\ \A c \in Branches \ {b} : phase'[c] = phase[c] /\ cell'[c] = cell[c]
  BY BranchesAreApart DEF Inv, Types, BranchTypes, Workings, WorkersAreConsistent
<1>2. ASSUME NEW x \in Workers, pc'[x] = pc[x], frame'[x] = frame[x],
             Own(x) # b \/ pc[x] = "idle"
      PROVE  JobFits(x)'
  <2>1. JobFits(x) /\ Own(x) \in Branches
    BY WorkerFacts DEF JobsFit
  <2>2. Own(x) # b => phase'[Own(x)] = phase[Own(x)] /\ cell'[Own(x)] = cell[Own(x)]
    BY <1>1, <2>1
  <2>3. Own(x) = b => pc'[x] = "idle"
    BY <1>2
  <2> QED
    BY <1>1, <1>2, <2>1, <2>2, <2>3 DEF JobFits, Abroad, Mesh, Calling
<1>3. \A x \in Workers : Own(x) = b => x \in Crew(b)
  BY DEF Crew
<1>4. \A x \in Crew(b) : x \in Workers /\ Own(x) = b /\ pc[x] = "idle"
  BY DEF BranchStep, OpenIterator, Descend, DescentThrows, StartExploring, CompleteCell,
         RetireCell, WipeCell, Joined, Crew, Inv, Workings, CrewsAreJoined, Busy
<1>5. CASE OpenIterator(b) \/ StartExploring(b)
  <2>1. \/ /\ RunWorkers(b, "next", "iterate") /\ phase' = [phase EXCEPT ![b] = "iterate"]
        \/ /\ RunWorkers(b, "pop", "explore") /\ phase' = [phase EXCEPT ![b] = "explore"]
    BY <1>5 DEF OpenIterator, StartExploring
  <2>2. ASSUME NEW x \in Workers, Own(x) = b
        PROVE  JobFits(x)'
    <3>1. \/ /\ pc'[x] = "next" /\ frame'[x] = [EmptyFrame EXCEPT !.job = "iterate"]
             /\ phase'[Own(x)] = "iterate"
          \/ /\ pc'[x] = "pop" /\ frame'[x] = [EmptyFrame EXCEPT !.job = "explore"]
             /\ phase'[Own(x)] = "explore"
      BY <1>1, <1>3, <2>1, <2>2 DEF RunWorkers
    <3>2. \/ pc'[x] = "next" /\ frame'[x].job = "iterate" /\ phase'[Own(x)] = "iterate"
          \/ pc'[x] = "pop" /\ frame'[x].job = "explore" /\ phase'[Own(x)] = "explore"
      BY <3>1 DEF EmptyFrame
    <3>3. frame'[x].origin = None
      BY <3>1 DEF EmptyFrame
    <3> QED
      BY <3>2, <3>3 DEF JobFits, Abroad, Mesh, Calling
  <2>3. ASSUME NEW x \in Workers, Own(x) # b
        PROVE  JobFits(x)'
    <3>1. pc'[x] = pc[x] /\ frame'[x] = frame[x]
      BY <2>1, <2>3 DEF RunWorkers, Crew
    <3> QED
      BY <1>2, <2>3, <3>1
  <2> QED
    BY <2>2, <2>3 DEF JobsFit
<1>6. CASE Descend(b)
  <2> DEFINE w == <<b, 1>>
  <2>1. w \in Workers /\ Own(w) = b /\ w \in Crew(b)
    BY WorkerFacts DEF Crew
  <2>2. PICK v :
          frame' = [frame EXCEPT ![w] = [QueueLocally(@, b, v) EXCEPT !.job = "descend"]]
    BY <1>6 DEF Descend
  <2>3. pc' = [pc EXCEPT ![w] = "claim"] /\ phase' = [phase EXCEPT ![b] = "descend"]
        /\ UNCHANGED cell
    BY <1>6 DEF Descend
  <2> HIDE DEF w
  <2>4. JobFits(w)'
    <3>1. frame[w] \in Frames /\ frame[w].origin = None
      BY <1>4, <2>1, WorkerContext DEF Consistent
    <3>2. /\ frame'[w].job = "descend" /\ frame'[w].origin = None /\ frame'[w].sigma = v
          /\ frame'[w].at = b /\ frame'[w].task = v /\ frame'[w].arg = cell[b]
      BY <1>1, <2>1, <2>2, <3>1 DEF QueueLocally, Frames
    <3>3. pc'[w] = "claim" /\ phase'[Own(w)] = "descend"
      BY <1>1, <2>1, <2>3
    <3> QED
      BY <2>1, <2>3, <3>2, <3>3 DEF JobFits, Abroad, Mesh, Calling
  <2>5. ASSUME NEW x \in Workers, x # w
        PROVE  JobFits(x)'
    <3>1. pc'[x] = pc[x] /\ frame'[x] = frame[x]
      BY <1>1, <2>2, <2>3, <2>5
    <3> QED
      BY <1>2, <1>3, <1>4, <3>1
  <2> QED
    BY <2>4, <2>5 DEF JobsFit
<1>7. CASE DescentThrows(b) \/ CompleteCell(b) \/ RetireCell(b) \/ WipeCell(b)
  <2>1. UNCHANGED <<pc, frame>>
    BY <1>7 DEF DescentThrows, CompleteCell, RetireCell, WipeCell, ClearCell
  <2> QED
    BY <1>2, <1>3, <1>4, <2>1 DEF JobsFit
<1> QED
  BY <1>5, <1>6, <1>7 DEF BranchStep

\* A step of a branch leaves the phases consistent.
LEMMA BranchStepKeepsPhases ==
  ASSUME NEW b \in Branches, Inv, ListsFit, PhasesFit, BranchStep(b)
  PROVE  PhasesFit'
<1>1. /\ UNCHANGED stored
      /\ DOMAIN phase = Branches /\ DOMAIN cell = Branches /\ DOMAIN published = Branches
      /\ DOMAIN upcoming = Branches /\ DOMAIN pending = Branches
  BY BranchesAreApart DEF Inv, Types, BranchTypes, QueueTypes
<1>2. ASSUME NEW c \in Branches, c # b
      PROVE  PhaseFits(c)'
  <2>1. PhaseFits(c)
    BY DEF PhasesFit
  <2>2. /\ phase'[c] = phase[c] /\ cell'[c] = cell[c] /\ published'[c] = published[c]
        /\ upcoming'[c] = upcoming[c] /\ pending'[c] = pending[c]
    BY <1>2, BranchesAreApart
  <2>3. \A x \in Crew(c) : pc'[x] = pc[x]
    BY <1>2, CrewStarts DEF Crew
  <2> QED
    BY <1>1, <2>1, <2>2, <2>3 DEF PhaseFits, Crew
<1>3. PhaseFits(b)
  BY DEF PhasesFit
<1>4. CASE OpenIterator(b)
  <2> DEFINE g == UnmapIndex(b, cell[b])
  <2>1. /\ phase[b] = "open" /\ UNCHANGED <<cell, published, upcoming>>
        /\ pending'[b] = {ToBranch(b, v) : v \in lists[g]} /\ phase'[b] = "iterate"
        /\ RunWorkers(b, "next", "iterate")
    BY <1>1, <1>4 DEF OpenIterator
  <2>2. \A x \in Crew(b) : pc'[x] = "next"
    BY <2>1 DEF RunWorkers, Crew
  <2>3. ASSUME NEW u \in pending'[b]
        PROVE  cell[b] \in u /\ ToMesh(b, u) \in stored
    <3>1. PICK v \in lists[g] : u = ToBranch(b, v)
      BY <2>1
    <3>2. g \in Ordinary
      BY CellBounds, CellGenerator
    <3> HIDE DEF g
    <3>3. v \in stored /\ v \in Vertices /\ g \in v
      BY <3>1, <3>2 DEF ListsFit, Inv, ListsInv, Types, MeshTypes
    <3> QED
      BY <3>1, <3>3, CellBounds, CellGenerator, WayBack DEF g
  <2> HIDE DEF g
  <2>4. PhaseFits(b)'
    BY <1>1, <1>3, <2>1, <2>2, <2>3 DEF PhaseFits, Busy, Crew
  <2> QED
    BY <1>2, <2>4 DEF PhasesFit
<1>5. CASE Descend(b) \/ StartExploring(b) \/ DescentThrows(b) \/ CompleteCell(b)
  <2>1. /\ phase[b] \in Busy /\ \A x \in Crew(b) : pc[x] = "idle"
        /\ phase'[b] \in {"descend", "explore", "failed", "retire"}
        /\ UNCHANGED <<cell, published, pending>>
        /\ phase'[b] # "retire" => UNCHANGED upcoming
    BY <1>1, <1>5
       DEF Descend, StartExploring, DescentThrows, CompleteCell, Joined, Busy, iterVars
  <2>2. pending[b] = {}
    <3>1. <<b, 1>> \in Crew(b)
      BY WorkerFacts DEF Crew
    <3> QED
      BY <1>3, <2>1, <3>1 DEF PhaseFits
  <2>3. PhaseFits(b)'
    BY <1>1, <1>3, <2>1, <2>2 DEF PhaseFits, Busy
  <2> QED
    BY <1>2, <2>3 DEF PhasesFit
<1>6. CASE RetireCell(b)
  <2>1. /\ phase[b] = "retire" /\ phase'[b] = "wipe" /\ UNCHANGED <<cell, pending, upcoming>>
    BY <1>1, <1>6 DEF RetireCell, iterVars
  <2>2. PhaseFits(b)'
    BY <1>1, <1>3, <2>1 DEF PhaseFits, Busy
  <2> QED
    BY <1>2, <2>2 DEF PhasesFit
<1>7. CASE WipeCell(b)
  <2>1. /\ phase[b] = "wipe" /\ UNCHANGED <<pending, upcoming>>
        /\ \/ phase'[b] = "open" /\ cell'[b] = upcoming[b] /\ published'[b] = TRUE
           \/ phase'[b] = "done" /\ ~(upcoming[b] < CellCount(b))
    BY <1>1, <1>7 DEF WipeCell, ClearCell, iterVars
  <2>2. ~(upcoming[b] < CellCount(b)) => upcoming[b] = CellCount(b)
    BY CellBounds
  <2>3. PhaseFits(b)'
    BY <1>1, <1>3, <2>1, <2>2 DEF PhaseFits, Busy
  <2> QED
    BY <1>2, <2>3 DEF PhasesFit
<1> QED
  BY <1>4, <1>5, <1>6, <1>7 DEF BranchStep

-----------------------------------------------------------------------------
(* The invariant *)

\* The invariant, part by part.
LEMMA ProgressParts ==
  Progress <=> /\ JobsFit /\ ListsFit /\ PhasesFit /\ AllClaimsFit /\ AllEdgesFit
               /\ AllClaimsSeen /\ AllTasksRecorded /\ AllNewsArrive /\ AllCellsStart
BY DEF Progress, JobsFit, PhasesFit, AllClaimsFit, AllEdgesFit, AllClaimsSeen,
       AllTasksRecorded, AllNewsArrive, AllCellsStart

\* The invariant holds before the first cell ...
LEMMA InitProgress == Init => Progress
<1> SUFFICES ASSUME Init PROVE Progress
  OBVIOUS
<1>1. JobsFit
  <2>1. \A w \in Workers : pc[w] = "idle" /\ frame[w].origin = None
    BY DEF Init, EmptyFrame
  <2> QED
    BY <2>1 DEF JobsFit, JobFits, Abroad, Calling
<1>2. ListsFit
  BY DEF Init, ListsFit
<1>3. \A b \in Branches : /\ phase[b] = "retire" /\ cell[b] = 0 /\ upcoming[b] = 0
                          /\ published[b] = TRUE /\ pending[b] = {}
  BY DEF Init
<1>4. \A b \in Branches : ~Active(b) /\ ~Opened(b)
  BY <1>3 DEF Active, Opened, Left, Busy
<1>5. PhasesFit
  BY <1>3 DEF PhasesFit, PhaseFits, Busy
<1> QED
  BY <1>1, <1>2, <1>4, <1>5
     DEF Progress, JobsFit, PhasesFit

\* ... and every step keeps it ...
LEMMA NextKeepsProgress == Inv /\ Progress /\ [Next]_vars => Progress'
<1> SUFFICES ASSUME Inv, Progress, [Next]_vars
             PROVE  Progress'
  OBVIOUS
<1>1. /\ JobsFit /\ ListsFit /\ PhasesFit /\ AllClaimsFit /\ AllEdgesFit
      /\ AllClaimsSeen /\ AllTasksRecorded /\ AllNewsArrive /\ AllCellsStart
  BY ProgressParts
<1>2. ASSUME NEW w \in Workers, WorkerStep(w)
      PROVE  Progress'
  <2>1. /\ JobsFit' /\ ListsFit' /\ PhasesFit' /\ AllClaimsFit' /\ AllEdgesFit'
    BY <1>1, <1>2, WorkerStepKeepsJobs, WorkerStepKeepsListsFit, WorkerStepKeepsPhases,
       WorkerStepKeepsClaims, WorkerStepKeepsEdges
  <2>2. /\ AllClaimsSeen' /\ AllTasksRecorded' /\ AllNewsArrive' /\ AllCellsStart'
    BY <1>1, <1>2, WorkerStepKeepsSeen, WorkerStepKeepsTasks, WorkerStepKeepsNews,
       WorkerStepKeepsStarts
  <2> QED
    BY <2>1, <2>2
       DEF Progress, JobsFit, PhasesFit, AllClaimsFit, AllEdgesFit, AllClaimsSeen,
           AllTasksRecorded, AllNewsArrive, AllCellsStart
<1>3. ASSUME NEW b \in Branches, BranchStep(b)
      PROVE  Progress'
  <2>1. ListsFit'
    BY <1>1, <1>3, BranchesAreApart DEF ListsFit
  <2>2. /\ JobsFit' /\ PhasesFit' /\ AllClaimsFit' /\ AllEdgesFit'
        /\ AllClaimsSeen' /\ AllTasksRecorded' /\ AllNewsArrive' /\ AllCellsStart'
    BY <1>1, <1>3, BranchStepKeepsJobs, BranchStepKeepsPhases, BranchStepKeepsCells,
       BranchStepKeepsNews, BranchStepKeepsStarts
  <2> QED
    BY <2>1, <2>2
       DEF Progress, JobsFit, PhasesFit, AllClaimsFit, AllEdgesFit, AllClaimsSeen,
           AllTasksRecorded, AllNewsArrive, AllCellsStart
<1>4. CASE UNCHANGED vars
  <2>1. /\ UNCHANGED <<stored, lists, infinite>> /\ UNCHANGED branchVars
        /\ UNCHANGED iterVars /\ UNCHANGED stateVars /\ UNCHANGED <<pc, frame>>
    BY <1>4 DEF vars, meshVars
  <2>2. Progress' = Progress
    BY <2>1 DEF Progress, JobFits, Abroad, Mesh, ListsFit, PhaseFits, Active, Opened, Left,
      ClaimsFit, EdgeFits, Tokens, Ends, AtClaim, ClaimedAreSeen, FullIn, Awaits, IsInside,
      TasksAreRecorded, QueueFits, TourFits, PassFits, Recorded, NewsArrive, Brings,
      CellIsTouched, CellIsEntered, branchVars, iterVars, stateVars, Crew, Diagram
  <2> QED
    BY <2>2
<1> QED
  BY <1>2, <1>3, <1>4 DEF Next

\* ... so that it always holds.
LEMMA ProgressHolds == Spec => [](Inv /\ Progress)
<1>1. Init => Inv /\ Progress
  BY InitInv, InitProgress
<1>2. (Inv /\ Progress) /\ [Next]_vars => (Inv /\ Progress)'
  BY NextKeepsInv, NextKeepsProgress
<1> QED
  BY <1>1, <1>2, PTL DEF Spec

-----------------------------------------------------------------------------
(* A cell that is left *)

\* The branch's workers have stopped, its queue is empty, and nobody has
\* anything to tell it.
CellIsDone(b) ==
  /\ Opened(b) /\ phase[b] \in {"explore", "retire"}
  /\ Joined(b) /\ queue[b] = <<>>
  /\ \A w \in Workers \ Crew(b) : ~OwesNews(w, b)

\* The vertices of a cell in the numbering of the branch.
CellOf(b, c) == {u \in Diagram(b) : c \in u}

\* The least generator of an edge of the cell is at most the cell.
LEMMA EdgeNumbers ==
  ASSUME NEW b \in Branches, NEW v \in Diagram(b), NEW s \in v, NEW c \in v, s # c
  PROVE  LET d == Min(Without(v, s)) IN
         /\ Without(v, s) \in SUBSET Nat /\ c \in Without(v, s)
         /\ d \in Without(v, s) /\ d \in Nat /\ c \in Nat /\ d <= c
<1> DEFINE e == Without(v, s)
<1>1. e \in SUBSET Nat /\ c \in e
  BY WayBack DEF Without
<1> HIDE DEF e
<1>2. Min(e) \in e /\ Min(e) <= c
  BY <1>1, MinIsLeast
<1> QED
  BY <1>1, <1>2 DEF e

\* The edges the cell owns are full.
LEMMA OwnedEdgesAreFull ==
  ASSUME Inv, Progress, NEW b \in Branches, CellIsDone(b),
         NEW v \in claimed[b], NEW s \in OwnedSkips(v, cell[b])
  PROVE  /\ \A u \in Ends(b, Without(v, s)) : u \in claimed[b]
         /\ (\A u, x \in Ends(b, Without(v, s)) : u = x) => ToMesh(b, Without(v, s)) \in infinite
<1> DEFINE e == Without(v, s)
<1>0. /\ ClaimedAreSeen(b) /\ \A f \in DOMAIN edges[b] : EdgeFits(b, f)
      /\ \A w \in Crew(b) : w \in Workers /\ pc[w] = "idle"
  BY DEF Progress, Active, CellIsDone, Joined, Crew
<1>1. FullIn(edges[b], e)
  <2>1. v \notin ToSet(queue[b])
    BY DEF CellIsDone, ToSet
  <2>2. ASSUME NEW w \in Workers, Awaits(w, b, v, s)
        PROVE  FALSE
    <3>1. CASE w \in Crew(b) /\ frame[w].origin = v /\ s \in frame[w].left
      <4>1. frame[w].left = {}
        BY <1>0, <3>1, WorkerContext DEF Consistent, None
      <4> QED
        BY <3>1, <4>1
    <3>2. CASE IsInside(w) /\ frame[w].at = b
      <4>1. w \notin Crew(b)
        BY <1>0, <3>2 DEF IsInside
      <4> QED
        BY <3>2, <4>1 DEF CellIsDone, OwesNews, IsInside
    <3> QED
      BY <2>2, <3>1, <3>2 DEF Awaits
  <2> QED
    BY <1>0, <2>1, <2>2 DEF ClaimedAreSeen
<1>2. Len(Tokens(b, e)) = 2 /\ EdgeFits(b, e)
  BY <1>0, <1>1, Zenon DEF FullIn, Tokens
<1> HIDE DEF e
<1>3. ~\E u : \E w \in Crew(b) : AtClaim(w, b, u)
  BY <1>0 DEF AtClaim
<1>4. /\ \A u \in Ends(b, e) : u \in claimed[b]
      /\ (\A u, x \in Ends(b, e) : u = x) => ToMesh(b, e) \in infinite
  BY <1>2, <1>3 DEF EdgeFits
<1> QED
  BY <1>4 DEF e

\* A stored vertex of the cell was claimed for it.
LEMMA NewsHaveArrived ==
  ASSUME Inv, Progress, NEW b \in Branches, CellIsDone(b),
         NEW u \in Diagram(b), cell[b] \in u, ToMesh(b, u) \in stored
  PROVE  u \in claimed[b]
<1>1. /\ NewsArrive(b) /\ PhaseFits(b)
      /\ \A w \in Crew(b) : w \in Workers /\ pc[w] = "idle"
  BY DEF Progress, CellIsDone, Joined, Crew
<1>2. pending[b] = {}
  BY <1>1 DEF PhaseFits, CellIsDone
<1>3. ASSUME NEW w \in Workers, Brings(w, b, u)
      PROVE  FALSE
  <2>1. w \notin Crew(b)
    BY <1>1, <1>3 DEF Brings, AtClaim, Abroad, Calling
  <2>2. ~OwesNews(w, b)
    BY <2>1 DEF CellIsDone
  <2> QED
    BY <1>3, <2>2 DEF Brings, AtClaim, OwesNews
<1> QED
  BY <1>1, <1>2, <1>3 DEF NewsArrive

\* The claims of a cell that is done are all its vertices: they are closed under
\* the edges the cell owns, and the other edges belong to earlier cells.
LEMMA CellIsComplete ==
  ASSUME Inv, Progress, NEW b \in Branches, CellIsDone(b),
         \A c \in 0 .. cell[b] - 1 : CellVertices(b, c) \subseteq stored
  PROVE  /\ claimed[b] = CellOf(b, cell[b])
         /\ CellVertices(b, cell[b]) \subseteq stored
<1> DEFINE S == claimed[b]
<1>1. /\ cell[b] \in 0 .. CellCount(b) - 1 /\ cell[b] \in Nat
      /\ ClaimsFit(b) /\ CellIsEntered(b)
      /\ \A w \in Crew(b) : w \in Workers /\ pc[w] = "idle"
      /\ S \subseteq Diagram(b)
  BY CellBounds DEF Progress, Active, CellIsDone, Joined, Crew, Inv, Types, QueueTypes
<1>2. /\ \A v \in S : cell[b] \in v /\ ToMesh(b, v) \in stored
      /\ S # {}
  BY <1>1 DEF ClaimsFit, CellIsEntered, CellIsDone
<1>3. ASSUME NEW v \in S, NEW s \in v \ {cell[b]}
      PROVE  Ends(b, Without(v, s)) \subseteq S
  <2> DEFINE e == Without(v, s)
             d == Min(e)
  <2>1. /\ v \in Diagram(b) /\ cell[b] \in v /\ s \in v /\ s # cell[b]
    BY <1>1, <1>2
  <2>2. /\ e \in SUBSET Nat /\ cell[b] \in e /\ d \in e /\ d \in Nat /\ d <= cell[b]
    BY <2>1, EdgeNumbers
  <2>3. CASE d = cell[b]
    <3>1. s \in OwnedSkips(v, cell[b])
      BY <2>1, <2>2, <2>3 DEF OwnedSkips, Without
    <3> QED
      BY <3>1, OwnedEdgesAreFull
  <2>4. CASE d # cell[b]
    <3> SUFFICES ASSUME NEW u \in Ends(b, e)
                 PROVE  u \in S
      OBVIOUS
    <3>1. u \in Diagram(b) /\ d \in u /\ cell[b] \in u
      BY <2>2 DEF Ends
    <3> HIDE DEF d, e
    <3>2. d \in 0 .. cell[b] - 1 /\ d \in 0 .. CellCount(b) - 1
      BY <1>1, <2>2, <2>4, BlockTypes
    <3>3. ToMesh(b, u) \in CellVertices(b, d)
      BY <3>1, <3>2, CellTouches, WayBack DEF CellVertices
    <3>4. ToMesh(b, u) \in stored
      BY <3>2, <3>3
    <3> QED
      BY <3>1, <3>4, NewsHaveArrived
  <2> QED
    BY <2>3, <2>4
<1> HIDE DEF S
<1>4. S = {u \in Diagram(b) : cell[b] \in u}
  <2>1. S \in SUBSET {u \in Diagram(b) : cell[b] \in u} /\ S # {}
    BY <1>1, <1>2
  <2> QED
    BY <1>1, <1>3, <2>1, CellIsConnected
<1>5. ASSUME NEW v \in CellVertices(b, cell[b])
      PROVE  v \in stored
  <2>1. v \in Vertices /\ UnmapIndex(b, cell[b]) \in v
    BY DEF CellVertices
  <2>2. /\ ToBranch(b, v) \in Diagram(b) /\ ToMesh(b, ToBranch(b, v)) = v
        /\ cell[b] \in ToBranch(b, v)
    BY <1>1, <2>1, WayBack, CellGenerator
  <2> QED
    BY <1>2, <1>4, <2>2
<1> QED
  BY <1>4, <1>5 DEF S, CellOf

\* ... and the unbounded edges of the cell are stored.
LEMMA UnboundedEdgesAreStored ==
  ASSUME Inv, Progress, NEW b \in Branches, CellIsDone(b), claimed[b] = CellOf(b, cell[b]),
         \A c \in 0 .. cell[b] - 1 : {e \in Unbounded : UnmapIndex(b, c) \in e} \subseteq infinite
  PROVE  {e \in Unbounded : UnmapIndex(b, cell[b]) \in e} \subseteq infinite
<1> SUFFICES ASSUME NEW e \in Unbounded, UnmapIndex(b, cell[b]) \in e
             PROVE  e \in infinite
  OBVIOUS
<1>1. cell[b] \in 0 .. CellCount(b) - 1 /\ cell[b] \in Nat
  BY CellBounds
<1>2. PICK v \in Vertices : \E g \in v : e = Without(v, g)
  BY DEF Unbounded, EdgesOf, Without
<1>3. PICK g \in v : e = Without(v, g)
  BY <1>2
<1> DEFINE u == ToBranch(b, v)
           s == Renumbered(b, g)
           d == Min(Without(u, s))
<1>4. u \in Diagram(b) /\ ToMesh(b, u) = v
  BY WayBack
<1> HIDE DEF u
<1>5. s \in u /\ ToMesh(b, Without(u, s)) = e /\ ToBranch(b, e) = Without(u, s)
  BY <1>3, <1>4, GeneratorDropped
<1> HIDE DEF s
<1>6. e \in SUBSET Nat
  BY <1>3, WayBack DEF Without
<1>7. cell[b] \in Without(u, s)
  BY <1>1, <1>5, <1>6, CellGenerator
<1>8. cell[b] \in u /\ s # cell[b]
  BY <1>7 DEF Without
<1>9. /\ Without(u, s) \in SUBSET Nat /\ d \in Without(u, s) /\ d \in Nat /\ d <= cell[b]
  BY <1>4, <1>5, <1>8, EdgeNumbers
<1>10. CASE d = cell[b]
  <2>1. u \in claimed[b] /\ s \in OwnedSkips(u, cell[b])
    BY <1>4, <1>5, <1>8, <1>7, <1>10 DEF OwnedSkips, Without, CellOf
  <2>2. \A x, y \in Ends(b, Without(u, s)) : x = y
    <3> DEFINE mesh == {z \in Vertices : e \subseteq z}
    <3>1. Cardinality(mesh) = 1
      BY DEF Unbounded
    <3>2. \E z : mesh = {z}
      <4>1. IsFiniteSet(mesh)
        <5>1. mesh \subseteq Vertices
          OBVIOUS
        <5> QED
          BY <5>1, GeometryAssumption, FS_Subset
      <4> HIDE DEF mesh
      <4> QED
        BY <3>1, <4>1, FS_Singleton
    <3>3. \A x \in Ends(b, Without(u, s)) : /\ ToMesh(b, x) \in mesh
                                            /\ ToBranch(b, ToMesh(b, x)) = x
      BY <1>5, WayBack, RenumberingIsMonotone DEF Ends
    <3> HIDE DEF mesh
    <3> QED
      BY <3>2, <3>3
  <2> QED
    BY <1>5, <2>1, <2>2, OwnedEdgesAreFull
<1>11. CASE d # cell[b]
  <2> HIDE DEF d
  <2>1. d \in 0 .. cell[b] - 1 /\ d \in 0 .. CellCount(b) - 1
    BY <1>1, <1>9, <1>11, BlockTypes
  <2>2. UnmapIndex(b, d) \in e
    BY <1>5, <1>9, <2>1, CellGenerator
  <2> QED
    BY <2>1, <2>2
<1> QED
  BY <1>10, <1>11

-----------------------------------------------------------------------------
(* The theorems *)

\* A branch whose earlier cells are complete completes the next one too, once
\* nobody has anything to tell it any more: for every diagram with connected
\* cells and every number of branches and workers.
THEOREM QuietCompleteness == Spec => []QuietCellsAreComplete
<1>1. Inv /\ Progress => QuietCellsAreComplete
  <2> SUFFICES ASSUME Inv, Progress, NEW b \in Branches, QuietlyLeft(b),
                      \A c \in 0 .. cell[b] - 1 : CellVertices(b, c) \subseteq stored
               PROVE  CellVertices(b, cell[b]) \subseteq stored
    BY DEF QuietCellsAreComplete
  <2>1. Joined(b)
    BY DEF QuietlyLeft, Joined, Crew, Inv, Workings, CrewsAreJoined, Busy
  <2>2. CellIsDone(b)
    BY <2>1 DEF QuietlyLeft, CellIsDone, Opened, Left
  <2> QED
    BY <2>2, CellIsComplete
<1> QED
  BY <1>1, ProgressHolds, PTL

\* With one branch all workers are its crew.
LEMMA OneBranch ==
  ASSUME MeshThreads = 1
  PROVE  Branches = {0} /\ \A b \in Branches : Workers \ Crew(b) = {}
<1>1. BranchCount = 1
  <2>1. TotalCells \in Nat \ {0}
    BY Blocks
  <2> QED
    BY <2>1 DEF BranchCount
<1>2. Branches = {0}
  BY <1>1 DEF Branches
<1> QED
  BY <1>2, WorkerFacts DEF Crew

\* With one branch a queue is filled by a worker that goes on to empty it.
LEMMA QueueStaysServed ==
  ASSUME MeshThreads = 1, Inv, Progress, QueueIsServed, Next
  PROVE  QueueIsServed'
<1> SUFFICES ASSUME NEW b \in Branches, phase'[b] \in {"explore", "retire"}, queue'[b] # <<>>
             PROVE  \E x \in Crew(b) : pc'[x] # "idle"
  BY DEF QueueIsServed, Crew
<1>0. /\ DOMAIN pc = Workers /\ DOMAIN queue = Branches /\ DOMAIN phase = Branches
      /\ \A w \in Workers : w \in Crew(b) /\ Own(w) = b /\ JobFits(w)
      /\ \A w \in Workers : frame[w].at = b
      /\ \A x \in Crew(b) : x \in Workers
  <2>1. \A w \in Workers : frame[w].at \in Branches /\ Own(w) \in Branches
    BY WorkerContext
  <2> QED
    BY <2>1, OneBranch
       DEF Progress, Inv, Types, QueueTypes, BranchTypes, Workings, WorkersAreConsistent, Crew
<1>1. ASSUME NEW w \in Workers, WorkerStep(w)
      PROVE  \E x \in Crew(b) : pc'[x] # "idle"
  <2>1. /\ UNCHANGED phase /\ \A x \in Workers \ {w} : pc'[x] = pc[x]
    BY <1>1, WorkerStepsKeep
  <2>2. CASE pc'[w] # "idle"
    BY <1>0, <2>2
  <2>3. CASE pc'[w] = "idle"
    <3>1. \/ pc[w] = "next"
          \/ pc[w] = "pop" /\ queue[b] = <<>> /\ UNCHANGED queue
          \/ pc[w] = "broadcast" /\ frame[w].job = "descend"
      <4>1. CASE NoNextVertex(w) \/ NothingToPop(w) \/ VertexExplored(w)
        <5>1. /\ UNCHANGED queue
              /\ \/ pc[w] = "next"
                 \/ pc[w] = "pop" /\ queue[Own(w)] = <<>>
                 \/ pc'[w] = "pop"
          BY <4>1, ThreadEndDoes
        <5>2. pc'[w] # "pop"
          BY <2>3
        <5>3. Own(w) = b
          BY <1>0
        <5> QED
          BY <5>1, <5>2, <5>3, Zenon
      <4>2. CASE VertexRegistered(w)
        <5>1. pc[w] = "broadcast" /\ (pc'[w] = "edges" \/ frame[w].job = "descend")
          BY <4>2, VertexRegisteredDoes
        <5> QED
          BY <2>3, <5>1
      <4> QED
        BY <1>1, <2>3, <4>1, <4>2, StepsByPlace
    <3>2. pc[w] = "pop" /\ queue[b] = <<>> /\ UNCHANGED queue
      BY <1>0, <2>1, <3>1 DEF JobFits
    <3> QED
      BY <3>2
  <2> QED
    BY <2>2, <2>3
<1>2. ASSUME NEW c \in Branches, BranchStep(c)
      PROVE  \E x \in Crew(b) : pc'[x] # "idle"
  <2>0. c = b /\ <<b, 1>> \in Crew(b)
    BY OneBranch, WorkerFacts DEF Crew
  <2>1. CASE StartExploring(b)
    <3>1. pc'[<<b, 1>>] = "pop"
      BY <1>0, <2>0, <2>1 DEF StartExploring, RunWorkers
    <3> QED
      BY <2>0, <3>1
  <2>2. CASE CompleteCell(b)
    BY <1>0, <2>2 DEF CompleteCell, QueueIsServed, Joined, stateVars
  <2>3. CASE OpenIterator(b) \/ Descend(b) \/ DescentThrows(b) \/ RetireCell(b) \/ WipeCell(b)
    BY <1>0, <2>3 DEF OpenIterator, Descend, DescentThrows, RetireCell, WipeCell, ClearCell
  <2> QED
    BY <1>2, <2>0, <2>1, <2>2, <2>3 DEF BranchStep
<1>3. CASE UNCHANGED vars
  BY <1>3 DEF vars, branchVars, stateVars, QueueIsServed
<1> QED
  BY <1>1, <1>2, <1>3 DEF Next

\* With one branch a cell that is left is complete, and stays so.
LEMMA LeftCellsStayComplete ==
  ASSUME MeshThreads = 1, Inv, Progress, QueueIsServed, LeftCellsAreComplete, Next
  PROVE  LeftCellsAreComplete'
<1>1. ASSUME UNCHANGED upcoming, stored \subseteq stored', infinite \subseteq infinite'
      PROVE  LeftCellsAreComplete'
  BY <1>1 DEF LeftCellsAreComplete, CellVertices, Unbounded
<1>2. ASSUME NEW w \in Workers, WorkerStep(w)
      PROVE  LeftCellsAreComplete'
  BY <1>1, <1>2, WorkerStepsKeep
<1>3. ASSUME NEW b \in Branches, BranchStep(b)
      PROVE  LeftCellsAreComplete'
  <2>0. UNCHANGED <<stored, infinite>>
    BY <1>3, BranchesAreApart
  <2>1. CASE ~CompleteCell(b)
    <3>1. UNCHANGED upcoming
      BY <1>3, <2>1 DEF BranchStep, OpenIterator, Descend, DescentThrows, StartExploring,
                        RetireCell, WipeCell, ClearCell
    <3> QED
      BY <1>1, <2>0, <3>1
  <2>2. CASE CompleteCell(b)
    <3>1. /\ phase[b] = "explore" /\ Joined(b)
          /\ upcoming' = [upcoming EXCEPT ![b] = cell[b] + 1]
          /\ upcoming[b] = cell[b] /\ cell[b] \in Nat /\ DOMAIN upcoming = Branches
      BY <2>2, CellBounds
         DEF CompleteCell, Progress, PhaseFits, Busy, Inv, Types, BranchTypes
    <3>2. queue[b] = <<>>
      BY <3>1 DEF QueueIsServed, Joined
    <3>3. CellIsDone(b)
      BY <3>1, <3>2, OneBranch DEF CellIsDone, Opened, Busy
    <3>4. \A c \in 0 .. cell[b] - 1 :
            /\ CellVertices(b, c) \subseteq stored
            /\ {e \in Unbounded : UnmapIndex(b, c) \in e} \subseteq infinite
      BY <3>1 DEF LeftCellsAreComplete
    <3>5. CellVertices(b, cell[b]) \subseteq stored /\ claimed[b] = CellOf(b, cell[b])
      BY <3>3, <3>4, CellIsComplete
    <3>6. {e \in Unbounded : UnmapIndex(b, cell[b]) \in e} \subseteq infinite
      BY <3>3, <3>4, <3>5, UnboundedEdgesAreStored
    <3>7. ASSUME NEW c \in 0 .. cell[b]
          PROVE  /\ CellVertices(b, c) \subseteq stored
                 /\ {e \in Unbounded : UnmapIndex(b, c) \in e} \subseteq infinite
      <4>1. c = cell[b] \/ c \in 0 .. cell[b] - 1
        BY <3>1
      <4> QED
        BY <3>4, <3>5, <3>6, <4>1
    <3>8. ASSUME NEW d \in Branches, NEW c \in 0 .. upcoming'[d] - 1
          PROVE  /\ CellVertices(d, c) \subseteq stored
                 /\ {e \in Unbounded : UnmapIndex(d, c) \in e} \subseteq infinite
      <4>1. d = b
        BY OneBranch
      <4>2. c \in 0 .. cell[b]
        BY <3>1, <4>1
      <4> QED
        BY <3>7, <4>1, <4>2
    <3> QED
      BY <2>0, <3>8 DEF LeftCellsAreComplete, CellVertices, Unbounded
  <2> QED
    BY <2>1, <2>2
<1>4. CASE UNCHANGED vars
  BY <1>1, <1>4 DEF vars, meshVars, branchVars
<1> QED
  BY <1>2, <1>3, <1>4 DEF Next

\* With one branch the strengthened invariant always holds.
LEMMA LeftCellsHold ==
  ASSUME MeshThreads = 1
  PROVE  Spec => [](Inv /\ Progress /\ QueueIsServed /\ LeftCellsAreComplete)
<1>1. Init => Inv /\ Progress /\ QueueIsServed /\ LeftCellsAreComplete
  <2>1. Init => QueueIsServed
    BY DEF Init, QueueIsServed
  <2>2. Init => LeftCellsAreComplete
    BY DEF Init, LeftCellsAreComplete
  <2> QED
    BY <2>1, <2>2, InitInv, InitProgress
<1>2. (Inv /\ Progress /\ QueueIsServed /\ LeftCellsAreComplete) /\ [Next]_vars
        => (Inv /\ Progress /\ QueueIsServed /\ LeftCellsAreComplete)'
  <2>1. CASE UNCHANGED vars
    BY <2>1, NextKeepsInv, NextKeepsProgress
       DEF vars, meshVars, branchVars, stateVars, QueueIsServed, LeftCellsAreComplete,
           CellVertices, Unbounded, Crew
  <2> QED
    BY <2>1, NextKeepsInv, NextKeepsProgress, QueueStaysServed, LeftCellsStayComplete
<1> QED
  BY <1>1, <1>2, PTL DEF Spec

\* The cells a branch has left are those before the next one.
LEMMA LeftCells ==
  ASSUME Progress, NEW b \in Branches
  PROVE  CellsLeft(b) = 0 .. upcoming[b] - 1
BY DEF CellsLeft, Progress, PhaseFits

\* With one branch, when the branch leaves a cell, the mesh holds every vertex
\* of the cell, whatever the diagram and however many workers explore it.
THEOREM VertexCompleteness ==
  ASSUME MeshThreads = 1
  PROVE  Spec => []EveryVertexIsFound
<1>1. Inv /\ Progress /\ QueueIsServed /\ LeftCellsAreComplete => EveryVertexIsFound
  BY LeftCells DEF EveryVertexIsFound, LeftCellsAreComplete
<1> QED
  BY <1>1, LeftCellsHold, PTL

\* ... and every unbounded edge of the cell.
THEOREM UnboundedEdgeCompleteness ==
  ASSUME MeshThreads = 1
  PROVE  Spec => []EveryUnboundedEdgeIsFound
<1>1. Inv /\ Progress /\ QueueIsServed /\ LeftCellsAreComplete => EveryUnboundedEdgeIsFound
  BY LeftCells DEF EveryUnboundedEdgeIsFound, LeftCellsAreComplete
<1> QED
  BY <1>1, LeftCellsHold, PTL
=============================================================================
