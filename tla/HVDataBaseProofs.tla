-------------------------- MODULE HVDataBaseProofs --------------------------
(***************************************************************************)
(* The block store keeps its promises for every number of threads, every   *)
(* block length and every record: reserved ranges lie in sized blocks,     *)
(* reads return whole records, and the store implements SignatureStore.    *)
(***************************************************************************)
EXTENDS HVDataBase, SequenceTheorems, FiniteSetTheorems, TLAPS

-----------------------------------------------------------------------------
(* Positions, blocks and offsets.                                          *)

LEMMA Constants ==
  /\ BlockLength \in Nat \ {0} /\ PointUnits \in Nat \ {0} /\ MaxUnits \in Nat
  /\ SigmaUnits \in [Keys -> Nat \ {0}]
BY StoreAssumption

LEMMA Division ==
  ASSUME NEW n \in Nat, NEW d \in Nat \ {0}
  PROVE  n \div d \in Nat /\ n % d \in 0 .. d - 1 /\ n = d * (n \div d) + (n % d)
OBVIOUS

\* Multiples of a block are a block apart.
LEMMA Multiples ==
  ASSUME NEW d \in Nat \ {0}, NEW a \in Nat, NEW b \in Nat, a < b
  PROVE  d * a \in Nat /\ d * b \in Nat /\ d * a + d <= d * b
<1>1. PICK c \in Nat : b = a + 1 + c
  <2>1. b - a - 1 \in Nat /\ b = a + 1 + (b - a - 1) OBVIOUS
  <2> QED BY <2>1
<1>2. d * b = d * a + d + d * c BY <1>1
<1>3. d * c \in Nat /\ d * a \in Nat /\ d * b \in Nat BY <1>1
<1> HIDE <1>1
<1> QED BY <1>2, <1>3

LEMMA DivisionIsUnique ==
  ASSUME NEW d \in Nat \ {0}, NEW a \in Nat, NEW b \in Nat,
         NEW r \in 0 .. d - 1, NEW s \in 0 .. d - 1, d * a + r = d * b + s
  PROVE  a = b /\ r = s
<1>0. d * a \in Nat /\ d * b \in Nat OBVIOUS
<1>1. ~(a < b)
  <2> SUFFICES ASSUME a < b PROVE FALSE OBVIOUS
  <2>1. d * a + d <= d * b BY Multiples
  <2> QED BY <1>0, <2>1
<1>2. ~(b < a)
  <2> SUFFICES ASSUME b < a PROVE FALSE OBVIOUS
  <2>1. d * b + d <= d * a BY Multiples
  <2> QED BY <1>0, <2>1
<1>3. a = b BY <1>1, <1>2
<1> QED BY <1>0, <1>3

LEMMA Positions ==
  ASSUME NEW p \in Nat
  PROVE  /\ BlockOf(p) \in Nat \ {0} /\ OffsetOf(p) \in 1 .. BlockLength
         /\ p = BlockLength * (BlockOf(p) - 1) + (OffsetOf(p) - 1)
<1>1. /\ p \div BlockLength \in Nat /\ p % BlockLength \in 0 .. BlockLength - 1
      /\ p = BlockLength * (p \div BlockLength) + (p % BlockLength)
  BY Division, Constants
<1> DEFINE a == p \div BlockLength
           r == p % BlockLength
<1>2. BlockOf(p) = a + 1 /\ OffsetOf(p) = r + 1 BY DEF BlockOf, OffsetOf
<1>3. a \in Nat /\ r \in 0 .. BlockLength - 1 /\ p = BlockLength * a + r BY <1>1
<1> HIDE DEF a, r
<1>4. (a + 1) - 1 = a /\ (r + 1) - 1 = r BY <1>3, Constants
<1>5. a + 1 \in Nat \ {0} /\ r + 1 \in 1 .. BlockLength BY <1>3, Constants
<1> QED BY <1>2, <1>3, <1>4, <1>5

\* Two positions are two places.
LEMMA PositionsDiffer ==
  ASSUME NEW p \in Nat, NEW q \in Nat, BlockOf(p) = BlockOf(q), OffsetOf(p) = OffsetOf(q)
  PROVE  p = q
BY Positions

\* A position below the end of a block is in that block or an earlier one.
LEMMA BlockBelow ==
  ASSUME NEW p \in Nat, NEW c \in Nat, p < c * BlockLength
  PROVE  BlockOf(p) \in 1 .. c
<1>1. /\ BlockOf(p) \in Nat \ {0} /\ OffsetOf(p) \in 1 .. BlockLength
      /\ p = BlockLength * (BlockOf(p) - 1) + (OffsetOf(p) - 1)
  BY Positions
<1> DEFINE b == BlockOf(p) - 1
<1>2. b \in Nat /\ BlockOf(p) = b + 1 BY <1>1
<1>3. BlockLength * b \in Nat /\ p >= BlockLength * b
  <2>1. BlockLength * b \in Nat BY <1>2, Constants
  <2>2. p = BlockLength * b + (OffsetOf(p) - 1) BY <1>1
  <2> HIDE DEF b
  <2> QED BY <1>1, <2>1, <2>2, Constants
<1> HIDE DEF b
<1>4. c * BlockLength = BlockLength * c BY Constants
<1>5. b < c
  <2> SUFFICES ASSUME c <= b PROVE FALSE BY <1>2
  <2>1. c = b => p >= c * BlockLength BY <1>3, <1>4
  <2>2. c < b => BlockLength * c + BlockLength <= BlockLength * b
    BY <1>2, Multiples, Constants
  <2>3. BlockLength * c \in Nat BY Constants
  <2> QED BY <1>2, <1>3, <1>4, <2>1, <2>2, <2>3, Constants
<1> QED BY <1>2, <1>5

\* The positions of a chunk follow one another in one block.
LEMMA InOneBlock ==
  ASSUME NEW p \in Nat, NEW i \in Nat, OffsetOf(p) + i <= BlockLength
  PROVE  BlockOf(p + i) = BlockOf(p) /\ OffsetOf(p + i) = OffsetOf(p) + i
<1>1. /\ BlockOf(p) \in Nat \ {0} /\ OffsetOf(p) \in 1 .. BlockLength
      /\ p = BlockLength * (BlockOf(p) - 1) + (OffsetOf(p) - 1)
  BY Positions
<1>2. /\ BlockOf(p + i) \in Nat \ {0} /\ OffsetOf(p + i) \in 1 .. BlockLength
      /\ p + i = BlockLength * (BlockOf(p + i) - 1) + (OffsetOf(p + i) - 1)
  BY Positions
<1> DEFINE a == BlockOf(p) - 1
           b == BlockOf(p + i) - 1
           r == OffsetOf(p) + i - 1
           s == OffsetOf(p + i) - 1
<1>3. a \in Nat /\ b \in Nat /\ r \in 0 .. BlockLength - 1 /\ s \in 0 .. BlockLength - 1
  BY <1>1, <1>2, Constants
<1>4. BlockLength * a + r = BlockLength * b + s
  <2>1. BlockLength * a \in Nat /\ BlockLength * b \in Nat BY <1>3, Constants
  <2>2. p + i = BlockLength * b + s BY <1>2
  <2>3. p = BlockLength * a + (OffsetOf(p) - 1) BY <1>1
  <2> HIDE DEF a, b, s
  <2> QED BY <1>1, <1>3, <2>1, <2>2, <2>3, Constants
<1>5. a = b /\ r = s
  <2> HIDE DEF a, b, r, s
  <2> QED BY <1>3, <1>4, DivisionIsUnique, Constants
<1> QED BY <1>1, <1>2, <1>5, Constants

LEMMA Chunks ==
  ASSUME NEW p \in Nat, NEW m \in Nat \ {0}
  PROVE  /\ ChunkUnits(p, m) \in 1 .. m
         /\ OffsetOf(p) + ChunkUnits(p, m) - 1 <= BlockLength
<1>1. p % BlockLength \in 0 .. BlockLength - 1 BY Division, Constants
<1> DEFINE r == p % BlockLength
<1>2. OffsetOf(p) = r + 1 /\ r \in 0 .. BlockLength - 1 BY <1>1 DEF OffsetOf
<1>3. ChunkUnits(p, m) = IF m < BlockLength - r THEN m ELSE BlockLength - r
  BY DEF ChunkUnits
<1> HIDE DEF r
<1> QED BY <1>2, <1>3, Constants

\* The blocks of a growth hold the units it is for, and are more than before.
LEMMA BlocksSuffice ==
  ASSUME NEW u \in Nat
  PROVE  /\ Blocks(u) \in Nat
         /\ u <= Blocks(u) * BlockLength
         /\ \A c \in Nat : c * BlockLength < u => c < Blocks(u)
<1> DEFINE n == u + BlockLength - 1
           a == n \div BlockLength
           r == n % BlockLength
<1>1. n \in Nat BY Constants
<1>2. a \in Nat /\ r \in 0 .. BlockLength - 1 /\ n = BlockLength * a + r
  <2> HIDE DEF n
  <2> QED BY <1>1, Division, Constants
<1>3. Blocks(u) = a BY DEF Blocks
<1> HIDE DEF a, r
<1>4. a * BlockLength = BlockLength * a /\ BlockLength * a \in Nat BY <1>2, Constants
<1>5. u <= a * BlockLength BY <1>2, <1>4, Constants
<1>6. ASSUME NEW c \in Nat, c * BlockLength < u PROVE c < a
  <2> SUFFICES ASSUME a <= c PROVE FALSE BY <1>2
  <2>1. c * BlockLength = BlockLength * c /\ BlockLength * c \in Nat BY Constants
  <2>2. a < c => BlockLength * a + BlockLength <= BlockLength * c
    BY <1>2, Multiples, Constants
  <2>3. BlockLength * a <= BlockLength * c BY <1>2, <1>4, <2>1, <2>2, Constants
  <2> QED BY <1>4, <1>5, <1>6, <2>1, <2>3
<1> QED BY <1>2, <1>3, <1>5, <1>6

LEMMA RecordLength ==
  ASSUME NEW k \in Keys
  PROVE  RecordUnits(k) \in Nat \ {0, 1}
<1>1. SigmaUnits[k] \in Nat \ {0} BY Constants
<1>2. PointUnits * 1 = PointUnits /\ PointUnits * 2 = PointUnits + PointUnits BY Constants
<1>3. PointUnits * (IF k \in FacetKeys THEN 2 ELSE 1) \in Nat BY <1>2, Constants
<1> QED BY <1>1, <1>3 DEF RecordUnits

-----------------------------------------------------------------------------
(* The inductive invariant.                                                *)

\* The growth that block_allocation refutes is the one a failed one leaves behind.
BlocksAreSized == "block" \notin FailingAllocations

InLine  == {"waitToRead", "waitToWrite", "waitToGrow", "recheck", "grow"}
Growing == {"recheck", "grow"}
\* Where a push has its range, and where it has room for it.
Reserved == {"ensure", "askToGrow", "waitToGrow", "recheck", "grow",
             "askToWrite", "waitToWrite", "write"}
Fitted   == {"askToWrite", "waitToWrite", "write"}
Pushing  == {"reserve"} \cup Reserved
Reading  == {"waitToRead", "read", "answer"}
Places   == {"idle"} \cup Pushing \cup Reading

Units == {Zero} \cup (Keys \X (Nat \ {0}))
Block == {EmptyBlock} \cup [1 .. BlockLength -> Units]
Copies == [key : Keys \cup {Zero}, begin : Nat, done : Nat, got : Seq(Units)]

TypesInv ==
  /\ keys \subseteq Keys
  /\ capacity \in Nat /\ top \in Nat
  /\ data \in Seq(Block)
  /\ DOMAIN written \subseteq Nat \ {0} /\ written \in [DOMAIN written -> Keys]
  /\ at \in [Callers -> Places]
  /\ copy \in [Callers -> Copies]
  /\ \A t \in Callers : at[t] = "idle" => copy[t] = NoCopy
  /\ \A t \in Callers : at[t] \in Pushing => copy[t].key \in keys

\* The line holds everybody who waits, and a grower at its head.
LineInv ==
  /\ line \in Seq(Callers)
  /\ \A i, j \in 1 .. Len(line) : line[i] = line[j] => i = j
  /\ \A t \in Callers : at[t] \in InLine <=> \E i \in 1 .. Len(line) : line[i] = t
  /\ \A t \in Callers : at[t] \in Growing => NextInLine(t) /\ Inside = {}

\* Only the blocks a grower has still to size are empty, and none of them counts
\* as capacity.
GrowthInv ==
  /\ \A t \in Callers : at[t] = "grow" =>
       /\ Len(data) = Blocks(End(t)) /\ copy[t].done <= Len(data)
       /\ capacity <= copy[t].done * BlockLength
       /\ \A i \in 1 .. copy[t].done : data[i] # EmptyBlock
  /\ (\A t \in Callers : at[t] # "grow") =>
       /\ capacity = Len(data) * BlockLength
       /\ \A i \in 1 .. Len(data) : data[i] # EmptyBlock

Apart(p, m, q, n) == p + m <= q \/ q + n <= p

\* No two ranges overlap, be they reserved or written.
RangesInv ==
  /\ \A t \in Callers : at[t] \in Reserved => End(t) <= top
  /\ \A t \in Callers : at[t] \in Fitted => End(t) <= capacity
  /\ \A t, u \in Callers : t # u /\ at[t] \in Reserved /\ at[u] \in Reserved =>
       Apart(copy[t].begin, RecordUnits(copy[t].key), copy[u].begin, RecordUnits(copy[u].key))
  /\ \A t \in Callers : at[t] \in Reserved => \A a \in DOMAIN written :
       Apart(copy[t].begin, RecordUnits(copy[t].key), a - 1, RecordUnits(written[a]))
  /\ \A a, b \in DOMAIN written : a # b =>
       Apart(a - 1, RecordUnits(written[a]), b - 1, RecordUnits(written[b]))
  /\ \A a \in DOMAIN written : /\ a - 1 + RecordUnits(written[a]) <= capacity
                               /\ a - 1 + RecordUnits(written[a]) <= top

\* A written record is whole, but for its length when it was erased.
RecordsInv ==
  \A a \in DOMAIN written :
    /\ Unit(a - 1) \in {Zero, <<written[a], 1>>}
    /\ \A i \in 2 .. RecordUnits(written[a]) : Unit(a + i - 2) = <<written[a], i>>

\* What a push has copied stands in its range.
CopyInv(t) ==
  /\ at[t] \in Pushing \ {"grow", "write"} => copy[t].done = 0
  /\ at[t] = "write" =>
       /\ copy[t].done < RecordUnits(copy[t].key)
       /\ \A i \in 1 .. copy[t].done : Unit(copy[t].begin + i - 1) = <<copy[t].key, i>>
CopiesInv == \A t \in Callers : CopyInv(t)

\* What a read has got is a prefix of the record it was called for.
ReadInv(t) ==
  at[t] \in Reading =>
    LET k == written[copy[t].begin + 1]
        got == copy[t].got
    IN
    /\ copy[t].begin + 1 \in DOMAIN written
    /\ at[t] = "waitToRead" => got = <<>>
    /\ at[t] = "read" /\ got # <<>> =>
         /\ Unit(copy[t].begin) # Zero
         /\ copy[t].key = k /\ Len(got) < RecordUnits(k)
         /\ \A i \in 1 .. Len(got) : got[i] = <<k, i>>
    /\ at[t] = "answer" =>
         IF Unit(copy[t].begin) = Zero THEN got = <<Zero>>
         ELSE got = [i \in 1 .. RecordUnits(k) |-> <<k, i>>]
ReadsInv == \A t \in Callers : ReadInv(t)

\* A signature belongs to one push or one live record at most.
KeysInv ==
  /\ \A a \in LiveRecords : written[a] \in keys
  /\ \A a, b \in LiveRecords : written[a] = written[b] => a = b
  /\ \A t \in Callers : at[t] \in Pushing => \A a \in LiveRecords : written[a] # copy[t].key
  /\ \A t, u \in Callers : t # u /\ at[t] \in Pushing /\ at[u] \in Pushing =>
       copy[t].key # copy[u].key

\* A push that has not reserved yet was admitted while its record fitted.
Unreserved == {t \in Callers : at[t] = "reserve"}
BoundInv ==
  /\ \A t \in Unreserved : RecordUnits(copy[t].key) <= MaxUnits
  /\ top <= MaxUnits * (1 + (Cardinality(Callers) - Cardinality(Unreserved)))

BlockInv ==
  /\ TypesInv /\ LineInv /\ GrowthInv /\ RangesInv /\ RecordsInv /\ CopiesInv
  /\ ReadsInv /\ KeysInv /\ BoundInv

-----------------------------------------------------------------------------
(* The line of the lock.                                                   *)

\* A step of one thread leaves what the others do alone.
Others(t) == \A u \in Callers \ {t} : at'[u] = at[u] /\ copy'[u] = copy[u]

LEMMA GotoMoves ==
  ASSUME at \in [Callers -> Places], NEW t \in Callers, NEW from, NEW to, Goto(t, from, to)
  PROVE  at[t] = from /\ at'[t] = to /\ \A u \in Callers \ {t} : at'[u] = at[u]
BY DEF Goto

LEMMA JoinsLine ==
  ASSUME LineInv, NEW t \in Callers, Others(t), line' = Append(line, t),
         at[t] \notin InLine, at'[t] \in InLine \ Growing
  PROVE  LineInv'
<1> DEFINE n == Len(line)
<1>1. line \in Seq(Callers) /\ n \in Nat BY DEF LineInv
<1>2. /\ line' \in Seq(Callers) /\ Len(line') = n + 1 /\ line'[n + 1] = t
      /\ \A i \in 1 .. n : line'[i] = line[i]
  BY <1>1, AppendProperties
<1>3. \A i \in 1 .. n : line[i] # t
  BY DEF LineInv
<1>4. ASSUME NEW i \in 1 .. Len(line'), NEW j \in 1 .. Len(line'), line'[i] = line'[j]
      PROVE  i = j
  <2>1. CASE i \in 1 .. n /\ j \in 1 .. n
    BY <1>2, <1>4, <2>1 DEF LineInv
  <2>2. CASE i = n + 1 /\ j = n + 1
    BY <2>2
  <2>3. (i \in 1 .. n \/ i = n + 1) /\ (j \in 1 .. n \/ j = n + 1)
    BY <1>1, <1>2
  <2> QED BY <1>2, <1>3, <1>4, <2>1, <2>2, <2>3
<1>5. ASSUME NEW u \in Callers
      PROVE  at'[u] \in InLine <=> \E i \in 1 .. Len(line') : line'[i] = u
  <2>1. CASE u = t
    <3>1. n + 1 \in 1 .. Len(line') BY <1>1, <1>2
    <3> QED BY <1>2, <2>1, <3>1
  <2>2. CASE u # t
    <3>1. at'[u] = at[u] BY <2>2 DEF Others
    <3>2. \A i \in 1 .. Len(line') : i \in 1 .. n \/ i = n + 1 BY <1>1, <1>2
    <3>3. \A i \in 1 .. n : i \in 1 .. Len(line') BY <1>1, <1>2
    <3>4. (\E i \in 1 .. Len(line') : line'[i] = u) <=> (\E i \in 1 .. n : line[i] = u)
      BY <1>2, <2>2, <3>2, <3>3
    <3> QED BY <3>1, <3>4 DEF LineInv
  <2> QED BY <2>1, <2>2
<1>6. ASSUME NEW u \in Callers, at'[u] \in Growing
      PROVE  NextInLine(u)' /\ Inside' = {}
  <2>1. u # t /\ at'[u] = at[u] BY <1>6 DEF Others
  <2>2. line # <<>> /\ Head(line) = u /\ Inside = {}
    BY <1>6, <2>1 DEF LineInv, NextInLine
  <2>3. n > 0 /\ line[1] = u BY <1>1, <2>2, EmptySeq
  <2>4. line' # <<>> /\ line'[1] = u BY <1>1, <1>2, <2>3, EmptySeq
  <2>5. Head(line') = u BY <1>2, <2>4
  <2>6. Inside' = {} BY <2>2 DEF Inside, Others, InLine, Growing
  <2> QED BY <2>4, <2>5, <2>6 DEF NextInLine
<1> QED BY <1>2, <1>4, <1>5, <1>6 DEF LineInv

LEMMA LeavesLine ==
  ASSUME LineInv, NEW t \in Callers, Others(t), LeaveLine, NextInLine(t),
         at'[t] \notin InLine
  PROVE  LineInv' /\ \A u \in Callers : at'[u] \notin Growing
<1> DEFINE n == Len(line)
<1>1. line \in Seq(Callers) /\ n \in Nat \ {0} /\ line[1] = t
  <2>1. line \in Seq(Callers) /\ line # <<>> /\ Head(line) = t
    BY DEF LineInv, NextInLine
  <2> QED BY <2>1, EmptySeq
<1>2. /\ line' \in Seq(Callers) /\ Len(line') = n - 1
      /\ \A i \in 1 .. n - 1 : line'[i] = line[i + 1]
  BY <1>1 DEF LeaveLine
<1>3. \A i, j \in 1 .. Len(line') : line'[i] = line'[j] => i = j
  <2> SUFFICES ASSUME NEW i \in 1 .. Len(line'), NEW j \in 1 .. Len(line'), line'[i] = line'[j]
               PROVE  i = j
    OBVIOUS
  <2>1. i + 1 \in 1 .. n /\ j + 1 \in 1 .. n BY <1>1, <1>2
  <2>2. line[i + 1] = line[j + 1] BY <1>2
  <2>3. i + 1 = j + 1 BY <2>1, <2>2 DEF LineInv
  <2> QED BY <2>3
<1>4. ASSUME NEW u \in Callers
      PROVE  at'[u] \in InLine <=> \E i \in 1 .. Len(line') : line'[i] = u
  <2>1. CASE u = t
    <3>1. ASSUME NEW i \in 1 .. Len(line') PROVE line'[i] # t
      <4>1. i + 1 \in 1 .. n /\ 1 \in 1 .. n /\ i + 1 # 1 BY <1>1, <1>2
      <4>2. line[i + 1] # line[1] BY <4>1 DEF LineInv
      <4> QED BY <1>1, <1>2, <4>2
    <3> QED BY <2>1, <3>1
  <2>2. CASE u # t
    <3>1. at'[u] = at[u] BY <2>2 DEF Others
    <3>2. ASSUME NEW i \in 1 .. n, line[i] = u
          PROVE  i - 1 \in 1 .. Len(line') /\ line'[i - 1] = u
      <4>1. i # 1 BY <1>1, <2>2, <3>2
      <4>2. i - 1 \in 1 .. n - 1 /\ (i - 1) + 1 = i BY <1>1, <4>1
      <4> QED BY <1>2, <3>2, <4>2
    <3>3. ASSUME NEW i \in 1 .. Len(line'), line'[i] = u
          PROVE  i + 1 \in 1 .. n /\ line[i + 1] = u
      BY <1>1, <1>2, <3>3
    <3> QED BY <3>1, <3>2, <3>3 DEF LineInv
  <2> QED BY <2>1, <2>2
<1>5. ASSUME NEW u \in Callers PROVE at'[u] \notin Growing
  <2>1. CASE u = t BY <2>1 DEF Growing, InLine
  <2>2. CASE u # t
    <3>1. at'[u] = at[u] BY <2>2 DEF Others
    <3>2. at[u] \in Growing => Head(line) = u BY DEF LineInv, NextInLine
    <3> QED BY <2>2, <3>1, <3>2 DEF NextInLine
  <2> QED BY <2>1, <2>2
<1> QED BY <1>2, <1>3, <1>4, <1>5 DEF LineInv

LEMMA KeepsPlaceInLine ==
  ASSUME LineInv, NEW t \in Callers, Others(t), line' = line,
         at[t] \in InLine <=> at'[t] \in InLine,
         at'[t] \in Growing => NextInLine(t) /\ Inside = {},
         at'[t] \in {"read", "write"} => at[t] \in {"read", "write"}
  PROVE  LineInv'
<1>1. \A u \in Callers : at'[u] \in InLine <=> at[u] \in InLine
  BY DEF Others
<1>2. Inside = {} => Inside' = {}
  BY DEF Inside, Others
<1>3. ASSUME NEW u \in Callers, at'[u] \in Growing PROVE NextInLine(u) /\ Inside = {}
  <2>1. CASE u = t BY <1>3, <2>1
  <2>2. CASE u # t BY <1>3, <2>2 DEF Others, LineInv
  <2> QED BY <2>1, <2>2
<1> QED BY <1>1, <1>2, <1>3 DEF LineInv, NextInLine

-----------------------------------------------------------------------------
(* What the parts of the invariant say together.                           *)

LEMMA CallTypes ==
  ASSUME TypesInv, NEW t \in Callers
  PROVE  /\ copy[t].key \in Keys \cup {Zero} /\ copy[t].begin \in Nat /\ copy[t].done \in Nat
         /\ copy[t].got \in Seq(Units)
         /\ at[t] \in Pushing => /\ copy[t].key \in Keys
                                 /\ RecordUnits(copy[t].key) \in Nat \ {0, 1}
                                 /\ End(t) \in Nat
                                 /\ End(t) = copy[t].begin + RecordUnits(copy[t].key)
<1>1. copy[t] \in Copies BY DEF TypesInv
<1>2. at[t] \in Pushing => copy[t].key \in Keys BY DEF TypesInv
<1> QED BY <1>1, <1>2, RecordLength DEF Copies, End

LEMMA WrittenTypes ==
  ASSUME TypesInv, NEW a \in DOMAIN written
  PROVE  /\ a \in Nat \ {0} /\ a - 1 \in Nat /\ written[a] \in Keys
         /\ RecordUnits(written[a]) \in Nat \ {0, 1}
<1>1. a \in Nat \ {0} /\ written[a] \in Keys BY DEF TypesInv
<1> QED BY <1>1, RecordLength

LEMMA SizedBlock ==
  ASSUME TypesInv, NEW i \in 1 .. Len(data), data[i] # EmptyBlock
  PROVE  data[i] \in [1 .. BlockLength -> Units]
BY DEF TypesInv, Block

\* Every unit below the capacity exists.
LEMMA CapacityIsSized ==
  ASSUME TypesInv, GrowthInv, NEW q \in Nat, q < capacity
  PROVE  /\ BlockOf(q) \in 1 .. Len(data) /\ data[BlockOf(q)] # EmptyBlock
         /\ data[BlockOf(q)] \in [1 .. BlockLength -> Units]
         /\ Unit(q) \in Units
<1>0. Len(data) \in Nat /\ capacity \in Nat BY DEF TypesInv
<1>1. BlockOf(q) \in 1 .. Len(data) /\ data[BlockOf(q)] # EmptyBlock
  <2>1. CASE \E t \in Callers : at[t] = "grow"
    <3>1. PICK t \in Callers : at[t] = "grow" BY <2>1
    <3>2. /\ copy[t].done <= Len(data) /\ capacity <= copy[t].done * BlockLength
          /\ \A i \in 1 .. copy[t].done : data[i] # EmptyBlock
      BY <3>1 DEF GrowthInv
    <3>3. copy[t].done \in Nat BY CallTypes
    <3>4. copy[t].done * BlockLength \in Nat BY <3>3, Constants
    <3>5. q < copy[t].done * BlockLength BY <1>0, <3>2, <3>4
    <3>6. BlockOf(q) \in 1 .. copy[t].done BY <3>3, <3>5, BlockBelow
    <3> QED BY <1>0, <3>2, <3>3, <3>6
  <2>2. CASE ~ \E t \in Callers : at[t] = "grow"
    <3>1. /\ capacity = Len(data) * BlockLength
          /\ \A i \in 1 .. Len(data) : data[i] # EmptyBlock
      BY <2>2 DEF GrowthInv
    <3>2. BlockOf(q) \in 1 .. Len(data) BY <1>0, <3>1, BlockBelow
    <3> QED BY <3>1, <3>2
  <2> QED BY <2>1, <2>2
<1>2. data[BlockOf(q)] \in [1 .. BlockLength -> Units] BY <1>1, SizedBlock
<1>3. OffsetOf(q) \in 1 .. BlockLength BY Positions
<1> QED BY <1>1, <1>2, <1>3 DEF Unit

\* What will stand where a unit is now.
UnitNext(p) == data'[BlockOf(p)][OffsetOf(p)]

\* The units below the capacity stay what they are.
SameUnits == \A q \in Nat : q < capacity => UnitNext(q) = Unit(q)

LEMMA RecordUnitsBelow ==
  ASSUME TypesInv, RangesInv, NEW a \in DOMAIN written,
         NEW i \in 1 .. RecordUnits(written[a])
  PROVE  a + i - 2 \in Nat /\ a + i - 2 < capacity
<1>1. a - 1 + RecordUnits(written[a]) <= capacity BY DEF RangesInv
<1>2. capacity \in Nat BY DEF TypesInv
<1> QED BY <1>1, <1>2, WrittenTypes

LEMMA FirstUnitBelow ==
  ASSUME TypesInv, RangesInv, NEW a \in DOMAIN written
  PROVE  a - 1 \in Nat /\ a - 1 < capacity
<1>1. a - 1 + RecordUnits(written[a]) <= capacity BY DEF RangesInv
<1>2. capacity \in Nat BY DEF TypesInv
<1> QED BY <1>1, <1>2, WrittenTypes

LEMMA CopyUnitsBelow ==
  ASSUME TypesInv, RangesInv, NEW t \in Callers, at[t] = "write",
         NEW i \in 1 .. RecordUnits(copy[t].key)
  PROVE  copy[t].begin + i - 1 \in Nat /\ copy[t].begin + i - 1 < capacity
<1>1. End(t) <= capacity BY DEF RangesInv, Fitted
<1>2. capacity \in Nat BY DEF TypesInv
<1>3. at[t] \in Pushing BY DEF Pushing, Reserved
<1> QED BY <1>1, <1>2, <1>3, CallTypes

-----------------------------------------------------------------------------
(* What a step that is not about a part leaves of it.                      *)

\* The units of the records, and of the pushes of all threads but one.
SameRecords ==
  \A a \in DOMAIN written : \A i \in 1 .. RecordUnits(written[a]) :
    UnitNext(a + i - 2) = Unit(a + i - 2)
SameCopies(t) ==
  \A u \in Callers \ {t} : at[u] = "write" =>
    \A i \in 1 .. RecordUnits(copy[u].key) :
      UnitNext(copy[u].begin + i - 1) = Unit(copy[u].begin + i - 1)

LEMMA SameBelowCapacity ==
  ASSUME TypesInv, RangesInv, SameUnits
  PROVE  SameRecords /\ \A t \in Callers : SameCopies(t)
<1>1. SameRecords BY RecordUnitsBelow DEF SameUnits, SameRecords
<1>2. ASSUME NEW t \in Callers, NEW u \in Callers \ {t}, at[u] = "write",
             NEW i \in 1 .. RecordUnits(copy[u].key)
      PROVE  UnitNext(copy[u].begin + i - 1) = Unit(copy[u].begin + i - 1)
  BY <1>2, CopyUnitsBelow DEF SameUnits
<1> QED BY <1>1, <1>2 DEF SameCopies

LEMMA FirstUnitKept ==
  ASSUME TypesInv, SameRecords, NEW a \in DOMAIN written
  PROVE  UnitNext(a - 1) = Unit(a - 1)
<1>1. 1 \in 1 .. RecordUnits(written[a]) /\ a + 1 - 2 = a - 1 BY WrittenTypes
<1>2. UnitNext(a + 1 - 2) = Unit(a + 1 - 2) BY <1>1 DEF SameRecords
<1> QED BY <1>1, <1>2

LEMMA RecordsKept ==
  ASSUME TypesInv, RecordsInv, SameRecords, written' = written
  PROVE  RecordsInv'
<1> SUFFICES ASSUME NEW a \in DOMAIN written
             PROVE  /\ Unit(a - 1)' \in {Zero, <<written[a], 1>>}
                    /\ \A i \in 2 .. RecordUnits(written[a]) :
                         Unit(a + i - 2)' = <<written[a], i>>
  BY DEF RecordsInv
<1>1. Unit(a - 1)' = Unit(a - 1) BY FirstUnitKept DEF Unit, UnitNext
<1>2. \A i \in 2 .. RecordUnits(written[a]) : Unit(a + i - 2)' = Unit(a + i - 2)
  <2> SUFFICES ASSUME NEW i \in 2 .. RecordUnits(written[a])
               PROVE  Unit(a + i - 2)' = Unit(a + i - 2)
    OBVIOUS
  <2>1. i \in 1 .. RecordUnits(written[a]) BY WrittenTypes
  <2> QED BY <2>1 DEF SameRecords, Unit, UnitNext
<1> QED BY <1>1, <1>2 DEF RecordsInv

LEMMA LiveRecordsKept ==
  ASSUME TypesInv, SameRecords, written' = written
  PROVE  LiveRecords' = LiveRecords
<1>1. \A a \in DOMAIN written : Unit(a - 1)' = Unit(a - 1) BY FirstUnitKept DEF Unit, UnitNext
<1> QED BY <1>1 DEF LiveRecords

LEMMA CopiesKept ==
  ASSUME TypesInv, CopiesInv, NEW t \in Callers, SameCopies(t), Others(t), CopyInv(t)'
  PROVE  CopiesInv'
<1> SUFFICES ASSUME NEW u \in Callers, u # t PROVE CopyInv(u)'
  BY DEF CopiesInv
<1>1. at'[u] = at[u] /\ copy'[u] = copy[u] BY DEF Others
<1>2. CopyInv(u) BY DEF CopiesInv
<1>3. ASSUME at[u] = "write", NEW i \in 1 .. copy[u].done
      PROVE  Unit(copy[u].begin + i - 1)' = Unit(copy[u].begin + i - 1)
  <2>1. at[u] \in Pushing BY <1>3 DEF Pushing, Reserved
  <2>2. i \in 1 .. RecordUnits(copy[u].key) BY <1>2, <1>3, <2>1, CallTypes DEF CopyInv
  <2> QED BY <1>1, <1>3, <2>2 DEF SameCopies, Unit, UnitNext
<1>4. at[u] = "write" =>
        \A i \in 1 .. copy[u].done : Unit(copy[u].begin + i - 1)' = <<copy[u].key, i>>
  BY <1>2, <1>3 DEF CopyInv
<1> QED BY <1>1, <1>2, <1>4 DEF CopyInv

LEMMA ReadsKept ==
  ASSUME TypesInv, ReadsInv, SameRecords,
         \A a \in DOMAIN written : a \in DOMAIN written' /\ written'[a] = written[a],
         NEW t \in Callers, Others(t), ReadInv(t)'
  PROVE  ReadsInv'
<1> SUFFICES ASSUME NEW u \in Callers, u # t PROVE ReadInv(u)'
  BY DEF ReadsInv
<1>1. at'[u] = at[u] /\ copy'[u] = copy[u] BY DEF Others
<1>2. ReadInv(u) BY DEF ReadsInv
<1>3. at[u] \in Reading => Unit(copy[u].begin)' = Unit(copy[u].begin)
  <2> SUFFICES ASSUME at[u] \in Reading PROVE Unit(copy[u].begin)' = Unit(copy[u].begin)
    OBVIOUS
  <2>1. copy[u].begin + 1 \in DOMAIN written BY <1>2 DEF ReadInv
  <2>2. copy[u].begin \in Nat BY CallTypes
  <2>3. (copy[u].begin + 1) - 1 = copy[u].begin BY <2>2
  <2>4. UnitNext((copy[u].begin + 1) - 1) = Unit((copy[u].begin + 1) - 1)
    BY <2>1, FirstUnitKept
  <2> QED BY <1>1, <2>3, <2>4 DEF Unit, UnitNext
<1> QED BY <1>1, <1>2, <1>3 DEF ReadInv

LEMMA GrowthKept ==
  ASSUME GrowthInv, NEW t \in Callers, Others(t), capacity' = capacity,
         Len(data') = Len(data),
         \A i \in 1 .. Len(data) : data'[i] # EmptyBlock <=> data[i] # EmptyBlock,
         TypesInv, at[t] # "grow", at'[t] # "grow"
  PROVE  GrowthInv'
<1>1. \A u \in Callers : at'[u] = "grow" => u # t /\ at[u] = "grow" /\ copy'[u] = copy[u]
  BY DEF Others
<1>2. ASSUME NEW u \in Callers, at'[u] = "grow"
      PROVE  /\ Len(data') = Blocks(End(u))' /\ copy'[u].done <= Len(data')
             /\ capacity' <= copy'[u].done * BlockLength
             /\ \A i \in 1 .. copy'[u].done : data'[i] # EmptyBlock
  <2>1. at[u] = "grow" /\ copy'[u] = copy[u] BY <1>1, <1>2
  <2>2. /\ Len(data) = Blocks(End(u)) /\ copy[u].done <= Len(data)
        /\ capacity <= copy[u].done * BlockLength
        /\ \A i \in 1 .. copy[u].done : data[i] # EmptyBlock
    BY <2>1 DEF GrowthInv
  <2>3. End(u)' = End(u) BY <2>1 DEF End
  <2>4. Blocks(End(u))' = Blocks(End(u)) BY <2>3 DEF Blocks
  <2>5. copy[u].done \in Nat /\ Len(data) \in Nat BY CallTypes DEF TypesInv
  <2>6. \A i \in 1 .. copy[u].done : i \in 1 .. Len(data) BY <2>2, <2>5
  <2> QED BY <2>1, <2>2, <2>4, <2>6
<1>3. ASSUME \A u \in Callers : at'[u] # "grow"
      PROVE  /\ capacity' = Len(data') * BlockLength
             /\ \A i \in 1 .. Len(data') : data'[i] # EmptyBlock
  <2>1. \A u \in Callers : at[u] # "grow" BY <1>3 DEF Others
  <2> QED BY <2>1 DEF GrowthInv
<1> QED BY <1>2, <1>3 DEF GrowthInv

LEMMA RangesKept ==
  ASSUME TypesInv, RangesInv, NEW t \in Callers, Others(t),
         top' = top, written' = written, capacity' \in Nat, capacity <= capacity',
         at'[t] \in Reserved => /\ at[t] \in Reserved /\ copy'[t].key = copy[t].key
                                /\ copy'[t].begin = copy[t].begin,
         at'[t] \in Fitted => at[t] \in Fitted \/ End(t) <= capacity'
  PROVE  RangesInv'
<1>1. \A u \in Callers : at'[u] \in Reserved =>
        /\ at[u] \in Reserved
        /\ copy'[u].key = copy[u].key /\ copy'[u].begin = copy[u].begin
  BY DEF Others
<1>2. \A u \in Callers : at'[u] \in Reserved => End(u)' = End(u)
  BY <1>1 DEF End
<1>3. \A u \in Callers : at[u] \in Reserved => End(u) \in Nat
  BY CallTypes DEF Pushing
<1>4. capacity \in Nat BY DEF TypesInv
<1>5. ASSUME NEW u \in Callers, at'[u] \in Fitted PROVE End(u)' <= capacity'
  <2>1. at'[u] \in Reserved BY <1>5 DEF Fitted, Reserved
  <2>2. End(u)' = End(u) /\ End(u) \in Nat BY <1>1, <1>2, <1>3, <2>1
  <2>3. at[u] \in Fitted \/ End(u) <= capacity' BY <1>5 DEF Others
  <2>4. at[u] \in Fitted => End(u) <= capacity BY DEF RangesInv
  <2> QED BY <1>4, <2>2, <2>3, <2>4
<1>6. \A u \in Callers : at'[u] \in Reserved => End(u)' <= top'
  BY <1>1, <1>2 DEF RangesInv
<1>7. \A u, v \in Callers : u # v /\ at'[u] \in Reserved /\ at'[v] \in Reserved =>
        Apart(copy'[u].begin, RecordUnits(copy'[u].key), copy'[v].begin, RecordUnits(copy'[v].key))
  BY <1>1 DEF RangesInv
<1>8. \A u \in Callers : at'[u] \in Reserved => \A a \in DOMAIN written :
        Apart(copy'[u].begin, RecordUnits(copy'[u].key), a - 1, RecordUnits(written[a]))
  BY <1>1 DEF RangesInv
<1>9. ASSUME NEW a \in DOMAIN written
      PROVE  /\ a - 1 + RecordUnits(written[a]) <= capacity'
             /\ a - 1 + RecordUnits(written[a]) <= top
  BY <1>4, WrittenTypes DEF RangesInv
<1>10. \A a, b \in DOMAIN written : a # b =>
         Apart(a - 1, RecordUnits(written[a]), b - 1, RecordUnits(written[b]))
  BY DEF RangesInv
<1> QED BY <1>5, <1>6, <1>7, <1>8, <1>9, <1>10 DEF RangesInv

LEMMA KeysKept ==
  ASSUME KeysInv, NEW t \in Callers, Others(t), written' = written,
         LiveRecords' = LiveRecords, keys \subseteq keys',
         at'[t] \in Pushing => at[t] \in Pushing /\ copy'[t].key = copy[t].key
  PROVE  KeysInv'
<1>1. \A u \in Callers : at'[u] \in Pushing => at[u] \in Pushing /\ copy'[u].key = copy[u].key
  BY DEF Others
<1> QED BY <1>1 DEF KeysInv

LEMMA BoundKept ==
  ASSUME BoundInv, NEW t \in Callers, Others(t), top' = top,
         at[t] # "reserve", at'[t] # "reserve"
  PROVE  BoundInv'
<1>1. Unreserved' = Unreserved BY DEF Unreserved, Others
<1>2. \A u \in Unreserved : copy'[u] = copy[u] BY DEF Unreserved, Others
<1> QED BY <1>1, <1>2 DEF BoundInv

\* A step that only moves a thread on, within its call or out of it.
LEMMA ControlKeeps ==
  ASSUME BlockInv, NEW t \in Callers, Others(t), TypesInv', LineInv', ReadInv(t)',
         UNCHANGED <<keys, data, capacity, top, written>>,
         at[t] \notin {"grow", "reserve"}, at'[t] \notin {"grow", "reserve"},
         at'[t] \in Reserved => at[t] \in Reserved \ {"write"} /\ copy'[t] = copy[t],
         at'[t] \in Fitted => at[t] \in Fitted \/ End(t) <= capacity
  PROVE  BlockInv'
<1>2. TypesInv /\ RangesInv /\ RecordsInv /\ CopiesInv /\ ReadsInv BY DEF BlockInv
<1>1. SameRecords /\ SameCopies(t)
  <2>1. SameUnits BY DEF SameUnits, Unit, UnitNext
  <2> QED BY <1>2, <2>1, SameBelowCapacity
<1>3. GrowthInv' BY GrowthKept DEF BlockInv
<1>4. capacity \in Nat BY <1>2 DEF TypesInv
<1>5. RangesInv' BY <1>2, <1>4, RangesKept
<1>6. RecordsInv' BY <1>1, <1>2, RecordsKept
<1>7. CopyInv(t)'
  <2>1. CASE at'[t] \in Reserved
    <3>1. copy'[t].done = 0
      BY <1>2, <2>1 DEF CopiesInv, CopyInv, Pushing
    <3>2. copy'[t].key \in Keys BY <1>2, <2>1, CallTypes DEF Pushing
    <3>3. 0 < RecordUnits(copy'[t].key) BY <3>2, RecordLength
    <3>4. \A i \in 1 .. 0 : FALSE OBVIOUS
    <3> QED BY <3>1, <3>3, <3>4 DEF CopyInv
  <2>2. CASE at'[t] \notin Reserved
    BY <2>2 DEF CopyInv, Pushing, Reserved
  <2> QED BY <2>1, <2>2
<1>8. CopiesInv' BY <1>1, <1>2, <1>7, CopiesKept
<1>9. ReadsInv' BY <1>1, <1>2, ReadsKept
<1>10. LiveRecords' = LiveRecords BY <1>1, <1>2, LiveRecordsKept
<1>11. KeysInv' BY <1>10, KeysKept DEF BlockInv, Pushing
<1>12. BoundInv' BY BoundKept DEF BlockInv
<1> QED BY <1>3, <1>5, <1>6, <1>8, <1>9, <1>11, <1>12 DEF BlockInv

LEMMA TypesKept ==
  ASSUME TypesInv, NEW t \in Callers, Others(t),
         at' \in [Callers -> Places], copy' \in [Callers -> Copies],
         UNCHANGED <<keys, data, capacity, top, written>>,
         at'[t] = "idle" => copy'[t] = NoCopy,
         at'[t] \in Pushing => copy'[t].key \in keys
  PROVE  TypesInv'
<1>1. \A u \in Callers : at'[u] = "idle" => copy'[u] = NoCopy
  BY DEF Others, TypesInv
<1>2. \A u \in Callers : at'[u] \in Pushing => copy'[u].key \in keys
  BY DEF Others, TypesInv
<1> QED BY <1>1, <1>2 DEF TypesInv

LEMMA NoCopyType == NoCopy \in Copies
BY DEF NoCopy, Copies

\* The same when the step leaves the thread's local variables alone.
LEMMA MoveKeepsTypes ==
  ASSUME TypesInv, NEW t \in Callers, NEW from, NEW to \in Places \ {"idle"},
         Goto(t, from, to),
         UNCHANGED <<keys, data, capacity, top, written, copy>>,
         to \in Pushing => from \in Pushing
  PROVE  TypesInv' /\ Others(t) /\ at[t] = from /\ at'[t] = to
<1>1. at' \in [Callers -> Places] /\ copy' \in [Callers -> Copies]
  BY DEF TypesInv, Goto
<1>2. at[t] = from /\ at'[t] = to /\ \A u \in Callers \ {t} : at'[u] = at[u]
  BY GotoMoves DEF TypesInv
<1>3. Others(t) BY <1>2 DEF Others
<1>4. at'[t] \in Pushing => copy'[t].key \in keys BY <1>2 DEF TypesInv
<1> QED BY <1>1, <1>2, <1>3, <1>4, TypesKept

LEMMA CheckCapacityInv ==
  ASSUME BlockInv, NEW t \in Callers, CheckCapacity(t)
  PROVE  BlockInv'
<1> DEFINE to == IF capacity >= End(t) THEN "askToWrite" ELSE "askToGrow"
<1>0. TypesInv /\ LineInv BY DEF BlockInv
<1>1. /\ Goto(t, "ensure", to) /\ line' = line
      /\ UNCHANGED <<keys, data, capacity, top, written, copy>>
  BY DEF CheckCapacity, Goto
<1>2. to \in Places \ {"idle"} BY DEF Places, Pushing, Reserved
<1>3. "ensure" \in Pushing BY DEF Pushing, Reserved
<1>4. TypesInv' /\ Others(t) /\ at[t] = "ensure" /\ at'[t] = to
  <2> HIDE DEF to
  <2> QED BY <1>0, <1>1, <1>2, <1>3, MoveKeepsTypes
<1>5. LineInv' BY <1>0, <1>1, <1>4, KeepsPlaceInLine DEF InLine, Growing
<1>6. ReadInv(t)' BY <1>4 DEF ReadInv, Reading
<1>7. at'[t] \in Fitted => End(t) <= capacity
  <2>1. End(t) \in Nat /\ capacity \in Nat
    BY <1>0, <1>3, <1>4, CallTypes DEF TypesInv
  <2> QED BY <1>4, <2>1 DEF Fitted
<1>8. at[t] \in Reserved \ {"write"} /\ copy'[t] = copy[t] BY <1>1, <1>4 DEF Reserved
<1> QED BY <1>1, <1>4, <1>5, <1>6, <1>7, <1>8, ControlKeeps

LEMMA AskToGrowInv ==
  ASSUME BlockInv, NEW t \in Callers, AskToGrow(t)
  PROVE  BlockInv'
<1>0. TypesInv /\ LineInv BY DEF BlockInv
<1>1. /\ Goto(t, "askToGrow", "waitToGrow") /\ line' = Append(line, t)
      /\ UNCHANGED <<keys, data, capacity, top, written, copy>>
  BY DEF AskToGrow, Ask
<1>4. TypesInv' /\ Others(t) /\ at[t] = "askToGrow" /\ at'[t] = "waitToGrow"
  BY <1>0, <1>1, MoveKeepsTypes DEF Places, Pushing, Reserved
<1>5. LineInv' BY <1>0, <1>1, <1>4, JoinsLine DEF InLine, Growing
<1>6. ReadInv(t)' BY <1>4 DEF ReadInv, Reading
<1> QED BY <1>1, <1>4, <1>5, <1>6, ControlKeeps DEF Fitted, Reserved

LEMMA EnterGrowInv ==
  ASSUME BlockInv, NEW t \in Callers, EnterGrow(t)
  PROVE  BlockInv'
<1>0. TypesInv /\ LineInv BY DEF BlockInv
<1>1. /\ Goto(t, "waitToGrow", "recheck") /\ line' = line /\ NextInLine(t) /\ Inside = {}
      /\ UNCHANGED <<keys, data, capacity, top, written, copy>>
  BY DEF EnterGrow
<1>4. TypesInv' /\ Others(t) /\ at[t] = "waitToGrow" /\ at'[t] = "recheck"
  BY <1>0, <1>1, MoveKeepsTypes DEF Places, Pushing, Reserved
<1>5. LineInv' BY <1>0, <1>1, <1>4, KeepsPlaceInLine DEF InLine, Growing
<1>6. ReadInv(t)' BY <1>4 DEF ReadInv, Reading
<1> QED BY <1>1, <1>4, <1>5, <1>6, ControlKeeps DEF Fitted, Reserved

LEMMA CapacitySufficesInv ==
  ASSUME BlockInv, NEW t \in Callers, CapacitySuffices(t)
  PROVE  BlockInv'
<1>0. TypesInv /\ LineInv BY DEF BlockInv
<1>1. /\ Goto(t, "recheck", "askToWrite") /\ LeaveLine /\ capacity >= End(t)
      /\ UNCHANGED <<keys, data, capacity, top, written, copy>>
  BY DEF CapacitySuffices
<1>4. TypesInv' /\ Others(t) /\ at[t] = "recheck" /\ at'[t] = "askToWrite"
  BY <1>0, <1>1, MoveKeepsTypes DEF Places, Pushing, Reserved
<1>3. NextInLine(t) BY <1>0, <1>4 DEF LineInv, Growing
<1>5. LineInv' BY <1>0, <1>1, <1>3, <1>4, LeavesLine DEF InLine
<1>6. ReadInv(t)' BY <1>4 DEF ReadInv, Reading
<1>7. End(t) <= capacity
  <2>1. End(t) \in Nat /\ capacity \in Nat
    BY <1>0, <1>4, CallTypes DEF TypesInv, Pushing, Reserved
  <2> QED BY <1>1, <2>1
<1> QED BY <1>1, <1>4, <1>5, <1>6, <1>7, ControlKeeps DEF Reserved

LEMMA AskToWriteInv ==
  ASSUME BlockInv, NEW t \in Callers, AskToWrite(t)
  PROVE  BlockInv'
<1>0. TypesInv /\ LineInv BY DEF BlockInv
<1>1. /\ Goto(t, "askToWrite", "waitToWrite") /\ line' = Append(line, t)
      /\ UNCHANGED <<keys, data, capacity, top, written, copy>>
  BY DEF AskToWrite, Ask
<1>4. TypesInv' /\ Others(t) /\ at[t] = "askToWrite" /\ at'[t] = "waitToWrite"
  BY <1>0, <1>1, MoveKeepsTypes DEF Places, Pushing, Reserved
<1>5. LineInv' BY <1>0, <1>1, <1>4, JoinsLine DEF InLine, Growing
<1>6. ReadInv(t)' BY <1>4 DEF ReadInv, Reading
<1> QED BY <1>1, <1>4, <1>5, <1>6, ControlKeeps DEF Fitted, Reserved

LEMMA EnterWriteInv ==
  ASSUME BlockInv, NEW t \in Callers, EnterWrite(t)
  PROVE  BlockInv'
<1>0. TypesInv /\ LineInv BY DEF BlockInv
<1>1. /\ Goto(t, "waitToWrite", "write") /\ NextInLine(t) /\ LeaveLine
      /\ UNCHANGED <<keys, data, capacity, top, written, copy>>
  BY DEF EnterWrite
<1>4. TypesInv' /\ Others(t) /\ at[t] = "waitToWrite" /\ at'[t] = "write"
  BY <1>0, <1>1, MoveKeepsTypes DEF Places, Pushing, Reserved
<1>5. LineInv' BY <1>0, <1>1, <1>4, LeavesLine DEF InLine
<1>6. ReadInv(t)' BY <1>4 DEF ReadInv, Reading
<1> QED BY <1>1, <1>4, <1>5, <1>6, ControlKeeps DEF Fitted, Reserved

LEMMA AllocationFailsInv ==
  ASSUME BlocksAreSized, BlockInv, NEW t \in Callers, AllocationFails(t)
  PROVE  BlockInv'
<1>0. TypesInv /\ LineInv BY DEF BlockInv
<1>1. at[t] = "recheck" BY StoreAssumption DEF BlocksAreSized, AllocationFails, Allocating
<1>2. /\ at' = [at EXCEPT ![t] = "idle"] /\ copy' = [copy EXCEPT ![t] = NoCopy]
      /\ LeaveLine /\ UNCHANGED <<keys, data, capacity, top, written>>
  BY DEF AllocationFails
<1>3. /\ at' \in [Callers -> Places] /\ copy' \in [Callers -> Copies]
      /\ at'[t] = "idle" /\ copy'[t] = NoCopy /\ Others(t)
  BY <1>0, <1>2, NoCopyType DEF TypesInv, Places, Others
<1>4. TypesInv' BY <1>0, <1>2, <1>3, TypesKept DEF Pushing, Reserved
<1>5. NextInLine(t) BY <1>0, <1>1 DEF LineInv, Growing
<1>6. LineInv' BY <1>0, <1>2, <1>3, <1>5, LeavesLine DEF InLine
<1>7. ReadInv(t)' BY <1>3 DEF ReadInv, Reading
<1> QED BY <1>1, <1>2, <1>3, <1>4, <1>6, <1>7, ControlKeeps DEF Fitted, Reserved

-----------------------------------------------------------------------------
(* Reads.                                                                  *)

LEMMA AskToReadInv ==
  ASSUME BlockInv, NEW t \in Callers, NEW a \in DOMAIN written, AskToRead(t, a)
  PROVE  BlockInv'
<1>0. TypesInv /\ LineInv BY DEF BlockInv
<1>1. /\ Goto(t, "idle", "waitToRead") /\ line' = Append(line, t)
      /\ copy' = [copy EXCEPT ![t].begin = a - 1]
      /\ UNCHANGED <<keys, data, capacity, top, written>>
  BY DEF AskToRead
<1>2. a - 1 \in Nat /\ (a - 1) + 1 = a BY <1>0, WrittenTypes
<1>3. /\ at' \in [Callers -> Places] /\ at[t] = "idle" /\ at'[t] = "waitToRead"
      /\ \A u \in Callers \ {t} : at'[u] = at[u]
  BY <1>0, <1>1, GotoMoves DEF TypesInv, Goto, Places, Reading
<1>4. copy[t] = NoCopy BY <1>0, <1>3 DEF TypesInv
<1>5. /\ copy' \in [Callers -> Copies] /\ copy'[t].begin = a - 1 /\ copy'[t].got = <<>>
      /\ Others(t)
  <2> DEFINE first == a - 1
  <2>1. copy' = [copy EXCEPT ![t].begin = first] /\ first \in Nat BY <1>1, <1>2
  <2>2. copy \in [Callers -> Copies] BY <1>0 DEF TypesInv
  <2> HIDE DEF first
  <2>3. copy' \in [Callers -> Copies] /\ copy'[t].begin = first /\ copy'[t].got = copy[t].got
    BY <2>1, <2>2 DEF Copies
  <2>4. \A u \in Callers \ {t} : copy'[u] = copy[u] BY <2>1, <2>2
  <2>5. copy[t].got = <<>> BY <1>4 DEF NoCopy
  <2> QED BY <1>3, <2>3, <2>4, <2>5 DEF Others, first
<1>6. TypesInv' BY <1>0, <1>1, <1>3, <1>5, TypesKept DEF Pushing, Reserved
<1>7. LineInv' BY <1>0, <1>1, <1>3, <1>5, JoinsLine DEF InLine, Growing
<1>8. ReadInv(t)' BY <1>1, <1>2, <1>3, <1>5 DEF ReadInv
<1> QED BY <1>1, <1>3, <1>5, <1>6, <1>7, <1>8, ControlKeeps DEF Fitted, Reserved

LEMMA EnterReadInv ==
  ASSUME BlockInv, NEW t \in Callers, EnterRead(t)
  PROVE  BlockInv'
<1>0. TypesInv /\ LineInv /\ ReadInv(t) BY DEF BlockInv, ReadsInv
<1>1. /\ Goto(t, "waitToRead", "read") /\ NextInLine(t) /\ LeaveLine
      /\ UNCHANGED <<keys, data, capacity, top, written, copy>>
  BY DEF EnterRead
<1>4. TypesInv' /\ Others(t) /\ at[t] = "waitToRead" /\ at'[t] = "read"
  BY <1>0, <1>1, MoveKeepsTypes DEF Places, Pushing, Reserved, Reading
<1>5. LineInv' BY <1>0, <1>1, <1>4, LeavesLine DEF InLine
<1>6. ReadInv(t)' BY <1>0, <1>1, <1>4 DEF ReadInv, Reading
<1> QED BY <1>1, <1>4, <1>5, <1>6, ControlKeeps DEF Fitted, Reserved

\* A step of a read inside the lock, which gets some more units.
LEMMA ReadStepInv ==
  ASSUME BlockInv, NEW t \in Callers, at[t] = "read",
         NEW to \in {"read", "answer"}, NEW k \in Keys \cup {Zero}, NEW got \in Seq(Units),
         at' = [at EXCEPT ![t] = to],
         copy' = [copy EXCEPT ![t].key = k, ![t].got = got],
         UNCHANGED <<keys, data, capacity, top, written, line>>,
         LET b == copy[t].begin
             w == written[b + 1]
         IN  /\ to = "read" =>
                  /\ Unit(b) # Zero /\ k = w /\ Len(got) < RecordUnits(w)
                  /\ \A i \in 1 .. Len(got) : got[i] = <<w, i>>
             /\ to = "answer" =>
                  IF Unit(b) = Zero THEN got = <<Zero>>
                  ELSE got = [i \in 1 .. RecordUnits(w) |-> <<w, i>>]
  PROVE  BlockInv'
<1>0. TypesInv /\ LineInv /\ ReadInv(t) BY DEF BlockInv, ReadsInv
<1>1. /\ at' \in [Callers -> Places] /\ at'[t] = to /\ copy' \in [Callers -> Copies]
      /\ copy'[t].key = k /\ copy'[t].got = got /\ copy'[t].begin = copy[t].begin
      /\ Others(t)
  BY <1>0, ZenonT(60) DEF TypesInv, Copies, Others, Places, Reading
<1>2. TypesInv' BY <1>0, <1>1, TypesKept DEF Pushing, Reserved
<1>3. LineInv' BY <1>0, <1>1, KeepsPlaceInLine DEF InLine, Growing
<1>4. copy[t].begin + 1 \in DOMAIN written BY <1>0 DEF ReadInv, Reading
<1>5. ReadInv(t)'
  <2>1. Unit(copy[t].begin)' = Unit(copy[t].begin) BY <1>1 DEF Unit
  <2> QED BY <1>1, <1>4, <2>1 DEF ReadInv, Reading
<1> QED BY <1>1, <1>2, <1>3, <1>5, ControlKeeps DEF Fitted, Reserved

LEMMA ReadLengthInv ==
  ASSUME BlockInv, NEW t \in Callers, ReadLength(t)
  PROVE  BlockInv'
<1> DEFINE b == copy[t].begin
           h == Unit(b)
           k == IF h = Zero THEN Zero ELSE h[1]
           to == IF h = Zero THEN "answer" ELSE "read"
<1>0. TypesInv /\ ReadInv(t) /\ RangesInv /\ RecordsInv BY DEF BlockInv, ReadsInv
<1>1. /\ at[t] = "read"
      /\ at' = [at EXCEPT ![t] = to]
      /\ copy' = [copy EXCEPT ![t].got = <<h>>, ![t].key = k]
      /\ UNCHANGED <<keys, data, capacity, top, written, line>>
  BY DEF ReadLength
<1>2. b + 1 \in DOMAIN written /\ b \in Nat /\ (b + 1) - 1 = b
  BY <1>0, <1>1, CallTypes DEF ReadInv, Reading
<1> DEFINE w == written[b + 1]
<1>3. w \in Keys /\ RecordUnits(w) \in Nat \ {0, 1} BY <1>0, <1>2, WrittenTypes
<1>4. h \in {Zero, <<w, 1>>} BY <1>0, <1>2 DEF RecordsInv
<1>5. <<w, 1>> # Zero /\ <<w, 1>>[1] = w BY DEF Zero
<1>6. h \in Units /\ k \in Keys \cup {Zero} BY <1>3, <1>4, <1>5 DEF Units
<1>7. <<h>> \in Seq(Units) /\ Len(<<h>>) = 1 /\ <<h>>[1] = h BY <1>6
<1>8. copy' = [copy EXCEPT ![t].key = k, ![t].got = <<h>>]
  <2> HIDE DEF h, k
  <2> QED BY <1>0, <1>1 DEF TypesInv, Copies
<1>9. to = "read" => /\ h # Zero /\ k = w /\ Len(<<h>>) < RecordUnits(w)
                     /\ \A i \in 1 .. Len(<<h>>) : <<h>>[i] = <<w, i>>
  BY <1>3, <1>4, <1>5, <1>7
<1>10. to = "answer" => h = Zero OBVIOUS
<1>11. to \in {"read", "answer"} OBVIOUS
<1> HIDE DEF to, k
<1> QED BY <1>1, <1>6, <1>7, <1>8, <1>9, <1>10, <1>11, ReadStepInv

LEMMA ReadChunkInv ==
  ASSUME BlockInv, NEW t \in Callers, ReadChunk(t)
  PROVE  BlockInv'
<1> DEFINE b == copy[t].begin
           w == written[b + 1]
           size == Len(copy[t].got)
           p == b + size
           n == ChunkUnits(p, RecordUnits(copy[t].key) - size)
           part == SubSeq(data[BlockOf(p)], OffsetOf(p), OffsetOf(p) + n - 1)
           got == copy[t].got \o part
           to == IF size + n = RecordUnits(copy[t].key) THEN "answer" ELSE "read"
<1>0. TypesInv /\ ReadInv(t) /\ RangesInv /\ RecordsInv /\ GrowthInv BY DEF BlockInv, ReadsInv
<1>1. /\ at[t] = "read" /\ copy[t].got # <<>>
      /\ at' = [at EXCEPT ![t] = to]
      /\ copy' = [copy EXCEPT ![t].got = got]
      /\ UNCHANGED <<keys, data, capacity, top, written, line>>
  BY DEF ReadChunk
<1>2. b + 1 \in DOMAIN written /\ b \in Nat /\ (b + 1) - 1 = b
  BY <1>0, <1>1, CallTypes DEF ReadInv, Reading
<1>3. w \in Keys /\ RecordUnits(w) \in Nat \ {0, 1} BY <1>0, <1>2, WrittenTypes
<1>4. /\ Unit(b) # Zero /\ copy[t].key = w /\ size < RecordUnits(w)
      /\ \A i \in 1 .. size : copy[t].got[i] = <<w, i>>
  BY <1>0, <1>1 DEF ReadInv, Reading
<1>5. copy[t].got \in Seq(Units) /\ size \in Nat \ {0}
  <2>1. copy[t].got \in Seq(Units) BY <1>0, CallTypes
  <2> QED BY <1>1, <2>1, EmptySeq
<1> DEFINE m == RecordUnits(w) - size
<1>6. m \in Nat \ {0} /\ p \in Nat /\ size + m = RecordUnits(w) BY <1>2, <1>3, <1>4, <1>5
<1>7. n \in 1 .. m /\ OffsetOf(p) + n - 1 <= BlockLength
  <2>1. n = ChunkUnits(p, m) BY <1>4
  <2> HIDE DEF n, m, p
  <2> QED BY <1>6, <2>1, Chunks
<1>8. ASSUME NEW i \in 1 .. n
      PROVE  /\ OffsetOf(p) + i - 1 \in 1 .. BlockLength
             /\ data[BlockOf(p)][OffsetOf(p) + i - 1] = <<w, size + i>>
             /\ data[BlockOf(p)] \in [1 .. BlockLength -> Units]
  <2> HIDE DEF n, m
  <2>1. OffsetOf(p) \in 1 .. BlockLength BY <1>6, Positions
  <2>2. i - 1 \in Nat /\ OffsetOf(p) + (i - 1) <= BlockLength
    BY <1>6, <1>7, <2>1, Constants
  <2>3. BlockOf(p + (i - 1)) = BlockOf(p) /\ OffsetOf(p + (i - 1)) = OffsetOf(p) + (i - 1)
    <3> HIDE DEF p
    <3> QED BY <1>6, <2>2, InOneBlock
  <2>4. size + i \in 2 .. RecordUnits(w) BY <1>3, <1>5, <1>6, <1>7
  <2>5. (b + 1) + (size + i) - 2 = p + (i - 1)
    <3>1. i \in Nat BY <1>6, <1>7
    <3> HIDE DEF b, size
    <3> QED BY <1>2, <1>5, <3>1
  <2>6. Unit((b + 1) + (size + i) - 2) = <<w, size + i>> BY <1>0, <1>2, <2>4 DEF RecordsInv
  <2>7. Unit(p + (i - 1)) = <<w, size + i>> BY <2>5, <2>6
  <2>8. p + (i - 1) \in Nat /\ p + (i - 1) < capacity
    <3>1. size + i \in 1 .. RecordUnits(w) BY <2>4, <1>3
    <3>2. (b + 1) + (size + i) - 2 \in Nat /\ (b + 1) + (size + i) - 2 < capacity
      BY <1>0, <1>2, <3>1, RecordUnitsBelow
    <3> HIDE DEF p
    <3> QED BY <2>5, <3>2
  <2>9. data[BlockOf(p)] \in [1 .. BlockLength -> Units]
    <3> HIDE DEF p
    <3> QED BY <1>0, <2>3, <2>8, CapacityIsSized
  <2>10. OffsetOf(p) + (i - 1) = OffsetOf(p) + i - 1 BY <2>1, <2>2, <1>6, <1>7
  <2>11. data[BlockOf(p)][OffsetOf(p) + (i - 1)] = <<w, size + i>>
    <3> HIDE DEF p
    <3> QED BY <2>3, <2>7 DEF Unit
  <2> HIDE DEF p
  <2> QED BY <2>1, <2>2, <2>9, <2>10, <2>11, <1>6, <1>7
<1>9. OffsetOf(p) \in 1 .. BlockLength /\ n \in Nat \ {0}
  <2> HIDE DEF n, m, p
  <2> QED BY <1>6, <1>7, Positions
<1>10. /\ part \in Seq(Units) /\ Len(part) = n
       /\ \A i \in 1 .. n : part[i] = <<w, size + i>>
  <2> DEFINE o == OffsetOf(p)
             d == data[BlockOf(p)]
  <2>1. d \in Seq(Units) /\ Len(d) = BlockLength
    <3>1. 1 \in 1 .. n
      <4> HIDE DEF n
      <4> QED BY <1>9
    <3>2. d \in [1 .. BlockLength -> Units] BY <1>8, <3>1
    <3> HIDE DEF d
    <3> QED BY <3>2, Constants
  <2>2. o \in 1 .. BlockLength /\ n \in Nat \ {0} /\ o + n - 1 <= BlockLength
    BY <1>7, <1>9
  <2>3. \A i \in 1 .. n : d[o + i - 1] = <<w, size + i>> BY <1>8
  <2>4. part = SubSeq(d, o, o + n - 1) OBVIOUS
  <2> HIDE DEF n, d, o, part, p, w, size
  <2>5. o \in 1 .. Len(d) + 1 /\ o + n - 1 \in o - 1 .. Len(d) BY <2>1, <2>2, Constants
  <2>6. /\ part \in Seq(Units) /\ Len(part) = (o + n - 1) - o + 1
        /\ \A i \in 1 .. (o + n - 1) - o + 1 : part[i] = d[o + i - 1]
    BY <2>1, <2>4, <2>5, SubSeqProperties
  <2>7. (o + n - 1) - o + 1 = n BY <2>2, Constants
  <2> QED BY <2>3, <2>6, <2>7
<1>11. /\ got \in Seq(Units) /\ Len(got) = size + n
       /\ \A i \in 1 .. size + n : got[i] = <<w, i>>
  <2>1. got \in Seq(Units) /\ Len(got) = size + n
    <3> HIDE DEF part, n
    <3> QED BY <1>5, <1>10, ConcatProperties
  <2>2. ASSUME NEW i \in 1 .. size + n PROVE got[i] = <<w, i>>
    <3> HIDE DEF part, n
    <3>1. got[i] = IF i <= size THEN copy[t].got[i] ELSE part[i - size]
      BY <1>5, <1>9, <1>10, <2>2, ConcatProperties
    <3>2. CASE i <= size BY <1>4, <1>5, <3>1, <3>2
    <3>3. CASE ~(i <= size)
      <4>1. i - size \in 1 .. n /\ size + (i - size) = i BY <1>5, <1>9, <3>3
      <4> QED BY <1>10, <3>1, <3>3, <4>1
    <3> QED BY <3>2, <3>3
  <2> QED BY <2>1, <2>2
<1>12. to = "read" => Len(got) < RecordUnits(w)
  <2>1. to = "read" => size + n # RecordUnits(w) BY <1>4
  <2>2. Len(got) = size + n BY <1>11
  <2>3. n \in Nat /\ n <= m /\ m \in Nat BY <1>6, <1>7
  <2> HIDE DEF got, n, to, w, size, m
  <2>4. size + n <= RecordUnits(w) /\ size + n \in Nat BY <1>3, <1>5, <1>6, <2>3
  <2> QED BY <1>3, <2>1, <2>2, <2>4
<1>13. to = "answer" => got = [i \in 1 .. RecordUnits(w) |-> <<w, i>>]
  <2>1. to = "answer" => Len(got) = RecordUnits(w)
    <3> HIDE DEF got, n
    <3> QED BY <1>4, <1>11
  <2>2. got = [i \in 1 .. Len(got) |-> got[i]]
    <3> HIDE DEF got
    <3> QED BY <1>11
  <2> HIDE DEF got, to
  <2> QED BY <1>11, <2>1, <2>2
<1>14. copy' = [copy EXCEPT ![t].key = copy[t].key, ![t].got = got]
  <2> HIDE DEF got
  <2> QED BY <1>0, <1>1 DEF TypesInv, Copies
<1>15. to \in {"read", "answer"} OBVIOUS
<1>16. copy[t].key \in Keys \cup {Zero} BY <1>0, CallTypes
<1>17. to = "read" => /\ Unit(b) # Zero /\ copy[t].key = w /\ Len(got) < RecordUnits(w)
                      /\ \A i \in 1 .. Len(got) : got[i] = <<w, i>>
  <2> HIDE DEF to, got, n, size
  <2> QED BY <1>4, <1>11, <1>12
<1>18. to = "answer" => IF Unit(b) = Zero THEN got = <<Zero>>
                        ELSE got = [i \in 1 .. RecordUnits(w) |-> <<w, i>>]
  BY <1>4, <1>13
<1>19. got \in Seq(Units) BY <1>11
<1> HIDE DEF to, got, n, m, p, part, size
<1> QED BY <1>1, <1>14, <1>15, <1>16, <1>17, <1>18, <1>19, ReadStepInv

LEMMA ReturnReadInv ==
  ASSUME BlockInv, NEW t \in Callers, ReturnRead(t)
  PROVE  BlockInv'
<1>0. TypesInv /\ LineInv BY DEF BlockInv
<1>1. /\ Goto(t, "answer", "idle") /\ copy' = [copy EXCEPT ![t] = NoCopy]
      /\ UNCHANGED <<keys, data, capacity, top, written, line>>
  BY DEF ReturnRead
<1>2. /\ at' \in [Callers -> Places] /\ at[t] = "answer" /\ at'[t] = "idle"
      /\ \A u \in Callers \ {t} : at'[u] = at[u]
  BY <1>0, <1>1, GotoMoves DEF TypesInv, Goto, Places
<1>3. copy' \in [Callers -> Copies] /\ copy'[t] = NoCopy /\ Others(t)
  BY <1>0, <1>1, <1>2, NoCopyType DEF TypesInv, Others
<1>4. TypesInv' BY <1>0, <1>1, <1>2, <1>3, TypesKept DEF Pushing, Reserved
<1>5. LineInv' BY <1>0, <1>1, <1>2, <1>3, KeepsPlaceInLine DEF InLine, Growing
<1>6. ReadInv(t)' BY <1>2 DEF ReadInv, Reading
<1> QED BY <1>1, <1>2, <1>3, <1>4, <1>5, <1>6, ControlKeeps DEF Fitted, Reserved

-----------------------------------------------------------------------------
(* Claims and reservations.                                                *)

LEMMA UnreservedCount ==
  /\ IsFiniteSet(Unreserved)
  /\ Cardinality(Unreserved) \in Nat /\ Cardinality(Callers) \in Nat
  /\ Cardinality(Unreserved) <= Cardinality(Callers)
BY StoreAssumption, FS_Subset, FS_CardinalityType DEF Unreserved

LEMMA ClaimKeyInv ==
  ASSUME BlockInv, NEW t \in Callers, NEW k \in Keys, ClaimKey(t, k)
  PROVE  BlockInv'
<1>0. /\ TypesInv /\ LineInv /\ GrowthInv /\ RangesInv /\ RecordsInv /\ CopiesInv
      /\ ReadsInv /\ KeysInv /\ BoundInv
  BY DEF BlockInv
<1>1. /\ Goto(t, "idle", "reserve") /\ top + RecordUnits(k) <= MaxUnits /\ k \notin keys
      /\ keys' = keys \cup {k} /\ copy' = [copy EXCEPT ![t].key = k]
      /\ UNCHANGED <<data, capacity, top, written, line>>
  BY DEF ClaimKey
<1>2. /\ at' \in [Callers -> Places] /\ at[t] = "idle" /\ at'[t] = "reserve"
      /\ \A u \in Callers \ {t} : at'[u] = at[u]
  BY <1>0, <1>1, GotoMoves DEF TypesInv, Goto, Places, Pushing
<1>3. /\ copy' \in [Callers -> Copies] /\ copy'[t].key = k /\ copy'[t].done = copy[t].done
      /\ Others(t)
  BY <1>0, <1>1, <1>2 DEF TypesInv, Copies, Others
<1>4. copy'[t].done = 0
  <2>1. copy[t] = NoCopy BY <1>0, <1>2 DEF TypesInv
  <2> QED BY <1>3, <2>1 DEF NoCopy
<1>5. TypesInv'
  <2>1. \A u \in Callers : at'[u] = "idle" => copy'[u] = NoCopy
    BY <1>0, <1>2, <1>3 DEF Others, TypesInv
  <2>2. \A u \in Callers : at'[u] \in Pushing => copy'[u].key \in keys'
    BY <1>0, <1>1, <1>3 DEF Others, TypesInv
  <2>3. keys' \subseteq Keys BY <1>0, <1>1 DEF TypesInv
  <2> QED BY <1>0, <1>1, <1>2, <1>3, <2>1, <2>2, <2>3 DEF TypesInv
<1>6. LineInv' BY <1>0, <1>1, <1>2, <1>3, KeepsPlaceInLine DEF InLine, Growing
<1>7. GrowthInv' BY <1>0, <1>1, <1>2, <1>3, GrowthKept
<1>8. RangesInv'
  <2>1. capacity \in Nat BY <1>0 DEF TypesInv
  <2> QED BY <1>0, <1>1, <1>2, <1>3, <2>1, RangesKept DEF Reserved, Fitted
<1>9. SameRecords /\ SameCopies(t)
  <2>1. SameUnits BY <1>1 DEF SameUnits, Unit, UnitNext
  <2> QED BY <1>0, <2>1, SameBelowCapacity
<1>10. RecordsInv' BY <1>0, <1>1, <1>9, RecordsKept
<1>11. CopiesInv'
  <2>1. CopyInv(t)' BY <1>2, <1>4 DEF CopyInv
  <2> QED BY <1>0, <1>3, <1>9, <2>1, CopiesKept
<1>12. ReadsInv'
  <2>1. ReadInv(t)' BY <1>2 DEF ReadInv, Reading
  <2> QED BY <1>0, <1>1, <1>3, <1>9, <2>1, ReadsKept
<1>13. LiveRecords' = LiveRecords BY <1>0, <1>1, <1>9, LiveRecordsKept
<1>14. KeysInv'
  <2>1. \A u \in Callers : at'[u] \in Pushing =>
          \/ u = t /\ copy'[u].key = k
          \/ u # t /\ at[u] \in Pushing /\ copy'[u].key = copy[u].key
    BY <1>3 DEF Others
  <2>2. \A u \in Callers : at[u] \in Pushing => copy[u].key # k
    BY <1>0, <1>1 DEF TypesInv
  <2>3. \A a \in LiveRecords : written[a] \in keys /\ written[a] # k
    BY <1>0, <1>1 DEF KeysInv
  <2>4. \A a \in LiveRecords : written[a] \in keys' BY <1>1, <2>3
  <2>5. \A u \in Callers : at'[u] \in Pushing =>
          \A a \in LiveRecords : written[a] # copy'[u].key
    BY <1>0, <2>1, <2>3 DEF KeysInv
  <2>6. \A u, v \in Callers : u # v /\ at'[u] \in Pushing /\ at'[v] \in Pushing =>
          copy'[u].key # copy'[v].key
    BY <1>0, <2>1, <2>2 DEF KeysInv
  <2> QED BY <1>0, <1>1, <1>13, <2>4, <2>5, <2>6 DEF KeysInv
<1>15. BoundInv'
  <2>1. top \in Nat /\ RecordUnits(k) \in Nat BY <1>0, RecordLength DEF TypesInv
  <2>2. RecordUnits(k) <= MaxUnits /\ top <= MaxUnits BY <1>1, <2>1, Constants
  <2>3. \A u \in Unreserved' : RecordUnits(copy'[u].key) <= MaxUnits
    BY <1>0, <1>3, <2>2 DEF Unreserved, BoundInv, Others
  <2> DEFINE m == Cardinality(Callers) - Cardinality(Unreserved')
  <2>4. m \in Nat
    <3>1. IsFiniteSet(Callers) /\ Unreserved' \subseteq Callers
      BY StoreAssumption DEF Unreserved
    <3>2. /\ Cardinality(Unreserved') \in Nat /\ Cardinality(Callers) \in Nat
          /\ Cardinality(Unreserved') <= Cardinality(Callers)
      BY <3>1, FS_Subset, FS_CardinalityType
    <3> QED BY <3>2
  <2>5. top <= MaxUnits * (1 + m)
    <3> HIDE DEF m
    <3>1. MaxUnits * (1 + m) = MaxUnits + MaxUnits * m BY <2>4, Constants
    <3>2. MaxUnits * m \in Nat BY <2>4, Constants
    <3> QED BY <2>1, <2>2, <3>1, <3>2, Constants
  <2> QED BY <1>1, <2>3, <2>5 DEF BoundInv
<1> QED BY <1>5, <1>6, <1>7, <1>8, <1>10, <1>11, <1>12, <1>14, <1>15 DEF BlockInv

LEMMA ReserveUnitsInv ==
  ASSUME BlockInv, NEW t \in Callers, ReserveUnits(t)
  PROVE  BlockInv'
<1> DEFINE k == copy[t].key
           n == RecordUnits(k)
<1>0. /\ TypesInv /\ LineInv /\ GrowthInv /\ RangesInv /\ RecordsInv /\ CopiesInv
      /\ ReadsInv /\ KeysInv /\ BoundInv
  BY DEF BlockInv
<1>1. /\ Goto(t, "reserve", "ensure") /\ copy' = [copy EXCEPT ![t].begin = top]
      /\ top' = top + n
      /\ UNCHANGED <<keys, data, capacity, written, line>>
  BY DEF ReserveUnits
<1>2. /\ at' \in [Callers -> Places] /\ at[t] = "reserve" /\ at'[t] = "ensure"
      /\ \A u \in Callers \ {t} : at'[u] = at[u]
  BY <1>0, <1>1, GotoMoves DEF TypesInv, Goto, Places, Pushing, Reserved
<1>3. /\ copy' \in [Callers -> Copies] /\ copy'[t].key = k /\ copy'[t].done = copy[t].done
      /\ copy'[t].begin = top /\ Others(t)
  BY <1>0, <1>1, <1>2 DEF TypesInv, Copies, Others
<1>4. k \in keys /\ n \in Nat \ {0, 1} /\ top \in Nat /\ capacity \in Nat /\ top' \in Nat
      /\ copy[t].done = 0
  BY <1>0, <1>1, <1>2, CallTypes, SMTT(30) DEF TypesInv, Pushing, Reserved, CopiesInv, CopyInv
<1>5. TypesInv'
  <2>1. \A u \in Callers : at'[u] = "idle" => copy'[u] = NoCopy
    BY <1>0, <1>2, <1>3 DEF Others, TypesInv
  <2>2. \A u \in Callers : at'[u] \in Pushing => copy'[u].key \in keys
    BY <1>0, <1>3, <1>4 DEF Others, TypesInv
  <2> QED BY <1>0, <1>1, <1>2, <1>3, <1>4, <2>1, <2>2 DEF TypesInv
<1>6. LineInv' BY <1>0, <1>1, <1>2, <1>3, KeepsPlaceInLine DEF InLine, Growing
<1>7. GrowthInv' BY <1>0, <1>1, <1>2, <1>3, GrowthKept
<1>8. RangesInv'
  <2> HIDE DEF k, n
  <2>0. /\ End(t)' = top' /\ copy'[t].begin = top /\ RecordUnits(copy'[t].key) = n
    BY <1>1, <1>3 DEF End, n
  <2>1. ASSUME NEW u \in Callers, at'[u] \in Reserved
        PROVE  \/ u = t
               \/ /\ u # t /\ at[u] \in Reserved /\ copy'[u] = copy[u]
                  /\ End(u)' = End(u) /\ End(u) <= top /\ End(u) \in Nat
                  /\ End(u) = copy[u].begin + RecordUnits(copy[u].key)
    <3>1. u # t => at'[u] = at[u] /\ copy'[u] = copy[u] BY <1>3 DEF Others
    <3>2. at[u] \in Reserved => at[u] \in Pushing BY DEF Pushing
    <3> QED BY <1>0, <2>1, <3>1, <3>2, CallTypes DEF RangesInv, End
  <2>2. \A u \in Callers : at'[u] \in Reserved => End(u)' <= top'
    BY <1>1, <1>4, <2>0, <2>1
  <2>3. ASSUME NEW u \in Callers, at'[u] \in Fitted PROVE End(u)' <= capacity'
    <3>1. u # t /\ at[u] = at'[u] /\ copy'[u] = copy[u]
      BY <1>2, <1>3, <2>3 DEF Others, Fitted
    <3> QED BY <1>0, <1>1, <2>3, <3>1 DEF RangesInv, End
  <2>4. ASSUME NEW u \in Callers, NEW v \in Callers, u # v, at'[u] \in Reserved, at'[v] \in Reserved
        PROVE  Apart(copy'[u].begin, RecordUnits(copy'[u].key),
                     copy'[v].begin, RecordUnits(copy'[v].key))
    BY <1>0, <1>4, <2>0, <2>1, <2>4 DEF RangesInv, Apart
  <2>5. \A a \in DOMAIN written : a - 1 + RecordUnits(written[a]) <= top
    BY <1>0 DEF RangesInv
  <2>6. ASSUME NEW u \in Callers, at'[u] \in Reserved, NEW a \in DOMAIN written
        PROVE  Apart(copy'[u].begin, RecordUnits(copy'[u].key), a - 1, RecordUnits(written[a]))
    BY <1>0, <2>0, <2>1, <2>5, <2>6 DEF RangesInv, Apart
  <2>7. \A a \in DOMAIN written : a - 1 + RecordUnits(written[a]) <= top'
    BY <1>0, <1>1, <1>4, <2>5, WrittenTypes
  <2> QED BY <1>0, <1>1, <2>2, <2>3, <2>4, <2>6, <2>7 DEF RangesInv
<1>9. SameRecords /\ SameCopies(t)
  <2>1. SameUnits BY <1>1 DEF SameUnits, Unit, UnitNext
  <2> QED BY <1>0, <2>1, SameBelowCapacity
<1>10. RecordsInv' BY <1>0, <1>1, <1>9, RecordsKept
<1>11. CopiesInv'
  <2>1. CopyInv(t)' BY <1>2, <1>3, <1>4 DEF CopyInv
  <2> QED BY <1>0, <1>3, <1>9, <2>1, CopiesKept
<1>12. ReadsInv'
  <2>1. ReadInv(t)' BY <1>2 DEF ReadInv, Reading
  <2> QED BY <1>0, <1>1, <1>3, <1>9, <2>1, ReadsKept
<1>13. KeysInv'
  <2>1. LiveRecords' = LiveRecords BY <1>0, <1>1, <1>9, LiveRecordsKept
  <2> QED BY <1>0, <1>1, <1>2, <1>3, <2>1, KeysKept DEF Pushing
<1>14. BoundInv'
  <2>1. t \in Unreserved /\ n <= MaxUnits BY <1>0, <1>2 DEF Unreserved, BoundInv
  <2>2. Unreserved' = Unreserved \ {t} BY <1>2, <1>3 DEF Unreserved, Others
  <2>3. \A u \in Unreserved' : RecordUnits(copy'[u].key) <= MaxUnits
    BY <1>0, <1>3, <2>2 DEF Unreserved, BoundInv, Others
  <2> DEFINE c == Cardinality(Callers)
             r == Cardinality(Unreserved)
  <2>4. Cardinality(Unreserved \ {t}) = r - 1 BY <2>1, UnreservedCount, FS_RemoveElement
  <2>5. c \in Nat /\ r \in Nat /\ r <= c BY UnreservedCount
  <2>6. top <= MaxUnits * (1 + (c - r)) BY <1>0 DEF BoundInv
  <2>7. top' <= MaxUnits * (1 + (c - (r - 1)))
    <3> HIDE DEF c, r, n
    <3>1. PICK m \in Nat : m = c - r BY <2>5
    <3>2. 1 + (c - (r - 1)) = (1 + m) + 1 /\ 1 + (c - r) = 1 + m BY <2>5, <3>1
    <3>3. MaxUnits * ((1 + m) + 1) = MaxUnits * (1 + m) + MaxUnits BY Constants
    <3>4. MaxUnits * (1 + m) \in Nat BY Constants
    <3> QED BY <1>1, <1>4, <2>1, <2>6, <3>2, <3>3, <3>4, Constants
  <2> QED BY <2>2, <2>3, <2>4, <2>7 DEF BoundInv
<1> QED BY <1>5, <1>6, <1>7, <1>8, <1>10, <1>11, <1>12, <1>13, <1>14 DEF BlockInv

-----------------------------------------------------------------------------
(* Growth.                                                                 *)

\* Whoever holds the lock to grow is alone with it.
LEMMA GrowerIsAlone ==
  ASSUME LineInv, NEW t \in Callers, at[t] \in Growing
  PROVE  NextInLine(t) /\ \A u \in Callers \ {t} : at[u] \notin Growing
<1>1. NextInLine(t) BY DEF LineInv
<1>2. ASSUME NEW u \in Callers \ {t}, at[u] \in Growing PROVE FALSE
  <2>1. NextInLine(u) BY <1>2 DEF LineInv
  <2> QED BY <1>1, <2>1 DEF NextInLine
<1> QED BY <1>1, <1>2

\* What growing has in common: the blocks below the capacity stay what they
\* are, and nothing but the grower's place and loop variable changes.
LEMMA GrowStepInv ==
  ASSUME BlockInv, NEW t \in Callers, at[t] \in Growing, Others(t),
         at' \in [Callers -> Places], copy' \in [Callers -> Copies], data' \in Seq(Block),
         capacity' \in Nat, capacity <= capacity',
         copy'[t].key = copy[t].key, copy'[t].begin = copy[t].begin,
         UNCHANGED <<keys, top, written>>,
         SameUnits, GrowthInv', LineInv',
         \/ at'[t] = "grow"
         \/ at'[t] = "askToWrite" /\ copy'[t].done = 0 /\ End(t) <= capacity'
  PROVE  BlockInv'
<1>0. /\ TypesInv /\ LineInv /\ GrowthInv /\ RangesInv /\ RecordsInv /\ CopiesInv
      /\ ReadsInv /\ KeysInv /\ BoundInv
  BY DEF BlockInv
<1>1. at[t] \in Reserved /\ at[t] \in Pushing /\ at'[t] \in Reserved /\ at'[t] \in Pushing
  BY DEF Growing, Reserved, Pushing
<1>2. TypesInv'
  <2>1. \A u \in Callers : at'[u] = "idle" => copy'[u] = NoCopy
    BY <1>0, <1>1 DEF Others, TypesInv, Pushing, Reserved
  <2>2. \A u \in Callers : at'[u] \in Pushing => copy'[u].key \in keys
    BY <1>0, <1>1 DEF Others, TypesInv
  <2> QED BY <1>0, <2>1, <2>2 DEF TypesInv
<1>3. RangesInv' BY <1>0, <1>1, RangesKept DEF Fitted
<1>4. SameRecords /\ SameCopies(t) BY <1>0, SameBelowCapacity
<1>5. RecordsInv' BY <1>0, <1>4, RecordsKept
<1>6. CopiesInv'
  <2>1. CopyInv(t)' BY DEF CopyInv
  <2> QED BY <1>0, <1>4, <2>1, CopiesKept
<1>7. ReadsInv'
  <2>1. ReadInv(t)' BY DEF ReadInv, Reading
  <2> QED BY <1>0, <1>4, <2>1, ReadsKept
<1>8. KeysInv'
  <2>1. LiveRecords' = LiveRecords BY <1>0, <1>4, LiveRecordsKept
  <2> QED BY <1>0, <1>1, <2>1, KeysKept
<1>9. BoundInv' BY <1>0, BoundKept DEF Growing
<1> QED BY <1>2, <1>3, <1>5, <1>6, <1>7, <1>8, <1>9 DEF BlockInv

LEMMA GrowVectorInv ==
  ASSUME BlockInv, NEW t \in Callers, GrowVector(t)
  PROVE  BlockInv' /\ SameUnits
<1> DEFINE old == Len(data)
           new == Blocks(End(t))
<1>0. TypesInv /\ LineInv /\ GrowthInv BY DEF BlockInv
<1>1. /\ Goto(t, "recheck", "grow") /\ capacity < End(t)
      /\ data' = [i \in 1 .. new |-> IF i <= old THEN data[i] ELSE EmptyBlock]
      /\ copy' = [copy EXCEPT ![t].done = old]
      /\ UNCHANGED <<keys, capacity, top, written, line>>
  BY DEF GrowVector
<1>2. /\ at' \in [Callers -> Places] /\ at[t] = "recheck" /\ at'[t] = "grow"
      /\ \A u \in Callers \ {t} : at'[u] = at[u]
  BY <1>0, <1>1, GotoMoves DEF TypesInv, Goto, Places, Pushing, Reserved
<1>3. data \in Seq(Block) /\ old \in Nat /\ capacity \in Nat BY <1>0 DEF TypesInv
<1>4. /\ copy' \in [Callers -> Copies] /\ copy'[t].key = copy[t].key
      /\ copy'[t].begin = copy[t].begin /\ copy'[t].done = old /\ Others(t)
  <2> HIDE DEF old
  <2> QED BY <1>0, <1>1, <1>2, <1>3 DEF TypesInv, Copies, Others
<1>5. NextInLine(t) /\ \A u \in Callers \ {t} : at[u] \notin Growing
  BY <1>0, <1>2, GrowerIsAlone DEF Growing
<1>6. \A u \in Callers : at[u] # "grow" BY <1>2, <1>5 DEF Growing
<1>7. capacity = old * BlockLength /\ \A i \in 1 .. old : data[i] # EmptyBlock
  BY <1>0, <1>6 DEF GrowthInv
<1>8. End(t) \in Nat BY <1>0, <1>2, CallTypes DEF Pushing, Reserved
<1>9. new \in Nat /\ old < new
  <2> HIDE DEF old
  <2> QED BY <1>1, <1>3, <1>7, <1>8, BlocksSuffice
<1>10. /\ data' \in Seq(Block) /\ Len(data') = new
       /\ \A i \in 1 .. old : data'[i] = data[i]
  <2> HIDE DEF new
  <2>1. \A i \in 1 .. new : (IF i <= old THEN data[i] ELSE EmptyBlock) \in Block
    BY <1>3 DEF Block
  <2>2. data' \in Seq(Block) /\ Len(data') = new
    <3> HIDE DEF old
    <3> QED BY <1>1, <1>9, <2>1
  <2> QED BY <1>1, <1>3, <1>9, <2>2
<1>11. SameUnits
  <2> SUFFICES ASSUME NEW q \in Nat, q < capacity PROVE UnitNext(q) = Unit(q) BY DEF SameUnits
  <2>1. BlockOf(q) \in 1 .. old BY <1>3, <1>7, BlockBelow
  <2> QED BY <1>10, <2>1 DEF Unit, UnitNext
<1>12. GrowthInv'
  <2>1. End(t)' = End(t) BY <1>4 DEF End
  <2>2. Blocks(End(t))' = new BY <2>1 DEF Blocks
  <2>3. ASSUME NEW u \in Callers, at'[u] = "grow" PROVE u = t
    BY <1>4, <1>6, <2>3 DEF Others
  <2> QED BY <1>1, <1>2, <1>3, <1>4, <1>7, <1>9, <1>10, <2>2, <2>3 DEF GrowthInv
<1>13. LineInv'
  <2>1. Inside = {} BY <1>0, <1>2 DEF LineInv, Growing
  <2> QED BY <1>0, <1>1, <1>2, <1>4, <1>5, <2>1, KeepsPlaceInLine DEF InLine, Growing
<1>14. capacity <= capacity' BY <1>1, <1>3
<1> QED BY <1>1, <1>2, <1>3, <1>4, <1>10, <1>11, <1>12, <1>13, <1>14, GrowStepInv DEF Growing

LEMMA SizeBlockInv ==
  ASSUME BlockInv, NEW t \in Callers, SizeBlock(t)
  PROVE  BlockInv' /\ SameUnits
<1> DEFINE d == copy[t].done
<1>0. TypesInv /\ LineInv /\ GrowthInv BY DEF BlockInv
<1>1. /\ at[t] = "grow" /\ d < Blocks(End(t))
      /\ data' = [data EXCEPT ![d + 1] = ZeroBlock]
      /\ copy' = [copy EXCEPT ![t].done = d + 1]
      /\ UNCHANGED <<keys, capacity, top, written, line, at>>
  BY DEF SizeBlock
<1>2. /\ Len(data) = Blocks(End(t)) /\ d <= Len(data) /\ capacity <= d * BlockLength
      /\ \A i \in 1 .. d : data[i] # EmptyBlock
  BY <1>0, <1>1 DEF GrowthInv
<1>3. d \in Nat /\ data \in Seq(Block) /\ Len(data) \in Nat /\ capacity \in Nat
  BY <1>0, CallTypes DEF TypesInv
<1>4. /\ at' \in [Callers -> Places] /\ copy' \in [Callers -> Copies]
      /\ copy'[t].key = copy[t].key /\ copy'[t].begin = copy[t].begin /\ copy'[t].done = d + 1
      /\ Others(t)
  <2>1. d + 1 \in Nat BY <1>3
  <2> HIDE DEF d
  <2> QED BY <1>0, <1>1, <2>1 DEF TypesInv, Copies, Others
<1> HIDE DEF d
<1>5. d + 1 \in 1 .. Len(data) BY <1>1, <1>2, <1>3
<1>6. ZeroBlock \in Block /\ ZeroBlock # EmptyBlock
  <2>1. ZeroBlock \in [1 .. BlockLength -> Units] BY DEF ZeroBlock, Units
  <2>2. 1 \in DOMAIN ZeroBlock BY Constants DEF ZeroBlock
  <2>3. 1 \notin DOMAIN EmptyBlock BY DEF EmptyBlock
  <2> QED BY <2>1, <2>2, <2>3 DEF Block
<1>7. /\ data' \in Seq(Block) /\ Len(data') = Len(data) /\ data'[d + 1] = ZeroBlock
      /\ \A i \in 1 .. Len(data) : i # d + 1 => data'[i] = data[i]
  BY <1>1, <1>3, <1>5, <1>6
<1>8. SameUnits
  <2> SUFFICES ASSUME NEW q \in Nat, q < capacity PROVE UnitNext(q) = Unit(q) BY DEF SameUnits
  <2>1. d * BlockLength \in Nat BY <1>3, Constants
  <2>2. q < d * BlockLength BY <1>2, <1>3, <2>1
  <2>3. BlockOf(q) \in 1 .. d BY <1>3, <2>2, BlockBelow
  <2>4. BlockOf(q) \in 1 .. Len(data) /\ BlockOf(q) # d + 1 BY <1>2, <1>3, <2>3
  <2> QED BY <1>7, <2>4 DEF Unit, UnitNext
<1>9. GrowthInv'
  <2>1. End(t)' = End(t) BY <1>4 DEF End
  <2>2. Blocks(End(t))' = Blocks(End(t)) BY <2>1 DEF Blocks
  <2>3. ASSUME NEW u \in Callers, at'[u] = "grow" PROVE u = t
    BY <1>0, <1>1, <2>3, GrowerIsAlone DEF Growing
  <2>4. capacity <= (d + 1) * BlockLength
    <3>1. (d + 1) * BlockLength = d * BlockLength + BlockLength BY <1>3, Constants
    <3>2. d * BlockLength \in Nat BY <1>3, Constants
    <3> QED BY <1>2, <1>3, <3>1, <3>2, Constants
  <2>5. \A i \in 1 .. d + 1 : data'[i] # EmptyBlock
    <3> SUFFICES ASSUME NEW i \in 1 .. d + 1 PROVE data'[i] # EmptyBlock OBVIOUS
    <3>1. i = d + 1 \/ (i \in 1 .. d /\ i # d + 1) BY <1>3
    <3>2. i \in 1 .. d => i \in 1 .. Len(data) BY <1>3, <1>5
    <3> QED BY <1>2, <1>6, <1>7, <3>1, <3>2
  <2>6. d + 1 <= Len(data) BY <1>5
  <2>7. at'[t] = "grow" BY <1>1
  <2> QED BY <1>1, <1>2, <1>4, <1>7, <2>2, <2>3, <2>4, <2>5, <2>6, <2>7 DEF GrowthInv
<1>10. LineInv'
  <2>1. NextInLine(t) /\ Inside = {} BY <1>0, <1>1 DEF LineInv, Growing
  <2> QED BY <1>0, <1>1, <1>4, <2>1, KeepsPlaceInLine
<1>11. capacity <= capacity' BY <1>1, <1>3
<1> QED BY <1>1, <1>3, <1>4, <1>7, <1>8, <1>9, <1>10, <1>11, GrowStepInv DEF Growing

LEMMA FinishGrowInv ==
  ASSUME BlockInv, NEW t \in Callers, FinishGrow(t)
  PROVE  BlockInv'
<1> DEFINE d == copy[t].done
           new == Blocks(End(t))
<1>0. TypesInv /\ LineInv /\ GrowthInv BY DEF BlockInv
<1>1. /\ Goto(t, "grow", "askToWrite") /\ d >= new /\ capacity' = new * BlockLength
      /\ copy' = [copy EXCEPT ![t].done = 0] /\ LeaveLine
      /\ UNCHANGED <<keys, data, top, written>>
  BY DEF FinishGrow
<1>2. /\ at' \in [Callers -> Places] /\ at[t] = "grow" /\ at'[t] = "askToWrite"
      /\ \A u \in Callers \ {t} : at'[u] = at[u]
  BY <1>0, <1>1, GotoMoves DEF TypesInv, Goto, Places, Pushing, Reserved
<1>3. /\ Len(data) = new /\ d <= Len(data) /\ capacity <= d * BlockLength
      /\ \A i \in 1 .. d : data[i] # EmptyBlock
  BY <1>0, <1>2 DEF GrowthInv
<1>4. /\ copy' \in [Callers -> Copies] /\ copy'[t].key = copy[t].key
      /\ copy'[t].begin = copy[t].begin /\ copy'[t].done = 0 /\ Others(t)
  BY <1>0, <1>1, <1>2 DEF TypesInv, Copies, Others
<1>5. /\ d \in Nat /\ data \in Seq(Block) /\ Len(data) \in Nat /\ capacity \in Nat
      /\ End(t) \in Nat
  BY <1>0, <1>2, CallTypes DEF TypesInv, Pushing, Reserved
<1>6. d = new BY <1>1, <1>3, <1>5
<1>7. End(t) <= capacity' BY <1>1, <1>5, BlocksSuffice
<1>8. capacity' \in Nat /\ capacity <= capacity'
  <2>1. new \in Nat BY <1>3, <1>5
  <2> HIDE DEF d, new
  <2>2. new * BlockLength \in Nat BY <2>1, Constants
  <2> QED BY <1>1, <1>3, <1>6, <2>2
<1>9. SameUnits BY <1>1 DEF SameUnits, Unit, UnitNext
<1>10. NextInLine(t) BY <1>0, <1>2 DEF LineInv, Growing
<1>11. LineInv' /\ \A u \in Callers : at'[u] \notin Growing
  BY <1>0, <1>1, <1>2, <1>4, <1>10, LeavesLine DEF InLine
<1>12. GrowthInv'
  <2>1. \A u \in Callers : at'[u] # "grow" BY <1>11 DEF Growing
  <2>2. capacity' = Len(data') * BlockLength BY <1>1, <1>3
  <2>3. \A i \in 1 .. Len(data') : data'[i] # EmptyBlock BY <1>1, <1>3, <1>6
  <2> QED BY <2>1, <2>2, <2>3 DEF GrowthInv
<1>13. data' \in Seq(Block) BY <1>1, <1>5
<1> QED BY <1>1, <1>2, <1>4, <1>7, <1>8, <1>9, <1>11, <1>12, <1>13, GrowStepInv DEF Growing

-----------------------------------------------------------------------------
(* Writing and erasing units.                                              *)

\* One chunk puts units of its record where they belong and touches nothing else.
LEMMA WriteChunkEffect ==
  ASSUME BlockInv, NEW t \in Callers, WriteChunk(t)
  PROVE  LET k == copy[t].key
             b == copy[t].begin
             d == copy[t].done
         IN
         /\ at[t] = "write"
         /\ data' \in Seq(Block) /\ Len(data') = Len(data)
         /\ \A i \in 1 .. Len(data) : data'[i] # EmptyBlock <=> data[i] # EmptyBlock
         /\ SameRecords /\ SameCopies(t)
         /\ UNCHANGED <<keys, capacity, top, line>>
         /\ \E n \in 1 .. RecordUnits(k) - d :
              /\ \A i \in 1 .. d + n : UnitNext(b + i - 1) = <<k, i>>
              /\ IF d + n = RecordUnits(k)
                 THEN /\ at' = [at EXCEPT ![t] = "idle"]
                      /\ copy' = [copy EXCEPT ![t] = NoCopy]
                      /\ written' = [a \in DOMAIN written \cup {b + 1} |->
                                       IF a = b + 1 THEN k ELSE written[a]]
                 ELSE /\ copy' = [copy EXCEPT ![t].done = d + n]
                      /\ UNCHANGED <<at, written>>
<1> DEFINE k == copy[t].key
           b == copy[t].begin
           d == copy[t].done
           r == RecordUnits(k)
           p == b + d
           n == ChunkUnits(p, r - d)
           s == BlockOf(p)
           o == OffsetOf(p)
<1>0. /\ TypesInv /\ GrowthInv /\ RangesInv /\ RecordsInv /\ CopiesInv BY DEF BlockInv
<1>1. /\ at[t] = "write" /\ UNCHANGED <<keys, capacity, top, line>>
      /\ data' = [data EXCEPT ![s] =
                    [i \in DOMAIN data[s] |-> IF i - o \in 0 .. n - 1
                                              THEN <<k, d + (i - o) + 1>> ELSE data[s][i]]]
      /\ IF d + n = r
         THEN /\ at' = [at EXCEPT ![t] = "idle"]
              /\ copy' = [copy EXCEPT ![t] = NoCopy]
              /\ written' = [a \in DOMAIN written \cup {b + 1} |->
                               IF a = b + 1 THEN k ELSE written[a]]
         ELSE /\ copy' = [copy EXCEPT ![t].done = d + n]
              /\ UNCHANGED <<at, written>>
  BY DEF WriteChunk
<1>2. /\ k \in Keys /\ b \in Nat /\ d \in Nat /\ r \in Nat \ {0, 1} /\ d < r
      /\ b + r <= capacity /\ capacity \in Nat
      /\ \A i \in 1 .. d : Unit(b + i - 1) = <<k, i>>
  <2>1. at[t] \in Pushing /\ at[t] \in Fitted BY <1>1 DEF Pushing, Reserved, Fitted
  <2>2. End(t) = b + r /\ End(t) <= capacity BY <1>0, <2>1, CallTypes DEF RangesInv
  <2>3. d < r /\ \A i \in 1 .. d : Unit(b + i - 1) = <<k, i>>
    BY <1>0, <1>1 DEF CopiesInv, CopyInv
  <2> QED BY <1>0, <2>1, <2>2, <2>3, CallTypes DEF TypesInv
<1> HIDE DEF k, b, d, r
<1>3. p \in Nat /\ p < capacity /\ n \in 1 .. r - d /\ o + n - 1 <= BlockLength
      /\ o \in 1 .. BlockLength
  <2>1. p \in Nat /\ r - d \in Nat \ {0} /\ p < capacity BY <1>2
  <2>2. o \in 1 .. BlockLength
    <3> HIDE DEF p
    <3> QED BY <2>1, Positions
  <2> HIDE DEF p
  <2> QED BY <2>1, <2>2, Chunks
<1>4. s \in 1 .. Len(data) /\ data[s] \in [1 .. BlockLength -> Units] /\ data[s] # EmptyBlock
  <2> HIDE DEF p
  <2> QED BY <1>0, <1>3, CapacityIsSized
<1> HIDE DEF n, s, o
<1> DEFINE new == [i \in 1 .. BlockLength |-> IF i - o \in 0 .. n - 1
                                              THEN <<k, d + (i - o) + 1>> ELSE data[s][i]]
<1>5. new \in [1 .. BlockLength -> Units] /\ new # EmptyBlock
  <2>1. ASSUME NEW i \in 1 .. BlockLength, i - o \in 0 .. n - 1
        PROVE  <<k, d + (i - o) + 1>> \in Units
    <3>1. d + (i - o) + 1 \in Nat \ {0} BY <1>2, <2>1
    <3> QED BY <1>2, <3>1 DEF Units
  <2>2. 1 \in DOMAIN new BY Constants
  <2>3. 1 \notin DOMAIN EmptyBlock BY DEF EmptyBlock
  <2> QED BY <1>4, <2>1, <2>2, <2>3
<1>6. data \in Seq(Block) /\ Len(data) \in Nat BY <1>0 DEF TypesInv
<1>7. data' = [data EXCEPT ![s] = new]
  <2>1. DOMAIN data[s] = 1 .. BlockLength BY <1>4
  <2> QED BY <1>1, <2>1
<1>8. /\ data' \in Seq(Block) /\ Len(data') = Len(data) /\ data'[s] = new
      /\ \A i \in 1 .. Len(data) : i # s => data'[i] = data[i]
  <2>1. new \in Block BY <1>5 DEF Block
  <2> HIDE DEF new
  <2> QED BY <1>4, <1>6, <1>7, <2>1
<1>9. \A i \in 1 .. Len(data) : data'[i] # EmptyBlock <=> data[i] # EmptyBlock
  <2> HIDE DEF new
  <2> QED BY <1>4, <1>5, <1>8
<1>10. ASSUME NEW q \in Nat, q < capacity
       PROVE  /\ q \in p .. p + n - 1 => UnitNext(q) = <<k, q - b + 1>>
              /\ q \notin p .. p + n - 1 => UnitNext(q) = Unit(q)
  <2>1. BlockOf(q) \in 1 .. Len(data) BY <1>0, <1>10, CapacityIsSized
  <2>2. OffsetOf(q) \in 1 .. BlockLength BY Positions
  <2>3. CASE BlockOf(q) # s
    <3>1. UnitNext(q) = Unit(q) BY <1>8, <2>1, <2>3 DEF Unit, UnitNext
    <3>2. q \notin p .. p + n - 1
      <4> SUFFICES ASSUME q \in p .. p + n - 1 PROVE FALSE OBVIOUS
      <4>1. q - p \in Nat /\ p + (q - p) = q /\ o + (q - p) <= BlockLength
        <5> HIDE DEF p
        <5> QED BY <1>2, <1>3, Constants
      <4>2. BlockOf(p + (q - p)) = BlockOf(p)
        <5> HIDE DEF p
        <5> QED BY <1>3, <4>1, InOneBlock DEF o
      <4> QED BY <2>3, <4>1, <4>2 DEF s
    <3> QED BY <3>1, <3>2
  <2>4. CASE BlockOf(q) = s
    <3>1. UnitNext(q) = new[OffsetOf(q)] BY <1>8, <2>4 DEF UnitNext
    <3>2. OffsetOf(q) - o = q - p
      <4> HIDE DEF p
      <4>1. q = BlockLength * (BlockOf(q) - 1) + (OffsetOf(q) - 1) BY Positions
      <4>2. p = BlockLength * (BlockOf(p) - 1) + (OffsetOf(p) - 1) BY <1>3, Positions
      <4> DEFINE e == BlockLength * (s - 1)
      <4>3. q = e + (OffsetOf(q) - 1) /\ p = e + (o - 1) BY <2>4, <4>1, <4>2 DEF s, o
      <4>4. e \in Int BY <1>4, <1>6, Constants
      <4> HIDE DEF e
      <4> QED BY <1>3, <2>2, <4>3, <4>4, Constants
    <3>3. UnitNext(q) = IF q - p \in 0 .. n - 1 THEN <<k, d + (q - p) + 1>>
                        ELSE data[s][OffsetOf(q)]
      BY <2>2, <3>1, <3>2
    <3>4. Unit(q) = data[s][OffsetOf(q)] BY <2>4 DEF Unit
    <3>5. q - p \in 0 .. n - 1 <=> q \in p .. p + n - 1
      <4> HIDE DEF p
      <4> QED BY <1>2, <1>3
    <3>6. d + (q - p) + 1 = q - b + 1 BY <1>2
    <3> HIDE DEF p
    <3> QED BY <3>3, <3>4, <3>5, <3>6
  <2> QED BY <2>3, <2>4
<1>11. SameRecords
  <2> SUFFICES ASSUME NEW a \in DOMAIN written, NEW i \in 1 .. RecordUnits(written[a])
               PROVE  UnitNext(a + i - 2) = Unit(a + i - 2)
    BY DEF SameRecords
  <2>1. a + i - 2 \in Nat /\ a + i - 2 < capacity BY <1>0, RecordUnitsBelow
  <2>2. a \in Nat \ {0} /\ RecordUnits(written[a]) \in Nat BY <1>0, WrittenTypes
  <2>3. Apart(b, r, a - 1, RecordUnits(written[a]))
    BY <1>0, <1>1 DEF RangesInv, Reserved, b, r, k
  <2>4. a + i - 2 \notin p .. p + n - 1
    BY <1>2, <1>3, <2>2, <2>3 DEF Apart
  <2> HIDE DEF p
  <2> QED BY <1>10, <2>1, <2>4
<1>12. SameCopies(t)
  <2> SUFFICES ASSUME NEW u \in Callers \ {t}, at[u] = "write",
                      NEW i \in 1 .. RecordUnits(copy[u].key)
               PROVE  UnitNext(copy[u].begin + i - 1) = Unit(copy[u].begin + i - 1)
    BY DEF SameCopies
  <2>1. copy[u].begin + i - 1 \in Nat /\ copy[u].begin + i - 1 < capacity
    BY <1>0, CopyUnitsBelow
  <2>2. copy[u].begin \in Nat /\ RecordUnits(copy[u].key) \in Nat
    BY <1>0, CallTypes DEF Pushing, Reserved
  <2>3. Apart(b, r, copy[u].begin, RecordUnits(copy[u].key))
    BY <1>0, <1>1 DEF RangesInv, Reserved, b, r, k
  <2>4. copy[u].begin + i - 1 \notin p .. p + n - 1
    BY <1>2, <1>3, <2>2, <2>3 DEF Apart
  <2> HIDE DEF p
  <2> QED BY <1>10, <2>1, <2>4
<1>13. ASSUME NEW i \in 1 .. d + n PROVE UnitNext(b + i - 1) = <<k, i>>
  <2>1. i \in Nat /\ i >= 1 /\ i <= r /\ n \in Nat BY <1>2, <1>3
  <2>2. b + i - 1 \in Nat /\ b + i - 1 < capacity /\ (b + i - 1) - b + 1 = i BY <1>2, <2>1
  <2>3. CASE i <= d
    <3>1. b + i - 1 \notin p .. p + n - 1 BY <1>2, <2>1, <2>3
    <3>2. i \in 1 .. d BY <2>1, <2>3, <1>2
    <3> HIDE DEF p
    <3> QED BY <1>2, <1>10, <2>2, <3>1, <3>2
  <2>4. CASE i > d
    <3>1. b + i - 1 \in p .. p + n - 1 BY <1>2, <2>1, <2>2, <2>4
    <3> HIDE DEF p
    <3> QED BY <1>10, <2>2, <3>1
  <2> QED BY <1>2, <2>1, <2>3, <2>4
<1> HIDE DEF p
<1> QED BY <1>1, <1>3, <1>8, <1>9, <1>11, <1>12, <1>13 DEF k, b, d, r

LEMMA WritePartInv ==
  ASSUME BlockInv, NEW t \in Callers, WriteChunk(t), at' = at
  PROVE  BlockInv'
<1> DEFINE k == copy[t].key
           b == copy[t].begin
           d == copy[t].done
<1>0. /\ TypesInv /\ LineInv /\ GrowthInv /\ RangesInv /\ RecordsInv /\ CopiesInv
      /\ ReadsInv /\ KeysInv /\ BoundInv
  BY DEF BlockInv
<1>1. /\ at[t] = "write" /\ data' \in Seq(Block) /\ Len(data') = Len(data)
      /\ \A i \in 1 .. Len(data) : data'[i] # EmptyBlock <=> data[i] # EmptyBlock
      /\ SameRecords /\ SameCopies(t)
      /\ UNCHANGED <<keys, capacity, top, line>>
  BY WriteChunkEffect
<1>2. PICK n \in 1 .. RecordUnits(k) - d :
        /\ \A i \in 1 .. d + n : UnitNext(b + i - 1) = <<k, i>>
        /\ IF d + n = RecordUnits(k)
           THEN at' = [at EXCEPT ![t] = "idle"]
           ELSE copy' = [copy EXCEPT ![t].done = d + n] /\ UNCHANGED <<at, written>>
  BY WriteChunkEffect
<1>3. d + n # RecordUnits(k)
  <2>1. at'[t] # "idle" BY <1>1
  <2>2. [at EXCEPT ![t] = "idle"][t] = "idle" BY <1>0 DEF TypesInv
  <2> QED BY <1>2, <2>1, <2>2
<1>4. /\ copy' = [copy EXCEPT ![t].done = d + n] /\ written' = written BY <1>2, <1>3
<1>5. d \in Nat /\ b \in Nat /\ k \in keys /\ RecordUnits(k) \in Nat
  BY <1>0, <1>1, CallTypes DEF TypesInv, Pushing, Reserved
<1>6. d + n \in Nat /\ d + n < RecordUnits(k)
  <2> HIDE DEF d
  <2> QED BY <1>2, <1>3, <1>5
<1>7. /\ copy' \in [Callers -> Copies] /\ copy'[t].key = k /\ copy'[t].begin = b
      /\ copy'[t].done = d + n /\ Others(t)
  <2> DEFINE e == d + n
  <2>1. e \in Nat /\ copy' = [copy EXCEPT ![t].done = e] BY <1>4, <1>6
  <2> HIDE DEF e
  <2>2. /\ copy' \in [Callers -> Copies] /\ copy'[t].key = k /\ copy'[t].begin = b
        /\ copy'[t].done = e /\ \A u \in Callers \ {t} : copy'[u] = copy[u]
    BY <1>0, <2>1 DEF TypesInv, Copies
  <2> QED BY <2>2 DEF e, Others
<1>8. TypesInv'
  <2>1. \A u \in Callers : at'[u] = "idle" => copy'[u] = NoCopy
    BY <1>0, <1>1, <1>7 DEF Others, TypesInv
  <2>2. \A u \in Callers : at'[u] \in Pushing => copy'[u].key \in keys
    BY <1>0, <1>5, <1>7 DEF Others, TypesInv
  <2> QED BY <1>0, <1>1, <1>4, <1>7, <2>1, <2>2 DEF TypesInv
<1>9. LineInv' BY <1>0, <1>1, <1>7, KeepsPlaceInLine DEF InLine, Growing
<1>10. GrowthInv' BY <1>0, <1>1, <1>7, GrowthKept
<1>11. RangesInv'
  <2>1. capacity \in Nat BY <1>0 DEF TypesInv
  <2> QED BY <1>0, <1>1, <1>4, <1>7, <2>1, RangesKept
<1>12. RecordsInv' BY <1>0, <1>1, <1>4, RecordsKept
<1>13. CopiesInv'
  <2>1. CopyInv(t)'
    <3> HIDE DEF k, b, d
    <3>1. \A i \in 1 .. copy'[t].done : Unit(copy[t].begin + i - 1)' = <<k, i>>
      BY <1>2, <1>7 DEF Unit, UnitNext
    <3> QED BY <1>1, <1>6, <1>7, <3>1 DEF CopyInv
  <2> QED BY <1>0, <1>1, <1>7, <2>1, CopiesKept
<1>14. ReadsInv'
  <2>1. ReadInv(t)' BY <1>1 DEF ReadInv, Reading
  <2> QED BY <1>0, <1>1, <1>4, <1>7, <2>1, ReadsKept
<1>15. KeysInv'
  <2>1. LiveRecords' = LiveRecords BY <1>0, <1>1, <1>4, LiveRecordsKept
  <2> QED BY <1>0, <1>1, <1>4, <1>7, <2>1, KeysKept
<1>16. BoundInv' BY <1>0, <1>1, <1>7, BoundKept
<1> QED BY <1>8, <1>9, <1>10, <1>11, <1>12, <1>13, <1>14, <1>15, <1>16 DEF BlockInv

\* The last chunk makes a record of the push.
LEMMA LastChunkEffect ==
  ASSUME BlockInv, NEW t \in Callers, WriteChunk(t), at' # at
  PROVE  LET k == copy[t].key
             a == copy[t].begin + 1
         IN
         /\ at[t] = "write" /\ at' = [at EXCEPT ![t] = "idle"]
         /\ copy' = [copy EXCEPT ![t] = NoCopy]
         /\ a \in Nat \ {0} /\ k \in Keys /\ a \notin DOMAIN written
         /\ written' = [c \in DOMAIN written \cup {a} |-> IF c = a THEN k ELSE written[c]]
         /\ \A c \in DOMAIN written : written'[c] = written[c]
         /\ written'[a] = k
         /\ \A i \in 1 .. RecordUnits(k) : UnitNext(a + i - 2) = <<k, i>>
         /\ LiveRecords' = LiveRecords \cup {a}
<1> DEFINE k == copy[t].key
           b == copy[t].begin
           d == copy[t].done
           a == b + 1
<1>0. /\ TypesInv /\ RangesInv /\ RecordsInv BY DEF BlockInv
<1>1. at[t] = "write" /\ SameRecords BY WriteChunkEffect
<1>2. PICK n \in 1 .. RecordUnits(k) - d :
        /\ \A i \in 1 .. d + n : UnitNext(b + i - 1) = <<k, i>>
        /\ IF d + n = RecordUnits(k)
           THEN /\ at' = [at EXCEPT ![t] = "idle"]
                /\ copy' = [copy EXCEPT ![t] = NoCopy]
                /\ written' = [c \in DOMAIN written \cup {a} |-> IF c = a THEN k ELSE written[c]]
           ELSE UNCHANGED <<at, written>>
  BY WriteChunkEffect
<1>3. d + n = RecordUnits(k) BY <1>2
<1>4. /\ at' = [at EXCEPT ![t] = "idle"] /\ copy' = [copy EXCEPT ![t] = NoCopy]
      /\ written' = [c \in DOMAIN written \cup {a} |-> IF c = a THEN k ELSE written[c]]
      /\ \A i \in 1 .. RecordUnits(k) : UnitNext(b + i - 1) = <<k, i>>
  BY <1>2, <1>3
<1>5. b \in Nat /\ k \in Keys /\ RecordUnits(k) \in Nat \ {0, 1}
  BY <1>0, <1>1, CallTypes DEF Pushing, Reserved
<1> HIDE DEF k, b
<1>6. a \in Nat \ {0} /\ a - 1 = b BY <1>5
<1>7. a \notin DOMAIN written
  <2> SUFFICES ASSUME a \in DOMAIN written PROVE FALSE OBVIOUS
  <2>1. Apart(b, RecordUnits(k), a - 1, RecordUnits(written[a]))
    BY <1>0, <1>1 DEF RangesInv, Reserved, b, k
  <2>2. RecordUnits(written[a]) \in Nat \ {0, 1} BY <1>0, WrittenTypes
  <2> QED BY <1>5, <1>6, <2>1, <2>2 DEF Apart
<1>8. /\ \A c \in DOMAIN written : written'[c] = written[c]
      /\ written'[a] = k
      /\ DOMAIN written' = DOMAIN written \cup {a}
  <2> HIDE DEF a
  <2> QED BY <1>4, <1>7
<1>9. \A i \in 1 .. RecordUnits(k) : UnitNext(a + i - 2) = <<k, i>>
  <2> SUFFICES ASSUME NEW i \in 1 .. RecordUnits(k) PROVE UnitNext(a + i - 2) = <<k, i>>
    OBVIOUS
  <2>1. a + i - 2 = b + i - 1 BY <1>5
  <2> HIDE DEF a
  <2> QED BY <1>4, <2>1
<1>10. LiveRecords' = LiveRecords \cup {a}
  <2>1. \A c \in DOMAIN written : Unit(c - 1)' = Unit(c - 1)
    BY <1>0, <1>1, FirstUnitKept DEF Unit, UnitNext
  <2>2. UnitNext(a - 1) = <<k, 1>>
    <3>1. 1 \in 1 .. RecordUnits(k) /\ a + 1 - 2 = a - 1 BY <1>5
    <3>2. UnitNext(a + 1 - 2) = <<k, 1>> BY <1>9, <3>1
    <3> QED BY <3>1, <3>2
  <2>3. <<k, 1>> # Zero BY DEF Zero
  <2>4. \A c \in DOMAIN written' : Unit(c - 1)' = UnitNext(c - 1)
    BY DEF Unit, UnitNext
  <2>5. LiveRecords' = {c \in DOMAIN written' : UnitNext(c - 1) # Zero}
    BY <2>4 DEF LiveRecords
  <2>6. \A c \in DOMAIN written : UnitNext(c - 1) = Unit(c - 1)
    BY <1>0, <1>1, FirstUnitKept
  <2> HIDE DEF a
  <2> QED BY <1>7, <1>8, <2>2, <2>3, <2>5, <2>6 DEF LiveRecords
<1> QED BY <1>1, <1>4, <1>5, <1>6, <1>7, <1>8, <1>9, <1>10 DEF k, b

LEMMA WriteLastInv ==
  ASSUME BlockInv, NEW t \in Callers, WriteChunk(t), at' # at
  PROVE  BlockInv'
<1> DEFINE k == copy[t].key
           a == copy[t].begin + 1
           r == RecordUnits(k)
<1>0. /\ TypesInv /\ LineInv /\ GrowthInv /\ RangesInv /\ RecordsInv /\ CopiesInv
      /\ ReadsInv /\ KeysInv /\ BoundInv
  BY DEF BlockInv
<1>1. /\ at[t] = "write" /\ data' \in Seq(Block) /\ Len(data') = Len(data)
      /\ \A i \in 1 .. Len(data) : data'[i] # EmptyBlock <=> data[i] # EmptyBlock
      /\ SameRecords /\ SameCopies(t)
      /\ UNCHANGED <<keys, capacity, top, line>>
  BY WriteChunkEffect
<1>2. /\ at' = [at EXCEPT ![t] = "idle"] /\ copy' = [copy EXCEPT ![t] = NoCopy]
      /\ a \in Nat \ {0} /\ k \in Keys /\ a \notin DOMAIN written
      /\ written' = [c \in DOMAIN written \cup {a} |-> IF c = a THEN k ELSE written[c]]
      /\ \A c \in DOMAIN written : written'[c] = written[c]
      /\ written'[a] = k
      /\ \A i \in 1 .. r : UnitNext(a + i - 2) = <<k, i>>
      /\ LiveRecords' = LiveRecords \cup {a}
  BY LastChunkEffect
<1>3. /\ at' \in [Callers -> Places] /\ at'[t] = "idle"
      /\ copy' \in [Callers -> Copies] /\ copy'[t] = NoCopy /\ Others(t)
  BY <1>0, <1>2, NoCopyType DEF TypesInv, Places, Others
<1>4. /\ at[t] \in Reserved /\ at[t] \in Fitted /\ at[t] \in Pushing
      /\ at'[t] \notin Reserved /\ at'[t] \notin Fitted /\ at'[t] \notin Pushing
  BY <1>1, <1>3 DEF Pushing, Reserved, Fitted
<1>5. /\ r \in Nat \ {0, 1} /\ copy[t].begin \in Nat /\ a - 1 = copy[t].begin
      /\ a - 1 + r <= capacity /\ a - 1 + r <= top
  <2>1. End(t) = copy[t].begin + r /\ End(t) <= capacity /\ End(t) <= top
    BY <1>0, <1>4, CallTypes DEF RangesInv
  <2> QED BY <1>0, <1>4, <2>1, CallTypes
<1>6. DOMAIN written' = DOMAIN written \cup {a} BY <1>2
<1> HIDE DEF a, r
<1>7. TypesInv'
  <2>1. \A u \in Callers : at'[u] = "idle" => copy'[u] = NoCopy
    BY <1>0, <1>3 DEF Others, TypesInv
  <2>2. \A u \in Callers : at'[u] \in Pushing => copy'[u].key \in keys
    BY <1>0, <1>3, <1>4 DEF Others, TypesInv
  <2>3. DOMAIN written' \subseteq Nat \ {0} /\ written' \in [DOMAIN written' -> Keys]
    <3>1. \A c \in DOMAIN written : c \in Nat \ {0} /\ written[c] \in Keys
      BY <1>0, WrittenTypes
    <3> HIDE DEF k
    <3> QED BY <1>2, <1>6, <3>1
  <2> QED BY <1>0, <1>1, <1>3, <2>1, <2>2, <2>3 DEF TypesInv
<1>8. LineInv' BY <1>0, <1>1, <1>3, KeepsPlaceInLine DEF InLine, Growing
<1>9. GrowthInv' BY <1>0, <1>1, <1>3, GrowthKept
<1>10. RangesInv'
  <2>1. \A u \in Callers : at'[u] \in Reserved =>
          u # t /\ at[u] \in Reserved /\ copy'[u] = copy[u] /\ End(u)' = End(u)
    BY <1>3, <1>4 DEF Others, End
  <2>2. \A u \in Callers : at'[u] \in Fitted => u # t /\ at[u] \in Fitted /\ End(u)' = End(u)
    BY <1>3, <1>4 DEF Others, End
  <2>3. \A u \in Callers : at'[u] \in Reserved => End(u)' <= top'
    BY <1>0, <1>1, <2>1 DEF RangesInv
  <2>4. \A u \in Callers : at'[u] \in Fitted => End(u)' <= capacity'
    BY <1>0, <1>1, <2>2 DEF RangesInv
  <2>5. \A u, v \in Callers : u # v /\ at'[u] \in Reserved /\ at'[v] \in Reserved =>
          Apart(copy'[u].begin, RecordUnits(copy'[u].key),
                copy'[v].begin, RecordUnits(copy'[v].key))
    BY <1>0, <2>1 DEF RangesInv
  <2>6. ASSUME NEW u \in Callers, at'[u] \in Reserved, NEW c \in DOMAIN written'
        PROVE  Apart(copy'[u].begin, RecordUnits(copy'[u].key), c - 1, RecordUnits(written'[c]))
    <3>1. CASE c \in DOMAIN written
      BY <1>0, <1>2, <2>1, <2>6, <3>1 DEF RangesInv
    <3>2. CASE c = a
      BY <1>0, <1>2, <1>4, <1>5, <2>1, <2>6, <3>2 DEF RangesInv, r
    <3> QED BY <1>6, <3>1, <3>2
  <2>7. ASSUME NEW c \in DOMAIN written
        PROVE  Apart(a - 1, r, c - 1, RecordUnits(written[c]))
    BY <1>0, <1>4, <1>5, <2>7 DEF RangesInv, r
  <2>8. ASSUME NEW c \in DOMAIN written', NEW e \in DOMAIN written', c # e
        PROVE  Apart(c - 1, RecordUnits(written'[c]), e - 1, RecordUnits(written'[e]))
    <3>1. CASE c \in DOMAIN written /\ e \in DOMAIN written
      BY <1>0, <1>2, <2>8, <3>1 DEF RangesInv
    <3>2. CASE c = a /\ e \in DOMAIN written
      BY <1>2, <2>7, <3>2 DEF r
    <3>3. CASE c \in DOMAIN written /\ e = a
      BY <1>2, <2>7, <3>3 DEF r, Apart
    <3> QED BY <1>6, <2>8, <3>1, <3>2, <3>3
  <2>9. \A c \in DOMAIN written' : /\ c - 1 + RecordUnits(written'[c]) <= capacity'
                                   /\ c - 1 + RecordUnits(written'[c]) <= top'
    BY <1>0, <1>1, <1>2, <1>5, <1>6 DEF RangesInv, r
  <2> HIDE DEF k
  <2> QED BY <2>3, <2>4, <2>5, <2>6, <2>8, <2>9 DEF RangesInv
<1>11. RecordsInv'
  <2> SUFFICES ASSUME NEW c \in DOMAIN written'
               PROVE  /\ UnitNext(c - 1) \in {Zero, <<written'[c], 1>>}
                      /\ \A i \in 2 .. RecordUnits(written'[c]) :
                           UnitNext(c + i - 2) = <<written'[c], i>>
    BY DEF RecordsInv, Unit, UnitNext
  <2>1. CASE c \in DOMAIN written
    <3>1. UnitNext(c - 1) = Unit(c - 1) BY <1>0, <1>1, <2>1, FirstUnitKept
    <3>2. ASSUME NEW i \in 2 .. RecordUnits(written[c])
          PROVE  UnitNext(c + i - 2) = Unit(c + i - 2)
      <4>1. i \in 1 .. RecordUnits(written[c]) BY <1>0, <2>1, WrittenTypes
      <4> QED BY <1>1, <2>1, <4>1 DEF SameRecords
    <3> QED BY <1>0, <1>2, <2>1, <3>1, <3>2 DEF RecordsInv
  <2>2. CASE c = a
    <3>1. UnitNext(a - 1) = <<k, 1>>
      <4>1. 1 \in 1 .. r /\ a + 1 - 2 = a - 1 BY <1>2, <1>5
      <4>2. UnitNext(a + 1 - 2) = <<k, 1>> BY <1>2, <4>1
      <4> QED BY <4>1, <4>2
    <3>2. \A i \in 2 .. r : i \in 1 .. r BY <1>5
    <3> QED BY <1>2, <2>2, <3>1, <3>2 DEF r
  <2> QED BY <1>6, <2>1, <2>2
<1>12. CopiesInv'
  <2>1. CopyInv(t)' BY <1>3, <1>4 DEF CopyInv
  <2> QED BY <1>0, <1>1, <1>3, <2>1, CopiesKept
<1>13. ReadsInv'
  <2>1. ReadInv(t)' BY <1>3 DEF ReadInv, Reading
  <2>2. \A c \in DOMAIN written : c \in DOMAIN written' /\ written'[c] = written[c]
    BY <1>2, <1>6
  <2> QED BY <1>0, <1>1, <1>3, <2>1, <2>2, ReadsKept
<1>14. KeysInv'
  <2> HIDE DEF k
  <2>0. LiveRecords' = LiveRecords \cup {a} /\ written'[a] = k /\ keys' = keys BY <1>1, <1>2
  <2>1. LiveRecords \subseteq DOMAIN written BY DEF LiveRecords
  <2>2. \A c \in LiveRecords : written'[c] = written[c] BY <1>2, <2>1
  <2>3. k \in keys BY <1>0, <1>4 DEF TypesInv, k
  <2>4. \A u \in Callers : at'[u] \in Pushing => u # t /\ at[u] \in Pushing /\ copy'[u] = copy[u]
    BY <1>3, <1>4 DEF Others
  <2>5. \A c \in LiveRecords : written[c] # k BY <1>0, <1>4 DEF KeysInv, k
  <2>6. \A u \in Callers : at'[u] \in Pushing => copy'[u].key # k
    BY <1>0, <1>4, <2>4 DEF KeysInv, k
  <2>7. \A c \in LiveRecords' : written'[c] \in keys'
    BY <1>0, <2>0, <2>2, <2>3 DEF KeysInv
  <2>8. \A c, e \in LiveRecords' : written'[c] = written'[e] => c = e
    BY <1>0, <2>0, <2>2, <2>5 DEF KeysInv
  <2>9. \A u \in Callers : at'[u] \in Pushing => \A c \in LiveRecords' : written'[c] # copy'[u].key
    BY <1>0, <2>0, <2>2, <2>4, <2>6 DEF KeysInv
  <2>10. \A u, v \in Callers : u # v /\ at'[u] \in Pushing /\ at'[v] \in Pushing =>
           copy'[u].key # copy'[v].key
    BY <1>0, <2>4 DEF KeysInv
  <2> QED BY <2>7, <2>8, <2>9, <2>10 DEF KeysInv
<1>15. BoundInv' BY <1>0, <1>1, <1>3, BoundKept
<1> QED BY <1>7, <1>8, <1>9, <1>10, <1>11, <1>12, <1>13, <1>14, <1>15 DEF BlockInv

\* Erasing clears the length of its record only.
LEMMA EraseEffect ==
  ASSUME BlockInv, NEW a \in DOMAIN written, EraseRecord(a)
  PROVE  /\ \A t \in Callers : at[t] = "idle"
         /\ a \in LiveRecords /\ keys' = keys \ {written[a]}
         /\ data' \in Seq(Block) /\ Len(data') = Len(data)
         /\ \A i \in 1 .. Len(data) : data'[i] # EmptyBlock <=> data[i] # EmptyBlock
         /\ UnitNext(a - 1) = Zero
         /\ \A q \in Nat : q < capacity /\ q # a - 1 => UnitNext(q) = Unit(q)
         /\ LiveRecords' = LiveRecords \ {a}
         /\ UNCHANGED <<capacity, top, written, line, at, copy>>
<1> DEFINE p == a - 1
           s == BlockOf(p)
           o == OffsetOf(p)
           new == [data[s] EXCEPT ![o] = Zero]
<1>0. TypesInv /\ GrowthInv /\ RangesInv BY DEF BlockInv
<1>1. /\ \A t \in Callers : at[t] = "idle"
      /\ Unit(p) # Zero /\ keys' = keys \ {written[a]}
      /\ data' = [data EXCEPT ![s][o] = Zero]
      /\ UNCHANGED <<capacity, top, written, line, at, copy>>
  BY DEF EraseRecord
<1>2. p \in Nat /\ p < capacity BY <1>0, FirstUnitBelow
<1> HIDE DEF p
<1>3. /\ s \in 1 .. Len(data) /\ data[s] \in [1 .. BlockLength -> Units]
      /\ data[s] # EmptyBlock /\ o \in 1 .. BlockLength
  BY <1>0, <1>2, CapacityIsSized, Positions
<1>4. data \in Seq(Block) /\ Len(data) \in Nat BY <1>0 DEF TypesInv
<1> HIDE DEF s, o
<1>5. new \in [1 .. BlockLength -> Units] /\ new[o] = Zero
      /\ \A i \in 1 .. BlockLength : i # o => new[i] = data[s][i]
  BY <1>3 DEF Units
<1>6. new # EmptyBlock /\ new \in Block
  <2>1. 1 \in DOMAIN new BY <1>5, Constants
  <2>2. 1 \notin DOMAIN EmptyBlock BY DEF EmptyBlock
  <2> HIDE DEF new
  <2> QED BY <1>5, <2>1, <2>2 DEF Block
<1>7. /\ data' \in Seq(Block) /\ Len(data') = Len(data) /\ data'[s] = new
      /\ \A i \in 1 .. Len(data) : i # s => data'[i] = data[i]
  <2>1. data' = [data EXCEPT ![s] = new] BY <1>1
  <2> HIDE DEF new
  <2> QED BY <1>3, <1>4, <1>6, <2>1
<1>8. \A i \in 1 .. Len(data) : data'[i] # EmptyBlock <=> data[i] # EmptyBlock
  <2> HIDE DEF new
  <2> QED BY <1>3, <1>6, <1>7
<1>9. UnitNext(p) = Zero BY <1>5, <1>7 DEF UnitNext, s, o
<1>10. ASSUME NEW q \in Nat, q < capacity, q # p PROVE UnitNext(q) = Unit(q)
  <2>1. BlockOf(q) \in 1 .. Len(data) /\ OffsetOf(q) \in 1 .. BlockLength
    BY <1>0, <1>10, CapacityIsSized, Positions
  <2>2. BlockOf(q) # s \/ OffsetOf(q) # o
    BY <1>2, <1>10, PositionsDiffer DEF s, o
  <2> HIDE DEF new
  <2> QED BY <1>5, <1>7, <2>1, <2>2 DEF Unit, UnitNext
<1>11. LiveRecords' = LiveRecords \ {a}
  <2>1. ASSUME NEW c \in DOMAIN written, c # a PROVE UnitNext(c - 1) = Unit(c - 1)
    <3>1. c - 1 \in Nat /\ c - 1 < capacity BY <1>0, FirstUnitBelow
    <3>2. c - 1 # p BY <1>0, <2>1, WrittenTypes DEF p
    <3> QED BY <1>10, <3>1, <3>2
  <2>2. LiveRecords' = {c \in DOMAIN written : UnitNext(c - 1) # Zero}
    BY <1>1 DEF LiveRecords, Unit, UnitNext
  <2> QED BY <1>9, <2>1, <2>2 DEF LiveRecords, p
<1> QED BY <1>1, <1>7, <1>8, <1>9, <1>10, <1>11 DEF p, LiveRecords

LEMMA EraseRecordInv ==
  ASSUME BlockInv, NEW a \in DOMAIN written, EraseRecord(a)
  PROVE  BlockInv'
<1>0. /\ TypesInv /\ LineInv /\ GrowthInv /\ RangesInv /\ RecordsInv /\ KeysInv /\ BoundInv
  BY DEF BlockInv
<1>1. /\ \A t \in Callers : at[t] = "idle"
      /\ keys' = keys \ {written[a]}
      /\ data' \in Seq(Block) /\ Len(data') = Len(data)
      /\ \A i \in 1 .. Len(data) : data'[i] # EmptyBlock <=> data[i] # EmptyBlock
      /\ UnitNext(a - 1) = Zero
      /\ \A q \in Nat : q < capacity /\ q # a - 1 => UnitNext(q) = Unit(q)
      /\ LiveRecords' = LiveRecords \ {a}
      /\ UNCHANGED <<capacity, top, written, line, at, copy>>
  BY EraseEffect
<1>2. \A t \in Callers : at'[t] = "idle" BY <1>1
<1>3. TypesInv'
  <2>1. \A t \in Callers : at'[t] \notin Pushing BY <1>2 DEF Pushing, Reserved
  <2>2. keys' \subseteq Keys BY <1>0, <1>1 DEF TypesInv
  <2> QED BY <1>0, <1>1, <2>1, <2>2 DEF TypesInv
<1>4. LineInv' BY <1>0, <1>1 DEF LineInv, NextInLine, Inside
<1>5. GrowthInv' BY <1>0, <1>1, <1>2 DEF GrowthInv
<1>6. RangesInv' BY <1>0, <1>1 DEF RangesInv, End
<1>7. RecordsInv'
  <2> SUFFICES ASSUME NEW c \in DOMAIN written
               PROVE  /\ UnitNext(c - 1) \in {Zero, <<written[c], 1>>}
                      /\ \A i \in 2 .. RecordUnits(written[c]) :
                           UnitNext(c + i - 2) = <<written[c], i>>
    BY <1>1 DEF RecordsInv, Unit, UnitNext
  <2>0. /\ a \in Nat \ {0} /\ c \in Nat \ {0}
        /\ RecordUnits(written[a]) \in Nat \ {0, 1} /\ RecordUnits(written[c]) \in Nat \ {0, 1}
        /\ c # a => Apart(c - 1, RecordUnits(written[c]), a - 1, RecordUnits(written[a]))
    BY <1>0, WrittenTypes DEF RangesInv
  <2>1. UnitNext(c - 1) \in {Zero, <<written[c], 1>>}
    <3>1. CASE c = a BY <1>1, <3>1
    <3>2. CASE c # a
      <4>1. c - 1 \in Nat /\ c - 1 < capacity /\ c - 1 # a - 1
        BY <1>0, <2>0, <3>2, FirstUnitBelow
      <4> QED BY <1>0, <1>1, <4>1 DEF RecordsInv
    <3> QED BY <3>1, <3>2
  <2>2. ASSUME NEW i \in 2 .. RecordUnits(written[c])
        PROVE  UnitNext(c + i - 2) = <<written[c], i>>
    <3>1. i \in 1 .. RecordUnits(written[c]) BY <2>0
    <3>2. c + i - 2 \in Nat /\ c + i - 2 < capacity BY <1>0, <3>1, RecordUnitsBelow
    <3>3. c + i - 2 # a - 1
      <4>1. CASE c = a BY <2>0, <4>1
      <4>2. CASE c # a BY <2>0, <4>2 DEF Apart
      <4> QED BY <4>1, <4>2
    <3> QED BY <1>0, <1>1, <3>2, <3>3 DEF RecordsInv
  <2> QED BY <2>1, <2>2
<1>8. CopiesInv' BY <1>2 DEF CopiesInv, CopyInv, Pushing, Reserved
<1>9. ReadsInv' BY <1>2 DEF ReadsInv, ReadInv, Reading
<1>10. KeysInv'
  <2>1. \A t \in Callers : at'[t] \notin Pushing BY <1>2 DEF Pushing, Reserved
  <2>2. \A c \in LiveRecords' : c \in LiveRecords /\ c # a BY <1>1
  <2>3. a \in LiveRecords BY EraseEffect
  <2>4. \A c \in LiveRecords' : written[c] \in keys' BY <1>0, <1>1, <2>2, <2>3 DEF KeysInv
  <2> QED BY <1>0, <1>1, <2>1, <2>2, <2>4 DEF KeysInv
<1>11. BoundInv' BY <1>0, <1>1 DEF BoundInv, Unreserved
<1> QED BY <1>3, <1>4, <1>5, <1>6, <1>7, <1>8, <1>9, <1>10, <1>11 DEF BlockInv

-----------------------------------------------------------------------------
(* The invariant holds.                                                    *)

LEMMA BlockInitInv == ASSUME BlockInit PROVE BlockInv
<1>1. /\ keys = {} /\ data = <<>> /\ capacity = 0 /\ top = 0 /\ DOMAIN written = {}
      /\ written \in [{} -> Keys]
      /\ line = <<>> /\ at = [t \in Callers |-> "idle"]
      /\ copy = [t \in Callers |-> NoCopy]
  BY DEF BlockInit
<1>2. \A t \in Callers : at[t] = "idle" BY <1>1
<1>3. TypesInv
  <2>1. \A t \in Callers : at[t] \notin Pushing BY <1>2 DEF Pushing, Reserved
  <2>2. data \in Seq(Block) BY <1>1
  <2>3. at \in [Callers -> Places] BY <1>1 DEF Places
  <2>4. copy \in [Callers -> Copies] BY <1>1, NoCopyType
  <2> QED BY <1>1, <2>1, <2>2, <2>3, <2>4 DEF TypesInv
<1>4. LineInv
  <2>1. line \in Seq(Callers) /\ Len(line) = 0 BY <1>1
  <2> QED BY <1>2, <2>1 DEF LineInv, InLine, Growing
<1>5. GrowthInv
  <2>1. Len(data) = 0 /\ 0 * BlockLength = 0 BY <1>1, Constants
  <2>2. \A i \in 1 .. 0 : FALSE OBVIOUS
  <2> QED BY <1>1, <1>2, <2>1, <2>2 DEF GrowthInv
<1>6. RangesInv BY <1>1, <1>2 DEF RangesInv, Reserved, Fitted
<1>7. RecordsInv BY <1>1 DEF RecordsInv
<1>8. CopiesInv BY <1>2 DEF CopiesInv, CopyInv, Pushing, Reserved
<1>9. ReadsInv BY <1>2 DEF ReadsInv, ReadInv, Reading
<1>10. KeysInv BY <1>1, <1>2 DEF KeysInv, LiveRecords, Pushing, Reserved
<1>11. BoundInv
  <2>1. Unreserved = {} BY <1>2 DEF Unreserved
  <2>2. Cardinality(Unreserved) = 0 BY <2>1, FS_EmptySet
  <2>3. Cardinality(Callers) \in Nat BY UnreservedCount
  <2>4. MaxUnits * (1 + (Cardinality(Callers) - 0)) \in Nat BY <2>3, Constants
  <2> QED BY <1>1, <2>1, <2>2, <2>4 DEF BoundInv
<1> QED BY <1>3, <1>4, <1>5, <1>6, <1>7, <1>8, <1>9, <1>10, <1>11 DEF BlockInv

LEMMA StutterInv == ASSUME BlockInv, UNCHANGED blockVars PROVE BlockInv'
<1>1. UNCHANGED <<keys, data, capacity, top, written, line, at, copy>> BY DEF blockVars
<1>2. Unreserved' = Unreserved /\ LiveRecords' = LiveRecords /\ Inside' = Inside
  BY <1>1 DEF Unreserved, LiveRecords, Unit, Inside
<1>3. TypesInv' BY <1>1 DEF BlockInv, TypesInv
<1>4. LineInv' BY <1>1, <1>2 DEF BlockInv, LineInv, NextInLine
<1>5. GrowthInv' BY <1>1 DEF BlockInv, GrowthInv, End, Blocks
<1>6. RangesInv' BY <1>1 DEF BlockInv, RangesInv, End
<1>7. RecordsInv' BY <1>1 DEF BlockInv, RecordsInv, Unit
<1>8. CopiesInv' BY <1>1 DEF BlockInv, CopiesInv, CopyInv, Unit
<1>9. ReadsInv' BY <1>1 DEF BlockInv, ReadsInv, ReadInv, Unit
<1>10. KeysInv' BY <1>1, <1>2 DEF BlockInv, KeysInv
<1>11. BoundInv' BY <1>1, <1>2 DEF BlockInv, BoundInv
<1> QED BY <1>3, <1>4, <1>5, <1>6, <1>7, <1>8, <1>9, <1>10, <1>11 DEF BlockInv

LEMMA ContinueInv ==
  ASSUME BlocksAreSized, BlockInv, NEW t \in Callers, Continue(t)
  PROVE  BlockInv'
<1>1. CASE ReserveUnits(t) BY <1>1, ReserveUnitsInv
<1>2. CASE CheckCapacity(t) BY <1>2, CheckCapacityInv
<1>3. CASE AskToGrow(t) BY <1>3, AskToGrowInv
<1>4. CASE EnterGrow(t) BY <1>4, EnterGrowInv
<1>5. CASE CapacitySuffices(t) BY <1>5, CapacitySufficesInv
<1>6. CASE GrowVector(t) BY <1>6, GrowVectorInv
<1>7. CASE SizeBlock(t) BY <1>7, SizeBlockInv
<1>8. CASE FinishGrow(t) BY <1>8, FinishGrowInv
<1>9. CASE AllocationFails(t) BY <1>9, AllocationFailsInv
<1>10. CASE AskToWrite(t) BY <1>10, AskToWriteInv
<1>11. CASE EnterWrite(t) BY <1>11, EnterWriteInv
<1>12. CASE WriteChunk(t)
  <2>1. CASE at' = at BY <1>12, <2>1, WritePartInv
  <2>2. CASE at' # at BY <1>12, <2>2, WriteLastInv
  <2> QED BY <2>1, <2>2
<1>13. CASE EnterRead(t) BY <1>13, EnterReadInv
<1>14. CASE ReadLength(t) BY <1>14, ReadLengthInv
<1>15. CASE ReadChunk(t) BY <1>15, ReadChunkInv
<1>16. CASE ReturnRead(t) BY <1>16, ReturnReadInv
<1> QED
  BY <1>1, <1>2, <1>3, <1>4, <1>5, <1>6, <1>7, <1>8, <1>9, <1>10, <1>11, <1>12, <1>13,
     <1>14, <1>15, <1>16 DEF Continue

LEMMA BlockNextInv ==
  ASSUME BlocksAreSized, BlockInv, [BlockNext]_blockVars
  PROVE  BlockInv'
<1>1. ASSUME NEW t \in Callers, Continue(t) PROVE BlockInv' BY <1>1, ContinueInv
<1>2. ASSUME NEW t \in Callers, NEW k \in Keys, ClaimKey(t, k) PROVE BlockInv'
  BY <1>2, ClaimKeyInv
<1>3. ASSUME NEW t \in Callers, NEW k \in Keys, KeyIsKnown(t, k) PROVE BlockInv'
  BY <1>3, StutterInv DEF KeyIsKnown
<1>4. ASSUME NEW t \in Callers, NEW a \in DOMAIN written, AskToRead(t, a) PROVE BlockInv'
  BY <1>4, AskToReadInv
<1>5. ASSUME NEW a \in DOMAIN written, EraseRecord(a) PROVE BlockInv'
  BY <1>5, EraseRecordInv
<1>6. CASE UNCHANGED blockVars BY <1>6, StutterInv
<1> QED BY <1>1, <1>2, <1>3, <1>4, <1>5, <1>6 DEF BlockNext

\* However pushes, growth, reads and erasures of the threads interleave, and
\* whichever growths of the outer vector throw.
THEOREM BlockInvariant ==
  ASSUME BlocksAreSized
  PROVE  BlockSafetySpec => []BlockInv
<1>1. BlockInit => BlockInv BY BlockInitInv
<1>2. BlockInv /\ [BlockNext]_blockVars => BlockInv' BY BlockNextInv
<1> QED BY <1>1, <1>2, PTL DEF BlockSafetySpec

\* ensure_capacity(): the look at the capacity without the lock, the second one
\* under it and the growth by other threads together give every push room for
\* its whole record until it is written. Without the hypothesis this is false
\* (run block_allocation).
THEOREM RangesFit ==
  ASSUME BlocksAreSized
  PROVE  BlockSafetySpec => []RangeFits
<1>1. BlockInv => RangeFits
  <2> SUFFICES ASSUME BlockInv, NEW t \in Callers, at[t] \in Fitted,
                      NEW p \in copy[t].begin .. End(t) - 1
               PROVE  BlockOf(p) \in SizedBlocks
    BY DEF RangeFits, Fitted
  <2>1. TypesInv /\ GrowthInv /\ End(t) <= capacity BY DEF BlockInv, RangesInv
  <2>2. copy[t].begin \in Nat /\ End(t) \in Nat /\ capacity \in Nat
    BY <2>1, CallTypes DEF Pushing, Reserved, Fitted, TypesInv
  <2>3. p \in Nat /\ p < capacity BY <2>1, <2>2
  <2> QED BY <2>1, <2>3, CapacityIsSized DEF SizedBlocks
<1> QED BY <1>1, BlockInvariant, PTL

\* read() and read_facet() copy block by block without knowing who else writes:
\* what they return is the record that was pushed, all of it, or the empty
\* signature of an erased one.
THEOREM ReadsStayFaithful ==
  ASSUME BlocksAreSized
  PROVE  BlockSafetySpec => []ReadsAreFaithful
<1>1. BlockInv => ReadsAreFaithful
  BY DEF BlockInv, ReadsInv, ReadInv, Reading, ReadsAreFaithful
<1> QED BY <1>1, BlockInvariant, PTL

-----------------------------------------------------------------------------
(* The blocks implement the plain store of SignatureStore.                 *)

\* What the refinement reads out of the blocks is what was pushed.
DecodesAsWritten == [a \in LiveRecords |-> Decode(a)] = [a \in LiveRecords |-> written[a]]

LEMMA DecodeWritten == BlockInv => DecodesAsWritten
<1> SUFFICES ASSUME BlockInv, NEW a \in LiveRecords PROVE Decode(a) = written[a]
  BY DEF DecodesAsWritten
<1>0. TypesInv /\ RecordsInv /\ a \in DOMAIN written /\ Unit(a - 1) # Zero
  BY DEF BlockInv, LiveRecords
<1>1. a \in Nat \ {0} /\ written[a] \in Keys /\ RecordUnits(written[a]) \in Nat \ {0, 1}
  BY <1>0, WrittenTypes
<1>2. Unit(a - 1) = <<written[a], 1>> BY <1>0 DEF RecordsInv
<1>3. Holds(a, written[a])
  <2> SUFFICES ASSUME NEW i \in 1 .. RecordUnits(written[a])
               PROVE  Unit(a + i - 2) = <<written[a], i>>
    BY DEF Holds
  <2>1. CASE i = 1
    <3>1. a + i - 2 = a - 1 BY <1>1, <2>1
    <3> QED BY <1>2, <2>1, <3>1
  <2>2. CASE i # 1
    <3>1. i \in 2 .. RecordUnits(written[a]) BY <1>1, <2>2
    <3> QED BY <1>0, <3>1 DEF RecordsInv
  <2> QED BY <2>1, <2>2
<1>4. ASSUME NEW k \in Keys, Holds(a, k) PROVE k = written[a]
  <2>1. 1 \in 1 .. RecordUnits(k) /\ a + 1 - 2 = a - 1 BY <1>1, RecordLength
  <2>2. Unit(a + 1 - 2) = <<k, 1>> BY <1>4, <2>1 DEF Holds
  <2> QED BY <1>2, <2>1, <2>2
<1> QED BY <1>1, <1>3, <1>4 DEF Decode

\* A step that is none of the store's.
LEMMA StoreStutters ==
  ASSUME DecodesAsWritten, DecodesAsWritten',
         keys' = keys, written' = written, LiveRecords' = LiveRecords
  PROVE  UNCHANGED Store!vars
<1>1. [a \in LiveRecords |-> Decode(a)]' = [a \in LiveRecords |-> Decode(a)]
  BY DEF DecodesAsWritten
<1> QED BY <1>1 DEF Store!vars

\* Nothing is reserved beyond the bound the store is instantiated with.
LEMMA AddressBound ==
  ASSUME BlockInv, NEW a \in Nat, a <= top
  PROVE  a \in 0 .. MaxUnits * (Cardinality(Callers) + 1)
<1> DEFINE C == Cardinality(Callers)
           U == Cardinality(Unreserved)
<1>1. C \in Nat /\ U \in Nat /\ U <= C BY UnreservedCount
<1>2. top \in Nat /\ top <= MaxUnits * (1 + (C - U)) BY DEF BlockInv, TypesInv, BoundInv
<1> HIDE DEF C, U
<1> DEFINE m == 1 + (C - U)
<1>3. m \in Nat /\ C + 1 = m + U BY <1>1
<1> HIDE DEF m
<1>4. MaxUnits * (m + U) = MaxUnits * m + MaxUnits * U BY <1>1, <1>3, Constants
<1>5. MaxUnits * U \in Nat /\ MaxUnits * m \in Nat BY <1>1, <1>3, Constants
<1>6. top <= MaxUnits * m BY <1>2 DEF m
<1>7. a \in 0 .. MaxUnits * (C + 1) BY <1>2, <1>3, <1>4, <1>5, <1>6
<1> QED BY <1>7 DEF C

LEMMA AddressesFit ==
  ASSUME BlockInv, NEW t \in Callers, at[t] \in Reserved
  PROVE  copy[t].begin + 1 \in 0 .. MaxUnits * (Cardinality(Callers) + 1)
<1>1. /\ copy[t].begin \in Nat /\ RecordUnits(copy[t].key) \in Nat \ {0, 1}
      /\ End(t) = copy[t].begin + RecordUnits(copy[t].key) /\ End(t) <= top
  BY CallTypes DEF BlockInv, Pushing, RangesInv
<1>2. top \in Nat BY DEF BlockInv, TypesInv
<1>3. copy[t].begin + 1 \in Nat /\ copy[t].begin + 1 <= top BY <1>1, <1>2
<1> QED BY <1>3, AddressBound

\* A claimed signature is accepted.
LEMMA ClaimAccepts ==
  ASSUME BlockInv, BlockInv', DecodesAsWritten, DecodesAsWritten',
         NEW t \in Callers, NEW k \in Keys, ClaimKey(t, k)
  PROVE  Store!Accept(k)
<1>1. k \notin keys /\ keys' = keys \cup {k} /\ UNCHANGED <<data, written>>
  BY DEF ClaimKey
<1>2. LiveRecords' = LiveRecords BY <1>1 DEF LiveRecords, Unit
<1>3. [a \in LiveRecords |-> Decode(a)]' = [a \in LiveRecords |-> Decode(a)]
  BY <1>1, <1>2 DEF DecodesAsWritten
<1> QED BY <1>1, <1>3 DEF Store!Accept

\* The last chunk makes the record, under an address nobody had.
LEMMA LastChunkRecords ==
  ASSUME BlockInv, DecodesAsWritten, DecodesAsWritten',
         NEW t \in Callers, WriteChunk(t), at' # at
  PROVE  Store!Record(copy[t].key, copy[t].begin + 1)
<1> DEFINE k == copy[t].key
           a == copy[t].begin + 1
           live == [b \in LiveRecords |-> written[b]]
           decoded == [b \in LiveRecords |-> Decode(b)]
<1>1. /\ at[t] = "write"
      /\ a \in Nat \ {0} /\ k \in Keys /\ a \notin DOMAIN written
      /\ written' = [c \in DOMAIN written \cup {a} |-> IF c = a THEN k ELSE written[c]]
      /\ \A c \in DOMAIN written : written'[c] = written[c]
      /\ written'[a] = k
      /\ LiveRecords' = LiveRecords \cup {a}
  BY LastChunkEffect
<1>2. keys' = keys BY DEF WriteChunk
<1>3. at[t] \in Pushing BY <1>1 DEF Pushing, Reserved
<1>4. k \in keys /\ \A b \in LiveRecords : written[b] # k
  BY <1>3 DEF BlockInv, TypesInv, KeysInv
<1>5. LiveRecords \subseteq DOMAIN written BY DEF LiveRecords
<1>6. decoded = live /\ decoded' = live' BY DEF DecodesAsWritten
<1> HIDE DEF k, a
<1>7. decoded' = [b \in DOMAIN decoded \cup {a} |-> IF b = a THEN k ELSE decoded[b]]
  <2>1. live' = [b \in LiveRecords' |-> written'[b]] OBVIOUS
  <2>2. DOMAIN decoded = LiveRecords /\ \A b \in LiveRecords : decoded[b] = written[b]
    BY <1>6
  <2>3. \A b \in LiveRecords \cup {a} : written'[b] = IF b = a THEN k ELSE decoded[b]
    BY <1>1, <1>5, <2>2
  <2> HIDE DEF decoded
  <2> QED BY <1>1, <1>6, <2>1, <2>2, <2>3
<1>8. \A b \in DOMAIN decoded : decoded[b] # k BY <1>4, <1>6
<1>9. DOMAIN written' = DOMAIN written \cup {a} BY <1>1
<1> QED BY <1>1, <1>2, <1>4, <1>7, <1>8, <1>9 DEF Store!Record, k, a

\* An erasure removes the record and frees the signature.
LEMMA EraseRemoves ==
  ASSUME BlockInv, DecodesAsWritten, DecodesAsWritten',
         NEW a \in DOMAIN written, EraseRecord(a)
  PROVE  Store!Remove(a)
<1> DEFINE decoded == [b \in LiveRecords |-> Decode(b)]
<1>1. a \in LiveRecords /\ keys' = keys \ {written[a]} /\ written' = written
      /\ LiveRecords' = LiveRecords \ {a}
  BY EraseEffect
<1>2. /\ decoded = [b \in LiveRecords |-> written[b]]
      /\ decoded' = [b \in LiveRecords' |-> written'[b]]
  BY DEF DecodesAsWritten
<1>3. DOMAIN decoded = LiveRecords /\ \A b \in LiveRecords : decoded[b] = written[b]
  BY <1>2
<1>4. decoded' = [b \in DOMAIN decoded \ {a} |-> decoded[b]]
  <2> HIDE DEF decoded
  <2> QED BY <1>1, <1>2, <1>3
<1> QED BY <1>1, <1>3, <1>4 DEF Store!Remove

\* What a thread does between its calls to the store leaves the store alone.
LEMMA ContinueRefines ==
  ASSUME BlockInv, DecodesAsWritten, DecodesAsWritten', NEW t \in Callers, Continue(t)
  PROVE  [Store!Next]_(Store!vars)
<1>0. TypesInv /\ RangesInv BY DEF BlockInv
<1>1. ASSUME UNCHANGED <<keys, data, written>> PROVE UNCHANGED Store!vars
  <2>1. LiveRecords' = LiveRecords BY <1>1 DEF LiveRecords, Unit
  <2> QED BY <1>1, <2>1, StoreStutters
<1>2. ASSUME SameRecords, UNCHANGED <<keys, written>> PROVE UNCHANGED Store!vars
  <2>1. LiveRecords' = LiveRecords BY <1>0, <1>2, LiveRecordsKept
  <2> QED BY <1>2, <2>1, StoreStutters
<1>3. CASE GrowVector(t)
  <2>1. SameRecords BY <1>0, <1>3, GrowVectorInv, SameBelowCapacity
  <2> QED BY <1>2, <1>3, <2>1 DEF GrowVector
<1>4. CASE SizeBlock(t)
  <2>1. SameRecords BY <1>0, <1>4, SizeBlockInv, SameBelowCapacity
  <2> QED BY <1>2, <1>4, <2>1 DEF SizeBlock
<1>5. CASE WriteChunk(t) /\ at' = at
  <2>1. at[t] = "write" /\ at[t] # "idle" BY <1>5, WriteChunkEffect
  <2>2. at' # [at EXCEPT ![t] = "idle"] BY <1>0, <1>5, <2>1 DEF TypesInv
  <2>3. SameRecords /\ written' = written BY <1>5, <2>2, WriteChunkEffect
  <2> QED BY <1>2, <1>5, <2>3 DEF WriteChunk
<1>6. CASE WriteChunk(t) /\ at' # at
  <2>1. Store!Record(copy[t].key, copy[t].begin + 1) BY <1>6, LastChunkRecords
  <2>2. at[t] = "write" /\ copy[t].key \in Keys BY <1>6, LastChunkEffect
  <2>3. copy[t].begin + 1 \in 0 .. MaxUnits * (Cardinality(Callers) + 1)
    BY <2>2, AddressesFit DEF Reserved
  <2> QED BY <2>1, <2>2, <2>3 DEF Store!Next
<1>7. CASE \/ ReserveUnits(t) \/ CheckCapacity(t) \/ AskToGrow(t) \/ EnterGrow(t)
           \/ CapacitySuffices(t) \/ FinishGrow(t) \/ AllocationFails(t) \/ AskToWrite(t)
           \/ EnterWrite(t) \/ EnterRead(t) \/ ReadLength(t) \/ ReadChunk(t) \/ ReturnRead(t)
  <2>1. UNCHANGED <<keys, data, written>>
    BY <1>7 DEF ReserveUnits, CheckCapacity, AskToGrow, EnterGrow, CapacitySuffices,
                FinishGrow, AllocationFails, AskToWrite, Ask, EnterWrite, EnterRead,
                ReadLength, ReadChunk, ReturnRead
  <2> QED BY <1>1, <2>1
<1> QED BY <1>3, <1>4, <1>5, <1>6, <1>7 DEF Continue

LEMMA StepRefines ==
  ASSUME BlockInv, BlockInv', DecodesAsWritten, DecodesAsWritten', [BlockNext]_blockVars
  PROVE  [Store!Next]_(Store!vars)
<1>1. ASSUME NEW t \in Callers, Continue(t) PROVE [Store!Next]_(Store!vars)
  BY <1>1, ContinueRefines
<1>2. ASSUME NEW t \in Callers, NEW k \in Keys, ClaimKey(t, k) PROVE [Store!Next]_(Store!vars)
  BY <1>2, ClaimAccepts DEF Store!Next
<1>3. ASSUME UNCHANGED <<keys, data, written>> PROVE [Store!Next]_(Store!vars)
  <2>1. LiveRecords' = LiveRecords BY <1>3 DEF LiveRecords, Unit
  <2> QED BY <1>3, <2>1, StoreStutters
<1>4. ASSUME NEW t \in Callers, NEW k \in Keys, KeyIsKnown(t, k)
      PROVE  UNCHANGED <<keys, data, written>>
  BY <1>4 DEF KeyIsKnown, blockVars
<1>5. ASSUME NEW t \in Callers, NEW a \in DOMAIN written, AskToRead(t, a)
      PROVE  UNCHANGED <<keys, data, written>>
  BY <1>5 DEF AskToRead
<1>6. ASSUME NEW a \in DOMAIN written, EraseRecord(a) PROVE [Store!Next]_(Store!vars)
  <2>1. Store!Remove(a) BY <1>6, EraseRemoves
  <2>2. a \in 0 .. MaxUnits * (Cardinality(Callers) + 1)
    <3>1. a \in Nat \ {0} /\ a - 1 + RecordUnits(written[a]) <= top
          /\ RecordUnits(written[a]) \in Nat \ {0, 1} /\ top \in Nat
      BY WrittenTypes DEF BlockInv, RangesInv, TypesInv
    <3>2. a \in Nat /\ a <= top BY <3>1
    <3> QED BY <3>2, AddressBound
  <2> QED BY <2>1, <2>2 DEF Store!Next
<1>7. CASE UNCHANGED blockVars BY <1>3, <1>7 DEF blockVars
<1> QED BY <1>1, <1>2, <1>3, <1>4, <1>5, <1>6, <1>7 DEF BlockNext

\* Byte ranges, growth, chunked copies and the unlocked look at the capacity
\* together implement the plain store: push() gives a signature it accepts one
\* record under a new address, and only erase() takes either away.
THEOREM StoreRefinement ==
  ASSUME BlocksAreSized
  PROVE  BlockSafetySpec => ImplementsSignatureStore
<1>1. BlockInit => Store!Init
  <2> SUFFICES ASSUME BlockInit PROVE Store!Init OBVIOUS
  <2>1. keys = {} /\ DOMAIN written = {} BY DEF BlockInit
  <2>2. LiveRecords = {} BY <2>1 DEF LiveRecords
  <2> QED BY <2>1, <2>2 DEF Store!Init
<1>2. BlockInv /\ BlockInv' /\ DecodesAsWritten /\ DecodesAsWritten' /\ [BlockNext]_blockVars
        => [Store!Next]_(Store!vars)
  BY StepRefines
<1>3. BlockSafetySpec => []BlockInv BY BlockInvariant
<1>4. BlockInv => DecodesAsWritten BY DecodeWritten
<1> QED BY <1>1, <1>2, <1>3, <1>4, PTL
        DEF BlockSafetySpec, ImplementsSignatureStore, Store!Spec

-----------------------------------------------------------------------------
(* The line of the store is the fair lock of FairReadWriteLock.            *)

\* What is kept of the invariant when blocks fail to be sized, too.
LockInv == DOMAIN at = Callers /\ DOMAIN copy = Callers /\ LineInv

Outside == {"idle", "reserve", "ensure", "askToGrow", "askToWrite", "answer"}
Entered == {"read", "write"}

\* The ways in which a step of a thread can concern the lock.
Moves(t) == DOMAIN at' = Callers /\ DOMAIN copy' = Callers /\ Others(t)
Asks(t) ==
  /\ Moves(t) /\ line' = Append(line, t)
  /\ at[t] \in Outside /\ at'[t] \in InLine \ Growing
IsAdmitted(t) ==
  /\ Moves(t) /\ NextInLine(t) /\ LeaveLine
  /\ at[t] \in {"waitToRead", "waitToWrite"} /\ at'[t] \in Entered
BecomesWriter(t) ==
  /\ Moves(t) /\ line' = line /\ NextInLine(t) /\ Inside = {}
  /\ at[t] = "waitToGrow" /\ at'[t] \in Growing
StopsReading(t) ==
  /\ Moves(t) /\ line' = line
  /\ at[t] \in Entered /\ at'[t] \in Outside
StopsWriting(t) ==
  /\ Moves(t) /\ LeaveLine
  /\ at[t] \in Growing /\ at'[t] \in Outside
GoesOn(t) ==
  /\ Moves(t) /\ line' = line
  /\ \/ at'[t] = at[t]
     \/ at[t] \in Growing /\ at'[t] \in Growing
     \/ at[t] \in Outside /\ at'[t] \in Outside
LockStep(t) == \/ Asks(t) \/ IsAdmitted(t) \/ BecomesWriter(t)
               \/ StopsReading(t) \/ StopsWriting(t) \/ GoesOn(t)

LEMMA CallerMoves ==
  ASSUME DOMAIN at = Callers, DOMAIN copy = Callers, NEW t \in Callers, NEW to, NEW c,
         at' = [at EXCEPT ![t] = to], copy' = copy \/ copy' = [copy EXCEPT ![t] = c]
  PROVE  Moves(t) /\ at'[t] = to
BY DEF Moves, Others

LEMMA ClaimLocks ==
  ASSUME LockInv, NEW t \in Callers, NEW k, ClaimKey(t, k)
  PROVE  LockStep(t)
<1>1. /\ at[t] = "idle" /\ at' = [at EXCEPT ![t] = "reserve"]
      /\ copy' = [copy EXCEPT ![t] = [copy[t] EXCEPT !.key = k]] /\ line' = line
  BY DEF ClaimKey, Goto
<1>2. Moves(t) /\ at'[t] = "reserve" BY <1>1, CallerMoves DEF LockInv
<1> QED BY <1>1, <1>2 DEF LockStep, GoesOn, Outside

LEMMA AskToReadLocks ==
  ASSUME LockInv, NEW t \in Callers, NEW a, AskToRead(t, a)
  PROVE  LockStep(t)
<1>1. /\ at[t] = "idle" /\ at' = [at EXCEPT ![t] = "waitToRead"]
      /\ copy' = [copy EXCEPT ![t] = [copy[t] EXCEPT !.begin = a - 1]]
      /\ line' = Append(line, t)
  BY DEF AskToRead, Goto
<1>2. Moves(t) /\ at'[t] = "waitToRead" BY <1>1, CallerMoves DEF LockInv
<1> QED BY <1>1, <1>2 DEF LockStep, Asks, Outside, InLine, Growing

\* Reserving, looking at the capacity and asking for the lock.
LEMMA PushLocks ==
  ASSUME LockInv, NEW t \in Callers,
         \/ ReserveUnits(t) \/ CheckCapacity(t) \/ AskToGrow(t) \/ AskToWrite(t)
         \/ EnterWrite(t) \/ WriteChunk(t)
  PROVE  LockStep(t)
<1>1. CASE ReserveUnits(t)
  <2>1. /\ at[t] = "reserve" /\ at' = [at EXCEPT ![t] = "ensure"] /\ line' = line
        /\ copy' = [copy EXCEPT ![t] = [copy[t] EXCEPT !.begin = top]]
    BY <1>1 DEF ReserveUnits, Goto
  <2>2. Moves(t) /\ at'[t] = "ensure" BY <2>1, CallerMoves DEF LockInv
  <2> QED BY <2>1, <2>2 DEF LockStep, GoesOn, Outside
<1>2. CASE CheckCapacity(t)
  <2> DEFINE to == IF capacity >= End(t) THEN "askToWrite" ELSE "askToGrow"
  <2>1. /\ at[t] = "ensure" /\ at' = [at EXCEPT ![t] = to] /\ line' = line /\ copy' = copy
    BY <1>2 DEF CheckCapacity
  <2>2. to \in Outside BY DEF Outside
  <2> HIDE DEF to
  <2>3. Moves(t) /\ at'[t] = to BY <2>1, CallerMoves DEF LockInv
  <2> QED BY <2>1, <2>2, <2>3 DEF LockStep, GoesOn, Outside
<1>3. CASE AskToGrow(t)
  <2>1. /\ at[t] = "askToGrow" /\ at' = [at EXCEPT ![t] = "waitToGrow"]
        /\ line' = Append(line, t) /\ copy' = copy
    BY <1>3 DEF AskToGrow, Ask, Goto
  <2>2. Moves(t) /\ at'[t] = "waitToGrow" BY <2>1, CallerMoves DEF LockInv
  <2> QED BY <2>1, <2>2 DEF LockStep, Asks, Outside, InLine, Growing
<1>4. CASE AskToWrite(t)
  <2>1. /\ at[t] = "askToWrite" /\ at' = [at EXCEPT ![t] = "waitToWrite"]
        /\ line' = Append(line, t) /\ copy' = copy
    BY <1>4 DEF AskToWrite, Ask, Goto
  <2>2. Moves(t) /\ at'[t] = "waitToWrite" BY <2>1, CallerMoves DEF LockInv
  <2> QED BY <2>1, <2>2 DEF LockStep, Asks, Outside, InLine, Growing
<1>5. CASE EnterWrite(t)
  <2>1. /\ at[t] = "waitToWrite" /\ at' = [at EXCEPT ![t] = "write"] /\ copy' = copy
        /\ NextInLine(t) /\ LeaveLine
    BY <1>5 DEF EnterWrite, Goto
  <2>2. Moves(t) /\ at'[t] = "write" BY <2>1, CallerMoves DEF LockInv
  <2> QED BY <2>1, <2>2 DEF LockStep, IsAdmitted, Entered
<1>6. CASE WriteChunk(t)
  <2>1. at[t] = "write" /\ line' = line BY <1>6 DEF WriteChunk
  <2>2. \/ at' = [at EXCEPT ![t] = "idle"] /\ copy' = [copy EXCEPT ![t] = NoCopy]
        \/ at' = at /\ \E d : copy' = [copy EXCEPT ![t] = [copy[t] EXCEPT !.done = d]]
    BY <1>6 DEF WriteChunk
  <2>3. CASE at' = [at EXCEPT ![t] = "idle"] /\ copy' = [copy EXCEPT ![t] = NoCopy]
    <3>1. Moves(t) /\ at'[t] = "idle" BY <2>3, CallerMoves DEF LockInv
    <3> QED BY <2>1, <3>1 DEF LockStep, StopsReading, Entered, Outside
  <2>4. CASE at' = at /\ \E d : copy' = [copy EXCEPT ![t] = [copy[t] EXCEPT !.done = d]]
    <3>1. Moves(t) /\ at'[t] = at[t] BY <2>4 DEF LockInv, Moves, Others
    <3> QED BY <2>1, <3>1 DEF LockStep, GoesOn
  <2> QED BY <2>2, <2>3, <2>4
<1> QED BY <1>1, <1>2, <1>3, <1>4, <1>5, <1>6

LEMMA GrowLocks ==
  ASSUME LockInv, NEW t \in Callers,
         \/ EnterGrow(t) \/ CapacitySuffices(t) \/ GrowVector(t) \/ SizeBlock(t)
         \/ FinishGrow(t) \/ AllocationFails(t)
  PROVE  LockStep(t)
<1>1. CASE EnterGrow(t)
  <2>1. /\ at[t] = "waitToGrow" /\ at' = [at EXCEPT ![t] = "recheck"] /\ copy' = copy
        /\ NextInLine(t) /\ Inside = {} /\ line' = line
    BY <1>1 DEF EnterGrow, Goto
  <2>2. Moves(t) /\ at'[t] = "recheck" BY <2>1, CallerMoves DEF LockInv
  <2> QED BY <2>1, <2>2 DEF LockStep, BecomesWriter, Growing
<1>2. CASE CapacitySuffices(t)
  <2>1. /\ at[t] = "recheck" /\ at' = [at EXCEPT ![t] = "askToWrite"] /\ copy' = copy
        /\ LeaveLine
    BY <1>2 DEF CapacitySuffices, Goto
  <2>2. Moves(t) /\ at'[t] = "askToWrite" BY <2>1, CallerMoves DEF LockInv
  <2> QED BY <2>1, <2>2 DEF LockStep, StopsWriting, Growing, Outside
<1>3. CASE GrowVector(t)
  <2>1. /\ at[t] = "recheck" /\ at' = [at EXCEPT ![t] = "grow"] /\ line' = line
        /\ copy' = [copy EXCEPT ![t] = [copy[t] EXCEPT !.done = Len(data)]]
    BY <1>3 DEF GrowVector, Goto
  <2>2. Moves(t) /\ at'[t] = "grow" BY <2>1, CallerMoves DEF LockInv
  <2> QED BY <2>1, <2>2 DEF LockStep, GoesOn, Growing
<1>4. CASE SizeBlock(t)
  <2>1. at' = at /\ line' = line /\ copy' = [copy EXCEPT ![t].done = @ + 1]
    BY <1>4 DEF SizeBlock
  <2>2. Moves(t) BY <2>1 DEF LockInv, Moves, Others
  <2> QED BY <2>1, <2>2 DEF LockStep, GoesOn
<1>5. CASE FinishGrow(t)
  <2>1. /\ at[t] = "grow" /\ at' = [at EXCEPT ![t] = "askToWrite"] /\ LeaveLine
        /\ copy' = [copy EXCEPT ![t] = [copy[t] EXCEPT !.done = 0]]
    BY <1>5 DEF FinishGrow, Goto
  <2>2. Moves(t) /\ at'[t] = "askToWrite" BY <2>1, CallerMoves DEF LockInv
  <2> QED BY <2>1, <2>2 DEF LockStep, StopsWriting, Growing, Outside
<1>6. CASE AllocationFails(t)
  <2>1. /\ at' = [at EXCEPT ![t] = "idle"] /\ LeaveLine /\ copy' = [copy EXCEPT ![t] = NoCopy]
    BY <1>6 DEF AllocationFails
  <2>2. at[t] \in Growing BY <1>6, StoreAssumption DEF AllocationFails, Allocating, Growing
  <2>3. Moves(t) /\ at'[t] = "idle" BY <2>1, CallerMoves DEF LockInv
  <2> QED BY <2>1, <2>2, <2>3 DEF LockStep, StopsWriting, Outside
<1> QED BY <1>1, <1>2, <1>3, <1>4, <1>5, <1>6

LEMMA ReadLocks ==
  ASSUME LockInv, NEW t \in Callers,
         EnterRead(t) \/ ReadLength(t) \/ ReadChunk(t) \/ ReturnRead(t)
  PROVE  LockStep(t)
<1>1. CASE EnterRead(t)
  <2>1. /\ at[t] = "waitToRead" /\ at' = [at EXCEPT ![t] = "read"] /\ copy' = copy
        /\ NextInLine(t) /\ LeaveLine
    BY <1>1 DEF EnterRead, Goto
  <2>2. Moves(t) /\ at'[t] = "read" BY <2>1, CallerMoves DEF LockInv
  <2> QED BY <2>1, <2>2 DEF LockStep, IsAdmitted, Entered
<1>2. ASSUME at[t] = "read", line' = line, DOMAIN copy' = Callers,
             \A u \in Callers \ {t} : copy'[u] = copy[u],
             NEW to \in {"answer", "read"}, at' = [at EXCEPT ![t] = to]
      PROVE  LockStep(t)
  <2>1. Moves(t) /\ at'[t] = to BY <1>2 DEF LockInv, Moves, Others
  <2> QED BY <1>2, <2>1 DEF LockStep, GoesOn, StopsReading, Entered, Outside
<1>3. CASE ReadLength(t)
  <2> DEFINE to == IF Unit(copy[t].begin) = Zero THEN "answer" ELSE "read"
  <2>1. at[t] = "read" /\ line' = line /\ at' = [at EXCEPT ![t] = to] /\ to \in {"answer", "read"}
    BY <1>3 DEF ReadLength
  <2>2. DOMAIN copy' = Callers /\ \A u \in Callers \ {t} : copy'[u] = copy[u]
    BY <1>3 DEF ReadLength, LockInv
  <2> HIDE DEF to
  <2> QED BY <1>2, <2>1, <2>2
<1>4. CASE ReadChunk(t)
  <2>1. /\ at[t] = "read" /\ line' = line
        /\ \E to \in {"answer", "read"} : at' = [at EXCEPT ![t] = to]
    BY <1>4 DEF ReadChunk
  <2>2. DOMAIN copy' = Callers /\ \A u \in Callers \ {t} : copy'[u] = copy[u]
    BY <1>4 DEF ReadChunk, LockInv
  <2> QED BY <1>2, <2>1, <2>2
<1>5. CASE ReturnRead(t)
  <2>1. /\ at[t] = "answer" /\ at' = [at EXCEPT ![t] = "idle"] /\ line' = line
        /\ copy' = [copy EXCEPT ![t] = NoCopy]
    BY <1>5 DEF ReturnRead, Goto
  <2>2. Moves(t) /\ at'[t] = "idle" BY <2>1, CallerMoves DEF LockInv
  <2> QED BY <2>1, <2>2 DEF LockStep, GoesOn, Outside
<1> QED BY <1>1, <1>3, <1>4, <1>5

PhaseOf(place) ==
  CASE place \in {"waitToRead", "waitToWrite"} -> "wantRead"
    [] place = "waitToGrow" -> "wantWrite"
    [] place \in Entered -> "reading"
    [] place \in Growing -> "writing"
    [] OTHER -> "out"

LEMMA PhaseOfPlaces ==
  /\ \A p \in Outside : PhaseOf(p) = "out"
  /\ \A p \in Entered : PhaseOf(p) = "reading"
  /\ \A p \in Growing : PhaseOf(p) = "writing"
  /\ \A p \in {"waitToRead", "waitToWrite"} : PhaseOf(p) = "wantRead"
  /\ PhaseOf("waitToGrow") = "wantWrite"
  /\ \A p : PhaseOf(p) \in {"wantRead", "wantWrite", "writing"} <=> p \in InLine
  /\ \A p : PhaseOf(p) = "reading" <=> p \in Entered
BY DEF PhaseOf, Outside, Entered, Growing, InLine

LEMMA LockPhases ==
  \A t \in Callers : LockPhase(t) = PhaseOf(at[t]) /\ LockPhase(t)' = PhaseOf(at'[t])
BY DEF LockPhase, PhaseOf, Entered, Growing

phases == [u \in Callers |-> LockPhase(u)]
aheads == [u \in Callers |-> AheadInLine(u)]

LEMMA PhasesMove ==
  ASSUME NEW t \in Callers, Moves(t)
  PROVE  /\ phases' = [phases EXCEPT ![t] = PhaseOf(at'[t])]
         /\ PhaseOf(at'[t]) = PhaseOf(at[t]) => phases' = phases
<1>1. \A u \in Callers \ {t} : LockPhase(u)' = LockPhase(u)
  BY LockPhases DEF Moves, Others
<1>2. LockPhase(t)' = PhaseOf(at'[t]) /\ LockPhase(t) = PhaseOf(at[t]) BY LockPhases
<1>3. phases' = [u \in Callers |-> LockPhase(u)'] BY DEF phases
<1> QED BY <1>1, <1>2, <1>3 DEF phases

LEMMA StandInLine ==
  \A u \in Callers : Lock!Standing(u) <=> at[u] \in InLine
<1>1. \A u \in Callers : phases[u] = PhaseOf(at[u]) BY LockPhases DEF phases
<1> QED BY <1>1, PhaseOfPlaces DEF Lock!Standing, Lock!Waiting, phases

\* Who asks stands behind everybody in line.
LEMMA AheadOfNewcomer ==
  ASSUME LineInv, NEW t \in Callers, at[t] \notin InLine, line' = Append(line, t)
  PROVE  aheads' = [aheads EXCEPT ![t] = {u \in Callers : at[u] \in InLine}]
<1> DEFINE n == Len(line)
<1>1. line \in Seq(Callers) /\ n \in Nat BY DEF LineInv
<1>2. /\ Len(line') = n + 1 /\ line'[n + 1] = t /\ \A i \in 1 .. n : line'[i] = line[i]
  BY <1>1, AppendProperties
<1>3. \A u \in Callers : at[u] \in InLine <=> \E i \in 1 .. n : line[i] = u
  BY DEF LineInv
<1>4. ASSUME NEW u \in Callers, u # t PROVE AheadInLine(u)' = AheadInLine(u)
  <2>1. ASSUME NEW v \in Callers
        PROVE  (\E i, j \in 1 .. n + 1 : i < j /\ line'[i] = v /\ line'[j] = u)
                 <=> (\E i, j \in 1 .. n : i < j /\ line[i] = v /\ line[j] = u)
    <3>1. ASSUME NEW i \in 1 .. n + 1, NEW j \in 1 .. n + 1, i < j, line'[i] = v, line'[j] = u
          PROVE  i \in 1 .. n /\ j \in 1 .. n /\ line[i] = v /\ line[j] = u
      <4>1. j # n + 1 BY <1>2, <1>4, <3>1
      <4>2. i \in 1 .. n /\ j \in 1 .. n BY <1>1, <3>1, <4>1
      <4> QED BY <1>2, <3>1, <4>2
    <3>2. ASSUME NEW i \in 1 .. n, NEW j \in 1 .. n, i < j, line[i] = v, line[j] = u
          PROVE  i \in 1 .. n + 1 /\ j \in 1 .. n + 1 /\ line'[i] = v /\ line'[j] = u
      BY <1>1, <1>2, <3>2
    <3> QED BY <3>1, <3>2
  <2> QED BY <1>2, <2>1, SMTT(30) DEF AheadInLine
<1>5. AheadInLine(t)' = {u \in Callers : at[u] \in InLine}
  <2>1. ASSUME NEW v \in Callers
        PROVE  (\E i, j \in 1 .. n + 1 : i < j /\ line'[i] = v /\ line'[j] = t)
                 <=> (\E i \in 1 .. n : line[i] = v)
    <3>1. ASSUME NEW i \in 1 .. n + 1, NEW j \in 1 .. n + 1, i < j, line'[i] = v
          PROVE  i \in 1 .. n /\ line[i] = v
      <4>1. i \in 1 .. n BY <1>1, <3>1
      <4> QED BY <1>2, <3>1, <4>1
    <3>2. ASSUME NEW i \in 1 .. n, line[i] = v
          PROVE  i \in 1 .. n + 1 /\ n + 1 \in 1 .. n + 1 /\ i < n + 1 /\ line'[i] = v
      BY <1>1, <1>2, <3>2
    <3> QED BY <1>2, <3>1, <3>2
  <2> QED BY <1>2, <1>3, <2>1 DEF AheadInLine
<1>6. aheads' = [u \in Callers |-> AheadInLine(u)'] BY DEF aheads
<1> QED BY <1>4, <1>5, <1>6 DEF aheads

\* Nobody stands before the head, and everybody else stops waiting for it when it goes.
LEMMA NobodyBeforeHead ==
  ASSUME LineInv, NEW t \in Callers, NextInLine(t)
  PROVE  AheadInLine(t) = {}
<1>1. line \in Seq(Callers) /\ Len(line) \in Nat \ {0} /\ line[1] = t
  <2>1. line \in Seq(Callers) /\ line # <<>> /\ Head(line) = t BY DEF LineInv, NextInLine
  <2> QED BY <2>1, EmptySeq
<1>2. ASSUME NEW i \in 1 .. Len(line), NEW j \in 1 .. Len(line), i < j PROVE line[j] # t
  <2>1. 1 \in 1 .. Len(line) /\ j # 1 BY <1>1, <1>2
  <2> QED BY <1>1, <2>1 DEF LineInv
<1> QED BY <1>2 DEF AheadInLine

LEMMA AheadOfRest ==
  ASSUME LineInv, NEW t \in Callers, NextInLine(t), LeaveLine
  PROVE  aheads' = [u \in Callers |-> aheads[u] \ {t}]
<1> DEFINE n == Len(line)
<1>1. line \in Seq(Callers) /\ n \in Nat \ {0} /\ line[1] = t
  <2>1. line \in Seq(Callers) /\ line # <<>> /\ Head(line) = t BY DEF LineInv, NextInLine
  <2> QED BY <2>1, EmptySeq
<1>2. Len(line') = n - 1 /\ \A i \in 1 .. n - 1 : line'[i] = line[i + 1]
  BY <1>1 DEF LeaveLine
<1>3. \A i \in 1 .. n : line[i] = t => i = 1
  <2>1. 1 \in 1 .. n BY <1>1
  <2> QED BY <1>1, <2>1 DEF LineInv
<1>4. ASSUME NEW u \in Callers PROVE AheadInLine(u)' = AheadInLine(u) \ {t}
  <2>1. ASSUME NEW v \in Callers
        PROVE  (\E i, j \in 1 .. n - 1 : i < j /\ line'[i] = v /\ line'[j] = u)
                 <=> (v # t /\ \E i, j \in 1 .. n : i < j /\ line[i] = v /\ line[j] = u)
    <3>1. ASSUME NEW i \in 1 .. n - 1, NEW j \in 1 .. n - 1, i < j, line'[i] = v, line'[j] = u
          PROVE  /\ v # t /\ i + 1 \in 1 .. n /\ j + 1 \in 1 .. n /\ i + 1 < j + 1
                 /\ line[i + 1] = v /\ line[j + 1] = u
      <4>1. i + 1 \in 1 .. n /\ j + 1 \in 1 .. n /\ i + 1 < j + 1 /\ i + 1 # 1 BY <1>1, <3>1
      <4> QED BY <1>2, <1>3, <3>1, <4>1
    <3>2. ASSUME v # t, NEW i \in 1 .. n, NEW j \in 1 .. n, i < j, line[i] = v, line[j] = u
          PROVE  /\ i - 1 \in 1 .. n - 1 /\ j - 1 \in 1 .. n - 1 /\ i - 1 < j - 1
                 /\ line'[i - 1] = v /\ line'[j - 1] = u
      <4>1. i # 1 BY <1>1, <3>2
      <4>2. /\ i - 1 \in 1 .. n - 1 /\ j - 1 \in 1 .. n - 1 /\ i - 1 < j - 1
            /\ (i - 1) + 1 = i /\ (j - 1) + 1 = j
        BY <1>1, <3>2, <4>1
      <4> QED BY <1>2, <3>2, <4>2
    <3> QED BY <3>1, <3>2
  <2>2. AheadInLine(u)' =
          {v \in Callers : \E i, j \in 1 .. n - 1 : i < j /\ line'[i] = v /\ line'[j] = u}
    BY <1>2 DEF AheadInLine
  <2> QED BY <2>1, <2>2 DEF AheadInLine
<1>5. aheads' = [u \in Callers |-> AheadInLine(u)'] BY DEF aheads
<1> QED BY <1>4, <1>5 DEF aheads

LEMMA AheadKept == ASSUME line' = line PROVE aheads' = aheads
<1>1. aheads' = [u \in Callers |-> AheadInLine(u)'] BY DEF aheads
<1>2. \A u \in Callers : AheadInLine(u)' = AheadInLine(u) BY DEF AheadInLine
<1> QED BY <1>1, <1>2 DEF aheads

LEMMA LockStepInv ==
  ASSUME LockInv, NEW t \in Callers, LockStep(t)
  PROVE  LockInv'
<1>0. LineInv /\ Others(t) /\ DOMAIN at' = Callers /\ DOMAIN copy' = Callers
  BY DEF LockInv, LockStep, Asks, IsAdmitted, BecomesWriter, StopsReading, StopsWriting,
         GoesOn, Moves
<1>1. CASE Asks(t) BY <1>0, <1>1, JoinsLine DEF Asks, Outside, InLine, LockInv
<1>2. CASE IsAdmitted(t) BY <1>0, <1>2, LeavesLine DEF IsAdmitted, Entered, InLine, LockInv
<1>3. CASE StopsWriting(t)
  <2>1. NextInLine(t) BY <1>0, <1>3 DEF StopsWriting, LineInv
  <2> QED BY <1>0, <1>3, <2>1, LeavesLine DEF StopsWriting, Outside, InLine, LockInv
<1>4. CASE BecomesWriter(t)
  BY <1>0, <1>4, KeepsPlaceInLine DEF BecomesWriter, InLine, Growing, LockInv
<1>5. CASE StopsReading(t)
  BY <1>0, <1>5, KeepsPlaceInLine DEF StopsReading, Entered, Outside, InLine, Growing, LockInv
<1>6. CASE GoesOn(t)
  <2>1. at[t] \in Growing => NextInLine(t) /\ Inside = {} BY <1>0 DEF LineInv
  <2>2. at'[t] \in Growing => at[t] \in Growing BY <1>6 DEF GoesOn, Outside, Growing
  <2>3. at[t] \in InLine <=> at'[t] \in InLine BY <1>6 DEF GoesOn, Outside, Growing, InLine
  <2>4. at'[t] \in {"read", "write"} => at[t] \in {"read", "write"}
    BY <1>6 DEF GoesOn, Outside, Growing
  <2> QED BY <1>0, <1>6, <2>1, <2>2, <2>3, <2>4, KeepsPlaceInLine DEF GoesOn, LockInv
<1> QED BY <1>1, <1>2, <1>3, <1>4, <1>5, <1>6 DEF LockStep

LEMMA LockStepRefines ==
  ASSUME LockInv, NEW t \in Callers, LockStep(t)
  PROVE  [Lock!Next]_(Lock!vars)
<1>0. LineInv /\ Moves(t)
  BY DEF LockInv, LockStep, Asks, IsAdmitted, BecomesWriter, StopsReading, StopsWriting, GoesOn
<1>1. phases[t] = PhaseOf(at[t]) /\ phases' = [phases EXCEPT ![t] = PhaseOf(at'[t])]
  BY <1>0, LockPhases, PhasesMove DEF phases
<1>2. CASE Asks(t)
  <2>1. PhaseOf(at[t]) = "out" BY <1>2, PhaseOfPlaces DEF Asks
  <2>2. PhaseOf(at'[t]) \in {"wantRead", "wantWrite"}
    BY <1>2, PhaseOfPlaces DEF Asks, InLine, Growing
  <2>3. aheads' = [aheads EXCEPT ![t] = {u \in Callers : at[u] \in InLine}]
    BY <1>0, <1>2, AheadOfNewcomer DEF Asks, Outside, InLine
  <2>4. {u \in Callers : Lock!Standing(u)} = {u \in Callers : at[u] \in InLine} BY StandInLine
  <2>5. Lock!Request(t, PhaseOf(at'[t]))
    BY <1>1, <2>1, <2>3, <2>4 DEF Lock!Request, phases, aheads
  <2> QED BY <2>2, <2>5 DEF Lock!Next, Lock!Waiting
<1>3. CASE IsAdmitted(t)
  <2>1. PhaseOf(at[t]) = "wantRead" /\ PhaseOf(at'[t]) = "reading"
    BY <1>3, PhaseOfPlaces DEF IsAdmitted
  <2>2. aheads[t] = {} BY <1>0, <1>3, NobodyBeforeHead DEF IsAdmitted, aheads
  <2>3. aheads' = [u \in Callers |-> aheads[u] \ {t}] BY <1>0, <1>3, AheadOfRest DEF IsAdmitted
  <2>4. Lock!AdmitReader(t)
    BY <1>1, <2>1, <2>2, <2>3 DEF Lock!AdmitReader, Lock!Pass, phases, aheads
  <2> QED BY <2>4 DEF Lock!Next, Lock!Progress
<1>4. CASE BecomesWriter(t)
  <2>1. PhaseOf(at[t]) = "wantWrite" /\ PhaseOf(at'[t]) = "writing"
    BY <1>4, PhaseOfPlaces DEF BecomesWriter
  <2>2. aheads[t] = {} BY <1>0, <1>4, NobodyBeforeHead DEF BecomesWriter, aheads
  <2>3. \A u \in Callers : phases[u] # "reading"
    <3>1. \A u \in Callers : at[u] \notin Entered BY <1>4 DEF BecomesWriter, Inside, Entered
    <3> QED BY <3>1, LockPhases, PhaseOfPlaces DEF phases
  <2>4. aheads' = aheads BY <1>4, AheadKept DEF BecomesWriter
  <2>5. Lock!AdmitWriter(t)
    BY <1>1, <2>1, <2>2, <2>3, <2>4 DEF Lock!AdmitWriter, phases, aheads
  <2> QED BY <2>5 DEF Lock!Next, Lock!Progress
<1>5. CASE StopsReading(t)
  <2>1. PhaseOf(at[t]) = "reading" /\ PhaseOf(at'[t]) = "out"
    BY <1>5, PhaseOfPlaces DEF StopsReading
  <2>2. aheads' = aheads BY <1>5, AheadKept DEF StopsReading
  <2>3. Lock!LeaveReader(t) BY <1>1, <2>1, <2>2 DEF Lock!LeaveReader, phases, aheads
  <2> QED BY <2>3 DEF Lock!Next, Lock!Progress
<1>6. CASE StopsWriting(t)
  <2>1. PhaseOf(at[t]) = "writing" /\ PhaseOf(at'[t]) = "out"
    BY <1>6, PhaseOfPlaces DEF StopsWriting
  <2>2. NextInLine(t) BY <1>0, <1>6 DEF StopsWriting, LineInv
  <2>3. aheads' = [u \in Callers |-> aheads[u] \ {t}]
    BY <1>0, <1>6, <2>2, AheadOfRest DEF StopsWriting
  <2>4. Lock!LeaveWriter(t) BY <1>1, <2>1, <2>3 DEF Lock!LeaveWriter, Lock!Pass, phases, aheads
  <2> QED BY <2>4 DEF Lock!Next, Lock!Progress
<1>7. CASE GoesOn(t)
  <2>1. PhaseOf(at'[t]) = PhaseOf(at[t])
    <3>1. CASE at'[t] = at[t] BY <3>1
    <3>2. CASE at'[t] # at[t] BY <1>7, <3>2, PhaseOfPlaces DEF GoesOn
    <3> QED BY <3>1, <3>2
  <2>2. phases' = phases BY <1>0, <2>1, PhasesMove
  <2>3. aheads' = aheads BY <1>7, AheadKept DEF GoesOn
  <2> QED BY <2>2, <2>3 DEF Lock!vars, phases, aheads
<1> QED BY <1>2, <1>3, <1>4, <1>5, <1>6, <1>7 DEF LockStep

LEMMA NextLocks ==
  ASSUME LockInv, [BlockNext]_blockVars
  PROVE  LockInv' /\ [Lock!Next]_(Lock!vars)
<1>1. ASSUME UNCHANGED <<at, copy, line>> PROVE LockInv' /\ [Lock!Next]_(Lock!vars)
  <2>1. LockInv' BY <1>1 DEF LockInv, LineInv, NextInLine, Inside
  <2>2. phases' = phases BY <1>1 DEF phases, LockPhase
  <2>3. aheads' = aheads BY <1>1, AheadKept
  <2> QED BY <2>1, <2>2, <2>3 DEF Lock!vars, phases, aheads
<1>2. ASSUME NEW t \in Callers, LockStep(t) PROVE LockInv' /\ [Lock!Next]_(Lock!vars)
  BY <1>2, LockStepInv, LockStepRefines
<1>3. ASSUME NEW t \in Callers, Continue(t) PROVE LockStep(t)
  <2>1. CASE \/ ReserveUnits(t) \/ CheckCapacity(t) \/ AskToGrow(t) \/ AskToWrite(t)
             \/ EnterWrite(t) \/ WriteChunk(t)
    BY <2>1, PushLocks
  <2>2. CASE \/ EnterGrow(t) \/ CapacitySuffices(t) \/ GrowVector(t) \/ SizeBlock(t)
             \/ FinishGrow(t) \/ AllocationFails(t)
    BY <2>2, GrowLocks
  <2>3. CASE EnterRead(t) \/ ReadLength(t) \/ ReadChunk(t) \/ ReturnRead(t)
    BY <2>3, ReadLocks
  <2> QED BY <1>3, <2>1, <2>2, <2>3 DEF Continue
<1>4. ASSUME NEW t \in Callers, NEW k \in Keys, ClaimKey(t, k) PROVE LockStep(t)
  BY <1>4, ClaimLocks
<1>5. ASSUME NEW t \in Callers, NEW a \in DOMAIN written, AskToRead(t, a) PROVE LockStep(t)
  BY <1>5, AskToReadLocks
<1>6. ASSUME NEW t \in Callers, NEW k \in Keys, KeyIsKnown(t, k) PROVE UNCHANGED <<at, copy, line>>
  BY <1>6 DEF KeyIsKnown, blockVars
<1>7. ASSUME NEW a \in DOMAIN written, EraseRecord(a) PROVE UNCHANGED <<at, copy, line>>
  BY <1>7 DEF EraseRecord
<1>8. CASE UNCHANGED blockVars BY <1>1, <1>8 DEF blockVars
<1> QED BY <1>1, <1>2, <1>3, <1>4, <1>5, <1>6, <1>7, <1>8 DEF BlockNext

\* The lock the store is modelled with, one line of tickets, promises what
\* ReadWriteLock promises, FIFO admission included, whatever allocation fails.
THEOREM LockRefinement == BlockSafetySpec => UsesTheFairLock
<1>1. BlockInit => LockInv /\ Lock!Init
  <2> SUFFICES ASSUME BlockInit PROVE LockInv /\ Lock!Init OBVIOUS
  <2>1. /\ line = <<>> /\ at = [t \in Callers |-> "idle"] /\ copy = [t \in Callers |-> NoCopy]
    BY DEF BlockInit
  <2>2. line \in Seq(Callers) /\ Len(line) = 0 BY <2>1
  <2>3. LineInv BY <2>1, <2>2 DEF LineInv, InLine, Growing
  <2>4. phases = [t \in Callers |-> "out"]
    BY <2>1, LockPhases, PhaseOfPlaces DEF phases, Outside
  <2>5. aheads = [t \in Callers |-> {}] BY <2>2 DEF aheads, AheadInLine
  <2> QED BY <2>1, <2>3, <2>4, <2>5 DEF LockInv, Lock!Init, phases, aheads
<1>2. LockInv /\ [BlockNext]_blockVars => LockInv' /\ [Lock!Next]_(Lock!vars)
  BY NextLocks
<1> QED BY <1>1, <1>2, PTL DEF BlockSafetySpec, UsesTheFairLock, Lock!Spec
=============================================================================
