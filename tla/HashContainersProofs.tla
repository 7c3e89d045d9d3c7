------------------------ MODULE HashContainersProofs ------------------------
(***************************************************************************)
(* The containers of hash tables are right for every number of threads,    *)
(* keys, tables and pushes.                                                *)
(*                                                                         *)
(* A table is in order (TableOK) when every key stands in one slot, and no *)
(* free slot comes before it on its chain.  What a search finds, and what  *)
(* a growth keeps, rests on two inductions, over the chain of a key and    *)
(* over the slots that a growth has copied: on the first, an odd stride    *)
(* visits each slot of a table of 2^n slots once; on the second, a growth  *)
(* meets every key once and always finds room for it.                      *)
(*                                                                         *)
(* The invariant IInv says that every table is in order and holds the keys *)
(* that are routed to it, that each edge table holds what was pushed, and  *)
(* that a call on its way to a table will find that table.                 *)
(***************************************************************************)
EXTENDS HashContainers, FiniteSetTheorems, TLAPS

(* The least-number principle, and induction *)

Before == {p \in Nat \X Nat : p[1] < p[2]}

\* A set of numbers has a least one.
LEMMA LeastNumber ==
  ASSUME NEW S, S \subseteq Nat, S # {}
  PROVE  \E n \in S : \A m \in S : n <= m
<1>1. IsWellFoundedOn(Before, Nat)
  BY NatLessThanWellFounded DEF OpToRel, Before
<1>2. PICK n \in S : \A m \in S : ~(<<m, n>> \in Before)
  BY <1>1, WFMin
<1>3. \A m \in S : n <= m
  <2> TAKE m \in S
  <2>1. m \in Nat /\ n \in Nat
    OBVIOUS
  <2>2. ~(m < n)
    BY <1>2, <2>1 DEF Before
  <2> QED BY <2>1, <2>2
<1> QED BY <1>3

\* Induction, for sets of numbers.
LEMMA SetInduction ==
  ASSUME NEW S, 0 \in S, \A n \in Nat : n \in S => n + 1 \in S
  PROVE  Nat \subseteq S
<1> SUFFICES ASSUME Nat \ S # {} PROVE FALSE
  OBVIOUS
<1>1. PICK n \in Nat \ S : \A m \in Nat \ S : n <= m
  BY LeastNumber
<1>2. n # 0 /\ n - 1 \in Nat /\ ~(n <= n - 1)
  BY <1>1
<1>3. n - 1 \in S
  BY <1>1, <1>2
<1> QED BY <1>1, <1>2, <1>3

-----------------------------------------------------------------------------
(* Powers of two, odd strides and remainders *)

Divides(c, d) == \E e \in Nat : d = c * e
Follows(x, y, c) == \E q \in Nat : y = x + c * q
Even(n) == \E h \in Nat : n = 2 * h
Odd(n)  == \E h \in Nat : n = 2 * h + 1

PowerOfTwo(c) ==
  c \in Nat \ {0} /\ \A d, e \in Nat : d * e = c => d = 1 \/ Even(d)

\* Every number is even or odd.
LEMMA EvenOrOdd ==
  \A n \in Nat : Even(n) \/ Odd(n)
<1> DEFINE S == {n \in Nat : Even(n) \/ Odd(n)}
<1>1. 0 \in S
  BY DEF Even
<1>2. ASSUME NEW n \in Nat, n \in S PROVE n + 1 \in S
  <2>1. CASE Even(n)
    <3> PICK h \in Nat : n = 2 * h BY <2>1 DEF Even
    <3> QED BY DEF Odd
  <2>2. CASE Odd(n)
    <3> PICK h \in Nat : n = 2 * h + 1 BY <2>2 DEF Odd
    <3>1. n + 1 = 2 * (h + 1) /\ h + 1 \in Nat OBVIOUS
    <3> QED BY <3>1 DEF Even
  <2> QED BY <1>2, <2>1, <2>2
<1> HIDE DEF S
<1>3. Nat \subseteq S BY <1>1, <1>2, SetInduction
<1> QED BY <1>3 DEF S

\* No number is both.
LEMMA OddIsNotEven ==
  ASSUME NEW n \in Nat, Odd(n) PROVE ~Even(n)
BY DEF Odd, Even

\* A product with an odd factor is even only by the other factor.
LEMMA EvenFactor ==
  ASSUME NEW d \in Nat, NEW s \in Nat, Odd(s), Even(d * s)
  PROVE  Even(d)
<1> SUFFICES ASSUME Odd(d) PROVE FALSE
  BY EvenOrOdd
<1>1. PICK g \in Nat : d = 2 * g + 1 BY DEF Odd
<1>2. PICK h \in Nat : s = 2 * h + 1 BY DEF Odd
<1>3. PICK e \in Nat : d * s = 2 * e BY DEF Even
<1>4. d * s = 2 * (2 * (g * h) + g + h) + 1
  BY <1>1, <1>2
<1>5. g * h \in Nat OBVIOUS
<1> DEFINE m == 2 * (g * h) + g + h
<1>6. m \in Nat BY <1>5
<1>7. 2 * e = 2 * m + 1 BY <1>3, <1>4
<1> QED BY <1>6, <1>7

\* A product is at least its factors.
LEMMA FactorIsSmaller ==
  \A d, e \in Nat : e # 0 => d * e >= d
<1> SUFFICES ASSUME NEW d \in Nat, NEW e \in Nat, e # 0 PROVE d * e >= d
  OBVIOUS
<1>1. PICK f \in Nat : e = f + 1
  <2>1. e - 1 \in Nat /\ e = (e - 1) + 1 OBVIOUS
  <2> QED BY <2>1
<1>2. d * e = d * f + d BY <1>1
<1>3. d * f \in Nat OBVIOUS
<1> QED BY <1>2, <1>3

\* The smallest table.
LEMMA OneIsPower ==
  PowerOfTwo(1)
<1>1. ASSUME NEW d \in Nat, NEW e \in Nat, d * e = 1 PROVE d = 1
  <2>1. d # 0 /\ e # 0 BY <1>1
  <2>2. CASE d > 1
    <3>1. d * e >= d BY <2>1
    <3> QED BY <1>1, <2>2, <3>1
  <2> QED BY <2>1, <2>2
<1> QED BY <1>1 DEF PowerOfTwo

\* A table that doubles keeps a power of two of slots.
LEMMA DoubleIsPower ==
  ASSUME NEW c \in Nat, PowerOfTwo(c) PROVE PowerOfTwo(2 * c)
<1>1. ASSUME NEW d \in Nat, NEW e \in Nat, d * e = 2 * c PROVE d = 1 \/ Even(d)
  <2> SUFFICES ASSUME Odd(d) PROVE d = 1
    BY EvenOrOdd
  <2>1. e * d = 2 * c BY <1>1
  <2>2. Even(e * d) BY <2>1 DEF Even
  <2>3. PICK h \in Nat : e = 2 * h BY <2>2, EvenFactor DEF Even
  <2>4. d * h = c BY <1>1, <2>3
  <2> QED BY <2>4, OddIsNotEven DEF PowerOfTwo
<1> QED BY <1>1 DEF PowerOfTwo

\* An odd stride comes back to where it was only after a multiple of the capacity.
LEMMA OddStride ==
  ASSUME NEW c \in Nat, PowerOfTwo(c), NEW s \in Nat, Odd(s),
         NEW d \in Nat, NEW q \in Nat, d * s = c * q
  PROVE  Divides(c, d)
<1> USE DEF Divides
<1> DEFINE Returns(b) == \E x, y \in Nat : x * s = b * y /\ ~ \E e \in Nat : x = b * e
           Bad == {b \in Nat : PowerOfTwo(b) /\ Returns(b)}
<1> SUFFICES ASSUME Bad # {} PROVE FALSE
  OBVIOUS
<1>1. PICK b \in Bad : \A a \in Bad : b <= a
  BY LeastNumber
<1>2. b \in Nat /\ PowerOfTwo(b) /\ b # 0
  BY <1>1 DEF PowerOfTwo
<1>3. PICK x, y \in Nat : x * s = b * y /\ ~ \E e \in Nat : x = b * e
  BY <1>1
<1>4. b # 1
  BY <1>3
<1>5. Even(b)
  <2>1. b * 1 = b BY <1>2
  <2> QED BY <1>2, <1>4, <2>1 DEF PowerOfTwo
<1>6. PICK a \in Nat : b = 2 * a
  BY <1>5 DEF Even
<1>7. x * s = 2 * (a * y) /\ a * y \in Nat
  BY <1>3, <1>6
<1>8. Even(x)
  BY <1>7, EvenFactor DEF Even
<1>9. PICK h \in Nat : x = 2 * h
  BY <1>8 DEF Even
<1>10. h * s = a * y
  BY <1>7, <1>9
<1>11. PowerOfTwo(a)
  <2>1. ASSUME NEW f \in Nat, NEW e \in Nat, f * e = a PROVE f = 1 \/ Even(f)
    <3>1. f * (2 * e) = b /\ 2 * e \in Nat BY <2>1, <1>6
    <3> QED BY <3>1, <1>2 DEF PowerOfTwo
  <2>2. a # 0 BY <1>2, <1>6
  <2> QED BY <2>1, <2>2 DEF PowerOfTwo
<1>12. ~(b <= a)
  BY <1>2, <1>6
<1>13. a \notin Bad
  BY <1>1, <1>12
<1>14. PICK e \in Nat : h = a * e
  BY <1>10, <1>11, <1>13
<1>15. x = b * e
  BY <1>6, <1>9, <1>14
<1> QED BY <1>3, <1>15

-----------------------------------------------------------------------------
(* The chain of a key visits every slot *)

\* Quotient and remainder.
LEMMA DivMod ==
  ASSUME NEW x \in Nat, NEW c \in Nat, c # 0
  PROVE  /\ x \div c \in Nat /\ x % c \in 0 .. c - 1
         /\ x = c * (x \div c) + (x % c)
OBVIOUS

\* Two numbers with the same remainder differ by a multiple of the divisor.
LEMMA SameRemainder ==
  ASSUME NEW x \in Nat, NEW y \in Nat, NEW c \in Nat, c # 0, x <= y, x % c = y % c
  PROVE  Follows(x, y, c)
<1>1. PICK r \in 0 .. c - 1 : r = x % c BY DivMod
<1>2. PICK a \in Nat : x = c * a + r BY <1>1, DivMod
<1>3. PICK b \in Nat : y = c * b + r
  <2>1. y = c * (y \div c) + (y % c) /\ y \div c \in Nat BY DivMod
  <2>2. r = y % c BY <1>1
  <2> QED BY <2>1, <2>2
<1>4. c * a \in Nat /\ c * b \in Nat /\ c * a <= c * b
  <2>1. c * a \in Nat /\ c * b \in Nat OBVIOUS
  <2> QED BY <1>2, <1>3, <2>1
<1>5. a <= b
  <2> SUFFICES ASSUME b < a PROVE FALSE
    OBVIOUS
  <2>1. PICK d \in Nat : a = b + d + 1
    <3>1. a - b - 1 \in Nat /\ a = b + (a - b - 1) + 1 OBVIOUS
    <3> QED BY <3>1
  <2>2. c * a = c * (b + d + 1) BY <2>1
  <2>3. c * (b + d + 1) = c * b + c * d + c OBVIOUS
  <2>4. c * d \in Nat OBVIOUS
  <2> QED BY <1>4, <2>2, <2>3, <2>4
<1>6. b - a \in Nat /\ c * (b - a) = c * b - c * a BY <1>5
<1>7. y = x + c * (b - a) BY <1>2, <1>3, <1>4, <1>6
<1> QED BY <1>6, <1>7 DEF Follows

HashesAssumption ==
  /\ First \in [Keys -> Nat]
  /\ \A k \in Keys : Step[k] \in Nat /\ Step[k] % 2 = 1

\* The stride of every key is odd.
LEMMA StrideIsOdd ==
  ASSUME HashesAssumption, NEW k \in Keys
  PROVE  First[k] \in Nat /\ Step[k] \in Nat /\ Odd(Step[k])
<1>1. Step[k] \in Nat /\ Step[k] % 2 = 1 BY DEF HashesAssumption
<1>2. Step[k] = 2 * (Step[k] \div 2) + 1 /\ Step[k] \div 2 \in Nat BY <1>1
<1> QED BY <1>1, <1>2 DEF Odd, HashesAssumption

\* Every slot of a chain is a slot of the table.
LEMMA SlotInTable ==
  ASSUME HashesAssumption, NEW k \in Keys, NEW c \in Nat, c # 0, NEW i \in Nat
  PROVE  Slot(k, i, c) \in 0 .. c - 1
<1>1. First[k] \in Nat /\ Step[k] \in Nat BY StrideIsOdd
<1>2. First[k] + i * Step[k] \in Nat
  <2>1. i * Step[k] \in Nat BY <1>1
  <2> QED BY <1>1, <2>1
<1> QED BY <1>2, DivMod DEF Slot

\* The probes of a key that go once round the table meet no slot twice.
LEMMA ProbesDiffer ==
  ASSUME HashesAssumption, NEW k \in Keys, NEW c \in Nat, PowerOfTwo(c),
         NEW i \in Nat, NEW j \in Nat, i < j, j < c, Slot(k, i, c) = Slot(k, j, c)
  PROVE  FALSE
<1> DEFINE f == First[k]  s == Step[k]  x == f + i * s  y == f + j * s
<1>1. f \in Nat /\ s \in Nat /\ Odd(s) BY StrideIsOdd
<1>2. c # 0 BY DEF PowerOfTwo
<1>3. i * s \in Nat /\ j * s \in Nat /\ x \in Nat /\ y \in Nat BY <1>1
<1>4. PICK d \in Nat : j = i + d /\ d # 0 /\ d < c
  <2>1. j - i \in Nat /\ j = i + (j - i) /\ j - i # 0 /\ j - i < c OBVIOUS
  <2> QED BY <2>1
<1>5. y = x + d * s /\ d * s \in Nat BY <1>1, <1>4
<1> HIDE DEF x, y, f, s
<1>6. x <= y BY <1>3, <1>5
<1>7. x % c = y % c BY DEF Slot, x, y, f, s
<1>8. PICK q \in Nat : y = x + c * q
  <2>1. Follows(x, y, c) BY <1>2, <1>3, <1>6, <1>7, SameRemainder
  <2> QED BY <2>1 DEF Follows
<1>9. d * s = c * q
  <2>1. c * q \in Nat OBVIOUS
  <2> QED BY <1>1, <1>3, <1>5, <1>8, <2>1
<1>10. PICK e \in Nat : d = c * e
  <2>1. Divides(c, d) BY <1>1, <1>9, OddStride
  <2> QED BY <2>1 DEF Divides
<1>11. e # 0 BY <1>4, <1>10, <1>2
<1>12. c * e >= c BY <1>11
<1> QED BY <1>4, <1>10, <1>12

\* An odd stride visits every slot of a table of a power of two.
THEOREM ProbesVisitAll ==
  ASSUME HashesAssumption, NEW k \in Keys, NEW c \in Nat, PowerOfTwo(c), NEW s \in 0 .. c - 1
  PROVE  \E n \in 1 .. c : Chain(k, c)[n] = s
<1> DEFINE at == [n \in 1 .. c |-> Slot(k, n - 1, c)]
<1>0. c # 0 BY DEF PowerOfTwo
<1>1. at \in [1 .. c -> 0 .. c - 1]
  <2>1. \A n \in 1 .. c : n - 1 \in Nat OBVIOUS
  <2> QED BY <1>0, <2>1, SlotInTable
<1>2. \A m, n \in 1 .. c : at[m] = at[n] => m = n
  <2> SUFFICES ASSUME NEW m \in 1 .. c, NEW n \in 1 .. c, at[m] = at[n], m < n PROVE FALSE
    OBVIOUS
  <2>1. m - 1 \in Nat /\ n - 1 \in Nat /\ m - 1 < n - 1 /\ n - 1 < c OBVIOUS
  <2>2. Slot(k, m - 1, c) = Slot(k, n - 1, c) OBVIOUS
  <2> QED BY <2>1, <2>2, ProbesDiffer
<1>3. at \in Injection(1 .. c, 0 .. c - 1)
  BY <1>1, <1>2 DEF Injection, IsInjective
<1>4. /\ IsFiniteSet(0 .. c - 1) /\ Cardinality(0 .. c - 1) = c
      /\ Cardinality(1 .. c) = c
  BY <1>0, FS_Interval
<1>5. at \in Surjection(1 .. c, 0 .. c - 1)
  BY <1>3, <1>4, FS_Injection
<1>6. \E n \in 1 .. c : at[n] = s
  BY <1>5 DEF Surjection
<1> QED BY <1>6 DEF Chain

\* The chain of a key lists every slot of the table exactly once.
LEMMA ChainSlots ==
  ASSUME HashesAssumption, NEW k \in Keys, NEW c \in Nat, c # 0
  PROVE  /\ DOMAIN Chain(k, c) = 1 .. c /\ Len(Chain(k, c)) = c
         /\ \A n \in 1 .. c : Chain(k, c)[n] \in 0 .. c - 1
<1>1. \A n \in 1 .. c : n - 1 \in Nat OBVIOUS
<1>2. \A n \in 1 .. c : Chain(k, c)[n] \in 0 .. c - 1
  BY <1>1, SlotInTable DEF Chain
<1>3. DOMAIN Chain(k, c) = 1 .. c BY DEF Chain
<1>4. Len(Chain(k, c)) = c BY <1>3 DEF Chain
<1> QED BY <1>2, <1>3, <1>4

\* The first place of the chain in a set.
LEMMA FirstPlace ==
  ASSUME HashesAssumption, NEW k \in Keys, NEW c \in Nat, c # 0, NEW S
  PROVE  \/ /\ FirstIn(k, c, S) = 0
            /\ \A n \in 1 .. c : Chain(k, c)[n] \notin S
         \/ /\ FirstIn(k, c, S) \in 1 .. c
            /\ Chain(k, c)[FirstIn(k, c, S)] \in S
            /\ \A n \in 1 .. c : n < FirstIn(k, c, S) => Chain(k, c)[n] \notin S
<1> DEFINE I == {n \in 1 .. c : Chain(k, c)[n] \in S}
<1>1. FirstIn(k, c, S) = IF I # {} THEN Min(I) ELSE 0
  BY ChainSlots DEF FirstIn, SelectInSeq
<1>2. CASE I = {}
  BY <1>1, <1>2
<1>3. CASE I # {}
  <2>1. I \subseteq Nat OBVIOUS
  <2>2. \E n \in I : \A m \in I : n <= m
    BY <1>3, <2>1, LeastNumber
  <2>3. Min(I) \in I /\ \A m \in I : Min(I) <= m
    BY <2>2 DEF Min
  <2>4. FirstIn(k, c, S) \in I /\ \A m \in I : FirstIn(k, c, S) <= m
    BY <1>1, <1>3, <2>3
  <2> QED BY <2>4
<1> QED BY <1>2, <1>3

-----------------------------------------------------------------------------
(* QueueHashTable *)

CarrySlot(T, new, n) ==
  IF n - 1 \in T.occupied THEN Place(new, T.entry[n - 1]) ELSE new

\* rehash_unlocked copies slot by slot: CarriedOver satisfies its recursive equation.
LEMMA CarriedOverRecursion ==
  ASSUME NEW T, NEW c, T.capacity \in Nat
  PROVE  /\ CarriedOver(T, c)[0] = NewTable(c)
         /\ \A n \in 1 .. T.capacity :
              CarriedOver(T, c)[n] = CarrySlot(T, CarriedOver(T, c)[n - 1], n)
<1> DEFINE Next1(f, n) == IF n = 0 THEN NewTable(c) ELSE CarrySlot(T, f[n - 1], n)
           Carries(f, m) == f = [n \in 0 .. m |-> Next1(f, n)]
           S == {m \in Nat : \E f : Carries(f, m)}
<1>1. 0 \in S
  <2> DEFINE f == [n \in 0 .. 0 |-> NewTable(c)]
  <2>1. Carries(f, 0) OBVIOUS
  <2> QED BY <2>1
<1>2. ASSUME NEW m \in Nat, m \in S PROVE m + 1 \in S
  <2>1. PICK f : Carries(f, m) BY <1>2
  <2> DEFINE g == [n \in 0 .. m + 1 |-> IF n = m + 1 THEN CarrySlot(T, f[m], m + 1) ELSE f[n]]
  <2>2. ASSUME NEW n \in 0 .. m + 1 PROVE g[n] = Next1(g, n)
    <3>1. CASE n = 0 BY <2>1, <3>1
    <3>2. CASE n \in 1 .. m
      <4>1. n \in 0 .. m /\ n - 1 \in 0 .. m /\ n # 0 /\ n # m + 1 /\ n - 1 # m + 1 BY <3>2
      <4>2. g[n] = f[n] /\ g[n - 1] = f[n - 1] BY <4>1
      <4>3. f[n] = CarrySlot(T, f[n - 1], n) BY <2>1, <4>1
      <4> QED BY <4>1, <4>2, <4>3
    <3>3. CASE n = m + 1
      <4>1. n # 0 /\ n - 1 = m /\ m \in 0 .. m + 1 /\ m # m + 1 BY <3>3
      <4>2. g[n - 1] = f[m] BY <4>1
      <4> QED BY <3>3, <4>1, <4>2
    <3> QED BY <3>1, <3>2, <3>3
  <2>3. Carries(g, m + 1) BY <2>2
  <2>4. \E f1 : Carries(f1, m + 1)
    <3> HIDE DEF g, Carries
    <3> QED BY <2>3
  <2> QED BY <2>4
<1> HIDE DEF S
<1>3. Nat \subseteq S BY <1>1, <1>2, SetInduction
<1>4. PICK f : Carries(f, T.capacity) BY <1>3 DEF S
<1>5. CarriedOver(T, c) = CHOOSE f1 : Carries(f1, T.capacity)
  BY DEF CarriedOver, CarrySlot
<1>6. Carries(CarriedOver(T, c), T.capacity)
  <2> HIDE DEF Carries
  <2> QED BY <1>4, <1>5
<1>7. ASSUME NEW n \in 0 .. T.capacity
      PROVE  CarriedOver(T, c)[n] = Next1(CarriedOver(T, c), n)
  <2> DEFINE h == CarriedOver(T, c)
  <2> HIDE DEF h, Next1
  <2>1. h = [i \in 0 .. T.capacity |-> Next1(h, i)] BY <1>6 DEF h
  <2>2. h[n] = Next1(h, n) BY <2>1
  <2> QED BY <2>2 DEF h
<1> QED BY <1>7

\* Slot s is the n-th of k's chain, and no search for k stops before it.
ReachedAt(T, k, n, s) ==
  /\ Chain(k, T.capacity)[n] = s
  /\ \A m \in 1 .. T.capacity : m < n => Chain(k, T.capacity)[m] \in T.occupied \cup T.deleted

TableShape(T) ==
  /\ DOMAIN T = {"capacity", "entry", "occupied", "deleted"}
  /\ PowerOfTwo(T.capacity)
  /\ T.entry \in [0 .. T.capacity - 1 -> Keys \cup {NoKey}]
  /\ T.occupied \subseteq 0 .. T.capacity - 1 /\ T.deleted \subseteq 0 .. T.capacity - 1

\* A table in order: a key has one slot, and a search for it gets there.
TableOK(T) ==
  /\ TableShape(T)
  /\ \A s \in T.occupied : T.entry[s] \in Keys
  /\ \A r, s \in T.occupied : T.entry[r] = T.entry[s] => r = s
  /\ \A s \in T.occupied : \E n \in 1 .. T.capacity : ReachedAt(T, T.entry[s], n, s)

Content(T) == {T.entry[s] : s \in T.occupied}

\* What Occupy makes of each field.
LEMMA OccupyFields ==
  ASSUME NEW T, TableShape(T), NEW s \in 0 .. T.capacity - 1, NEW k \in Keys
  PROVE  /\ TableShape(Occupy(T, s, k))
         /\ Occupy(T, s, k).capacity = T.capacity
         /\ Occupy(T, s, k).entry = [T.entry EXCEPT ![s] = k]
         /\ Occupy(T, s, k).occupied = T.occupied \cup {s}
         /\ Occupy(T, s, k).deleted = T.deleted \ {s}
<1> DEFINE N == Occupy(T, s, k)
<1>1. /\ N.capacity = T.capacity /\ N.entry = [T.entry EXCEPT ![s] = k]
      /\ N.occupied = T.occupied \cup {s} /\ N.deleted = T.deleted \ {s}
      /\ DOMAIN N = DOMAIN T
  BY DEF Occupy, TableShape
<1>2. N.entry \in [0 .. T.capacity - 1 -> Keys \cup {NoKey}]
  BY <1>1 DEF TableShape
<1> HIDE DEF N
<1>3. TableShape(N)
  BY <1>1, <1>2 DEF TableShape
<1> QED BY <1>1, <1>3 DEF N

\* A key written into the first free slot of its chain leaves the table in order.
LEMMA OccupyKeeps ==
  ASSUME NEW T, TableOK(T), NEW k \in Keys, NEW n \in 1 .. T.capacity,
         NEW s \in 0 .. T.capacity - 1, s \notin T.occupied, ReachedAt(T, k, n, s),
         k \notin Content(T)
  PROVE  /\ TableOK(Occupy(T, s, k))
         /\ Content(Occupy(T, s, k)) = Content(T) \cup {k}
<1> DEFINE N == Occupy(T, s, k)
<1>1. TableShape(T) /\ T.entry \in [0 .. T.capacity - 1 -> Keys \cup {NoKey}]
      /\ T.occupied \subseteq 0 .. T.capacity - 1
  BY DEF TableOK, TableShape
<1>2. /\ TableShape(N) /\ N.capacity = T.capacity /\ N.entry = [T.entry EXCEPT ![s] = k]
      /\ N.occupied = T.occupied \cup {s} /\ N.deleted = T.deleted \ {s}
  BY <1>1, OccupyFields
<1> HIDE DEF N
<1>3. N.entry[s] = k /\ \A r \in T.occupied : N.entry[r] = T.entry[r]
  BY <1>1, <1>2
<1>4. \A r \in N.occupied : N.entry[r] \in Keys
  BY <1>2, <1>3 DEF TableOK
<1>5. \A q, r \in N.occupied : N.entry[q] = N.entry[r] => q = r
  BY <1>2, <1>3 DEF TableOK, Content
<1>6. N.occupied \cup N.deleted = T.occupied \cup T.deleted \cup {s}
  BY <1>2
<1>7. ASSUME NEW r \in N.occupied
      PROVE  \E m \in 1 .. N.capacity : ReachedAt(N, N.entry[r], m, r)
  <2>1. CASE r = s
    <3>1. ReachedAt(N, k, n, s) BY <1>2, <1>6 DEF ReachedAt
    <3> QED BY <1>2, <1>3, <2>1, <3>1
  <2>2. CASE r \in T.occupied
    <3>1. PICK m \in 1 .. T.capacity : ReachedAt(T, T.entry[r], m, r) BY <2>2 DEF TableOK
    <3>2. ReachedAt(N, T.entry[r], m, r) BY <1>2, <1>6, <3>1 DEF ReachedAt
    <3> QED BY <1>2, <1>3, <2>2, <3>2
  <2> QED BY <1>2, <2>1, <2>2
<1>8. TableOK(N) BY <1>2, <1>4, <1>5, <1>7 DEF TableOK
<1>9. Content(N) = Content(T) \cup {k} BY <1>2, <1>3 DEF Content
<1> QED BY <1>8, <1>9 DEF N

\* contains_unlocked finds exactly the keys that are there.
LEMMA FoundIsPresent ==
  ASSUME HashesAssumption, NEW T, TableOK(T), NEW k \in Keys
  PROVE  Found(T, k) <=> k \in Content(T)
<1> DEFINE c == T.capacity
           S == Matching(T, k) \cup (Unused(T) \ T.deleted)
           i == FirstIn(k, c, S)
<1>1. c \in Nat /\ c # 0 BY DEF TableOK, TableShape, PowerOfTwo
<1> HIDE DEF c, S, i
<1>2. \/ i = 0 /\ \A n \in 1 .. c : Chain(k, c)[n] \notin S
      \/ /\ i \in 1 .. c /\ Chain(k, c)[i] \in S
         /\ \A n \in 1 .. c : n < i => Chain(k, c)[n] \notin S
  BY <1>1, FirstPlace DEF i
<1>3. Found(T, k) <=> i # 0 /\ Chain(k, c)[i] \in T.occupied
  BY DEF Found, c, S, i
<1>4. ASSUME Found(T, k) PROVE k \in Content(T)
  <2>1. Chain(k, c)[i] \in S /\ Chain(k, c)[i] \in T.occupied BY <1>2, <1>3, <1>4
  <2> QED BY <2>1 DEF S, Matching, Unused, Content
<1>5. ASSUME k \in Content(T) PROVE Found(T, k)
  <2>1. PICK s \in T.occupied : T.entry[s] = k BY <1>5 DEF Content
  <2>2. PICK m \in 1 .. c : ReachedAt(T, k, m, s) BY <2>1 DEF TableOK, c
  <2>3. Chain(k, c)[m] = s /\ s \in S BY <2>1, <2>2 DEF ReachedAt, S, Matching, c
  <2>4. i \in 1 .. c /\ Chain(k, c)[i] \in S /\ ~(m < i)
    BY <1>1, <1>2, <2>3
  <2>5. CASE i = m BY <1>1, <1>3, <2>3, <2>4, <2>5
  <2>6. CASE i < m
    <3>1. Chain(k, c)[i] \in T.occupied \cup T.deleted BY <2>2, <2>4, <2>6 DEF ReachedAt, c
    <3>2. Chain(k, c)[i] \in T.occupied BY <2>4, <3>1 DEF S, Matching, Unused
    <3> QED BY <1>3, <2>4, <3>2
  <2> QED BY <1>1, <2>4, <2>5, <2>6
<1> QED BY <1>4, <1>5

\* The first free slot of a chain, in a table that is not full.
LEMMA PlaceKeeps ==
  ASSUME HashesAssumption, NEW T, TableOK(T), NEW k \in Keys, Unused(T) # {}, k \notin Content(T)
  PROVE  /\ TableOK(Place(T, k)) /\ Content(Place(T, k)) = Content(T) \cup {k}
         /\ Place(T, k).capacity = T.capacity
         /\ \E s \in Unused(T) : Place(T, k).occupied = T.occupied \cup {s}
<1> DEFINE c == T.capacity
           i == FirstIn(k, c, Unused(T))
           s == SlotIn(k, c, Unused(T))
<1>1. c \in Nat /\ c # 0 /\ PowerOfTwo(c) BY DEF TableOK, TableShape, PowerOfTwo
<1>2. Unused(T) = (0 .. c - 1) \ T.occupied BY DEF Unused, TableOK, TableShape
<1>3. Place(T, k) = Occupy(T, s, k) BY DEF Place
<1>4. s = Chain(k, c)[i] BY DEF SlotIn
<1> HIDE DEF c, i, s
<1>5. PICK u \in 0 .. c - 1 : u \in Unused(T) BY <1>2
<1>6. \E n \in 1 .. c : Chain(k, c)[n] = u BY <1>1, ProbesVisitAll
<1>7. /\ i \in 1 .. c /\ Chain(k, c)[i] \in Unused(T)
      /\ \A n \in 1 .. c : n < i => Chain(k, c)[n] \notin Unused(T)
  <2>1. \/ i = 0 /\ \A n \in 1 .. c : Chain(k, c)[n] \notin Unused(T)
        \/ /\ i \in 1 .. c /\ Chain(k, c)[i] \in Unused(T)
           /\ \A n \in 1 .. c : n < i => Chain(k, c)[n] \notin Unused(T)
    BY <1>1, FirstPlace DEF i
  <2> QED BY <2>1, <1>5, <1>6
<1>8. s \in 0 .. c - 1 /\ s \notin T.occupied /\ s \in Unused(T) BY <1>2, <1>4, <1>7
<1>9. \A n \in 1 .. c : Chain(k, c)[n] \in 0 .. c - 1 BY <1>1, ChainSlots
<1>10. ReachedAt(T, k, i, s)
  <2>1. \A n \in 1 .. c : n < i => Chain(k, c)[n] \in T.occupied
    BY <1>2, <1>7, <1>9
  <2> QED BY <2>1, <1>4 DEF ReachedAt, c
<1>11. TableOK(Occupy(T, s, k)) /\ Content(Occupy(T, s, k)) = Content(T) \cup {k}
  BY <1>7, <1>8, <1>10, OccupyKeeps DEF c
<1>12. Occupy(T, s, k).capacity = T.capacity /\ Occupy(T, s, k).occupied = T.occupied \cup {s}
  <2>1. TableShape(T) BY DEF TableOK
  <2>2. s \in 0 .. T.capacity - 1 BY <1>8 DEF c
  <2>3. Occupy(T, s, k).capacity = T.capacity BY <2>1 DEF Occupy, TableShape
  <2>4. Occupy(T, s, k).occupied = T.occupied \cup {s}
    BY <2>1, <2>2 DEF Occupy, TableShape
  <2> QED BY <2>3, <2>4
<1> QED BY <1>3, <1>8, <1>11, <1>12

\* A new table is in order, and empty.
LEMMA NewTableOK ==
  ASSUME NEW c \in Nat, PowerOfTwo(c)
  PROVE  /\ TableOK(NewTable(c)) /\ Content(NewTable(c)) = {}
         /\ NewTable(c).capacity = c /\ NewTable(c).occupied = {}
<1> DEFINE N == NewTable(c)
<1>1. /\ N.capacity = c /\ N.occupied = {} /\ N.deleted = {}
      /\ N.entry = [s \in 0 .. c - 1 |-> NoKey]
      /\ DOMAIN N = {"capacity", "entry", "occupied", "deleted"}
  BY DEF NewTable
<1> HIDE DEF N
<1>2. N.entry \in [0 .. c - 1 -> Keys \cup {NoKey}] BY <1>1
<1>3. TableShape(N) BY <1>1, <1>2 DEF TableShape
<1> QED BY <1>1, <1>3 DEF TableOK, Content, N

\* After the first n slots the new table holds their keys, and at most n of them.
CarriedInv(T, c, n) ==
  LET N == CarriedOver(T, c)[n] IN
  /\ TableOK(N) /\ N.capacity = c
  /\ Content(N) = {T.entry[s] : s \in {r \in T.occupied : r < n}}
  /\ IsFiniteSet(N.occupied) /\ Cardinality(N.occupied) <= n

OneMore(S, N) == \E x : N = S \cup {x}

\* One more slot in use.
LEMMA OneMoreCounts ==
  ASSUME NEW S, IsFiniteSet(S), NEW N, OneMore(S, N)
  PROVE  IsFiniteSet(N) /\ Cardinality(N) \in Nat /\ Cardinality(N) <= Cardinality(S) + 1
<1>1. PICK x : N = S \cup {x} BY DEF OneMore
<1>2. IsFiniteSet(S \cup {x}) BY FS_AddElement
<1>3. Cardinality(S \cup {x}) = IF x \in S THEN Cardinality(S) ELSE Cardinality(S) + 1
  BY FS_AddElement
<1>4. Cardinality(S) \in Nat BY FS_CardinalityType
<1>5. Cardinality(N) = IF x \in S THEN Cardinality(S) ELSE Cardinality(S) + 1
  BY <1>1, <1>3
<1> QED BY <1>1, <1>2, <1>4, <1>5

\* A table with fewer keys than slots has a free one.
LEMMA RoomLeft ==
  ASSUME NEW T, TableShape(T), IsFiniteSet(T.occupied), Cardinality(T.occupied) < T.capacity
  PROVE  Unused(T) # {}
<1>1. T.capacity \in Nat /\ T.capacity # 0 BY DEF TableShape, PowerOfTwo
<1>2. Unused(T) = (0 .. T.capacity - 1) \ T.occupied BY DEF Unused, TableShape
<1>3. T.occupied \subseteq 0 .. T.capacity - 1 BY DEF TableShape
<1>4. SUFFICES ASSUME T.occupied = 0 .. T.capacity - 1 PROVE FALSE
  BY <1>2, <1>3
<1>5. Cardinality(0 .. T.capacity - 1) = T.capacity BY <1>1, FS_Interval
<1>6. Cardinality(T.occupied) = T.capacity BY <1>4, <1>5
<1> QED BY <1>1, <1>6

\* One slot of the old table is carried over.
LEMMA CarriedSlot ==
  ASSUME HashesAssumption, NEW T, TableOK(T), NEW c \in Nat, PowerOfTwo(c), T.capacity < c,
         NEW n \in 1 .. T.capacity, CarriedInv(T, c, n - 1)
  PROVE  CarriedInv(T, c, n)
<1> DEFINE M == CarriedOver(T, c)[n - 1]  N == CarriedOver(T, c)[n]
<1>1. T.capacity \in Nat /\ T.occupied \subseteq 0 .. T.capacity - 1
  BY DEF TableOK, TableShape, PowerOfTwo
<1>2. N = CarrySlot(T, M, n)
  BY <1>1, CarriedOverRecursion
<1>3. /\ TableOK(M) /\ M.capacity = c /\ TableShape(M)
      /\ Content(M) = {T.entry[s] : s \in {r \in T.occupied : r < n - 1}}
      /\ IsFiniteSet(M.occupied) /\ Cardinality(M.occupied) <= n - 1
  BY DEF CarriedInv, TableOK
<1>4. CarriedInv(T, c, n) <=>
        /\ TableOK(N) /\ N.capacity = c
        /\ Content(N) = {T.entry[s] : s \in {r \in T.occupied : r < n}}
        /\ IsFiniteSet(N.occupied) /\ Cardinality(N.occupied) <= n
  BY DEF CarriedInv
<1> HIDE DEF M, N
<1>5. Cardinality(M.occupied) \in Nat BY <1>3, FS_CardinalityType
<1>6. CASE n - 1 \notin T.occupied
  <2>1. N = M BY <1>2, <1>6 DEF CarrySlot
  <2>2. {r \in T.occupied : r < n} = {r \in T.occupied : r < n - 1} BY <1>1, <1>6
  <2> QED BY <1>3, <1>4, <1>5, <2>1, <2>2
<1>7. CASE n - 1 \in T.occupied
  <2> DEFINE k == T.entry[n - 1]
  <2>1. N = Place(M, k) BY <1>2, <1>7 DEF CarrySlot
  <2>2. k \in Keys BY <1>7 DEF TableOK
  <2>3. k \notin Content(M)
    <3> SUFFICES ASSUME NEW s \in T.occupied, s < n - 1, T.entry[s] = T.entry[n - 1] PROVE FALSE
      BY <1>3
    <3>1. s = n - 1 BY <1>7 DEF TableOK
    <3> QED BY <3>1, <1>1
  <2>4. Unused(M) # {}
    <3>1. Cardinality(M.occupied) < M.capacity BY <1>1, <1>3, <1>5
    <3> QED BY <1>3, <3>1, RoomLeft
  <2> HIDE DEF k
  <2>5. /\ TableOK(N) /\ Content(N) = Content(M) \cup {k} /\ N.capacity = c
        /\ \E s \in Unused(M) : N.occupied = M.occupied \cup {s}
    BY <1>3, <2>1, <2>2, <2>3, <2>4, PlaceKeeps
  <2>6. IsFiniteSet(N.occupied) /\ Cardinality(N.occupied) <= n
    <3>1. OneMore(M.occupied, N.occupied) BY <2>5 DEF OneMore
    <3>2. /\ IsFiniteSet(N.occupied) /\ Cardinality(N.occupied) \in Nat
          /\ Cardinality(N.occupied) <= Cardinality(M.occupied) + 1
      BY <1>3, <3>1, OneMoreCounts
    <3> QED BY <1>1, <1>3, <1>5, <3>2
  <2>7. {r \in T.occupied : r < n} = {r \in T.occupied : r < n - 1} \cup {n - 1}
    BY <1>1, <1>7
  <2>8. Content(N) = {T.entry[s] : s \in {r \in T.occupied : r < n}}
    BY <1>3, <2>5, <2>7 DEF k
  <2> QED BY <1>4, <2>5, <2>6, <2>8
<1> QED BY <1>6, <1>7

\* rehash_unlocked into a larger table finds room for every key and loses none.
THEOREM RehashKeeps ==
  ASSUME HashesAssumption, NEW T, TableOK(T), NEW c \in Nat, PowerOfTwo(c), T.capacity < c
  PROVE  /\ TableOK(Rehashed(T, c)) /\ Content(Rehashed(T, c)) = Content(T)
         /\ Rehashed(T, c).capacity = c /\ Unused(Rehashed(T, c)) # {}
<1>1. T.capacity \in Nat /\ T.occupied \subseteq 0 .. T.capacity - 1
  BY DEF TableOK, TableShape, PowerOfTwo
<1> DEFINE S == {n \in Nat : n <= T.capacity => CarriedInv(T, c, n)}
<1>2. 0 \in S
  <2>1. CarriedOver(T, c)[0] = NewTable(c) BY <1>1, CarriedOverRecursion
  <2>2. {r \in T.occupied : r < 0} = {} BY <1>1
  <2>3. IsFiniteSet({}) /\ Cardinality({}) = 0 BY FS_EmptySet
  <2>4. CarriedInv(T, c, 0) BY <2>1, <2>2, <2>3, NewTableOK DEF CarriedInv
  <2> QED BY <2>4
<1>3. ASSUME NEW n \in Nat, n \in S PROVE n + 1 \in S
  <2> SUFFICES ASSUME n + 1 <= T.capacity PROVE CarriedInv(T, c, n + 1)
    OBVIOUS
  <2>1. n + 1 \in 1 .. T.capacity /\ (n + 1) - 1 = n BY <1>1
  <2>2. CarriedInv(T, c, n) BY <1>1, <1>3
  <2> HIDE DEF S
  <2> QED BY <2>1, <2>2, CarriedSlot
<1> HIDE DEF S
<1>4. Nat \subseteq S BY <1>2, <1>3, SetInduction
<1>5. CarriedInv(T, c, T.capacity) BY <1>1, <1>4 DEF S
<1> DEFINE N == Rehashed(T, c)
<1>6. /\ TableOK(N) /\ N.capacity = c /\ TableShape(N)
      /\ Content(N) = {T.entry[s] : s \in {r \in T.occupied : r < T.capacity}}
      /\ IsFiniteSet(N.occupied) /\ Cardinality(N.occupied) <= T.capacity
  BY <1>5 DEF CarriedInv, Rehashed, TableOK
<1> HIDE DEF N
<1>7. {r \in T.occupied : r < T.capacity} = T.occupied BY <1>1
<1>8. Content(N) = Content(T) BY <1>6, <1>7 DEF Content
<1>9. Cardinality(N.occupied) < N.capacity
  <2>1. Cardinality(N.occupied) \in Nat BY <1>6, FS_CardinalityType
  <2> QED BY <1>1, <1>6, <2>1
<1>10. Unused(N) # {} BY <1>6, <1>9, RoomLeft
<1> QED BY <1>6, <1>8, <1>10 DEF N

\* insert_unlocked
LEMMA InsertKeeps ==
  ASSUME HashesAssumption, NEW T, TableOK(T), NEW k \in Keys
  PROVE  TableOK(Insert(T, k)) /\ Content(Insert(T, k)) = Content(T) \cup {k}
<1>1. CASE Found(T, k)
  <2>1. k \in Content(T) BY <1>1, FoundIsPresent
  <2>2. Insert(T, k) = T BY <1>1 DEF Insert
  <2> QED BY <2>1, <2>2
<1>2. CASE ~Found(T, k)
  <2> DEFINE F == IF Unused(T) = {} THEN Rehashed(T, 2 * T.capacity) ELSE T
  <2>1. k \notin Content(T) BY <1>2, FoundIsPresent
  <2>2. Insert(T, k) = Place(F, k) BY <1>2 DEF Insert
  <2>3. TableOK(F) /\ Content(F) = Content(T) /\ Unused(F) # {}
    <3>1. CASE Unused(T) # {} BY <3>1
    <3>2. CASE Unused(T) = {}
      <4>1. T.capacity \in Nat /\ T.capacity # 0 /\ PowerOfTwo(T.capacity)
        BY DEF TableOK, TableShape, PowerOfTwo
      <4> DEFINE c == 2 * T.capacity
      <4>2. c \in Nat /\ PowerOfTwo(c) /\ T.capacity < c BY <4>1, DoubleIsPower
      <4>3. F = Rehashed(T, c) BY <3>2
      <4> HIDE DEF c, F
      <4> QED BY <4>2, <4>3, RehashKeeps
    <3> QED BY <3>1, <3>2
  <2> HIDE DEF F
  <2> QED BY <2>1, <2>2, <2>3, PlaceKeeps
<1> QED BY <1>1, <1>2

\* erase_unlocked leaves a tombstone, which keeps every other chain whole.
LEMMA EraseKeeps ==
  ASSUME HashesAssumption, NEW T, TableOK(T), NEW k \in Keys
  PROVE  TableOK(EraseKey(T, k)) /\ Content(EraseKey(T, k)) = Content(T) \ {k}
<1>1. CASE ~Found(T, k)
  <2>1. k \notin Content(T) BY <1>1, FoundIsPresent
  <2>2. EraseKey(T, k) = T BY <1>1 DEF EraseKey
  <2> QED BY <2>1, <2>2
<1>2. CASE Found(T, k)
  <2> DEFINE c == T.capacity
             i == FirstIn(k, c, Matching(T, k))
             s == SlotIn(k, c, Matching(T, k))
             N == EraseKey(T, k)
  <2>1. c \in Nat /\ c # 0 /\ TableShape(T) BY DEF TableOK, TableShape, PowerOfTwo
  <2>2. /\ N.occupied = T.occupied \ {s} /\ N.deleted = T.deleted \cup {s}
        /\ N.capacity = T.capacity /\ N.entry = T.entry /\ DOMAIN N = DOMAIN T
    BY <1>2, <2>1 DEF EraseKey, TableShape
  <2>3. s = Chain(k, c)[i] BY DEF SlotIn
  <2> HIDE DEF c, i, s, N
  <2>4. s \in Matching(T, k)
    <3>1. k \in Content(T) BY <1>2, FoundIsPresent
    <3>2. PICK r \in T.occupied : T.entry[r] = k BY <3>1 DEF Content
    <3>3. PICK m \in 1 .. c : ReachedAt(T, k, m, r) BY <3>2 DEF TableOK, c
    <3>4. Chain(k, c)[m] \in Matching(T, k) BY <3>2, <3>3 DEF ReachedAt, Matching, c
    <3>5. \/ i = 0 /\ \A n \in 1 .. c : Chain(k, c)[n] \notin Matching(T, k)
          \/ i \in 1 .. c /\ Chain(k, c)[i] \in Matching(T, k)
      BY <2>1, FirstPlace DEF i
    <3> QED BY <2>3, <3>4, <3>5
  <2>5. s \in T.occupied /\ T.entry[s] = k BY <2>4 DEF Matching
  <2>6. N.occupied \cup N.deleted = T.occupied \cup T.deleted
    BY <2>2, <2>5
  <2>7. TableShape(N) BY <2>1, <2>2, <2>5 DEF TableShape
  <2>8. ASSUME NEW r \in N.occupied
        PROVE  \E m \in 1 .. N.capacity : ReachedAt(N, N.entry[r], m, r)
    <3>1. r \in T.occupied BY <2>2
    <3>2. PICK m \in 1 .. T.capacity : ReachedAt(T, T.entry[r], m, r) BY <3>1 DEF TableOK
    <3>3. ReachedAt(N, T.entry[r], m, r) BY <2>2, <2>6, <3>2 DEF ReachedAt
    <3> QED BY <2>2, <3>3
  <2>9. TableOK(N) BY <2>2, <2>7, <2>8 DEF TableOK
  <2>10. Content(N) = Content(T) \ {k}
    <3>1. \A r \in T.occupied : r # s => T.entry[r] # k BY <2>5 DEF TableOK
    <3> QED BY <2>2, <2>5, <3>1 DEF Content
  <2> QED BY <2>9, <2>10 DEF N
<1> QED BY <1>1, <1>2

\* clear_unlocked leaves an empty table in order.
LEMMA ClearKeeps ==
  ASSUME NEW T, TableOK(T)
  PROVE  TableOK(Cleared(T)) /\ Content(Cleared(T)) = {}
<1> DEFINE N == Cleared(T)
<1>1. /\ N.occupied = {} /\ N.deleted = {} /\ N.capacity = T.capacity /\ N.entry = T.entry
      /\ DOMAIN N = DOMAIN T
  BY DEF Cleared, TableOK, TableShape
<1> HIDE DEF N
<1>2. TableShape(N) BY <1>1 DEF TableShape, TableOK
<1> QED BY <1>1, <1>2 DEF TableOK, Content, N

\* resize_unlocked keeps the keys.
LEMMA ResizeKeeps ==
  ASSUME HashesAssumption, NEW T, TableOK(T), NEW c \in Nat, PowerOfTwo(c)
  PROVE  TableOK(Resized(T, c)) /\ Content(Resized(T, c)) = Content(T)
<1>1. T.capacity \in Nat BY DEF TableOK, TableShape, PowerOfTwo
<1>2. CASE c > T.capacity
  <2>1. Resized(T, c) = Rehashed(T, c) BY <1>2 DEF Resized
  <2>2. T.capacity < c BY <1>1, <1>2
  <2> QED BY <2>1, <2>2, RehashKeeps
<1>3. CASE ~(c > T.capacity)
  BY <1>3 DEF Resized
<1> QED BY <1>2, <1>3

-----------------------------------------------------------------------------
(* EdgeHashTable, where nothing is ever removed *)

EdgeEntry == [key : Keys, cell1 : Tokens, cell2 : Tokens \cup {NoToken}]

EdgeShape(T) ==
  /\ DOMAIN T = {"capacity", "entry", "occupied", "overfull"}
  /\ PowerOfTwo(T.capacity)
  /\ DOMAIN T.entry = 0 .. T.capacity - 1
  /\ T.occupied \subseteq 0 .. T.capacity - 1

EdgeReachedAt(T, k, n, s) ==
  /\ Chain(k, T.capacity)[n] = s
  /\ \A m \in 1 .. T.capacity : m < n => Chain(k, T.capacity)[m] \in T.occupied

\* An edge table in order: an edge has one entry, and a search for it gets there.
EdgeTableOK(T) ==
  /\ EdgeShape(T)
  /\ \A s \in T.occupied : T.entry[s] \in EdgeEntry
  /\ \A r, s \in T.occupied : T.entry[r].key = T.entry[s].key => r = s
  /\ \A s \in T.occupied : \E n \in 1 .. T.capacity : EdgeReachedAt(T, T.entry[s].key, n, s)

EdgeContent(T) == {T.entry[s] : s \in T.occupied}
HoldsEdge(T, k) == \E e \in EdgeContent(T) : e.key = k

\* The fields of an entry.
LEMMA EdgeEntryKey ==
  ASSUME NEW e \in EdgeEntry
  PROVE  e.key \in Keys /\ e.cell1 \in Tokens /\ e.cell2 \in Tokens \cup {NoToken}
BY DEF EdgeEntry

\* What OccupyEdge makes of each field.
LEMMA OccupyEdgeFields ==
  ASSUME NEW T, EdgeShape(T), NEW s \in 0 .. T.capacity - 1, NEW e
  PROVE  /\ EdgeShape(OccupyEdge(T, s, e))
         /\ OccupyEdge(T, s, e).capacity = T.capacity
         /\ OccupyEdge(T, s, e).entry = [T.entry EXCEPT ![s] = e]
         /\ OccupyEdge(T, s, e).occupied = T.occupied \cup {s}
         /\ OccupyEdge(T, s, e).overfull = T.overfull
<1> DEFINE N == OccupyEdge(T, s, e)
<1>1. /\ N.capacity = T.capacity /\ N.entry = [T.entry EXCEPT ![s] = e]
      /\ N.occupied = T.occupied \cup {s} /\ N.overfull = T.overfull
      /\ DOMAIN N = DOMAIN T
  BY DEF OccupyEdge, EdgeShape
<1>2. DOMAIN N.entry = DOMAIN T.entry BY <1>1
<1> HIDE DEF N
<1>3. EdgeShape(N) BY <1>1, <1>2 DEF EdgeShape
<1> QED BY <1>1, <1>3 DEF N

\* An edge written into the first free slot of its chain leaves the table in order.
LEMMA OccupyEdgeKeeps ==
  ASSUME NEW T, EdgeTableOK(T), NEW e \in EdgeEntry, NEW n \in 1 .. T.capacity,
         NEW s \in 0 .. T.capacity - 1, s \notin T.occupied, EdgeReachedAt(T, e.key, n, s),
         ~HoldsEdge(T, e.key)
  PROVE  /\ EdgeTableOK(OccupyEdge(T, s, e))
         /\ EdgeContent(OccupyEdge(T, s, e)) = EdgeContent(T) \cup {e}
<1> DEFINE N == OccupyEdge(T, s, e)
<1>1. EdgeShape(T) /\ DOMAIN T.entry = 0 .. T.capacity - 1
      /\ T.occupied \subseteq 0 .. T.capacity - 1
  BY DEF EdgeTableOK, EdgeShape
<1>2. /\ EdgeShape(N) /\ N.capacity = T.capacity /\ N.entry = [T.entry EXCEPT ![s] = e]
      /\ N.occupied = T.occupied \cup {s} /\ N.overfull = T.overfull
  BY <1>1, OccupyEdgeFields
<1> HIDE DEF N
<1>3. N.entry[s] = e /\ \A r \in T.occupied : N.entry[r] = T.entry[r]
  BY <1>1, <1>2
<1>4. \A r \in N.occupied : N.entry[r] \in EdgeEntry
  BY <1>2, <1>3 DEF EdgeTableOK
<1>5. \A r \in T.occupied : T.entry[r].key # e.key
  BY DEF HoldsEdge, EdgeContent
<1>6. \A q, r \in N.occupied : N.entry[q].key = N.entry[r].key => q = r
  BY <1>2, <1>3, <1>5 DEF EdgeTableOK
<1>7. ASSUME NEW r \in N.occupied
      PROVE  \E m \in 1 .. N.capacity : EdgeReachedAt(N, N.entry[r].key, m, r)
  <2>1. CASE r = s
    <3>1. EdgeReachedAt(N, e.key, n, s) BY <1>2 DEF EdgeReachedAt
    <3> QED BY <1>2, <1>3, <2>1, <3>1
  <2>2. CASE r \in T.occupied
    <3>1. PICK m \in 1 .. T.capacity : EdgeReachedAt(T, T.entry[r].key, m, r)
      BY <2>2 DEF EdgeTableOK
    <3>2. EdgeReachedAt(N, T.entry[r].key, m, r) BY <1>2, <3>1 DEF EdgeReachedAt
    <3> QED BY <1>2, <1>3, <2>2, <3>2
  <2> QED BY <1>2, <2>1, <2>2
<1>8. EdgeTableOK(N) BY <1>2, <1>4, <1>6, <1>7 DEF EdgeTableOK
<1>9. EdgeContent(N) = EdgeContent(T) \cup {e} BY <1>2, <1>3 DEF EdgeContent
<1> QED BY <1>8, <1>9 DEF N

\* The first free slot on the chain of a new edge.
LEMMA FirstUnusedEdge ==
  ASSUME HashesAssumption, NEW T, EdgeTableOK(T), NEW k \in Keys, Unused(T) # {}
  PROVE  LET s == SlotIn(k, T.capacity, Unused(T)) IN
         /\ s \in 0 .. T.capacity - 1 /\ s \notin T.occupied /\ s \in Unused(T)
         /\ \E n \in 1 .. T.capacity : EdgeReachedAt(T, k, n, s)
<1> DEFINE c == T.capacity
           i == FirstIn(k, c, Unused(T))
           s == SlotIn(k, c, Unused(T))
<1>1. c \in Nat /\ c # 0 /\ PowerOfTwo(c) BY DEF EdgeTableOK, EdgeShape, PowerOfTwo
<1>2. Unused(T) = (0 .. c - 1) \ T.occupied BY DEF Unused, EdgeTableOK, EdgeShape
<1>3. s = Chain(k, c)[i] BY DEF SlotIn
<1>4. SUFFICES /\ s \in 0 .. c - 1 /\ s \notin T.occupied /\ s \in Unused(T)
               /\ \E n \in 1 .. T.capacity : EdgeReachedAt(T, k, n, s)
  OBVIOUS
<1> HIDE DEF c, i, s
<1>5. PICK u \in 0 .. c - 1 : u \in Unused(T) BY <1>2
<1>6. \E n \in 1 .. c : Chain(k, c)[n] = u BY <1>1, ProbesVisitAll
<1>7. /\ i \in 1 .. c /\ Chain(k, c)[i] \in Unused(T)
      /\ \A n \in 1 .. c : n < i => Chain(k, c)[n] \notin Unused(T)
  <2>1. \/ i = 0 /\ \A n \in 1 .. c : Chain(k, c)[n] \notin Unused(T)
        \/ /\ i \in 1 .. c /\ Chain(k, c)[i] \in Unused(T)
           /\ \A n \in 1 .. c : n < i => Chain(k, c)[n] \notin Unused(T)
    BY <1>1, FirstPlace DEF i
  <2> QED BY <2>1, <1>5, <1>6
<1>8. s \in 0 .. c - 1 /\ s \notin T.occupied /\ s \in Unused(T) BY <1>2, <1>3, <1>7
<1>9. \A n \in 1 .. c : Chain(k, c)[n] \in 0 .. c - 1 BY <1>1, ChainSlots
<1>10. EdgeReachedAt(T, k, i, s)
  <2>1. \A n \in 1 .. c : n < i => Chain(k, c)[n] \in T.occupied
    BY <1>2, <1>7, <1>9
  <2> QED BY <2>1, <1>3 DEF EdgeReachedAt, c
<1> QED BY <1>7, <1>8, <1>10 DEF c

\* insert_rehashed of an edge table.
LEMMA PlaceEdgeKeeps ==
  ASSUME HashesAssumption, NEW T, EdgeTableOK(T), NEW e \in EdgeEntry, Unused(T) # {},
         ~HoldsEdge(T, e.key)
  PROVE  /\ EdgeTableOK(PlaceEdge(T, e)) /\ EdgeContent(PlaceEdge(T, e)) = EdgeContent(T) \cup {e}
         /\ PlaceEdge(T, e).capacity = T.capacity /\ PlaceEdge(T, e).overfull = T.overfull
         /\ OneMore(T.occupied, PlaceEdge(T, e).occupied)
<1> DEFINE s == SlotIn(e.key, T.capacity, Unused(T))
<1>1. e.key \in Keys BY EdgeEntryKey
<1>2. PlaceEdge(T, e) = OccupyEdge(T, s, e) BY DEF PlaceEdge
<1>3. /\ s \in 0 .. T.capacity - 1 /\ s \notin T.occupied
      /\ \E n \in 1 .. T.capacity : EdgeReachedAt(T, e.key, n, s)
  BY <1>1, FirstUnusedEdge
<1> HIDE DEF s
<1>4. /\ EdgeTableOK(OccupyEdge(T, s, e))
      /\ EdgeContent(OccupyEdge(T, s, e)) = EdgeContent(T) \cup {e}
  BY <1>3, OccupyEdgeKeeps
<1>5. EdgeShape(T) BY DEF EdgeTableOK
<1>6. /\ OccupyEdge(T, s, e).capacity = T.capacity
      /\ OccupyEdge(T, s, e).occupied = T.occupied \cup {s}
      /\ OccupyEdge(T, s, e).overfull = T.overfull
  BY <1>5 DEF OccupyEdge, EdgeShape
<1> QED BY <1>2, <1>4, <1>6 DEF OneMore

CarryEdgeSlot(T, new, n) ==
  IF n - 1 \in T.occupied THEN PlaceEdge(new, T.entry[n - 1]) ELSE new

FirstEdgeTable(T, c) == [NewEdgeTable(c) EXCEPT !.overfull = T.overfull]

\* The edge table is copied slot by slot, too.
LEMMA CarriedEdgesRecursion ==
  ASSUME NEW T, NEW c, T.capacity \in Nat
  PROVE  /\ CarriedEdges(T, c)[0] = FirstEdgeTable(T, c)
         /\ \A n \in 1 .. T.capacity :
              CarriedEdges(T, c)[n] = CarryEdgeSlot(T, CarriedEdges(T, c)[n - 1], n)
<1> DEFINE Next1(f, n) == IF n = 0 THEN FirstEdgeTable(T, c) ELSE CarryEdgeSlot(T, f[n - 1], n)
           Carries(f, m) == f = [n \in 0 .. m |-> Next1(f, n)]
           S == {m \in Nat : \E f : Carries(f, m)}
<1>1. 0 \in S
  <2> DEFINE f == [n \in 0 .. 0 |-> FirstEdgeTable(T, c)]
  <2>1. Carries(f, 0) OBVIOUS
  <2> QED BY <2>1
<1>2. ASSUME NEW m \in Nat, m \in S PROVE m + 1 \in S
  <2>1. PICK f : Carries(f, m) BY <1>2
  <2> DEFINE g == [n \in 0 .. m + 1 |->
                     IF n = m + 1 THEN CarryEdgeSlot(T, f[m], m + 1) ELSE f[n]]
  <2>2. ASSUME NEW n \in 0 .. m + 1 PROVE g[n] = Next1(g, n)
    <3>1. CASE n = 0 BY <2>1, <3>1
    <3>2. CASE n \in 1 .. m
      <4>1. n \in 0 .. m /\ n - 1 \in 0 .. m /\ n # 0 /\ n # m + 1 /\ n - 1 # m + 1 BY <3>2
      <4>2. g[n] = f[n] /\ g[n - 1] = f[n - 1] BY <4>1
      <4>3. f[n] = CarryEdgeSlot(T, f[n - 1], n) BY <2>1, <4>1
      <4> QED BY <4>1, <4>2, <4>3
    <3>3. CASE n = m + 1
      <4>1. n # 0 /\ n - 1 = m /\ m \in 0 .. m + 1 /\ m # m + 1 BY <3>3
      <4>2. g[n - 1] = f[m] BY <4>1
      <4> QED BY <3>3, <4>1, <4>2
    <3> QED BY <3>1, <3>2, <3>3
  <2>3. Carries(g, m + 1) BY <2>2
  <2>4. \E f1 : Carries(f1, m + 1)
    <3> HIDE DEF g, Carries
    <3> QED BY <2>3
  <2> QED BY <2>4
<1> HIDE DEF S
<1>3. Nat \subseteq S BY <1>1, <1>2, SetInduction
<1>4. PICK f : Carries(f, T.capacity) BY <1>3 DEF S
<1>5. CarriedEdges(T, c) = CHOOSE f1 : Carries(f1, T.capacity)
  BY DEF CarriedEdges, CarryEdgeSlot, FirstEdgeTable
<1>6. Carries(CarriedEdges(T, c), T.capacity)
  <2> HIDE DEF Carries
  <2> QED BY <1>4, <1>5
<1>7. ASSUME NEW n \in 0 .. T.capacity
      PROVE  CarriedEdges(T, c)[n] = Next1(CarriedEdges(T, c), n)
  <2> DEFINE h == CarriedEdges(T, c)
  <2> HIDE DEF h, Next1
  <2>1. h = [i \in 0 .. T.capacity |-> Next1(h, i)] BY <1>6 DEF h
  <2>2. h[n] = Next1(h, n) BY <2>1
  <2> QED BY <2>2 DEF h
<1> QED BY <1>7

\* A new edge table is in order, and empty.
LEMMA NewEdgeTableOK ==
  ASSUME NEW c \in Nat, PowerOfTwo(c)
  PROVE  /\ EdgeTableOK(NewEdgeTable(c)) /\ EdgeContent(NewEdgeTable(c)) = {}
         /\ NewEdgeTable(c).overfull = FALSE
<1> DEFINE N == NewEdgeTable(c)
<1>1. /\ N.capacity = c /\ N.occupied = {} /\ N.overfull = FALSE
      /\ N.entry = [s \in 0 .. c - 1 |-> NoKey]
      /\ DOMAIN N = {"capacity", "entry", "occupied", "overfull"}
  BY DEF NewEdgeTable
<1> HIDE DEF N
<1>2. DOMAIN N.entry = 0 .. c - 1 BY <1>1
<1>3. EdgeShape(N) BY <1>1, <1>2 DEF EdgeShape
<1> QED BY <1>1, <1>3 DEF EdgeTableOK, EdgeContent, N

\* So is the one a growth begins with, which keeps the overfull flag.
LEMMA FirstEdgeTableOK ==
  ASSUME NEW T, NEW c \in Nat, PowerOfTwo(c)
  PROVE  /\ EdgeTableOK(FirstEdgeTable(T, c)) /\ EdgeContent(FirstEdgeTable(T, c)) = {}
         /\ FirstEdgeTable(T, c).capacity = c /\ FirstEdgeTable(T, c).occupied = {}
         /\ FirstEdgeTable(T, c).overfull = T.overfull
<1> DEFINE N == FirstEdgeTable(T, c)
<1>1. /\ N.capacity = c /\ N.occupied = {} /\ N.overfull = T.overfull
      /\ N.entry = [s \in 0 .. c - 1 |-> NoKey]
      /\ DOMAIN N = {"capacity", "entry", "occupied", "overfull"}
  BY DEF NewEdgeTable, FirstEdgeTable
<1> HIDE DEF N
<1>2. DOMAIN N.entry = 0 .. c - 1 BY <1>1
<1>3. EdgeShape(N) BY <1>1, <1>2 DEF EdgeShape
<1> QED BY <1>1, <1>3 DEF EdgeTableOK, EdgeContent, N

CarriedEdgesInv(T, c, n) ==
  LET N == CarriedEdges(T, c)[n] IN
  /\ EdgeTableOK(N) /\ N.capacity = c /\ N.overfull = T.overfull
  /\ EdgeContent(N) = {T.entry[s] : s \in {r \in T.occupied : r < n}}
  /\ IsFiniteSet(N.occupied) /\ Cardinality(N.occupied) <= n

\* An edge table with fewer edges than slots has a free one.
LEMMA EdgeRoomLeft ==
  ASSUME NEW T, EdgeShape(T), IsFiniteSet(T.occupied), Cardinality(T.occupied) < T.capacity
  PROVE  Unused(T) # {}
<1>1. T.capacity \in Nat /\ T.capacity # 0 BY DEF EdgeShape, PowerOfTwo
<1>2. Unused(T) = (0 .. T.capacity - 1) \ T.occupied BY DEF Unused, EdgeShape
<1>3. T.occupied \subseteq 0 .. T.capacity - 1 BY DEF EdgeShape
<1>4. SUFFICES ASSUME T.occupied = 0 .. T.capacity - 1 PROVE FALSE
  BY <1>2, <1>3
<1>5. Cardinality(0 .. T.capacity - 1) = T.capacity BY <1>1, FS_Interval
<1>6. Cardinality(T.occupied) = T.capacity BY <1>4, <1>5
<1> QED BY <1>1, <1>6

\* One slot of the old edge table is carried over.
LEMMA CarriedEdgeSlot ==
  ASSUME HashesAssumption, NEW T, EdgeTableOK(T), NEW c \in Nat, PowerOfTwo(c), T.capacity < c,
         NEW n \in 1 .. T.capacity, CarriedEdgesInv(T, c, n - 1)
  PROVE  CarriedEdgesInv(T, c, n)
<1> DEFINE M == CarriedEdges(T, c)[n - 1]  N == CarriedEdges(T, c)[n]
<1>1. T.capacity \in Nat /\ T.occupied \subseteq 0 .. T.capacity - 1
  BY DEF EdgeTableOK, EdgeShape, PowerOfTwo
<1>2. N = CarryEdgeSlot(T, M, n)
  BY <1>1, CarriedEdgesRecursion
<1>3. /\ EdgeTableOK(M) /\ M.capacity = c /\ EdgeShape(M) /\ M.overfull = T.overfull
      /\ EdgeContent(M) = {T.entry[s] : s \in {r \in T.occupied : r < n - 1}}
      /\ IsFiniteSet(M.occupied) /\ Cardinality(M.occupied) <= n - 1
  BY DEF CarriedEdgesInv, EdgeTableOK
<1>4. CarriedEdgesInv(T, c, n) <=>
        /\ EdgeTableOK(N) /\ N.capacity = c /\ N.overfull = T.overfull
        /\ EdgeContent(N) = {T.entry[s] : s \in {r \in T.occupied : r < n}}
        /\ IsFiniteSet(N.occupied) /\ Cardinality(N.occupied) <= n
  BY DEF CarriedEdgesInv
<1> HIDE DEF M, N
<1>5. Cardinality(M.occupied) \in Nat BY <1>3, FS_CardinalityType
<1>6. CASE n - 1 \notin T.occupied
  <2>1. N = M BY <1>2, <1>6 DEF CarryEdgeSlot
  <2>2. {r \in T.occupied : r < n} = {r \in T.occupied : r < n - 1} BY <1>1, <1>6
  <2> QED BY <1>3, <1>4, <1>5, <2>1, <2>2
<1>7. CASE n - 1 \in T.occupied
  <2> DEFINE e == T.entry[n - 1]
  <2>1. N = PlaceEdge(M, e) BY <1>2, <1>7 DEF CarryEdgeSlot
  <2>2. e \in EdgeEntry BY <1>7 DEF EdgeTableOK
  <2>3. ~HoldsEdge(M, e.key)
    <3> SUFFICES ASSUME NEW s \in T.occupied, s < n - 1, T.entry[s].key = T.entry[n - 1].key
                 PROVE  FALSE
      BY <1>3 DEF HoldsEdge
    <3>1. s = n - 1 BY <1>7 DEF EdgeTableOK
    <3> QED BY <3>1, <1>1
  <2>4. Unused(M) # {}
    <3>1. Cardinality(M.occupied) < M.capacity BY <1>1, <1>3, <1>5
    <3> QED BY <1>3, <3>1, EdgeRoomLeft
  <2> HIDE DEF e
  <2>5. /\ EdgeTableOK(N) /\ EdgeContent(N) = EdgeContent(M) \cup {e} /\ N.capacity = c
        /\ N.overfull = T.overfull /\ OneMore(M.occupied, N.occupied)
    BY <1>3, <2>1, <2>2, <2>3, <2>4, PlaceEdgeKeeps
  <2>6. IsFiniteSet(N.occupied) /\ Cardinality(N.occupied) <= n
    <3>2. /\ IsFiniteSet(N.occupied) /\ Cardinality(N.occupied) \in Nat
          /\ Cardinality(N.occupied) <= Cardinality(M.occupied) + 1
      BY <1>3, <2>5, OneMoreCounts
    <3> QED BY <1>1, <1>3, <1>5, <3>2
  <2>7. {r \in T.occupied : r < n} = {r \in T.occupied : r < n - 1} \cup {n - 1}
    BY <1>1, <1>7
  <2>8. EdgeContent(N) = {T.entry[s] : s \in {r \in T.occupied : r < n}}
    BY <1>3, <2>5, <2>7 DEF e
  <2> QED BY <1>4, <2>5, <2>6, <2>8
<1> QED BY <1>6, <1>7

\* A growth of an edge table keeps every edge with both its cells.
LEMMA RehashEdgesKeeps ==
  ASSUME HashesAssumption, NEW T, EdgeTableOK(T), NEW c \in Nat, PowerOfTwo(c), T.capacity < c
  PROVE  /\ EdgeTableOK(RehashedEdges(T, c))
         /\ EdgeContent(RehashedEdges(T, c)) = EdgeContent(T)
         /\ RehashedEdges(T, c).overfull = T.overfull /\ Unused(RehashedEdges(T, c)) # {}
<1>1. T.capacity \in Nat /\ T.occupied \subseteq 0 .. T.capacity - 1
  BY DEF EdgeTableOK, EdgeShape, PowerOfTwo
<1> DEFINE S == {n \in Nat : n <= T.capacity => CarriedEdgesInv(T, c, n)}
<1>2. 0 \in S
  <2>1. CarriedEdges(T, c)[0] = FirstEdgeTable(T, c) BY <1>1, CarriedEdgesRecursion
  <2>2. {r \in T.occupied : r < 0} = {} BY <1>1
  <2>3. IsFiniteSet({}) /\ Cardinality({}) = 0 BY FS_EmptySet
  <2>4. CarriedEdgesInv(T, c, 0) BY <2>1, <2>2, <2>3, FirstEdgeTableOK DEF CarriedEdgesInv
  <2> QED BY <2>4
<1>3. ASSUME NEW n \in Nat, n \in S PROVE n + 1 \in S
  <2> SUFFICES ASSUME n + 1 <= T.capacity PROVE CarriedEdgesInv(T, c, n + 1)
    OBVIOUS
  <2>1. n + 1 \in 1 .. T.capacity /\ (n + 1) - 1 = n BY <1>1
  <2>2. CarriedEdgesInv(T, c, n) BY <1>1, <1>3
  <2> HIDE DEF S
  <2> QED BY <2>1, <2>2, CarriedEdgeSlot
<1> HIDE DEF S
<1>4. Nat \subseteq S BY <1>2, <1>3, SetInduction
<1>5. CarriedEdgesInv(T, c, T.capacity) BY <1>1, <1>4 DEF S
<1> DEFINE N == RehashedEdges(T, c)
<1>6. /\ EdgeTableOK(N) /\ N.capacity = c /\ EdgeShape(N) /\ N.overfull = T.overfull
      /\ EdgeContent(N) = {T.entry[s] : s \in {r \in T.occupied : r < T.capacity}}
      /\ IsFiniteSet(N.occupied) /\ Cardinality(N.occupied) <= T.capacity
  BY <1>5 DEF CarriedEdgesInv, RehashedEdges, EdgeTableOK
<1> HIDE DEF N
<1>7. {r \in T.occupied : r < T.capacity} = T.occupied BY <1>1
<1>8. EdgeContent(N) = EdgeContent(T) BY <1>6, <1>7 DEF EdgeContent
<1>9. Cardinality(N.occupied) < N.capacity
  <2>1. Cardinality(N.occupied) \in Nat BY <1>6, FS_CardinalityType
  <2> QED BY <1>1, <1>6, <2>1
<1>10. Unused(N) # {} BY <1>6, <1>9, EdgeRoomLeft
<1> QED BY <1>6, <1>8, <1>10 DEF N

\* clear() of an edge table.
LEMMA ClearEdgesKeeps ==
  ASSUME NEW T, EdgeTableOK(T)
  PROVE  /\ EdgeTableOK(ClearedEdges(T)) /\ EdgeContent(ClearedEdges(T)) = {}
         /\ ClearedEdges(T).overfull = FALSE
<1> DEFINE N == ClearedEdges(T)
<1>1. /\ N.occupied = {} /\ N.capacity = T.capacity /\ N.entry = T.entry /\ N.overfull = FALSE
      /\ DOMAIN N = DOMAIN T
  BY DEF ClearedEdges, EdgeTableOK, EdgeShape
<1> HIDE DEF N
<1>2. EdgeShape(N) BY <1>1 DEF EdgeShape, EdgeTableOK
<1> QED BY <1>1, <1>2 DEF EdgeTableOK, EdgeContent, N

\* An edge is in the table when a slot holds it.
LEMMA HoldsEdgeSlots ==
  ASSUME NEW T, NEW k
  PROVE  HoldsEdge(T, k) <=> EdgeSlots(T, k) # {}
BY DEF HoldsEdge, EdgeContent, EdgeSlots

\* The search for an edge that is there ends at it: no slot before it on its chain is free.
LEMMA SearchMeetsEdge ==
  ASSUME HashesAssumption, NEW T, EdgeTableOK(T), NEW k \in Keys, EdgeSlots(T, k) # {}
  PROVE  SlotIn(k, T.capacity, EdgeSlots(T, k) \cup Unused(T)) \in EdgeSlots(T, k)
<1> DEFINE c == T.capacity
           S == EdgeSlots(T, k) \cup Unused(T)
           i == FirstIn(k, c, S)
           s == SlotIn(k, c, S)
<1>1. c \in Nat /\ c # 0 BY DEF EdgeTableOK, EdgeShape, PowerOfTwo
<1>2. s = Chain(k, c)[i] BY DEF SlotIn
<1>3. SUFFICES s \in EdgeSlots(T, k)
  OBVIOUS
<1> HIDE DEF c, S, i, s
<1>4. PICK r \in T.occupied : T.entry[r].key = k BY DEF EdgeSlots
<1>5. PICK m \in 1 .. c : EdgeReachedAt(T, k, m, r) BY <1>4 DEF EdgeTableOK, c
<1>6. Chain(k, c)[m] = r /\ r \in S /\ r \in EdgeSlots(T, k)
  BY <1>4, <1>5 DEF EdgeReachedAt, S, EdgeSlots, c
<1>7. i \in 1 .. c /\ Chain(k, c)[i] \in S /\ ~(m < i)
  <2>1. \/ i = 0 /\ \A n \in 1 .. c : Chain(k, c)[n] \notin S
        \/ /\ i \in 1 .. c /\ Chain(k, c)[i] \in S
           /\ \A n \in 1 .. c : n < i => Chain(k, c)[n] \notin S
    BY <1>1, FirstPlace DEF i
  <2> QED BY <1>1, <1>6, <2>1
<1>8. CASE i = m BY <1>2, <1>6, <1>8
<1>9. CASE i < m
  <2>1. Chain(k, c)[i] \in T.occupied BY <1>5, <1>7, <1>9 DEF EdgeReachedAt, c
  <2> QED BY <1>2, <1>7, <2>1 DEF S, Unused
<1> QED BY <1>1, <1>7, <1>8, <1>9

\* A second cell written into the entry of an edge.
LEMMA SecondCellKeeps ==
  ASSUME NEW T, EdgeTableOK(T), NEW s \in T.occupied, NEW token \in Tokens
  PROVE  LET N == [T EXCEPT !.entry[s].cell2 = token]
             e == [key |-> T.entry[s].key, cell1 |-> T.entry[s].cell1, cell2 |-> token]
         IN  /\ EdgeTableOK(N) /\ N.overfull = T.overfull
             /\ EdgeContent(N) = (EdgeContent(T) \ {T.entry[s]}) \cup {e}
<1> DEFINE N == [T EXCEPT !.entry[s].cell2 = token]
           e == [key |-> T.entry[s].key, cell1 |-> T.entry[s].cell1, cell2 |-> token]
<1>1. EdgeShape(T) /\ s \in 0 .. T.capacity - 1 /\ T.entry[s] \in EdgeEntry
  BY DEF EdgeTableOK, EdgeShape
<1>2. [T.entry[s] EXCEPT !.cell2 = token] = e /\ e \in EdgeEntry
  BY <1>1 DEF EdgeEntry
<1>3. /\ N.capacity = T.capacity /\ N.occupied = T.occupied /\ N.overfull = T.overfull
      /\ DOMAIN N = DOMAIN T
      /\ N.entry = [T.entry EXCEPT ![s] = [T.entry[s] EXCEPT !.cell2 = token]]
  BY <1>1 DEF EdgeShape
<1>4. N.entry = [T.entry EXCEPT ![s] = e] BY <1>2, <1>3
<1>5. e.key = T.entry[s].key OBVIOUS
<1>6. SUFFICES /\ EdgeTableOK(N) /\ N.overfull = T.overfull
               /\ EdgeContent(N) = (EdgeContent(T) \ {T.entry[s]}) \cup {e}
  OBVIOUS
<1> HIDE DEF N, e
<1>7. N.entry[s] = e /\ \A r \in T.occupied \ {s} : N.entry[r] = T.entry[r]
  BY <1>1, <1>4 DEF EdgeShape
<1>8. \A r \in T.occupied : N.entry[r] \in EdgeEntry /\ N.entry[r].key = T.entry[r].key
  BY <1>2, <1>5, <1>7 DEF EdgeTableOK
<1>9. DOMAIN N.entry = DOMAIN T.entry BY <1>4
<1>10. EdgeShape(N) BY <1>1, <1>3, <1>9 DEF EdgeShape
<1>11. \A r, q \in N.occupied : N.entry[r].key = N.entry[q].key => r = q
  BY <1>3, <1>8 DEF EdgeTableOK
<1>12. ASSUME NEW r \in N.occupied
       PROVE  \E n \in 1 .. N.capacity : EdgeReachedAt(N, N.entry[r].key, n, r)
  <2>1. r \in T.occupied BY <1>3
  <2>2. PICK n \in 1 .. T.capacity : EdgeReachedAt(T, T.entry[r].key, n, r)
    BY <2>1 DEF EdgeTableOK
  <2>3. EdgeReachedAt(N, T.entry[r].key, n, r) BY <1>3, <2>2 DEF EdgeReachedAt
  <2> QED BY <1>3, <1>8, <2>1, <2>3
<1>13. EdgeTableOK(N) BY <1>3, <1>8, <1>10, <1>11, <1>12 DEF EdgeTableOK
<1>14. EdgeContent(N) = (EdgeContent(T) \ {T.entry[s]}) \cup {e}
  <2>1. \A r \in T.occupied : r # s => T.entry[r] # T.entry[s] BY DEF EdgeTableOK
  <2> QED BY <1>3, <1>7, <2>1 DEF EdgeContent
<1> QED BY <1>3, <1>13, <1>14

\* pushedge_unlocked, by what the table held of the edge.
Pushes(T, N, k, token, mode) ==
  \/ /\ ~HoldsEdge(T, k) /\ N.overfull = T.overfull
     /\ EdgeContent(N) = EdgeContent(T) \cup {[key |-> k, cell1 |-> token, cell2 |-> NoToken]}
  \/ \E e \in EdgeContent(T) :
       /\ e.key = k
       /\ \/ e.cell2 # NoToken /\ N.overfull = TRUE /\ EdgeContent(N) = EdgeContent(T)
          \/ /\ e.cell2 = NoToken /\ (mode \/ e.cell1 # token) /\ N.overfull = T.overfull
             /\ EdgeContent(N) = (EdgeContent(T) \ {e})
                                   \cup {[key |-> k, cell1 |-> e.cell1, cell2 |-> token]}
          \/ /\ e.cell2 = NoToken /\ ~(mode \/ e.cell1 # token)
             /\ N.overfull = T.overfull /\ EdgeContent(N) = EdgeContent(T)

\* pushedge_unlocked finds the entry of the edge, or makes one, and does one of these.
LEMMA PushEdgeKeeps ==
  ASSUME HashesAssumption, NEW T, EdgeTableOK(T), NEW k \in Keys, NEW token \in Tokens,
         NEW mode \in BOOLEAN
  PROVE  /\ EdgeTableOK(PushEdge(T, k, token, mode))
         /\ Pushes(T, PushEdge(T, k, token, mode), k, token, mode)
<1> DEFINE F == IF Unused(T) = {} /\ EdgeSlots(T, k) = {}
                THEN RehashedEdges(T, 2 * T.capacity) ELSE T
           s == SlotIn(k, F.capacity, EdgeSlots(F, k) \cup Unused(F))
           N == PushEdge(T, k, token, mode)
           fresh == [key |-> k, cell1 |-> token, cell2 |-> NoToken]
<1>1. N = IF s \notin F.occupied THEN OccupyEdge(F, s, fresh)
          ELSE IF F.entry[s].cell2 # NoToken THEN [F EXCEPT !.overfull = TRUE]
          ELSE IF mode \/ F.entry[s].cell1 # token THEN [F EXCEPT !.entry[s].cell2 = token]
          ELSE F
  BY DEF PushEdge
<1>2. CASE EdgeSlots(T, k) # {}
  <2>1. F = T BY <1>2
  <2>2. s = SlotIn(k, T.capacity, EdgeSlots(T, k) \cup Unused(T)) BY <2>1
  <2> HIDE DEF F, s, N
  <2>3. s \in EdgeSlots(T, k) BY <1>2, <2>2, SearchMeetsEdge
  <2>4. s \in T.occupied /\ T.entry[s].key = k BY <2>3 DEF EdgeSlots
  <2> DEFINE e == T.entry[s]
  <2>5. e \in EdgeContent(T) /\ e.key = k BY <2>4 DEF EdgeContent
  <2>6. CASE e.cell2 # NoToken
    <3>1. N = [T EXCEPT !.overfull = TRUE] BY <1>1, <2>1, <2>4, <2>6
    <3>2. /\ N.capacity = T.capacity /\ N.entry = T.entry /\ N.occupied = T.occupied
          /\ N.overfull = TRUE /\ DOMAIN N = DOMAIN T
      BY <3>1 DEF EdgeTableOK, EdgeShape
    <3>3. EdgeShape(N) BY <3>2 DEF EdgeTableOK, EdgeShape
    <3>4. \A q, n, r : EdgeReachedAt(N, q, n, r) <=> EdgeReachedAt(T, q, n, r)
      BY <3>2 DEF EdgeReachedAt
    <3>5. EdgeTableOK(N) BY <3>2, <3>3, <3>4 DEF EdgeTableOK
    <3>6. EdgeContent(N) = EdgeContent(T) BY <3>2 DEF EdgeContent
    <3>7. Pushes(T, N, k, token, mode) BY <2>5, <2>6, <3>2, <3>6 DEF Pushes
    <3> QED BY <3>5, <3>7 DEF N
  <2>7. CASE e.cell2 = NoToken /\ (mode \/ e.cell1 # token)
    <3>1. N = [T EXCEPT !.entry[s].cell2 = token] BY <1>1, <2>1, <2>4, <2>7
    <3>2. /\ EdgeTableOK(N) /\ N.overfull = T.overfull
          /\ EdgeContent(N) = (EdgeContent(T) \ {e})
                                \cup {[key |-> k, cell1 |-> e.cell1, cell2 |-> token]}
      BY <2>4, <3>1, SecondCellKeeps
    <3>3. Pushes(T, N, k, token, mode) BY <2>5, <2>7, <3>2 DEF Pushes
    <3> QED BY <3>2, <3>3 DEF N
  <2>8. CASE e.cell2 = NoToken /\ ~(mode \/ e.cell1 # token)
    <3>1. N = T BY <1>1, <2>1, <2>4, <2>8
    <3>2. Pushes(T, N, k, token, mode) BY <2>5, <2>8, <3>1 DEF Pushes
    <3> QED BY <3>1, <3>2 DEF N
  <2> QED BY <2>6, <2>7, <2>8
<1>3. CASE EdgeSlots(T, k) = {}
  <2>1. EdgeTableOK(F) /\ EdgeContent(F) = EdgeContent(T) /\ F.overfull = T.overfull
        /\ Unused(F) # {}
    <3>1. CASE Unused(T) # {} BY <3>1
    <3>2. CASE Unused(T) = {}
      <4>1. T.capacity \in Nat /\ T.capacity # 0 /\ PowerOfTwo(T.capacity)
        BY DEF EdgeTableOK, EdgeShape, PowerOfTwo
      <4> DEFINE c == 2 * T.capacity
      <4>2. c \in Nat /\ PowerOfTwo(c) /\ T.capacity < c BY <4>1, DoubleIsPower
      <4>3. F = RehashedEdges(T, c) BY <1>3, <3>2
      <4> HIDE DEF c, F
      <4> QED BY <4>2, <4>3, RehashEdgesKeeps
    <3> QED BY <3>1, <3>2
  <2> HIDE DEF F, N
  <2>2. ~HoldsEdge(T, k) BY <1>3, HoldsEdgeSlots
  <2>3. ~HoldsEdge(F, k) BY <2>1, <2>2 DEF HoldsEdge
  <2>4. EdgeSlots(F, k) \cup Unused(F) = Unused(F) BY <2>3, HoldsEdgeSlots
  <2>5. s = SlotIn(k, F.capacity, Unused(F)) BY <2>4
  <2> HIDE DEF s
  <2>6. /\ s \in 0 .. F.capacity - 1 /\ s \notin F.occupied
        /\ \E n \in 1 .. F.capacity : EdgeReachedAt(F, k, n, s)
    BY <2>1, <2>5, FirstUnusedEdge
  <2>7. N = OccupyEdge(F, s, fresh) BY <1>1, <2>6
  <2>8. fresh \in EdgeEntry /\ fresh.key = k BY DEF EdgeEntry
  <2> HIDE DEF fresh
  <2>9. EdgeTableOK(N) /\ EdgeContent(N) = EdgeContent(F) \cup {fresh}
    BY <2>1, <2>3, <2>6, <2>7, <2>8, OccupyEdgeKeeps
  <2>10. N.overfull = F.overfull BY <2>1, <2>7 DEF OccupyEdge, EdgeTableOK, EdgeShape
  <2>11. Pushes(T, N, k, token, mode) BY <2>1, <2>2, <2>9, <2>10 DEF Pushes, fresh
  <2> QED BY <2>9, <2>11 DEF N
<1> QED BY <1>2, <1>3

\* What pushedge() returns, by the entry of the edge.
LEMMA HadTwoContent ==
  ASSUME NEW T, NEW k
  PROVE  HadTwo(T, k) <=> \E e \in EdgeContent(T) : e.key = k /\ e.cell2 # NoToken
BY DEF HadTwo, EdgeSlots, EdgeContent

-----------------------------------------------------------------------------
(* The tables of a container *)

CapacityAssumption ==
  /\ HashCapacity \in Nat \ {0}
  /\ \A d, e \in 1 .. HashCapacity : d * e = HashCapacity => d = 1 \/ d % 2 = 0

\* A new table has a power of two of slots.
LEMMA CapacityIsPower ==
  ASSUME CapacityAssumption
  PROVE  HashCapacity \in Nat /\ PowerOfTwo(HashCapacity)
<1>1. ASSUME NEW d \in Nat, NEW e \in Nat, d * e = HashCapacity PROVE d = 1 \/ Even(d)
  <2>1. HashCapacity \in Nat /\ HashCapacity # 0 BY DEF CapacityAssumption
  <2>2. d # 0 /\ e # 0 BY <1>1, <2>1
  <2>3. d * e >= d /\ e * d >= e BY <2>2, FactorIsSmaller
  <2>4. d \in 1 .. HashCapacity /\ e \in 1 .. HashCapacity BY <1>1, <2>1, <2>2, <2>3
  <2>5. d = 1 \/ d % 2 = 0 BY <1>1, <2>4 DEF CapacityAssumption
  <2>6. d % 2 = 0 => d = 2 * (d \div 2) /\ d \div 2 \in Nat OBVIOUS
  <2> QED BY <2>5, <2>6 DEF Even
<1> QED BY <1>1 DEF CapacityAssumption, PowerOfTwo

IsVector(q) == Len(q) \in Nat /\ DOMAIN q = 1 .. Len(q)

TableIn(l, k) == IF l.growing THEN (FirstValue[k] \div l.block) + 1
                              ELSE (FirstValue[k] % l.tables) + 1

LayoutsAssumption ==
  /\ FirstValue \in [Keys -> Nat]
  /\ \A l \in Layouts : l.growing \in BOOLEAN /\ l.tables \in Nat /\ l.block \in Nat \ {0}
  /\ \A l \in Layouts : ~l.growing => l.tables > 0

\* The routing of a key gives a table; a fixed container has that table.
LEMMA TableInRange ==
  ASSUME LayoutsAssumption, NEW l \in Layouts, NEW k \in Keys
  PROVE  /\ TableIn(l, k) \in Nat \ {0}
         /\ ~l.growing => TableIn(l, k) <= l.tables
<1>1. FirstValue[k] \in Nat /\ l.tables \in Nat /\ l.block \in Nat /\ l.block # 0
  BY DEF LayoutsAssumption
<1>2. FirstValue[k] \div l.block \in Nat BY <1>1, DivMod
<1>3. CASE l.growing BY <1>2, <1>3 DEF TableIn
<1>4. CASE ~l.growing
  <2>1. l.tables # 0 BY <1>1, <1>4 DEF LayoutsAssumption
  <2>2. FirstValue[k] % l.tables \in 0 .. l.tables - 1 BY <1>1, <2>1, DivMod
  <2> QED BY <1>1, <1>4, <2>2 DEF TableIn
<1> QED BY <1>3, <1>4

\* Every table is in order, and holds only keys that are routed to it.
QueueTableOK(l, i, T) == TableOK(T) /\ \A k \in Content(T) : TableIn(l, k) = i
QueueOK(l, q) == IsVector(q) /\ \A i \in 1 .. Len(q) : QueueTableOK(l, i, q[i])

MembersOf(q) == UNION {Content(q[i]) : i \in DOMAIN q}

\* A table holds keys.
LEMMA ContentIsKeys ==
  ASSUME NEW T, TableOK(T) PROVE Content(T) \subseteq Keys
BY DEF TableOK, Content

\* A key of the container is in the table it is routed to.
LEMMA MemberIsRouted ==
  ASSUME LayoutsAssumption, NEW l \in Layouts, NEW q, QueueOK(l, q), NEW k \in Keys
  PROVE  k \in MembersOf(q) <=> TableIn(l, k) <= Len(q) /\ k \in Content(q[TableIn(l, k)])
<1>1. TableIn(l, k) \in Nat \ {0} BY TableInRange
<1>2. Len(q) \in Nat /\ DOMAIN q = 1 .. Len(q) BY DEF QueueOK, IsVector
<1>3. ASSUME NEW i \in 1 .. Len(q), k \in Content(q[i]) PROVE TableIn(l, k) = i
  BY <1>3 DEF QueueOK, QueueTableOK
<1> QED BY <1>1, <1>2, <1>3 DEF MembersOf

\* ensure_table() makes the vector longer, and no key appears or disappears.
LEMMA QueueGrows ==
  ASSUME CapacityAssumption, NEW l, NEW q, QueueOK(l, q), NEW n \in Nat, Len(q) <= n
  PROVE  /\ QueueOK(l, UpTo(q, n, NewTable(HashCapacity)))
         /\ Len(UpTo(q, n, NewTable(HashCapacity))) = n
         /\ MembersOf(UpTo(q, n, NewTable(HashCapacity))) = MembersOf(q)
<1> DEFINE new == NewTable(HashCapacity)
           N == UpTo(q, n, new)
<1>1. TableOK(new) /\ Content(new) = {} BY CapacityIsPower, NewTableOK
<1>2. Len(q) \in Nat /\ DOMAIN q = 1 .. Len(q) BY DEF QueueOK, IsVector
<1> HIDE DEF new
<1>3. DOMAIN N = 1 .. n /\ Len(N) = n BY DEF UpTo
<1>4. \A i \in 1 .. n : N[i] = IF i <= Len(q) THEN q[i] ELSE new BY DEF UpTo
<1> HIDE DEF N
<1>5. \A i \in 1 .. n : QueueTableOK(l, i, N[i])
  <2> TAKE i \in 1 .. n
  <2>1. CASE i <= Len(q)
    <3>1. i \in 1 .. Len(q) BY <1>2, <2>1
    <3> QED BY <1>4, <2>1, <3>1 DEF QueueOK
  <2>2. CASE ~(i <= Len(q)) BY <1>1, <1>4, <2>2 DEF QueueTableOK
  <2> QED BY <2>1, <2>2
<1>6. QueueOK(l, N) BY <1>3, <1>5 DEF QueueOK, IsVector
<1>7. MembersOf(N) = MembersOf(q)
  <2>1. \A i \in 1 .. Len(q) : i \in 1 .. n /\ N[i] = q[i] BY <1>2, <1>4
  <2>2. \A i \in 1 .. n : i \notin 1 .. Len(q) => Content(N[i]) = {} BY <1>1, <1>2, <1>4
  <2>3. DOMAIN q = 1 .. Len(q) /\ DOMAIN N = 1 .. n BY <1>2, <1>3
  <2>4. MembersOf(N) \subseteq MembersOf(q)
    <3> SUFFICES ASSUME NEW i \in 1 .. n, NEW k \in Content(N[i]) PROVE k \in MembersOf(q)
      BY <2>3 DEF MembersOf
    <3>1. i \in 1 .. Len(q) BY <2>2
    <3> QED BY <2>1, <2>3, <3>1 DEF MembersOf
  <2>5. MembersOf(q) \subseteq MembersOf(N)
    <3> SUFFICES ASSUME NEW i \in 1 .. Len(q), NEW k \in Content(q[i]) PROVE k \in MembersOf(N)
      BY <2>3 DEF MembersOf
    <3> QED BY <2>1, <2>3 DEF MembersOf
  <2> QED BY <2>4, <2>5
<1> QED BY <1>3, <1>6, <1>7 DEF N, new

WithTable(q, i, T) == [q EXCEPT ![i] = T]

\* A change of one table changes the keys that are routed to it.
LEMMA QueueTableChanges ==
  ASSUME NEW l, NEW q, QueueOK(l, q), NEW i \in 1 .. Len(q), NEW T, QueueTableOK(l, i, T)
  PROVE  /\ QueueOK(l, WithTable(q, i, T))
         /\ Len(WithTable(q, i, T)) = Len(q)
         /\ MembersOf(WithTable(q, i, T)) = {k \in MembersOf(q) : TableIn(l, k) # i} \cup Content(T)
<1> DEFINE N == WithTable(q, i, T)
<1>1. Len(q) \in Nat /\ DOMAIN q = 1 .. Len(q) BY DEF QueueOK, IsVector
<1> USE DEF WithTable
<1>2. DOMAIN N = 1 .. Len(q) BY <1>1
<1>3. Len(N) = Len(q) BY <1>1, <1>2
<1>4. \A j \in 1 .. Len(q) : N[j] = IF j = i THEN T ELSE q[j] BY <1>1
<1> HIDE DEF N, WithTable
<1>5. QueueOK(l, N) BY <1>1, <1>2, <1>3, <1>4 DEF QueueOK, IsVector
<1>6. \A j \in 1 .. Len(q) : \A k \in Content(q[j]) : TableIn(l, k) = j
  BY DEF QueueOK, QueueTableOK
<1>7. MembersOf(N) = {k \in MembersOf(q) : TableIn(l, k) # i} \cup Content(T)
  <2>1. MembersOf(N) \subseteq {k \in MembersOf(q) : TableIn(l, k) # i} \cup Content(T)
    <3> SUFFICES ASSUME NEW j \in 1 .. Len(q), NEW k \in Content(N[j]), k \notin Content(T)
                 PROVE  k \in MembersOf(q) /\ TableIn(l, k) # i
      BY <1>2 DEF MembersOf
    <3>1. j # i /\ N[j] = q[j] BY <1>4
    <3> QED BY <1>1, <1>6, <3>1 DEF MembersOf
  <2>2. {k \in MembersOf(q) : TableIn(l, k) # i} \subseteq MembersOf(N)
    <3> SUFFICES ASSUME NEW j \in 1 .. Len(q), NEW k \in Content(q[j]), TableIn(l, k) # i
                 PROVE  k \in MembersOf(N)
      BY <1>1 DEF MembersOf
    <3>1. j # i /\ N[j] = q[j] BY <1>4, <1>6
    <3> QED BY <1>2, <3>1 DEF MembersOf
  <2>3. Content(T) \subseteq MembersOf(N) BY <1>2, <1>4 DEF MembersOf
  <2> QED BY <2>1, <2>2, <2>3
<1> QED BY <1>3, <1>5, <1>7 DEF N

\* A push, a removal in the table the key is routed to.
LEMMA QueueInsert ==
  ASSUME HashesAssumption, LayoutsAssumption, NEW l \in Layouts, NEW q, QueueOK(l, q),
         NEW k \in Keys, TableIn(l, k) <= Len(q)
  PROVE  LET i == TableIn(l, k)  N == [q EXCEPT ![i] = Insert(q[i], k)] IN
         /\ QueueOK(l, N) /\ Len(N) = Len(q) /\ MembersOf(N) = MembersOf(q) \cup {k}
<1> DEFINE i == TableIn(l, k)  T == Insert(q[i], k)
<1>1. Len(q) \in Nat /\ i \in 1 .. Len(q)
  <2>1. Len(q) \in Nat /\ DOMAIN q = 1 .. Len(q) BY DEF QueueOK, IsVector
  <2>2. i \in Nat \ {0} BY TableInRange
  <2> QED BY <2>1, <2>2
<1>2. QueueTableOK(l, i, q[i]) BY <1>1 DEF QueueOK
<1>3. TableOK(q[i]) BY <1>2 DEF QueueTableOK
<1>4. TableOK(T) /\ Content(T) = Content(q[i]) \cup {k} BY <1>3, InsertKeeps
<1> HIDE DEF T
<1>5. QueueTableOK(l, i, T) BY <1>2, <1>4 DEF QueueTableOK
<1>6. Content(q[i]) \subseteq MembersOf(q)
  <2>1. i \in DOMAIN q BY <1>1 DEF QueueOK, IsVector
  <2> QED BY <2>1 DEF MembersOf
<1>7. \A j \in MembersOf(q) : TableIn(l, j) = i => j \in Content(q[i])
  <2> TAKE j \in MembersOf(q)
  <2>1. j \in Keys
    <3>1. PICK m \in DOMAIN q : j \in Content(q[m]) BY DEF MembersOf
    <3>2. TableOK(q[m]) BY <3>1 DEF QueueOK, IsVector, QueueTableOK
    <3> QED BY <3>1, <3>2, ContentIsKeys
  <2> QED BY <2>1, MemberIsRouted
<1> HIDE DEF i
<1>8. /\ QueueOK(l, WithTable(q, i, T)) /\ Len(WithTable(q, i, T)) = Len(q)
      /\ MembersOf(WithTable(q, i, T)) = {j \in MembersOf(q) : TableIn(l, j) # i} \cup Content(T)
  BY <1>1, <1>5, QueueTableChanges
<1>9. {j \in MembersOf(q) : TableIn(l, j) # i} \cup Content(T) = MembersOf(q) \cup {k}
  BY <1>4, <1>6, <1>7
<1> QED BY <1>8, <1>9 DEF i, T, WithTable

\* A removal from the container.
LEMMA QueueErase ==
  ASSUME HashesAssumption, LayoutsAssumption, NEW l \in Layouts, NEW q, QueueOK(l, q),
         NEW k \in Keys, TableIn(l, k) <= Len(q)
  PROVE  LET i == TableIn(l, k)  N == [q EXCEPT ![i] = EraseKey(q[i], k)] IN
         /\ QueueOK(l, N) /\ Len(N) = Len(q) /\ MembersOf(N) = MembersOf(q) \ {k}
<1> DEFINE i == TableIn(l, k)  T == EraseKey(q[i], k)
<1>1. Len(q) \in Nat /\ i \in 1 .. Len(q)
  <2>1. Len(q) \in Nat /\ DOMAIN q = 1 .. Len(q) BY DEF QueueOK, IsVector
  <2>2. i \in Nat \ {0} BY TableInRange
  <2> QED BY <2>1, <2>2
<1>2. QueueTableOK(l, i, q[i]) BY <1>1 DEF QueueOK
<1>3. TableOK(q[i]) BY <1>2 DEF QueueTableOK
<1>4. TableOK(T) /\ Content(T) = Content(q[i]) \ {k} BY <1>3, EraseKeeps
<1> HIDE DEF T
<1>5. QueueTableOK(l, i, T) BY <1>2, <1>4 DEF QueueTableOK
<1>6. Content(q[i]) \subseteq MembersOf(q)
  <2>1. i \in DOMAIN q BY <1>1 DEF QueueOK, IsVector
  <2> QED BY <2>1 DEF MembersOf
<1>7. \A j \in MembersOf(q) : TableIn(l, j) = i => j \in Content(q[i])
  <2> TAKE j \in MembersOf(q)
  <2>1. j \in Keys
    <3>1. PICK m \in DOMAIN q : j \in Content(q[m]) BY DEF MembersOf
    <3>2. TableOK(q[m]) BY <3>1 DEF QueueOK, IsVector, QueueTableOK
    <3> QED BY <3>1, <3>2, ContentIsKeys
  <2> QED BY <2>1, MemberIsRouted
<1>8. TableIn(l, k) = i OBVIOUS
<1> HIDE DEF i
<1>9. /\ QueueOK(l, WithTable(q, i, T)) /\ Len(WithTable(q, i, T)) = Len(q)
      /\ MembersOf(WithTable(q, i, T)) = {j \in MembersOf(q) : TableIn(l, j) # i} \cup Content(T)
  BY <1>1, <1>5, QueueTableChanges
<1>10. {j \in MembersOf(q) : TableIn(l, j) # i} \cup Content(T) = MembersOf(q) \ {k}
  BY <1>4, <1>6, <1>7, <1>8
<1> QED BY <1>9, <1>10 DEF i, T, WithTable

\* A new container is in order, and empty.
LEMMA QueueStarts ==
  ASSUME CapacityAssumption, NEW l, l.tables \in Nat
  PROVE  LET N == [i \in 1 .. l.tables |-> NewTable(HashCapacity)] IN
         QueueOK(l, N) /\ Len(N) = l.tables /\ MembersOf(N) = {}
<1> DEFINE new == NewTable(HashCapacity)  N == [i \in 1 .. l.tables |-> new]
<1>1. TableOK(new) /\ Content(new) = {} BY CapacityIsPower, NewTableOK
<1> HIDE DEF new
<1>2. DOMAIN N = 1 .. l.tables /\ Len(N) = l.tables /\ \A i \in 1 .. l.tables : N[i] = new
  OBVIOUS
<1> HIDE DEF N
<1>3. QueueOK(l, N) BY <1>1, <1>2 DEF QueueOK, IsVector, QueueTableOK
<1>4. MembersOf(N) = {} BY <1>1, <1>2 DEF MembersOf
<1> QED BY <1>2, <1>3, <1>4 DEF N, new

\* clear() of the container.
LEMMA QueueClears ==
  ASSUME NEW l, NEW q, QueueOK(l, q)
  PROVE  LET N == [i \in DOMAIN q |-> Cleared(q[i])] IN
         QueueOK(l, N) /\ Len(N) = Len(q) /\ MembersOf(N) = {}
<1> DEFINE N == [i \in DOMAIN q |-> Cleared(q[i])]
<1>1. Len(q) \in Nat /\ DOMAIN q = 1 .. Len(q) BY DEF QueueOK, IsVector
<1>2. DOMAIN N = 1 .. Len(q) /\ \A i \in 1 .. Len(q) : N[i] = Cleared(q[i]) BY <1>1
<1>3. Len(N) = Len(q) BY <1>1, <1>2
<1> HIDE DEF N
<1>4. \A i \in 1 .. Len(q) : TableOK(N[i]) /\ Content(N[i]) = {}
  <2> TAKE i \in 1 .. Len(q)
  <2>1. TableOK(q[i]) BY DEF QueueOK, QueueTableOK
  <2> QED BY <1>2, <2>1, ClearKeeps
<1>5. QueueOK(l, N) BY <1>1, <1>2, <1>3, <1>4 DEF QueueOK, IsVector, QueueTableOK
<1>6. MembersOf(N) = {} BY <1>2, <1>4 DEF MembersOf
<1> QED BY <1>3, <1>5, <1>6 DEF N

\* resize() of a container of one table.
LEMMA QueueResizes ==
  ASSUME HashesAssumption, NEW l, NEW q, QueueOK(l, q)
  PROVE  LET N == [i \in DOMAIN q |-> IF Len(q) = 1 THEN Resized(q[i], 4) ELSE q[i]] IN
         QueueOK(l, N) /\ Len(N) = Len(q) /\ MembersOf(N) = MembersOf(q)
<1> DEFINE N == [i \in DOMAIN q |-> IF Len(q) = 1 THEN Resized(q[i], 4) ELSE q[i]]
<1>1. Len(q) \in Nat /\ DOMAIN q = 1 .. Len(q) BY DEF QueueOK, IsVector
<1>2. /\ DOMAIN N = 1 .. Len(q)
      /\ \A i \in 1 .. Len(q) : N[i] = Resized(q[i], 4) \/ N[i] = q[i]
  BY <1>1
<1>3. Len(N) = Len(q) BY <1>1, <1>2
<1> HIDE DEF N
<1>4. PowerOfTwo(4)
  <2>1. PowerOfTwo(2 * 1) BY OneIsPower, DoubleIsPower
  <2>2. PowerOfTwo(2) BY <2>1
  <2>3. PowerOfTwo(2 * 2) BY <2>2, DoubleIsPower
  <2> QED BY <2>3
<1>5. \A i \in 1 .. Len(q) : TableOK(N[i]) /\ Content(N[i]) = Content(q[i])
  <2> TAKE i \in 1 .. Len(q)
  <2>1. TableOK(q[i]) BY DEF QueueOK, QueueTableOK
  <2>2. TableOK(Resized(q[i], 4)) /\ Content(Resized(q[i], 4)) = Content(q[i])
    BY <1>4, <2>1, ResizeKeeps
  <2>3. N[i] = Resized(q[i], 4) \/ N[i] = q[i] BY <1>2
  <2> QED BY <2>1, <2>2, <2>3
<1>6. QueueOK(l, N)
  BY <1>1, <1>2, <1>3, <1>5 DEF QueueOK, IsVector, QueueTableOK
<1>7. MembersOf(N) = MembersOf(q) BY <1>1, <1>2, <1>5 DEF MembersOf
<1> QED BY <1>3, <1>6, <1>7 DEF N

-----------------------------------------------------------------------------
(* What a table remembers of the pushes of an edge *)

PushRecord == [token : Tokens, mode : BOOLEAN]

\* The pushes of an edge that complete it.
CompletingOf(p) == {n \in 2 .. Len(p) : p[n].mode \/ p[n].token # p[1].token}
OverfullOf(p) == \E n \in CompletingOf(p) : n < Len(p)

\* What a table holds of an edge that was pushed p.
EdgeKept(T, k, p) ==
  \/ p = <<>> /\ ~HoldsEdge(T, k)
  \/ /\ p # <<>>
     /\ \E e \in EdgeContent(T) : /\ e.key = k /\ e.cell1 = p[1].token
                                  /\ e.cell2 # NoToken <=> CompletingOf(p) # {}

IsOverfull(T) == T.overfull = TRUE

EdgeTableKeeps(l, i, T, P) ==
  /\ EdgeTableOK(T) /\ T.overfull \in BOOLEAN
  /\ \A e \in EdgeContent(T) : TableIn(l, e.key) = i
  /\ \A k \in Keys : TableIn(l, k) = i => EdgeKept(T, k, P[k])
  /\ IsOverfull(T) <=> \E k \in Keys : TableIn(l, k) = i /\ OverfullOf(P[k])

EdgesKept(l, d, P) ==
  /\ IsVector(d)
  /\ \A i \in 1 .. Len(d) : EdgeTableKeeps(l, i, d[i], P)
  /\ \A k \in Keys : TableIn(l, k) > Len(d) => P[k] = <<>>

\* An edge that was never pushed is neither complete nor overfull.
LEMMA NoPushes ==
  CompletingOf(<<>>) = {} /\ ~OverfullOf(<<>>)
BY DEF CompletingOf, OverfullOf

\* What one more push makes of the pushes of an edge.
LEMMA OnePush ==
  ASSUME NEW p \in Seq(PushRecord), NEW r \in PushRecord
  PROVE  /\ Append(p, r) # <<>>
         /\ p = <<>> => /\ Append(p, r)[1] = r
                        /\ CompletingOf(Append(p, r)) = {} /\ ~OverfullOf(Append(p, r))
         /\ p # <<>> =>
              /\ Append(p, r)[1] = p[1]
              /\ CompletingOf(p) # {} =>
                   CompletingOf(Append(p, r)) # {} /\ OverfullOf(Append(p, r))
              /\ CompletingOf(p) = {} =>
                   /\ ~OverfullOf(p) /\ ~OverfullOf(Append(p, r))
                   /\ CompletingOf(Append(p, r)) # {} <=> r.mode \/ r.token # p[1].token
<1> DEFINE q == Append(p, r)  n == Len(p)
<1>1. /\ n \in Nat /\ Len(q) = n + 1 /\ q[n + 1] = r /\ q # <<>>
      /\ \A i \in 1 .. n : q[i] = p[i]
  OBVIOUS
<1>2. p = <<>> <=> n = 0 OBVIOUS
<1> HIDE DEF q
<1>3. ASSUME p = <<>> PROVE q[1] = r /\ CompletingOf(q) = {} /\ ~OverfullOf(q)
  <2>1. Len(q) = 1 /\ q[1] = r BY <1>1, <1>2, <1>3
  <2>2. CompletingOf(q) = {} BY <2>1 DEF CompletingOf
  <2> QED BY <2>1, <2>2 DEF OverfullOf
<1>4. ASSUME p # <<>> PROVE q[1] = p[1] /\ n >= 1
  BY <1>1, <1>2, <1>4
<1>5. ASSUME p # <<>>, CompletingOf(p) # {} PROVE CompletingOf(q) # {} /\ OverfullOf(q)
  <2>1. PICK m \in 2 .. n : p[m].mode \/ p[m].token # p[1].token BY <1>5 DEF CompletingOf
  <2>2. m \in 2 .. Len(q) /\ q[m] = p[m] /\ m < Len(q) BY <1>1
  <2>3. m \in CompletingOf(q) BY <1>4, <1>5, <2>1, <2>2 DEF CompletingOf
  <2> QED BY <2>2, <2>3 DEF OverfullOf
<1>6. ASSUME p # <<>>, CompletingOf(p) = {}
      PROVE  /\ ~OverfullOf(p) /\ ~OverfullOf(q)
             /\ CompletingOf(q) # {} <=> r.mode \/ r.token # p[1].token
  <2>1. ~OverfullOf(p) BY <1>6 DEF OverfullOf
  <2>2. ASSUME NEW m \in CompletingOf(q) PROVE m = n + 1
    <3>1. m \in 2 .. n + 1 /\ (q[m].mode \/ q[m].token # q[1].token)
      BY <1>1, <2>2 DEF CompletingOf
    <3>2. ASSUME m # n + 1 PROVE FALSE
      <4>1. m \in 2 .. n /\ q[m] = p[m] BY <1>1, <3>1, <3>2
      <4>2. m \in CompletingOf(p) BY <1>4, <1>6, <3>1, <4>1 DEF CompletingOf
      <4> QED BY <1>6, <4>2
    <3> QED BY <3>2
  <2>3. ~OverfullOf(q) BY <1>1, <2>2 DEF OverfullOf
  <2>4. n + 1 \in CompletingOf(q) <=> r.mode \/ r.token # p[1].token
    BY <1>1, <1>4, <1>6 DEF CompletingOf
  <2> QED BY <2>1, <2>2, <2>3, <2>4
<1> QED BY <1>1, <1>3, <1>4, <1>5, <1>6 DEF q

\* An edge has one entry.
LEMMA EdgeIsUnique ==
  ASSUME NEW T, EdgeTableOK(T), NEW e \in EdgeContent(T), NEW f \in EdgeContent(T), e.key = f.key
  PROVE  e = f
BY DEF EdgeTableOK, EdgeContent

\* One push in the table of its edge.
LEMMA EdgeTablePush ==
  ASSUME HashesAssumption, NoToken \notin Tokens,
         NEW l, NEW T, NEW P \in [Keys -> Seq(PushRecord)], NEW k \in Keys, NEW token \in Tokens,
         NEW mode \in BOOLEAN, EdgeTableKeeps(l, TableIn(l, k), T, P)
  PROVE  EdgeTableKeeps(l, TableIn(l, k), PushEdge(T, k, token, mode),
                        [P EXCEPT ![k] = Append(P[k], [token |-> token, mode |-> mode])])
<1> DEFINE i == TableIn(l, k)
           S == PushEdge(T, k, token, mode)
           r == [token |-> token, mode |-> mode]
           p == P[k]
           q == Append(p, r)
           Q == [P EXCEPT ![k] = q]
<1>1. p \in Seq(PushRecord) /\ r \in PushRecord /\ r.token = token /\ r.mode = mode
  BY DEF PushRecord
<1>2. Q[k] = q /\ \A j \in Keys : j # k => Q[j] = P[j]
  OBVIOUS
<1>3. /\ q # <<>>
      /\ p = <<>> => q[1] = r /\ CompletingOf(q) = {} /\ ~OverfullOf(q)
      /\ p # <<>> =>
           /\ q[1] = p[1]
           /\ CompletingOf(p) # {} => CompletingOf(q) # {} /\ OverfullOf(q)
           /\ CompletingOf(p) = {} =>
                /\ ~OverfullOf(p) /\ ~OverfullOf(q)
                /\ CompletingOf(q) # {} <=> r.mode \/ r.token # p[1].token
  BY <1>1, OnePush
<1>4. EdgeTableOK(S) /\ Pushes(T, S, k, token, mode)
  BY PushEdgeKeeps DEF EdgeTableKeeps
<1>5. EdgeTableOK(T) /\ T.overfull \in BOOLEAN /\ \A e \in EdgeContent(T) : TableIn(l, e.key) = i
  BY DEF EdgeTableKeeps
<1>6. \A j \in Keys : TableIn(l, j) = i => EdgeKept(T, j, P[j])
  BY DEF EdgeTableKeeps
<1>7. IsOverfull(T) <=> \E j \in Keys : TableIn(l, j) = i /\ OverfullOf(P[j])
  BY DEF EdgeTableKeeps
<1>8. EdgeKept(T, k, p) BY <1>6
<1>9. TableIn(l, k) = i OBVIOUS
<1>10. SUFFICES EdgeTableKeeps(l, i, S, Q)
  OBVIOUS
<1> HIDE DEF i, S, r, p, q, Q
  \* What a push leaves to show, once the entry of k is known.
<1>11. ASSUME NEW f \in EdgeContent(S), f.key = k, f.cell1 = q[1].token,
              f.cell2 # NoToken <=> CompletingOf(q) # {},
              \A e \in EdgeContent(S) : e.key = k \/ e \in EdgeContent(T),
              \A e \in EdgeContent(T) : e.key = k \/ e \in EdgeContent(S),
              S.overfull \in BOOLEAN,
              IsOverfull(S) <=> \E j \in Keys : TableIn(l, j) = i /\ OverfullOf(Q[j])
       PROVE  EdgeTableKeeps(l, i, S, Q)
  <2>1. \A e \in EdgeContent(S) : TableIn(l, e.key) = i BY <1>5, <1>9, <1>11
  <2>2. ASSUME NEW j \in Keys, TableIn(l, j) = i PROVE EdgeKept(S, j, Q[j])
    <3>1. CASE j = k BY <1>2, <1>3, <1>11, <3>1 DEF EdgeKept
    <3>2. CASE j # k
      <4>1. EdgeKept(T, j, P[j]) /\ Q[j] = P[j] BY <1>2, <1>6, <2>2, <3>2
      <4>2. \A e : e.key = j => (e \in EdgeContent(S) <=> e \in EdgeContent(T)) BY <1>11, <3>2
      <4> QED BY <4>1, <4>2 DEF EdgeKept, HoldsEdge
    <3> QED BY <3>1, <3>2
  <2> QED BY <1>4, <1>11, <2>1, <2>2 DEF EdgeTableKeeps
  \* The pushes of k overfill it neither before nor after.
<1>12. ASSUME ~OverfullOf(p), ~OverfullOf(q), S.overfull = T.overfull
       PROVE  /\ S.overfull \in BOOLEAN
              /\ IsOverfull(S) <=> \E j \in Keys : TableIn(l, j) = i /\ OverfullOf(Q[j])
  <2>1. \A j \in Keys : OverfullOf(Q[j]) <=> OverfullOf(P[j]) BY <1>2, <1>12 DEF p
  <2>2. IsOverfull(S) <=> IsOverfull(T) BY <1>12 DEF IsOverfull
  <2> QED BY <1>5, <1>7, <1>12, <2>1, <2>2
<1>13. CASE ~HoldsEdge(T, k)
  <2>1. p = <<>> BY <1>8, <1>13 DEF EdgeKept, HoldsEdge
  <2> DEFINE f == [key |-> k, cell1 |-> token, cell2 |-> NoToken]
  <2>2. S.overfull = T.overfull /\ EdgeContent(S) = EdgeContent(T) \cup {f}
    BY <1>4, <1>13 DEF Pushes, HoldsEdge
  <2>3. f \in EdgeContent(S) /\ f.key = k /\ f.cell1 = q[1].token /\ f.cell2 = NoToken
    BY <1>1, <1>3, <2>1, <2>2
  <2>4. CompletingOf(q) = {} /\ ~OverfullOf(q) /\ ~OverfullOf(p)
    BY <1>3, <2>1, NoPushes
  <2>5. \A e \in EdgeContent(S) : e.key = k \/ e \in EdgeContent(T) BY <2>2
  <2>6. EdgeContent(T) \subseteq EdgeContent(S) BY <2>2
  <2> HIDE DEF f
  <2> QED BY <1>11, <1>12, <2>2, <2>3, <2>4, <2>5, <2>6
<1>14. CASE HoldsEdge(T, k)
  <2>1. PICK e \in EdgeContent(T) :
          /\ e.key = k
          /\ \/ e.cell2 # NoToken /\ S.overfull = TRUE /\ EdgeContent(S) = EdgeContent(T)
             \/ /\ e.cell2 = NoToken /\ (mode \/ e.cell1 # token) /\ S.overfull = T.overfull
                /\ EdgeContent(S) = (EdgeContent(T) \ {e})
                                      \cup {[key |-> k, cell1 |-> e.cell1, cell2 |-> token]}
             \/ /\ e.cell2 = NoToken /\ ~(mode \/ e.cell1 # token)
                /\ S.overfull = T.overfull /\ EdgeContent(S) = EdgeContent(T)
    BY <1>4, <1>14 DEF Pushes
  <2>2. /\ p # <<>> /\ e.cell1 = p[1].token
        /\ e.cell2 # NoToken <=> CompletingOf(p) # {}
    <3>1. \E g \in EdgeContent(T) : /\ g.key = k /\ g.cell1 = p[1].token
                                    /\ g.cell2 # NoToken <=> CompletingOf(p) # {}
      BY <1>8, <1>14 DEF EdgeKept
    <3>2. PICK g \in EdgeContent(T) : /\ g.key = k /\ g.cell1 = p[1].token
                                      /\ g.cell2 # NoToken <=> CompletingOf(p) # {}
      BY <3>1
    <3>3. g = e BY <1>5, <2>1, <3>2, EdgeIsUnique
    <3>4. p # <<>> BY <1>8, <1>14 DEF EdgeKept
    <3> QED BY <3>2, <3>3, <3>4
  <2>3. q[1] = p[1] BY <1>3, <2>2
  <2>4. CASE e.cell2 # NoToken /\ S.overfull = TRUE /\ EdgeContent(S) = EdgeContent(T)
    <3>1. CompletingOf(q) # {} /\ OverfullOf(q) BY <1>3, <2>2, <2>4
    <3>2. IsOverfull(S) /\ S.overfull \in BOOLEAN BY <2>4 DEF IsOverfull
    <3>3. \E j \in Keys : TableIn(l, j) = i /\ OverfullOf(Q[j]) BY <1>2, <1>9, <3>1
    <3> QED BY <1>11, <2>1, <2>2, <2>3, <2>4, <3>1, <3>2, <3>3
  <2>5. CASE /\ e.cell2 = NoToken /\ (mode \/ e.cell1 # token) /\ S.overfull = T.overfull
             /\ EdgeContent(S) = (EdgeContent(T) \ {e})
                                   \cup {[key |-> k, cell1 |-> e.cell1, cell2 |-> token]}
    <3> DEFINE f == [key |-> k, cell1 |-> e.cell1, cell2 |-> token]
    <3>1. /\ CompletingOf(p) = {} /\ ~OverfullOf(p) /\ ~OverfullOf(q)
          /\ CompletingOf(q) # {} <=> r.mode \/ r.token # p[1].token
      BY <1>3, <2>2, <2>5
    <3>2. CompletingOf(q) # {} BY <1>1, <2>2, <2>5, <3>1
    <3>3. f.key = k /\ f.cell1 = q[1].token /\ f.cell2 # NoToken BY <2>2, <2>3
    <3>4. EdgeContent(S) = (EdgeContent(T) \ {e}) \cup {f} BY <2>5
    <3> HIDE DEF f
    <3>5. f \in EdgeContent(S) BY <3>4
    <3>6. /\ \A g \in EdgeContent(S) : g.key = k \/ g \in EdgeContent(T)
          /\ \A g \in EdgeContent(T) : g.key = k \/ g \in EdgeContent(S)
      BY <2>1, <3>3, <3>4
    <3> QED BY <1>11, <1>12, <2>5, <3>1, <3>2, <3>3, <3>5, <3>6
  <2>6. CASE /\ e.cell2 = NoToken /\ ~(mode \/ e.cell1 # token)
             /\ S.overfull = T.overfull /\ EdgeContent(S) = EdgeContent(T)
    <3>1. /\ CompletingOf(p) = {} /\ ~OverfullOf(p) /\ ~OverfullOf(q)
          /\ CompletingOf(q) # {} <=> r.mode \/ r.token # p[1].token
      BY <1>3, <2>2, <2>6
    <3>2. CompletingOf(q) = {} BY <1>1, <2>2, <2>6, <3>1
    <3> QED BY <1>11, <1>12, <2>1, <2>2, <2>3, <2>6, <3>1, <3>2
  <2> QED BY <2>1, <2>4, <2>5, <2>6
<1> QED BY <1>13, <1>14

\* The pushes of the edges of other tables do not matter to a table.
LEMMA OtherPushes ==
  ASSUME NEW l, NEW i, NEW T, NEW P, NEW Q, EdgeTableKeeps(l, i, T, P),
         \A k \in Keys : TableIn(l, k) = i => Q[k] = P[k]
  PROVE  EdgeTableKeeps(l, i, T, Q)
BY DEF EdgeTableKeeps

\* One push in the container: the pushes the edge had, and one more.
PushedTo(d, i, k, r) == [d EXCEPT ![i] = PushEdge(d[i], k, r.token, r.mode)]
WithPush(P, k, r) == [P EXCEPT ![k] = Append(P[k], r)]

\* A push of an edge, in the container: its table records it, and no other changes.
LEMMA EdgesPush ==
  ASSUME HashesAssumption, LayoutsAssumption, NoToken \notin Tokens, NEW l \in Layouts, NEW d,
         NEW P \in [Keys -> Seq(PushRecord)], EdgesKept(l, d, P), NEW k \in Keys,
         NEW r \in PushRecord, TableIn(l, k) <= Len(d)
  PROVE  /\ EdgesKept(l, PushedTo(d, TableIn(l, k), k, r), WithPush(P, k, r))
         /\ Len(PushedTo(d, TableIn(l, k), k, r)) = Len(d)
         /\ WithPush(P, k, r) \in [Keys -> Seq(PushRecord)]
<1>0. PICK token \in Tokens, mode \in BOOLEAN : r = [token |-> token, mode |-> mode]
  BY DEF PushRecord
<1> DEFINE i == TableIn(l, k)
           S == PushEdge(d[i], k, token, mode)
           N == [d EXCEPT ![i] = S]
           Q == [P EXCEPT ![k] = Append(P[k], [token |-> token, mode |-> mode])]
<1>1. Len(d) \in Nat /\ DOMAIN d = 1 .. Len(d) BY DEF EdgesKept, IsVector
<1>2. i \in 1 .. Len(d) BY <1>1, TableInRange
<1>3. DOMAIN N = 1 .. Len(d) BY <1>1
<1>4. Len(N) = Len(d) BY <1>1, <1>3
<1>5. N[i] = S /\ \A j \in 1 .. Len(d) : j # i => N[j] = d[j] BY <1>1, <1>2
<1>6. PushedTo(d, i, k, r) = N /\ WithPush(P, k, r) = Q
  <2>1. r.token = token /\ r.mode = mode BY <1>0
  <2> QED BY <1>0, <2>1 DEF PushedTo, WithPush
<1>7. Append(P[k], r) \in Seq(PushRecord) OBVIOUS
<1>8. Q \in [Keys -> Seq(PushRecord)] BY <1>0, <1>7
<1>9. \A j \in Keys : j # k => Q[j] = P[j] OBVIOUS
<1>10. EdgeTableKeeps(l, i, S, Q)
  <2>1. EdgeTableKeeps(l, i, d[i], P) BY <1>2 DEF EdgesKept
  <2> QED BY <2>1, EdgeTablePush
<1>11. SUFFICES EdgesKept(l, N, Q)
  BY <1>4, <1>6, <1>8
<1>12. TableIn(l, k) = i OBVIOUS
<1> HIDE DEF i, S, N, Q
<1>13. ASSUME NEW j \in 1 .. Len(d) PROVE EdgeTableKeeps(l, j, N[j], Q)
  <2>1. CASE j = i BY <1>5, <1>10, <2>1
  <2>2. CASE j # i
    <3>1. EdgeTableKeeps(l, j, d[j], P) BY DEF EdgesKept
    <3>2. \A m \in Keys : TableIn(l, m) = j => Q[m] = P[m] BY <1>9, <1>12, <2>2
    <3>3. EdgeTableKeeps(l, j, d[j], Q) BY <3>1, <3>2, OtherPushes
    <3> QED BY <1>5, <2>2, <3>3
  <2> QED BY <2>1, <2>2
<1>14. \A j \in Keys : TableIn(l, j) > Len(d) => Q[j] = <<>>
  <2> TAKE j \in Keys
  <2>1. CASE j = k BY <1>1, <1>2, <1>12, <2>1
  <2>2. CASE j # k BY <1>9, <2>2 DEF EdgesKept
  <2> QED BY <2>1, <2>2
<1> QED BY <1>1, <1>3, <1>4, <1>13, <1>14 DEF EdgesKept, IsVector

\* A table without entries, for edges that were not pushed.
LEMMA EmptyEdgeTable ==
  ASSUME NEW l, NEW i, NEW T, EdgeTableOK(T), EdgeContent(T) = {}, T.overfull = FALSE,
         NEW P, \A k \in Keys : TableIn(l, k) = i => P[k] = <<>>
  PROVE  EdgeTableKeeps(l, i, T, P)
<1>1. \A k \in Keys : ~HoldsEdge(T, k) BY DEF HoldsEdge
<1>2. \A k \in Keys : TableIn(l, k) = i => EdgeKept(T, k, P[k]) BY <1>1 DEF EdgeKept
<1>3. ~IsOverfull(T) BY DEF IsOverfull
<1>4. \A k \in Keys : TableIn(l, k) = i => ~OverfullOf(P[k]) BY NoPushes
<1> QED BY <1>2, <1>3, <1>4 DEF EdgeTableKeeps

\* A new edge container, before any push.
LEMMA EdgesStart ==
  ASSUME CapacityAssumption, NEW l, l.tables \in Nat, NEW P, \A k \in Keys : P[k] = <<>>
  PROVE  LET N == [i \in 1 .. l.tables |-> NewEdgeTable(HashCapacity)] IN
         EdgesKept(l, N, P) /\ Len(N) = l.tables
<1> DEFINE new == NewEdgeTable(HashCapacity)  N == [i \in 1 .. l.tables |-> new]
<1>1. EdgeTableOK(new) /\ EdgeContent(new) = {} /\ new.overfull = FALSE
  BY CapacityIsPower, NewEdgeTableOK
<1> HIDE DEF new
<1>2. DOMAIN N = 1 .. l.tables /\ Len(N) = l.tables /\ \A i \in 1 .. l.tables : N[i] = new
  OBVIOUS
<1> HIDE DEF N
<1>3. \A i \in 1 .. l.tables : EdgeTableKeeps(l, i, N[i], P) BY <1>1, <1>2, EmptyEdgeTable
<1>4. EdgesKept(l, N, P) BY <1>2, <1>3 DEF EdgesKept, IsVector
<1> QED BY <1>2, <1>4 DEF N, new

\* ensure_table() of the edge container.
LEMMA EdgesGrow ==
  ASSUME CapacityAssumption, LayoutsAssumption, NEW l \in Layouts, NEW d, NEW P,
         EdgesKept(l, d, P), NEW n \in Nat, Len(d) <= n
  PROVE  /\ EdgesKept(l, UpTo(d, n, NewEdgeTable(HashCapacity)), P)
         /\ Len(UpTo(d, n, NewEdgeTable(HashCapacity))) = n
<1> DEFINE new == NewEdgeTable(HashCapacity)
           N == UpTo(d, n, new)
<1>1. EdgeTableOK(new) /\ EdgeContent(new) = {} /\ new.overfull = FALSE
  BY CapacityIsPower, NewEdgeTableOK
<1>2. Len(d) \in Nat /\ DOMAIN d = 1 .. Len(d) BY DEF EdgesKept, IsVector
<1> HIDE DEF new
<1>3. DOMAIN N = 1 .. n /\ Len(N) = n BY DEF UpTo
<1>4. \A i \in 1 .. n : N[i] = IF i <= Len(d) THEN d[i] ELSE new BY DEF UpTo
<1> HIDE DEF N
<1>5. \A i \in 1 .. n : EdgeTableKeeps(l, i, N[i], P)
  <2> TAKE i \in 1 .. n
  <2>1. CASE i <= Len(d)
    <3>1. i \in 1 .. Len(d) BY <1>2, <2>1
    <3> QED BY <1>4, <2>1, <3>1 DEF EdgesKept
  <2>2. CASE ~(i <= Len(d))
    <3>1. \A k \in Keys : TableIn(l, k) = i => P[k] = <<>> BY <1>2, <2>2 DEF EdgesKept
    <3>2. N[i] = new BY <1>4, <2>2
    <3> QED BY <1>1, <3>1, <3>2, EmptyEdgeTable
  <2> QED BY <2>1, <2>2
<1>6. \A k \in Keys : TableIn(l, k) > n => P[k] = <<>>
  <2> SUFFICES ASSUME NEW k \in Keys, TableIn(l, k) > n, ~(TableIn(l, k) > Len(d)) PROVE FALSE
    BY DEF EdgesKept
  <2>1. TableIn(l, k) \in Nat BY TableInRange
  <2> QED BY <1>2, <2>1
<1> QED BY <1>3, <1>5, <1>6 DEF EdgesKept, IsVector, N, new

\* clear() of the edge container forgets the pushes.
LEMMA EdgesClear ==
  ASSUME NEW l, NEW d, NEW P, EdgesKept(l, d, P), NEW Q, \A k \in Keys : Q[k] = <<>>
  PROVE  LET N == [i \in DOMAIN d |-> ClearedEdges(d[i])] IN
         EdgesKept(l, N, Q) /\ Len(N) = Len(d)
<1> DEFINE N == [i \in DOMAIN d |-> ClearedEdges(d[i])]
<1>1. Len(d) \in Nat /\ DOMAIN d = 1 .. Len(d) BY DEF EdgesKept, IsVector
<1>2. DOMAIN N = 1 .. Len(d) /\ \A i \in 1 .. Len(d) : N[i] = ClearedEdges(d[i]) BY <1>1
<1>3. Len(N) = Len(d) BY <1>1, <1>2
<1> HIDE DEF N
<1>4. \A i \in 1 .. Len(d) : EdgeTableKeeps(l, i, N[i], Q)
  <2> TAKE i \in 1 .. Len(d)
  <2>1. EdgeTableOK(d[i]) BY DEF EdgesKept, EdgeTableKeeps
  <2>2. EdgeTableOK(N[i]) /\ EdgeContent(N[i]) = {} /\ N[i].overfull = FALSE
    BY <1>2, <2>1, ClearEdgesKeeps
  <2> QED BY <2>2, EmptyEdgeTable
<1>5. EdgesKept(l, N, Q) BY <1>1, <1>2, <1>3, <1>4 DEF EdgesKept, IsVector
<1> QED BY <1>3, <1>5 DEF N

-----------------------------------------------------------------------------
(* The invariant of the containers *)

Operations == {"push", "contains", "erase", "edge", "clear", "resize"}
KeyOperations == {"push", "contains", "erase", "edge"}

\* The sizes of the vectors, the type of the calls, and what each call may rely on.
CallOK(l, p, c, lq, le) ==
  /\ p \in {"idle", "route", "grow", "table", "return"}
  /\ p = "idle" => c = NoCall
  /\ p # "idle" =>
       /\ c.op \in l.operations /\ c.op \in Operations /\ c.mode \in BOOLEAN
       /\ c.op \in KeyOperations => c.key \in Keys
       /\ c.op \in {"clear", "resize"} => c.key = NoKey /\ p \in {"route", "return"}
       /\ c.op = "edge" => c.token \in Tokens
       /\ DOMAIN c = {"op", "key", "token", "mode", "answer"}
  /\ p \in {"route", "grow", "table"} => c.answer = "open"
  /\ p = "return" => c.answer \in {"yes", "no"}
  /\ p = "grow" => l.growing /\ c.op \in {"push", "edge"}
  /\ p = "table" => TableIn(l, c.key) <= IF c.op = "edge" THEN le ELSE lq

CallsOK == /\ DOMAIN stage = Threads /\ DOMAIN call = Threads
           /\ \A t \in Threads : CallOK(layout, stage[t], call[t], Len(queue), Len(edges))

SizesOK == /\ layout \in Layouts
           /\ Len(queue) \in Nat /\ Len(edges) \in Nat
           /\ ~layout.growing => Len(queue) = layout.tables /\ Len(edges) = layout.tables

PushesOK == pushed \in [Keys -> Seq(PushRecord)]

IInv == SizesOK /\ CallsOK /\ PushesOK /\ QueueOK(layout, queue)
        /\ EdgesKept(layout, edges, pushed)

\* The parts of the assumption on the constants that the lemmas use.
LEMMA Assumptions ==
  ASSUME ContainersAssumption
  PROVE  /\ HashesAssumption /\ CapacityAssumption /\ LayoutsAssumption
         /\ NoToken \notin Tokens /\ NoKey \notin Keys
         /\ \A l \in Layouts : l.operations \subseteq Operations
BY DEF ContainersAssumption, HashesAssumption, CapacityAssumption, LayoutsAssumption, Operations

\* The table of a key, in this container.
LEMMA TableOfIs ==
  ASSUME NEW k PROVE TableOf(k) = TableIn(layout, k)
BY DEF TableOf, TableIn

\* The invariant holds at first.
LEMMA InitInv ==
  ASSUME ContainersAssumption, ContainersInit PROVE IInv
<1>1. layout \in Layouts /\ layout.tables \in Nat
  BY Assumptions DEF ContainersInit, LayoutsAssumption
<1>2. queue = [i \in 1 .. layout.tables |-> NewTable(HashCapacity)] BY DEF ContainersInit
<1>3. edges = [i \in 1 .. layout.tables |-> NewEdgeTable(HashCapacity)] BY DEF ContainersInit
<1>4. pushed = [k \in Keys |-> <<>>] BY DEF ContainersInit
<1>5. QueueOK(layout, queue) /\ Len(queue) = layout.tables
  BY <1>1, <1>2, Assumptions, QueueStarts
<1>6. EdgesKept(layout, edges, pushed) /\ Len(edges) = layout.tables
  BY <1>1, <1>3, <1>4, Assumptions, EdgesStart
<1>7. SizesOK BY <1>1, <1>5, <1>6 DEF SizesOK
<1>8. CallsOK BY DEF ContainersInit, CallsOK, CallOK
<1>9. PushesOK BY <1>4 DEF PushesOK
<1> QED BY <1>5, <1>6, <1>7, <1>8, <1>9 DEF IInv

-----------------------------------------------------------------------------
(* The steps of the containers *)

\* Longer vectors do not disturb a call.
LEMMA CallGrows ==
  ASSUME ContainersAssumption, NEW l \in Layouts, NEW p, NEW c, NEW lq \in Nat, NEW le \in Nat,
         CallOK(l, p, c, lq, le), NEW mq \in Nat, NEW me \in Nat, lq <= mq, le <= me
  PROVE  CallOK(l, p, c, mq, me)
<1>1. CASE p = "table"
  <2>1. c.key \in Keys BY <1>1 DEF CallOK, Operations, KeyOperations
  <2>2. TableIn(l, c.key) \in Nat BY <2>1, Assumptions, TableInRange
  <2>3. TableIn(l, c.key) <= IF c.op = "edge" THEN me ELSE mq
    <3>1. CASE c.op = "edge" BY <1>1, <2>2, <3>1 DEF CallOK
    <3>2. CASE c.op # "edge" BY <1>1, <2>2, <3>2 DEF CallOK
    <3> QED BY <3>1, <3>2
  <2> QED BY <1>1, <2>3 DEF CallOK
<1>2. CASE p # "table" BY <1>2 DEF CallOK
<1> QED BY <1>1, <1>2

\* A step of t, which leaves the other calls alone and makes no vector shorter.
StepOf(t) ==
  /\ layout' = layout
  /\ DOMAIN stage' = Threads /\ DOMAIN call' = Threads
  /\ \A u \in Threads \ {t} : stage'[u] = stage[u] /\ call'[u] = call[u]
  /\ Len(queue') \in Nat /\ Len(queue) <= Len(queue')
  /\ Len(edges') \in Nat /\ Len(edges) <= Len(edges')

\* The calls are in order after a step of t when t's is.
LEMMA StepCalls ==
  ASSUME ContainersAssumption, IInv, NEW t \in Threads, StepOf(t),
         CallOK(layout, stage'[t], call'[t], Len(queue'), Len(edges'))
  PROVE  CallsOK'
<1>1. layout \in Layouts /\ Len(queue) \in Nat /\ Len(edges) \in Nat BY DEF IInv, SizesOK
<1>2. ASSUME NEW u \in Threads
      PROVE  CallOK(layout, stage'[u], call'[u], Len(queue'), Len(edges'))
  <2>1. CASE u = t BY <2>1
  <2>2. CASE u # t
    <3>1. CallOK(layout, stage[u], call[u], Len(queue), Len(edges)) BY DEF IInv, CallsOK
    <3>2. stage'[u] = stage[u] /\ call'[u] = call[u] BY <2>2 DEF StepOf
    <3>3. CallOK(layout, stage[u], call[u], Len(queue'), Len(edges'))
      BY <1>1, <3>1, CallGrows DEF StepOf
    <3> QED BY <3>2, <3>3
  <2> QED BY <2>1, <2>2
<1> QED BY <1>2 DEF CallsOK, StepOf

\* What each step of a call makes of the call.
CallOf(t) == CallOK(layout, stage[t], call[t], Len(queue), Len(edges))

\* What the call of a thread may rely on.
LEMMA TheCall ==
  ASSUME IInv, NEW t \in Threads PROVE CallOf(t)
BY DEF IInv, CallsOK, CallOf

\* A call with a key has a table to go to, in a fixed container one that is there.
LEMMA KeyTable ==
  ASSUME ContainersAssumption, IInv, NEW t \in Threads, stage[t] # "idle", call[t].op \in KeyOperations
  PROVE  /\ call[t].key \in Keys
         /\ TableOf(call[t].key) = TableIn(layout, call[t].key)
         /\ TableOf(call[t].key) \in Nat \ {0}
         /\ ~layout.growing => TableOf(call[t].key) <= layout.tables
<1>1. call[t].key \in Keys BY TheCall DEF CallOf, CallOK
<1>2. TableOf(call[t].key) = TableIn(layout, call[t].key) BY TableOfIs
<1>3. layout \in Layouts /\ LayoutsAssumption BY Assumptions DEF IInv, SizesOK
<1>4. /\ TableIn(layout, call[t].key) \in Nat \ {0}
      /\ ~layout.growing => TableIn(layout, call[t].key) <= layout.tables
  BY <1>1, <1>3, TableInRange
<1> QED BY <1>1, <1>2, <1>4

\* A step that leaves the tables alone.
LEMMA VectorsUnchanged ==
  ASSUME IInv, UNCHANGED <<layout, queue, edges, pushed>>
  PROVE  /\ SizesOK' /\ PushesOK' /\ QueueOK(layout', queue') /\ EdgesKept(layout', edges', pushed')
         /\ Len(queue') \in Nat /\ Len(queue) <= Len(queue')
         /\ Len(edges') \in Nat /\ Len(edges) <= Len(edges')
<1>1. layout' = layout /\ queue' = queue /\ edges' = edges /\ pushed' = pushed OBVIOUS
<1>2. SizesOK' BY <1>1 DEF IInv, SizesOK
<1>3. PushesOK' BY <1>1 DEF IInv, PushesOK
<1>4. QueueOK(layout', queue') /\ EdgesKept(layout', edges', pushed') BY <1>1 DEF IInv
<1>5. Len(queue) \in Nat /\ Len(edges) \in Nat BY DEF IInv, SizesOK
<1> QED BY <1>1, <1>2, <1>3, <1>4, <1>5

\* The parts of the invariant after a step.
LEMMA IInvPrime ==
  ASSUME SizesOK', CallsOK', PushesOK', QueueOK(layout', queue'),
         EdgesKept(layout', edges', pushed')
  PROVE  IInv'
BY DEF IInv

\* A call begins.
LEMMA CallStep ==
  ASSUME ContainersAssumption, IInv, NEW t \in Threads, BeginCall(t)
  PROVE  IInv' /\ StepOf(t)
<1>1. UNCHANGED <<layout, queue, edges, pushed>> BY DEF BeginCall
<1>2. DOMAIN stage = Threads /\ DOMAIN call = Threads BY DEF IInv, CallsOK
<1>3. PICK op \in layout.operations :
        \E k \in IF op \in {"clear", "resize"} THEN {NoKey} ELSE Keys,
           token \in IF op = "edge" THEN Tokens ELSE {NoToken},
           mode \in IF op = "edge" THEN BOOLEAN ELSE {FALSE} :
          call' = [call EXCEPT ![t] = [op |-> op, key |-> k, token |-> token,
                                       mode |-> mode, answer |-> "open"]]
  BY DEF BeginCall
<1>4. PICK k \in IF op \in {"clear", "resize"} THEN {NoKey} ELSE Keys,
           token \in IF op = "edge" THEN Tokens ELSE {NoToken},
           mode \in IF op = "edge" THEN BOOLEAN ELSE {FALSE} :
          call' = [call EXCEPT ![t] = [op |-> op, key |-> k, token |-> token,
                                       mode |-> mode, answer |-> "open"]]
  BY <1>3
<1> DEFINE c == [op |-> op, key |-> k, token |-> token, mode |-> mode, answer |-> "open"]
<1>5. /\ stage'[t] = "route" /\ DOMAIN stage' = Threads /\ call'[t] = c /\ DOMAIN call' = Threads
      /\ \A u \in Threads \ {t} : stage'[u] = stage[u] /\ call'[u] = call[u]
  BY <1>2, <1>4 DEF BeginCall
<1>6. StepOf(t) BY <1>1, <1>5, VectorsUnchanged DEF StepOf
<1>7. op \in Operations BY Assumptions DEF IInv, SizesOK
<1>8. CallOK(layout, "route", c, Len(queue'), Len(edges'))
  <2>1. c.op = op /\ c.key = k /\ c.token = token /\ c.mode = mode /\ c.answer = "open"
        /\ DOMAIN c = {"op", "key", "token", "mode", "answer"}
    OBVIOUS
  <2>2. mode \in BOOLEAN /\ (op = "edge" => token \in Tokens) OBVIOUS
  <2>3. op \in KeyOperations => k \in Keys BY DEF KeyOperations
  <2>4. op \in {"clear", "resize"} => k = NoKey OBVIOUS
  <2> HIDE DEF c
  <2> QED BY <1>7, <2>1, <2>2, <2>3, <2>4 DEF CallOK
<1>9. CallsOK' BY <1>5, <1>6, <1>8, StepCalls
<1> QED BY <1>1, <1>6, <1>9, VectorsUnchanged, IInvPrime

\* The look under the read lock: only a growing container can miss a table.
LEMMA RouteStep ==
  ASSUME ContainersAssumption, IInv, NEW t \in Threads, Route(t)
  PROVE  IInv' /\ StepOf(t)
<1>1. UNCHANGED <<layout, queue, edges, pushed>> BY DEF Route
<1>2. DOMAIN stage = Threads /\ DOMAIN call = Threads BY DEF IInv, CallsOK
<1> DEFINE missing == TableOf(call[t].key) > TablesFor(t)
           makes == call[t].op \in {"push", "edge"}
<1>3. /\ stage' = [stage EXCEPT ![t] = IF ~missing THEN "table" ELSE IF makes THEN "grow" ELSE "return"]
      /\ call' = [call EXCEPT ![t].answer = IF missing /\ ~makes THEN "no" ELSE @]
      /\ stage[t] = "route" /\ call[t].key # NoKey
  BY DEF Route
<1>4. StepOf(t) BY <1>1, <1>2, <1>3, VectorsUnchanged DEF StepOf
<1>5. CallOK(layout, "route", call[t], Len(queue), Len(edges)) BY <1>3, TheCall DEF CallOf
<1>6. call[t].op \in KeyOperations
  BY <1>3, <1>5 DEF CallOK, Operations, KeyOperations
<1>7. /\ call[t].key \in Keys /\ TableOf(call[t].key) = TableIn(layout, call[t].key)
      /\ TableOf(call[t].key) \in Nat
      /\ ~layout.growing => TableOf(call[t].key) <= layout.tables
  BY <1>3, <1>6, KeyTable
<1>8. TablesFor(t) = IF call[t].op = "edge" THEN Len(edges) ELSE Len(queue) BY DEF TablesFor
<1>9. Len(queue) \in Nat /\ Len(edges) \in Nat
      /\ ~layout.growing => Len(queue) = layout.tables /\ Len(edges) = layout.tables
  BY DEF IInv, SizesOK
<1>10. missing => layout.growing BY <1>7, <1>8, <1>9
<1>11. CallOK(layout, stage'[t], call'[t], Len(queue'), Len(edges'))
  <2>1. /\ call'[t].op = call[t].op /\ call'[t].key = call[t].key
        /\ call'[t].token = call[t].token /\ call'[t].mode = call[t].mode
        /\ DOMAIN call'[t] = DOMAIN call[t]
        /\ call'[t].answer = IF missing /\ ~makes THEN "no" ELSE "open"
    BY <1>2, <1>3, <1>5 DEF CallOK
  <2>2. stage'[t] = IF ~missing THEN "table" ELSE IF makes THEN "grow" ELSE "return"
    BY <1>2, <1>3
  <2>3. CASE ~missing
    <3>1. TableIn(layout, call[t].key) <= IF call[t].op = "edge" THEN Len(edges) ELSE Len(queue)
      BY <1>7, <1>8, <1>9, <2>3
    <3> QED BY <1>1, <1>5, <1>6, <2>1, <2>2, <2>3, <3>1 DEF CallOK, KeyOperations
  <2>4. CASE missing /\ makes
    BY <1>5, <1>6, <1>10, <2>1, <2>2, <2>4 DEF CallOK, KeyOperations
  <2>5. CASE missing /\ ~makes
    BY <1>5, <1>6, <2>1, <2>2, <2>5 DEF CallOK, KeyOperations
  <2> QED BY <2>3, <2>4, <2>5
<1>12. CallsOK' BY <1>4, <1>11, StepCalls
<1> QED BY <1>1, <1>4, <1>12, VectorsUnchanged, IInvPrime

\* A call ends.
LEMMA ReturnStep ==
  ASSUME ContainersAssumption, IInv, NEW t \in Threads, EndCall(t)
  PROVE  IInv' /\ StepOf(t)
<1>1. UNCHANGED <<layout, queue, edges, pushed>> BY DEF EndCall
<1>2. DOMAIN stage = Threads /\ DOMAIN call = Threads BY DEF IInv, CallsOK
<1>3. StepOf(t) BY <1>1, <1>2, VectorsUnchanged DEF StepOf, EndCall
<1>4. stage'[t] = "idle" /\ call'[t] = NoCall BY <1>2 DEF EndCall
<1>5. CallOK(layout, stage'[t], call'[t], Len(queue'), Len(edges')) BY <1>4 DEF CallOK
<1>6. CallsOK' BY <1>3, <1>5, StepCalls
<1> QED BY <1>1, <1>3, <1>6, VectorsUnchanged, IInvPrime

\* A call that takes effect, with an answer.
Finishes(t) ==
  /\ stage[t] \in {"route", "table"} /\ stage' = [stage EXCEPT ![t] = "return"]
  /\ \E a \in {"yes", "no"} : call' = [call EXCEPT ![t].answer = a]

\* The calls are in order after one of them has taken effect.
LEMMA FinishCalls ==
  ASSUME ContainersAssumption, IInv, NEW t \in Threads, Finishes(t), layout' = layout,
         Len(queue') = Len(queue), Len(edges') = Len(edges)
  PROVE  StepOf(t) /\ CallsOK'
<1>1. DOMAIN stage = Threads /\ DOMAIN call = Threads BY DEF IInv, CallsOK
<1>2. Len(queue) \in Nat /\ Len(edges) \in Nat BY DEF IInv, SizesOK
<1>3. PICK a \in {"yes", "no"} : call' = [call EXCEPT ![t].answer = a] BY DEF Finishes
<1>4. /\ stage'[t] = "return" /\ stage[t] \in {"route", "table"}
      /\ DOMAIN stage' = Threads /\ DOMAIN call' = Threads
      /\ \A u \in Threads \ {t} : stage'[u] = stage[u] /\ call'[u] = call[u]
  BY <1>1, <1>3 DEF Finishes
<1>5. StepOf(t) BY <1>2, <1>4 DEF StepOf
<1>6. CallOK(layout, stage[t], call[t], Len(queue), Len(edges)) BY TheCall DEF CallOf
<1>7. DOMAIN call[t] = {"op", "key", "token", "mode", "answer"} BY <1>4, <1>6 DEF CallOK
<1>8. /\ call'[t].op = call[t].op /\ call'[t].key = call[t].key
      /\ call'[t].token = call[t].token /\ call'[t].mode = call[t].mode
      /\ DOMAIN call'[t] = DOMAIN call[t] /\ call'[t].answer = a
  BY <1>1, <1>3, <1>7
<1>9. CallOK(layout, stage'[t], call'[t], Len(queue'), Len(edges')) BY <1>4, <1>6, <1>8 DEF CallOK
<1> QED BY <1>5, <1>9, StepCalls

\* The table a call has found, or made, is there.
LEMMA TableIsThere ==
  ASSUME ContainersAssumption, IInv, NEW t \in Threads, NEW op \in KeyOperations, Does(t, op)
  PROVE  /\ call[t].key \in Keys /\ TableOf(call[t].key) = TableIn(layout, call[t].key)
         /\ op # "edge" => TableIn(layout, call[t].key) <= Len(queue)
         /\ op = "edge" => TableIn(layout, call[t].key) <= Len(edges) /\ call[t].token \in Tokens
         /\ call[t].mode \in BOOLEAN /\ layout \in Layouts
<1>1. stage[t] = "table" /\ call[t].op = op BY DEF Does
<1>2. call[t].key \in Keys /\ TableOf(call[t].key) = TableIn(layout, call[t].key)
  BY <1>1, KeyTable
<1>3. CallOK(layout, "table", call[t], Len(queue), Len(edges)) BY <1>1, TheCall DEF CallOf
<1>4. layout \in Layouts BY DEF IInv, SizesOK
<1>5. TableIn(layout, call[t].key) <= IF op = "edge" THEN Len(edges) ELSE Len(queue)
  BY <1>1, <1>3 DEF CallOK
<1>6. call[t].mode \in BOOLEAN /\ (op = "edge" => call[t].token \in Tokens)
  BY <1>1, <1>3 DEF CallOK
<1> QED BY <1>2, <1>4, <1>5, <1>6

\* A push adds its key.
LEMMA PushStep ==
  ASSUME ContainersAssumption, IInv, NEW t \in Threads, PushQueue(t)
  PROVE  IInv' /\ MembersOf(queue') = MembersOf(queue) \cup {call[t].key}
<1> DEFINE k == call[t].key
<1>1. /\ Does(t, "push") /\ UNCHANGED <<layout, edges, pushed>>
      /\ Answers(t, Found(queue[TableOf(k)], k))
      /\ queue' = [queue EXCEPT ![TableOf(k)] = Insert(queue[TableOf(k)], k)]
  BY DEF PushQueue
<1>2. /\ k \in Keys /\ TableOf(k) = TableIn(layout, k) /\ TableIn(layout, k) <= Len(queue)
      /\ layout \in Layouts
  BY <1>1, TableIsThere DEF KeyOperations
<1>3. QueueOK(layout, queue) BY DEF IInv
<1>4. HashesAssumption /\ LayoutsAssumption BY Assumptions
<1>5. /\ QueueOK(layout, queue') /\ Len(queue') = Len(queue)
      /\ MembersOf(queue') = MembersOf(queue) \cup {k}
  <2>1. queue' = [queue EXCEPT ![TableIn(layout, k)] = Insert(queue[TableIn(layout, k)], k)]
    BY <1>1, <1>2
  <2> HIDE DEF k
  <2> QED BY <1>2, <1>3, <1>4, <2>1, QueueInsert
<1>6. Finishes(t) BY <1>1 DEF Does, Answers, Answer, Finishes
<1>7. StepOf(t) /\ CallsOK' BY <1>1, <1>5, <1>6, FinishCalls
<1>8. SizesOK' BY <1>1, <1>5 DEF IInv, SizesOK
<1>9. PushesOK' /\ EdgesKept(layout', edges', pushed') BY <1>1 DEF IInv, PushesOK
<1> QED BY <1>1, <1>5, <1>7, <1>8, <1>9, IInvPrime

\* A search changes nothing.
LEMMA ContainsStep ==
  ASSUME ContainersAssumption, IInv, NEW t \in Threads, ContainsKey(t)
  PROVE  IInv' /\ MembersOf(queue') = MembersOf(queue)
<1>1. UNCHANGED <<layout, queue, edges, pushed>> BY DEF ContainsKey
<1>2. Finishes(t) BY DEF ContainsKey, Does, Answers, Answer, Finishes
<1>3. CallsOK' BY <1>1, <1>2, FinishCalls
<1> QED BY <1>1, <1>3, VectorsUnchanged, IInvPrime

\* A removal takes its key away.
LEMMA EraseStep ==
  ASSUME ContainersAssumption, IInv, NEW t \in Threads, Erase(t)
  PROVE  IInv' /\ MembersOf(queue') = MembersOf(queue) \ {call[t].key}
<1> DEFINE k == call[t].key
<1>1. /\ Does(t, "erase") /\ UNCHANGED <<layout, edges, pushed>>
      /\ Answers(t, Found(queue[TableOf(k)], k))
      /\ queue' = [queue EXCEPT ![TableOf(k)] = EraseKey(queue[TableOf(k)], k)]
  BY DEF Erase
<1>2. /\ k \in Keys /\ TableOf(k) = TableIn(layout, k) /\ TableIn(layout, k) <= Len(queue)
      /\ layout \in Layouts
  BY <1>1, TableIsThere DEF KeyOperations
<1>3. QueueOK(layout, queue) BY DEF IInv
<1>4. HashesAssumption /\ LayoutsAssumption BY Assumptions
<1>5. /\ QueueOK(layout, queue') /\ Len(queue') = Len(queue)
      /\ MembersOf(queue') = MembersOf(queue) \ {k}
  <2>1. queue' = [queue EXCEPT ![TableIn(layout, k)] = EraseKey(queue[TableIn(layout, k)], k)]
    BY <1>1, <1>2
  <2> HIDE DEF k
  <2> QED BY <1>2, <1>3, <1>4, <2>1, QueueErase
<1>6. Finishes(t) BY <1>1 DEF Does, Answers, Answer, Finishes
<1>7. StepOf(t) /\ CallsOK' BY <1>1, <1>5, <1>6, FinishCalls
<1>8. SizesOK' BY <1>1, <1>5 DEF IInv, SizesOK
<1>9. PushesOK' /\ EdgesKept(layout', edges', pushed') BY <1>1 DEF IInv, PushesOK
<1> QED BY <1>1, <1>5, <1>7, <1>8, <1>9, IInvPrime

\* A push of an edge is recorded in the table of the edge, and nowhere else.
LEMMA EdgeStep ==
  ASSUME ContainersAssumption, IInv, NEW t \in Threads, PushOneEdge(t)
  PROVE  IInv' /\ queue' = queue
<1> DEFINE k == call[t].key  token == call[t].token  mode == call[t].mode
<1>1. /\ Does(t, "edge") /\ UNCHANGED <<layout, queue>>
      /\ Answers(t, HadTwo(edges[TableOf(k)], k))
      /\ edges' = [edges EXCEPT ![TableOf(k)] = PushEdge(edges[TableOf(k)], k, token, mode)]
      /\ pushed' = [pushed EXCEPT ![k] = Append(pushed[k], [token |-> token, mode |-> mode])]
  BY DEF PushOneEdge
<1>2. /\ k \in Keys /\ TableOf(k) = TableIn(layout, k) /\ TableIn(layout, k) <= Len(edges)
      /\ token \in Tokens /\ mode \in BOOLEAN /\ layout \in Layouts
  BY <1>1, TableIsThere DEF KeyOperations
<1>3. EdgesKept(layout, edges, pushed) /\ pushed \in [Keys -> Seq(PushRecord)]
  BY DEF IInv, PushesOK
<1>4. HashesAssumption /\ LayoutsAssumption /\ NoToken \notin Tokens BY Assumptions
<1>5. /\ EdgesKept(layout, edges', pushed') /\ Len(edges') = Len(edges)
      /\ pushed' \in [Keys -> Seq(PushRecord)]
  <2>1. edges' = [edges EXCEPT ![TableIn(layout, k)]
                                 = PushEdge(edges[TableIn(layout, k)], k, token, mode)]
    BY <1>1, <1>2
  <2>2. pushed' = [pushed EXCEPT ![k] = Append(pushed[k], [token |-> token, mode |-> mode])]
    BY <1>1
  <2> DEFINE r == [token |-> token, mode |-> mode]
  <2>3. r \in PushRecord BY <1>2 DEF PushRecord
  <2>4. edges' = PushedTo(edges, TableIn(layout, k), k, r) /\ pushed' = WithPush(pushed, k, r)
    BY <2>1, <2>2 DEF PushedTo, WithPush
  <2> HIDE DEF r, k
  <2>5. TableIn(layout, k) <= Len(edges) /\ k \in Keys /\ layout \in Layouts BY <1>2
  <2>6. /\ EdgesKept(layout, PushedTo(edges, TableIn(layout, k), k, r), WithPush(pushed, k, r))
        /\ Len(PushedTo(edges, TableIn(layout, k), k, r)) = Len(edges)
        /\ WithPush(pushed, k, r) \in [Keys -> Seq(PushRecord)]
    BY <1>3, <1>4, <2>3, <2>5, EdgesPush
  <2> QED BY <2>4, <2>6
<1>6. Finishes(t) BY <1>1 DEF Does, Answers, Answer, Finishes
<1>7. StepOf(t) /\ CallsOK' BY <1>1, <1>5, <1>6, FinishCalls
<1>8. SizesOK' BY <1>1, <1>5 DEF IInv, SizesOK
<1>9. PushesOK' /\ QueueOK(layout', queue') BY <1>1, <1>5 DEF IInv, PushesOK
<1> QED BY <1>1, <1>5, <1>7, <1>8, <1>9, IInvPrime

\* clear() empties the containers.
LEMMA ClearStep ==
  ASSUME ContainersAssumption, IInv, NEW t \in Threads, ClearAll(t)
  PROVE  IInv' /\ MembersOf(queue') = {}
<1>1. /\ layout' = layout /\ pushed' = [k \in Keys |-> <<>>]
      /\ queue' = [i \in DOMAIN queue |-> Cleared(queue[i])]
      /\ edges' = [i \in DOMAIN edges |-> ClearedEdges(edges[i])]
  BY DEF ClearAll
<1>2. QueueOK(layout, queue) /\ EdgesKept(layout, edges, pushed) BY DEF IInv
<1>3. QueueOK(layout, queue') /\ Len(queue') = Len(queue) /\ MembersOf(queue') = {}
  BY <1>1, <1>2, QueueClears
<1>4. EdgesKept(layout, edges', pushed') /\ Len(edges') = Len(edges)
  <2>1. \A k \in Keys : pushed'[k] = <<>> BY <1>1
  <2> QED BY <1>1, <1>2, <2>1, EdgesClear
<1>5. Finishes(t) BY DEF ClearAll, Answers, Answer, Finishes
<1>6. CallsOK' BY <1>1, <1>3, <1>4, <1>5, FinishCalls
<1>7. SizesOK' BY <1>1, <1>3, <1>4 DEF IInv, SizesOK
<1>8. PushesOK' BY <1>1 DEF PushesOK
<1> QED BY <1>1, <1>3, <1>4, <1>6, <1>7, <1>8, IInvPrime

\* resize() keeps the keys.
LEMMA ResizeStep ==
  ASSUME ContainersAssumption, IInv, NEW t \in Threads, ResizeTable(t)
  PROVE  IInv' /\ MembersOf(queue') = MembersOf(queue)
<1>1. /\ UNCHANGED <<layout, edges, pushed>>
      /\ queue' = [i \in DOMAIN queue |->
                     IF Len(queue) = 1 THEN Resized(queue[i], 4) ELSE queue[i]]
  BY DEF ResizeTable
<1>2. QueueOK(layout, queue) BY DEF IInv
<1>3. HashesAssumption BY Assumptions
<1>4. /\ QueueOK(layout, queue') /\ Len(queue') = Len(queue)
      /\ MembersOf(queue') = MembersOf(queue)
  BY <1>1, <1>2, <1>3, QueueResizes
<1>5. Finishes(t) BY DEF ResizeTable, Answers, Answer, Finishes
<1>6. CallsOK' BY <1>1, <1>4, <1>5, FinishCalls
<1>7. SizesOK' BY <1>1, <1>4 DEF IInv, SizesOK
<1>8. PushesOK' /\ EdgesKept(layout', edges', pushed') BY <1>1 DEF IInv, PushesOK
<1> QED BY <1>1, <1>4, <1>6, <1>7, <1>8, IInvPrime

\* The table that a call finds missing is still missing, or another thread has made it.
LEMMA GrowStep ==
  ASSUME ContainersAssumption, IInv, NEW t \in Threads, GrowTables(t)
  PROVE  IInv' /\ MembersOf(queue') = MembersOf(queue)
<1> DEFINE at == TableOf(call[t].key)
           n  == IF at > TablesFor(t) THEN at ELSE TablesFor(t)
<1>1. /\ stage[t] = "grow" /\ stage' = [stage EXCEPT ![t] = "table"]
      /\ layout' = layout /\ pushed' = pushed /\ call' = call
  BY DEF GrowTables
<1>2. CallOK(layout, "grow", call[t], Len(queue), Len(edges)) BY <1>1, TheCall DEF CallOf
<1>3. /\ layout.growing /\ call[t].op \in {"push", "edge"} /\ call[t].answer = "open"
      /\ call[t].op \in layout.operations /\ call[t].mode \in BOOLEAN
      /\ call[t].op = "edge" => call[t].token \in Tokens
      /\ DOMAIN call[t] = {"op", "key", "token", "mode", "answer"}
  BY <1>2 DEF CallOK
<1>4. call[t].key \in Keys /\ at = TableIn(layout, call[t].key) /\ at \in Nat
  BY <1>1, <1>3, KeyTable DEF KeyOperations
<1>5. TablesFor(t) = IF call[t].op = "edge" THEN Len(edges) ELSE Len(queue) BY DEF TablesFor
<1>6. Len(queue) \in Nat /\ Len(edges) \in Nat /\ layout \in Layouts BY DEF IInv, SizesOK
<1>7. n \in Nat /\ TablesFor(t) <= n /\ at <= n BY <1>4, <1>5, <1>6
<1>8. QueueOK(layout, queue) /\ EdgesKept(layout, edges, pushed) BY DEF IInv
<1>9. CapacityAssumption /\ LayoutsAssumption BY Assumptions
<1>10. DOMAIN stage = Threads /\ DOMAIN call = Threads BY DEF IInv, CallsOK
<1>11. CASE call[t].op = "edge"
  <2>1. queue' = queue /\ edges' = UpTo(edges, n, NewEdgeTable(HashCapacity))
    BY <1>11 DEF GrowTables
  <2> HIDE DEF n
  <2>2. EdgesKept(layout, edges', pushed) /\ Len(edges') = n
    BY <1>5, <1>6, <1>7, <1>8, <1>9, <1>11, <2>1, EdgesGrow
  <2>3. StepOf(t) BY <1>1, <1>5, <1>6, <1>7, <1>10, <1>11, <2>1, <2>2 DEF StepOf
  <2>4. CallOK(layout, stage'[t], call'[t], Len(queue'), Len(edges'))
    <3>1. stage'[t] = "table" /\ call'[t] = call[t] BY <1>1, <1>10
    <3>2. CallOK(layout, "table", call[t], Len(queue'), Len(edges'))
      BY <1>2, <1>3, <1>4, <1>7, <1>11, <2>2 DEF CallOK
    <3> QED BY <3>1, <3>2
  <2>5. CallsOK' BY <2>3, <2>4, StepCalls
  <2>6. SizesOK' BY <1>1, <1>3, <1>6, <1>7, <2>1, <2>2 DEF SizesOK
  <2>7. PushesOK' /\ QueueOK(layout', queue') BY <1>1, <1>8, <2>1 DEF IInv, PushesOK
  <2> QED BY <1>1, <2>1, <2>2, <2>5, <2>6, <2>7, IInvPrime
<1>12. CASE call[t].op # "edge"
  <2>1. edges' = edges /\ queue' = UpTo(queue, n, NewTable(HashCapacity))
    BY <1>12 DEF GrowTables
  <2> HIDE DEF n
  <2>2. QueueOK(layout, queue') /\ Len(queue') = n /\ MembersOf(queue') = MembersOf(queue)
    BY <1>5, <1>6, <1>7, <1>8, <1>9, <1>12, <2>1, QueueGrows
  <2>3. StepOf(t) BY <1>1, <1>5, <1>6, <1>7, <1>10, <1>12, <2>1, <2>2 DEF StepOf
  <2>4. CallOK(layout, stage'[t], call'[t], Len(queue'), Len(edges'))
    <3>1. stage'[t] = "table" /\ call'[t] = call[t] BY <1>1, <1>10
    <3>2. CallOK(layout, "table", call[t], Len(queue'), Len(edges'))
      BY <1>2, <1>3, <1>4, <1>7, <1>12, <2>2 DEF CallOK
    <3> QED BY <3>1, <3>2
  <2>5. CallsOK' BY <2>3, <2>4, StepCalls
  <2>6. SizesOK' BY <1>1, <1>3, <1>6, <1>7, <2>1, <2>2 DEF SizesOK
  <2>7. PushesOK' /\ EdgesKept(layout', edges', pushed') BY <1>1, <1>8, <2>1 DEF IInv, PushesOK
  <2> QED BY <1>1, <2>2, <2>5, <2>6, <2>7, IInvPrime
<1> QED BY <1>11, <1>12

\* Every step keeps the invariant.
LEMMA NextInv ==
  ASSUME ContainersAssumption, IInv, [ContainersNext]_containerVars
  PROVE  IInv'
<1>1. ASSUME NEW t \in Threads, BeginCall(t) \/ Proceed(t) PROVE IInv'
  BY <1>1, CallStep, RouteStep, GrowStep, PushStep, ContainsStep, EraseStep, EdgeStep, ClearStep,
     ResizeStep, ReturnStep DEF Proceed
<1>2. ASSUME UNCHANGED containerVars PROVE IInv'
  <2>1. UNCHANGED <<layout, queue, edges, pushed>> /\ stage' = stage /\ call' = call
    BY <1>2 DEF containerVars
  <2>2. CallsOK' BY <2>1 DEF IInv, CallsOK
  <2> QED BY <2>1, <2>2, VectorsUnchanged, IInvPrime
<1> QED BY <1>1, <1>2 DEF ContainersNext, NoCallLeft

\* The invariant of the containers holds in every behaviour.
THEOREM InvHolds == ContainersAssumption => (ContainersSpec => []IInv)
<1> SUFFICES ASSUME ContainersAssumption PROVE ContainersSpec => []IInv
  OBVIOUS
<1>1. ContainersInit => IInv BY InitInv
<1>2. IInv /\ [ContainersNext]_containerVars => IInv' BY NextInv
<1> QED BY <1>1, <1>2, PTL DEF ContainersSpec

-----------------------------------------------------------------------------
(* The edges are counted *)

\* What a table that keeps its edges says of one of them.
LEMMA EdgeIsCounted ==
  ASSUME NEW l, NEW i, NEW T, NEW P, EdgeTableKeeps(l, i, T, P), NEW k \in Keys, TableIn(l, k) = i
  PROVE  /\ P[k] # <<>> <=> EdgeSlots(T, k) # {}
         /\ Cardinality(EdgeSlots(T, k)) <= 1
         /\ HadTwo(T, k) <=> CompletingOf(P[k]) # {}
<1>1. EdgeTableOK(T) /\ EdgeKept(T, k, P[k]) BY DEF EdgeTableKeeps
<1>2. P[k] # <<>> <=> HoldsEdge(T, k) BY <1>1 DEF EdgeKept, HoldsEdge
<1>3. Cardinality(EdgeSlots(T, k)) <= 1
  <2>1. \A r, s \in EdgeSlots(T, k) : r = s BY <1>1 DEF EdgeTableOK, EdgeSlots
  <2>2. CASE EdgeSlots(T, k) = {} BY <2>2, FS_EmptySet
  <2>3. CASE EdgeSlots(T, k) # {}
    <3>1. PICK s : s \in EdgeSlots(T, k) BY <2>3
    <3>2. EdgeSlots(T, k) = {s} BY <2>1, <3>1
    <3>3. Cardinality({s}) = 1 BY FS_Singleton
    <3>4. Cardinality(EdgeSlots(T, k)) = 1 BY <3>2, <3>3
    <3> QED BY <3>4
  <2> QED BY <2>2, <2>3
<1>4. HadTwo(T, k) <=> CompletingOf(P[k]) # {}
  <2>1. HadTwo(T, k) <=> \E e \in EdgeContent(T) : e.key = k /\ e.cell2 # NoToken
    BY HadTwoContent
  <2>2. CASE P[k] = <<>>
    <3>1. ~HoldsEdge(T, k) /\ CompletingOf(P[k]) = {} BY <1>2, <2>2, NoPushes
    <3> QED BY <2>1, <3>1 DEF HoldsEdge
  <2>3. CASE P[k] # <<>>
    <3>1. PICK e \in EdgeContent(T) : /\ e.key = k
                                      /\ e.cell2 # NoToken <=> CompletingOf(P[k]) # {}
      BY <1>1, <2>3 DEF EdgeKept
    <3>2. \A f \in EdgeContent(T) : f.key = k => f = e BY <1>1, <3>1, EdgeIsUnique
    <3> QED BY <2>1, <3>1, <3>2
  <2> QED BY <2>2, <2>3
<1> QED BY <1>2, <1>3, <1>4, HoldsEdgeSlots

\* all_edges_complete() of one table.
LEMMA TableIsClosed ==
  ASSUME NEW l, NEW i, NEW T, NEW P, EdgeTableKeeps(l, i, T, P)
  PROVE  TableIsComplete(T) <=>
           \A k \in Keys : TableIn(l, k) = i /\ P[k] # <<>> =>
                             CompletingOf(P[k]) # {} /\ ~OverfullOf(P[k])
<1>1. /\ EdgeTableOK(T) /\ T.overfull \in BOOLEAN
      /\ \A e \in EdgeContent(T) : TableIn(l, e.key) = i
      /\ \A k \in Keys : TableIn(l, k) = i => EdgeKept(T, k, P[k])
      /\ IsOverfull(T) <=> \E k \in Keys : TableIn(l, k) = i /\ OverfullOf(P[k])
  BY DEF EdgeTableKeeps
<1>2. ~T.overfull <=> ~IsOverfull(T) BY <1>1 DEF IsOverfull
<1>3. TableIsComplete(T) <=> ~IsOverfull(T) /\ \A e \in EdgeContent(T) : e.cell2 # NoToken
  BY <1>2 DEF TableIsComplete, EdgeContent
<1>4. ASSUME TableIsComplete(T), NEW k \in Keys, TableIn(l, k) = i, P[k] # <<>>
      PROVE  CompletingOf(P[k]) # {} /\ ~OverfullOf(P[k])
  <2>1. PICK e \in EdgeContent(T) : e.key = k /\ (e.cell2 # NoToken <=> CompletingOf(P[k]) # {})
    BY <1>1, <1>4 DEF EdgeKept
  <2> QED BY <1>1, <1>3, <1>4, <2>1
<1>5. ASSUME \A k \in Keys : TableIn(l, k) = i /\ P[k] # <<>> =>
                               CompletingOf(P[k]) # {} /\ ~OverfullOf(P[k])
      PROVE  TableIsComplete(T)
  <2>1. ~IsOverfull(T)
    <3>1. \A k \in Keys : TableIn(l, k) = i => ~OverfullOf(P[k]) BY <1>5, NoPushes
    <3> QED BY <1>1, <3>1
  <2>2. ASSUME NEW e \in EdgeContent(T) PROVE e.cell2 # NoToken
    <3>1. e.key \in Keys
      <4>1. e \in EdgeEntry BY <1>1 DEF EdgeTableOK, EdgeContent
      <4> QED BY <4>1, EdgeEntryKey
    <3>2. TableIn(l, e.key) = i /\ HoldsEdge(T, e.key) BY <1>1 DEF HoldsEdge
    <3>3. EdgeKept(T, e.key, P[e.key]) BY <1>1, <3>1, <3>2
    <3>4. P[e.key] # <<>> BY <3>2, <3>3 DEF EdgeKept
    <3>5. PICK f \in EdgeContent(T) : /\ f.key = e.key
                                      /\ f.cell2 # NoToken <=> CompletingOf(P[e.key]) # {}
      BY <3>3, <3>4 DEF EdgeKept
    <3>6. f = e BY <1>1, <3>5, EdgeIsUnique
    <3> QED BY <1>5, <3>1, <3>2, <3>4, <3>5, <3>6
  <2> QED BY <1>3, <2>1, <2>2
<1> QED BY <1>4, <1>5

\* The invariant counts the edges right.
LEMMA EdgesCounted ==
  ASSUME ContainersAssumption, IInv PROVE EdgesAreCounted
<1>1. /\ IsVector(edges)
      /\ \A i \in 1 .. Len(edges) : EdgeTableKeeps(layout, i, edges[i], pushed)
      /\ \A k \in Keys : TableIn(layout, k) > Len(edges) => pushed[k] = <<>>
  BY DEF IInv, EdgesKept
<1>2. Len(edges) \in Nat /\ DOMAIN edges = 1 .. Len(edges) BY <1>1 DEF IsVector
<1>3. layout \in Layouts /\ LayoutsAssumption BY Assumptions DEF IInv, SizesOK
<1>4. \A k \in Keys : /\ Complete(k) <=> CompletingOf(pushed[k]) # {}
                      /\ Overfull(k) <=> OverfullOf(pushed[k])
  BY DEF Complete, Completing, Overfull, CompletingOf, OverfullOf
<1>5. \A k \in Keys : TableOf(k) = TableIn(layout, k) /\ TableIn(layout, k) \in Nat \ {0}
  BY <1>3, TableOfIs, TableInRange
<1>6. ASSUME NEW k \in Keys
      PROVE  LET at == TableOf(k) IN
             /\ (pushed[k] # <<>>) <=> (at <= Len(edges) /\ EdgeSlots(edges[at], k) # {})
             /\ at <= Len(edges) =>
                  /\ Cardinality(EdgeSlots(edges[at], k)) <= 1
                  /\ HadTwo(edges[at], k) <=> Complete(k)
  <2> DEFINE at == TableIn(layout, k)
  <2>1. TableOf(k) = at /\ at \in Nat \ {0} BY <1>5
  <2>2. CASE at <= Len(edges)
    <3>1. EdgeTableKeeps(layout, at, edges[at], pushed) BY <1>1, <1>2, <2>1, <2>2
    <3>2. /\ pushed[k] # <<>> <=> EdgeSlots(edges[at], k) # {}
          /\ Cardinality(EdgeSlots(edges[at], k)) <= 1
          /\ HadTwo(edges[at], k) <=> CompletingOf(pushed[k]) # {}
      BY <3>1, EdgeIsCounted
    <3> QED BY <1>4, <2>1, <2>2, <3>2
  <2>3. CASE ~(at <= Len(edges)) BY <1>1, <1>2, <2>1, <2>3
  <2> QED BY <2>2, <2>3
<1>7. \A i \in 1 .. Len(edges) :
        TableIsComplete(edges[i]) <=>
          \A k \in Keys : TableIn(layout, k) = i /\ pushed[k] # <<>>
                          => Complete(k) /\ ~Overfull(k)
  <2> TAKE i \in 1 .. Len(edges)
  <2>1. EdgeTableKeeps(layout, i, edges[i], pushed) BY <1>1
  <2>2. TableIsComplete(edges[i]) <=>
          \A k \in Keys : TableIn(layout, k) = i /\ pushed[k] # <<>>
                          => CompletingOf(pushed[k]) # {} /\ ~OverfullOf(pushed[k])
    BY <2>1, TableIsClosed
  <2> QED BY <1>4, <2>2
<1>8. AllEdgesComplete <=> \A k \in Keys : pushed[k] # <<>> => Complete(k) /\ ~Overfull(k)
  <2>1. \A k \in Keys : pushed[k] # <<>> => TableIn(layout, k) \in 1 .. Len(edges)
    BY <1>1, <1>2, <1>5
  <2> QED BY <1>2, <1>7, <2>1 DEF AllEdgesComplete
<1> QED BY <1>6, <1>8 DEF EdgesAreCounted

\* all_edges_complete() and pushedge() tell the truth about every edge, for every number
\* of threads, keys, tables and pushes, and through every growth.
THEOREM EdgesStayCounted == ContainersAssumption => (ContainersSpec => []EdgesAreCounted)
<1> SUFFICES ASSUME ContainersAssumption PROVE ContainersSpec => []EdgesAreCounted
  OBVIOUS
<1>1. ContainersSpec => []IInv BY InvHolds
<1>2. IInv => EdgesAreCounted BY EdgesCounted
<1> QED BY <1>1, <1>2, PTL

-----------------------------------------------------------------------------
(* A container of queue tables is one set *)

\* The steps of a call, as the set sees them.
Steps(t) == BeginCall(t) \/ Proceed(t)
Visible(t) == OneSet!Begin(t) \/ OneSet!Act(t) \/ OneSet!End(t)
Refines(t) == Visible(t) \/ UNCHANGED <<KeysHeld, ContainerCalls>>

\* The members of the container, before and after a step.
LEMMA MembersAre ==
  KeysHeld = MembersOf(queue) /\ KeysHeld' = MembersOf(queue')
BY DEF KeysHeld, MembersOf, Content

\* A step moves one thread.
LEMMA OthersWait ==
  ASSUME IInv, NEW t \in Threads, Steps(t)
  PROVE  /\ DOMAIN stage' = Threads /\ DOMAIN call' = Threads
         /\ \A u \in Threads \ {t} : stage'[u] = stage[u] /\ call'[u] = call[u]
<1>1. DOMAIN stage = Threads /\ DOMAIN call = Threads BY DEF IInv, CallsOK
<1>2. CASE BeginCall(t) BY <1>1, <1>2 DEF BeginCall
<1>3. CASE Route(t) \/ GrowTables(t) \/ EndCall(t)
  BY <1>1, <1>3 DEF Route, GrowTables, EndCall
<1>4. CASE PushQueue(t) \/ ContainsKey(t) \/ Erase(t) \/ PushOneEdge(t)
  BY <1>1, <1>4 DEF PushQueue, ContainsKey, Erase, PushOneEdge, Does, Answers
<1>5. CASE ClearAll(t) \/ ResizeTable(t)
  BY <1>1, <1>5 DEF ClearAll, ResizeTable, Answers
<1> QED BY <1>2, <1>3, <1>4, <1>5 DEF Steps, Proceed

\* The call of a thread, to the set.
ShownCall(p, c) ==
  IF p = "idle" \/ c.op = "edge" THEN [op |-> "none", key |-> NoKey, answer |-> "none"]
  ELSE [op |-> c.op, key |-> c.key, answer |-> c.answer]

\* A step changes at most what the set sees of its own call.
LEMMA OneCallMoves ==
  ASSUME IInv, NEW t \in Threads, Steps(t)
  PROVE  /\ ContainerCalls[t] = ShownCall(stage[t], call[t])
         /\ ContainerCalls' = [ContainerCalls EXCEPT ![t] = ShownCall(stage'[t], call'[t])]
         /\ ShownCall(stage'[t], call'[t]) = ShownCall(stage[t], call[t]) => ContainerCalls' = ContainerCalls
<1>1. /\ ContainerCalls = [u \in Threads |-> ShownCall(stage[u], call[u])]
      /\ ContainerCalls' = [u \in Threads |-> ShownCall(stage'[u], call'[u])]
  BY DEF ContainerCalls, ShownCall
<1>2. \A u \in Threads \ {t} : ShownCall(stage'[u], call'[u]) = ShownCall(stage[u], call[u])
  BY OthersWait
<1> QED BY <1>1, <1>2

\* A step that shows in the set: the call is open before and answered after.
LEMMA TakeRefines ==
  ASSUME IInv, NEW t \in Threads, Steps(t), stage[t] # "idle", stage'[t] # "idle", call[t].op # "edge",
         call'[t].op = call[t].op, call'[t].key = call[t].key, call[t].answer = "open",
         \/ /\ call[t].op = "push" /\ KeysHeld' = KeysHeld \cup {call[t].key}
            /\ call'[t].answer = Answer(call[t].key \in KeysHeld)
         \/ /\ call[t].op = "contains" /\ KeysHeld' = KeysHeld
            /\ call'[t].answer = Answer(call[t].key \in KeysHeld)
         \/ /\ call[t].op = "erase" /\ KeysHeld' = KeysHeld \ {call[t].key}
            /\ call'[t].answer = Answer(call[t].key \in KeysHeld)
         \/ call[t].op = "clear" /\ KeysHeld' = {} /\ call'[t].answer = "yes"
         \/ call[t].op = "resize" /\ KeysHeld' = KeysHeld /\ call'[t].answer = "yes"
  PROVE  OneSet!Act(t)
<1> DEFINE o == call[t].op  k == call[t].key  a == call'[t].answer
           before == [op |-> o, key |-> k, answer |-> "open"]
           after  == [op |-> o, key |-> k, answer |-> a]
<1>1. ShownCall(stage[t], call[t]) = before /\ ShownCall(stage'[t], call'[t]) = after
  BY DEF ShownCall
<1>2. ContainerCalls[t] = before /\ ContainerCalls' = [ContainerCalls EXCEPT ![t] = after]
  BY <1>1, OneCallMoves
<1>3. after = [before EXCEPT !.answer = a] OBVIOUS
<1>4. ContainerCalls' = [ContainerCalls EXCEPT ![t].answer = a]
  <2> HIDE DEF a, before, after
  <2> QED BY <1>2, <1>3
<1>5. ContainerCalls[t].op = o /\ ContainerCalls[t].key = k /\ ContainerCalls[t].answer = "open" BY <1>2
<1> HIDE DEF before, after
<1>6. \/ o = "push" /\ KeysHeld' = KeysHeld \cup {k} /\ a = OneSet!Answer(k \in KeysHeld)
      \/ o = "contains" /\ KeysHeld' = KeysHeld /\ a = OneSet!Answer(k \in KeysHeld)
      \/ o = "erase" /\ KeysHeld' = KeysHeld \ {k} /\ a = OneSet!Answer(k \in KeysHeld)
      \/ o = "clear" /\ KeysHeld' = {} /\ a = "yes"
      \/ o = "resize" /\ KeysHeld' = KeysHeld /\ a = "yes"
  BY DEF Answer, OneSet!Answer
<1> HIDE DEF o, k, a
<1> QED BY <1>4, <1>5, <1>6 DEF OneSet!Act, OneSet!Take, OneSet!Present

\* A call begins in the set; a push of an edge is not one of the set's calls.
LEMMA CallRefines ==
  ASSUME ContainersAssumption, IInv, NEW t \in Threads, BeginCall(t)
  PROVE  Refines(t)
<1>1. PICK op \in layout.operations :
        \E k \in IF op \in {"clear", "resize"} THEN {NoKey} ELSE Keys,
           token \in IF op = "edge" THEN Tokens ELSE {NoToken},
           mode \in IF op = "edge" THEN BOOLEAN ELSE {FALSE} :
          call' = [call EXCEPT ![t] = [op |-> op, key |-> k, token |-> token,
                                       mode |-> mode, answer |-> "open"]]
  BY DEF BeginCall
<1>2. PICK k \in IF op \in {"clear", "resize"} THEN {NoKey} ELSE Keys,
           token \in IF op = "edge" THEN Tokens ELSE {NoToken},
           mode \in IF op = "edge" THEN BOOLEAN ELSE {FALSE} :
          call' = [call EXCEPT ![t] = [op |-> op, key |-> k, token |-> token,
                                       mode |-> mode, answer |-> "open"]]
  BY <1>1
<1>3. Steps(t) /\ DOMAIN stage = Threads /\ DOMAIN call = Threads
  BY DEF Steps, IInv, CallsOK
<1>4. /\ stage[t] = "idle" /\ stage'[t] = "route"
      /\ call'[t].op = op /\ call'[t].key = k /\ call'[t].answer = "open"
  BY <1>2, <1>3 DEF BeginCall
<1>5. KeysHeld' = KeysHeld BY DEF BeginCall, KeysHeld
<1>6. ContainerCalls[t] = OneSet!NoCall BY <1>3, <1>4, OneCallMoves DEF ShownCall, OneSet!NoCall
<1>7. CASE op = "edge"
  <2>1. ShownCall(stage'[t], call'[t]) = ShownCall(stage[t], call[t]) BY <1>4, <1>7 DEF ShownCall
  <2> QED BY <1>3, <1>5, <2>1, OneCallMoves DEF Refines
<1>8. CASE op # "edge"
  <2> DEFINE c == [op |-> op, key |-> k, answer |-> "open"]
  <2>1. ShownCall(stage'[t], call'[t]) = c BY <1>4, <1>8 DEF ShownCall
  <2>2. ContainerCalls' = [ContainerCalls EXCEPT ![t] = c] BY <1>3, <2>1, OneCallMoves
  <2>3. c \in [op : {"push", "contains", "erase"}, key : Keys, answer : {"open"}]
                \cup [op : {"clear", "resize"}, key : {NoKey}, answer : {"open"}]
    <3>1. op \in Operations BY Assumptions DEF IInv, SizesOK
    <3> QED BY <1>8, <3>1 DEF Operations
  <2>4. OneSet!Begin(t) BY <1>5, <1>6, <2>2, <2>3 DEF OneSet!Begin
  <2> QED BY <2>4 DEF Refines, Visible
<1> QED BY <1>7, <1>8

\* What the call of a step of Advance may rely on.
LEMMA RunningCall ==
  ASSUME IInv, NEW t \in Threads, stage[t] # "idle"
  PROVE  /\ DOMAIN stage = Threads /\ DOMAIN call = Threads
         /\ call[t].op \in Operations
         /\ DOMAIN call[t] = {"op", "key", "token", "mode", "answer"}
         /\ stage[t] \in {"route", "grow", "table"} => call[t].answer = "open"
         /\ stage[t] = "return" => call[t].answer \in {"yes", "no"}
<1>1. CallOK(layout, stage[t], call[t], Len(queue), Len(edges)) BY TheCall DEF CallOf
<1>2. DOMAIN stage = Threads /\ DOMAIN call = Threads BY DEF IInv, CallsOK
<1> QED BY <1>1, <1>2 DEF CallOK

\* find_table() finds no table: the key is not there.
LEMMA RouteRefines ==
  ASSUME ContainersAssumption, IInv, NEW t \in Threads, Route(t)
  PROVE  Refines(t)
<1> DEFINE k == call[t].key
           missing == TableOf(k) > TablesFor(t)
           makes   == call[t].op \in {"push", "edge"}
<1>1. /\ stage[t] = "route" /\ k # NoKey
      /\ stage' = [stage EXCEPT ![t] = IF ~missing THEN "table" ELSE IF makes THEN "grow" ELSE "return"]
      /\ call' = [call EXCEPT ![t].answer = IF missing /\ ~makes THEN "no" ELSE call[t].answer]
      /\ UNCHANGED <<layout, queue>>
  BY DEF Route
<1>2. Steps(t) BY DEF Steps, Proceed
<1>3. /\ DOMAIN stage = Threads /\ DOMAIN call = Threads
      /\ DOMAIN call[t] = {"op", "key", "token", "mode", "answer"}
      /\ call[t].answer = "open" /\ call[t].op \in Operations
  BY <1>1, RunningCall
<1>4. /\ stage[t] # "idle" /\ stage'[t] # "idle" /\ call'[t].op = call[t].op /\ call'[t].key = k
      /\ call'[t].answer = IF missing /\ ~makes THEN "no" ELSE "open"
  BY <1>1, <1>3
<1>5. KeysHeld' = KeysHeld BY <1>1 DEF KeysHeld
<1>6. CASE missing /\ ~makes
  <2>1. call[t].op \in {"contains", "erase"}
    <3>1. CallOK(layout, "route", call[t], Len(queue), Len(edges)) BY <1>1, TheCall DEF CallOf
    <3>2. call[t].op \in {"clear", "resize"} => k = NoKey BY <3>1 DEF CallOK
    <3> QED BY <1>1, <1>3, <1>6, <3>2 DEF Operations
  <2>2. k \in Keys /\ TableOf(k) = TableIn(layout, k)
    BY <1>1, <2>1, KeyTable DEF KeyOperations
  <2>3. TablesFor(t) = Len(queue) BY <2>1 DEF TablesFor
  <2>4. layout \in Layouts /\ LayoutsAssumption /\ QueueOK(layout, queue) /\ Len(queue) \in Nat
    BY Assumptions DEF IInv, SizesOK
  <2>5. TableIn(layout, k) \in Nat BY <2>2, <2>4, TableInRange
  <2>6. k \notin KeysHeld
    <3> HIDE DEF k
    <3>1. ~(TableIn(layout, k) <= Len(queue)) BY <1>6, <2>2, <2>3, <2>4, <2>5
    <3> QED BY <2>2, <2>4, <3>1, MemberIsRouted, MembersAre
  <2>7. call'[t].answer = Answer(k \in KeysHeld) /\ KeysHeld' = KeysHeld \ {k}
    BY <1>4, <1>5, <1>6, <2>6 DEF Answer
  <2>8. OneSet!Act(t) BY <1>2, <1>3, <1>4, <1>5, <2>1, <2>7, TakeRefines
  <2> QED BY <2>8 DEF Refines, Visible
<1>7. CASE ~(missing /\ ~makes)
  <2>1. ShownCall(stage'[t], call'[t]) = ShownCall(stage[t], call[t]) BY <1>3, <1>4, <1>7 DEF ShownCall
  <2> QED BY <1>2, <1>5, <2>1, OneCallMoves DEF Refines
<1> QED BY <1>6, <1>7

\* Another table, and a push of an edge, do not show in the set.
LEMMA GrowRefines ==
  ASSUME ContainersAssumption, IInv, NEW t \in Threads, GrowTables(t)
  PROVE  Refines(t)
<1>1. Steps(t) BY DEF Steps, Proceed
<1>2. stage[t] = "grow" /\ stage'[t] = "table" /\ call' = call
  BY RunningCall DEF GrowTables
<1>3. ShownCall(stage'[t], call'[t]) = ShownCall(stage[t], call[t]) BY <1>2 DEF ShownCall
<1>4. KeysHeld' = KeysHeld BY GrowStep, MembersAre
<1> QED BY <1>1, <1>3, <1>4, OneCallMoves DEF Refines

\* A push of an edge does not show.
LEMMA EdgeRefines ==
  ASSUME ContainersAssumption, IInv, NEW t \in Threads, PushOneEdge(t)
  PROVE  Refines(t)
<1>1. Steps(t) /\ stage[t] = "table" /\ call[t].op = "edge" BY DEF Steps, Proceed, PushOneEdge, Does
<1>2. DOMAIN call = Threads /\ DOMAIN call[t] = {"op", "key", "token", "mode", "answer"}
  BY <1>1, RunningCall
<1>3. call'[t].op = "edge" BY <1>1, <1>2 DEF PushOneEdge, Answers
<1>4. ShownCall(stage'[t], call'[t]) = ShownCall(stage[t], call[t]) BY <1>1, <1>3 DEF ShownCall
<1>5. KeysHeld' = KeysHeld BY DEF PushOneEdge, KeysHeld
<1> QED BY <1>1, <1>4, <1>5, OneCallMoves DEF Refines

\* A search in the table of the key answers whether the key is a member.
LEMMA SearchIsTrue ==
  ASSUME ContainersAssumption, IInv, NEW t \in Threads,
         NEW op \in {"push", "contains", "erase"}, Does(t, op)
  PROVE  Found(queue[TableOf(call[t].key)], call[t].key) <=> call[t].key \in KeysHeld
<1> DEFINE k == call[t].key
<1>1. /\ k \in Keys /\ TableOf(k) = TableIn(layout, k) /\ TableIn(layout, k) <= Len(queue)
      /\ layout \in Layouts
  BY TableIsThere DEF KeyOperations
<1>2. QueueOK(layout, queue) /\ LayoutsAssumption /\ HashesAssumption BY Assumptions DEF IInv
<1> HIDE DEF k
<1>3. TableIn(layout, k) \in 1 .. Len(queue)
  <2>1. TableIn(layout, k) \in Nat \ {0} BY <1>1, <1>2, TableInRange
  <2>2. Len(queue) \in Nat BY <1>2 DEF QueueOK, IsVector
  <2> QED BY <1>1, <2>1, <2>2
<1>4. TableOK(queue[TableIn(layout, k)]) BY <1>2, <1>3 DEF QueueOK, QueueTableOK
<1>5. Found(queue[TableIn(layout, k)], k) <=> k \in Content(queue[TableIn(layout, k)])
  BY <1>1, <1>2, <1>4, FoundIsPresent
<1>6. k \in MembersOf(queue) <=> k \in Content(queue[TableIn(layout, k)])
  BY <1>1, <1>2, MemberIsRouted
<1>7. Found(queue[TableOf(k)], k) <=> k \in KeysHeld BY <1>1, <1>5, <1>6, MembersAre
<1> QED BY <1>7 DEF k

\* A call takes effect in the set at the one step it makes in its table.
LEMMA TableRefines ==
  ASSUME ContainersAssumption, IInv, NEW t \in Threads,
         PushQueue(t) \/ ContainsKey(t) \/ Erase(t)
  PROVE  Refines(t)
<1> DEFINE k == call[t].key
<1>1. PICK op \in {"push", "contains", "erase"} :
        /\ Does(t, op) /\ Answers(t, Found(queue[TableOf(k)], k))
        /\ \/ op = "push" /\ PushQueue(t)
           \/ op = "contains" /\ ContainsKey(t)
           \/ op = "erase" /\ Erase(t)
  BY DEF PushQueue, ContainsKey, Erase
<1>2. Steps(t) BY DEF Steps, Proceed
<1>3. stage[t] = "table" /\ call[t].op = op /\ stage' = [stage EXCEPT ![t] = "return"] BY <1>1 DEF Does
<1>4. /\ DOMAIN stage = Threads /\ DOMAIN call = Threads
      /\ DOMAIN call[t] = {"op", "key", "token", "mode", "answer"} /\ call[t].answer = "open"
  BY <1>3, RunningCall
<1>5. /\ stage'[t] = "return" /\ call'[t].op = op /\ call'[t].key = k
      /\ call'[t].answer = Answer(Found(queue[TableOf(k)], k))
  BY <1>1, <1>3, <1>4 DEF Answers
<1>6. Found(queue[TableOf(k)], k) <=> k \in KeysHeld BY <1>1, SearchIsTrue
<1>7. call'[t].answer = Answer(k \in KeysHeld) BY <1>5, <1>6 DEF Answer
<1>8. /\ op = "push" => KeysHeld' = KeysHeld \cup {k}
      /\ op = "contains" => KeysHeld' = KeysHeld
      /\ op = "erase" => KeysHeld' = KeysHeld \ {k}
  BY <1>1, PushStep, ContainsStep, EraseStep, MembersAre
<1>9. OneSet!Act(t)
  <2>1. \/ call[t].op = "push" /\ KeysHeld' = KeysHeld \cup {k}
        \/ call[t].op = "contains" /\ KeysHeld' = KeysHeld
        \/ call[t].op = "erase" /\ KeysHeld' = KeysHeld \ {k}
    BY <1>3, <1>8
  <2> QED BY <1>2, <1>3, <1>4, <1>5, <1>7, <2>1, TakeRefines
<1> QED BY <1>9 DEF Refines, Visible

\* clear() and resize() take effect at one step, too.
LEMMA WholeRefines ==
  ASSUME ContainersAssumption, IInv, NEW t \in Threads, ClearAll(t) \/ ResizeTable(t)
  PROVE  Refines(t)
<1>1. PICK op \in {"clear", "resize"} :
        /\ stage[t] = "route" /\ call[t].op = op /\ stage' = [stage EXCEPT ![t] = "return"]
        /\ Answers(t, TRUE)
        /\ \/ op = "clear" /\ ClearAll(t)
           \/ op = "resize" /\ ResizeTable(t)
  BY DEF ClearAll, ResizeTable
<1>2. Steps(t) BY DEF Steps, Proceed
<1>3. /\ DOMAIN stage = Threads /\ DOMAIN call = Threads
      /\ DOMAIN call[t] = {"op", "key", "token", "mode", "answer"} /\ call[t].answer = "open"
  BY <1>1, RunningCall
<1>4. /\ stage'[t] = "return" /\ call'[t].op = op /\ call'[t].key = call[t].key
      /\ call'[t].answer = "yes"
  BY <1>1, <1>3 DEF Answers, Answer
<1>5. /\ op = "clear" => KeysHeld' = {}
      /\ op = "resize" => KeysHeld' = KeysHeld
  BY <1>1, ClearStep, ResizeStep, MembersAre
<1>6. OneSet!Act(t) BY <1>1, <1>2, <1>3, <1>4, <1>5, TakeRefines
<1> QED BY <1>6 DEF Refines, Visible

\* A call ends in the set.
LEMMA ReturnRefines ==
  ASSUME ContainersAssumption, IInv, NEW t \in Threads, EndCall(t)
  PROVE  Refines(t)
<1>1. Steps(t) /\ stage[t] = "return" /\ call'  = [call EXCEPT ![t] = NoCall]
      /\ stage' = [stage EXCEPT ![t] = "idle"]
  BY DEF Steps, Proceed, EndCall
<1>2. DOMAIN stage = Threads /\ call[t].answer \in {"yes", "no"} BY <1>1, RunningCall
<1>3. ShownCall(stage'[t], call'[t]) = OneSet!NoCall BY <1>1, <1>2 DEF ShownCall, OneSet!NoCall
<1>4. KeysHeld' = KeysHeld BY DEF EndCall, KeysHeld
<1>5. CASE call[t].op = "edge"
  <2>1. ShownCall(stage'[t], call'[t]) = ShownCall(stage[t], call[t])
    BY <1>3, <1>5 DEF ShownCall, OneSet!NoCall
  <2> QED BY <1>1, <1>4, <2>1, OneCallMoves DEF Refines
<1>6. CASE call[t].op # "edge"
  <2>1. ShownCall(stage[t], call[t]).answer \in {"yes", "no"} BY <1>1, <1>2, <1>6 DEF ShownCall
  <2>2. ContainerCalls[t].answer \in {"yes", "no"} BY <1>1, <2>1, OneCallMoves
  <2>3. ContainerCalls' = [ContainerCalls EXCEPT ![t] = OneSet!NoCall] BY <1>1, <1>3, OneCallMoves
  <2>4. OneSet!End(t) BY <1>4, <2>2, <2>3 DEF OneSet!End
  <2> QED BY <2>4 DEF Refines, Visible
<1> QED BY <1>5, <1>6

\* Linearizability: the calls on a container of queue tables, which grow, reuse tombstones and
\* appear under a lock of their own, answer as if each took place at one instant, on one set.
THEOREM ContainerRefinement == ContainersAssumption => (ContainersSpec => ContainerIsAtomicSet)
<1> SUFFICES ASSUME ContainersAssumption PROVE ContainersSpec => ContainerIsAtomicSet
  OBVIOUS
<1>1. ContainersInit => OneSet!Init
  <2> SUFFICES ASSUME ContainersInit PROVE OneSet!Init
    OBVIOUS
  <2>1. layout \in Layouts /\ layout.tables \in Nat
    BY Assumptions DEF ContainersInit, LayoutsAssumption
  <2>2. queue = [i \in 1 .. layout.tables |-> NewTable(HashCapacity)] BY DEF ContainersInit
  <2>3. KeysHeld = {} BY <2>1, <2>2, Assumptions, QueueStarts, MembersAre
  <2>4. ContainerCalls = [t \in Threads |-> OneSet!NoCall] BY DEF ContainersInit, ContainerCalls, OneSet!NoCall
  <2> QED BY <2>3, <2>4 DEF OneSet!Init
<1>2. IInv /\ [ContainersNext]_containerVars => [OneSet!Next]_(OneSet!vars)
  <2> SUFFICES ASSUME IInv, [ContainersNext]_containerVars PROVE [OneSet!Next]_(OneSet!vars)
    OBVIOUS
  <2>1. ASSUME NEW t \in Threads, BeginCall(t) \/ Proceed(t) PROVE [OneSet!Next]_(OneSet!vars)
    <3>1. Refines(t)
      BY <2>1, CallRefines, RouteRefines, GrowRefines, TableRefines, EdgeRefines, WholeRefines,
         ReturnRefines DEF Proceed
    <3> QED BY <3>1 DEF Refines, Visible, OneSet!Next, OneSet!vars
  <2>2. CASE UNCHANGED containerVars BY <2>2 DEF containerVars, KeysHeld, ContainerCalls, OneSet!vars
  <2> QED BY <2>1, <2>2 DEF ContainersNext, NoCallLeft
<1>3. ContainersSpec => []IInv BY InvHolds
<1> QED BY <1>1, <1>2, <1>3, PTL DEF ContainersSpec, ContainerIsAtomicSet, OneSet!Spec
=============================================================================
