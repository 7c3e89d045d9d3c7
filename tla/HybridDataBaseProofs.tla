------------------------- MODULE HybridDataBaseProofs -------------------------
(***************************************************************************)
(* A logical address of HybridDataBase keeps its meaning, whatever threads *)
(* push, whatever engines are registered, deleted from or refused, and     *)
(* wherever a push throws.                                                 *)
(***************************************************************************)
EXTENDS HybridDataBase, FiniteSetTheorems, TLAPS

-----------------------------------------------------------------------------
(* The routing of logical addresses is sound for any history of appended   *)
(* records, lost records and registered ranges.                            *)

Covers(R, i, a) == /\ i \in 1 .. Len(R.segments)
                   /\ R.segments[i].begin <= a /\ a < R.segments[i].end

Answer(R, i, a) ==
  LET s == R.segments[i] IN
  IF s.kind = "stored"
  THEN [kind |-> "stored", physical |-> R.slots[s.source + (a - s.begin)]]
  ELSE [kind |-> "engine", engine |-> s.source, local |-> a - s.begin, offset |-> s.offset]

LEMMA RoutingTypes ==
  ASSUME NEW R, R \in Routing
  PROVE  /\ R.next \in Nat \ {0} /\ R.segments \in Seq(Segment) /\ R.slots \in Seq(Nat)
         /\ Len(R.segments) \in Nat /\ Len(R.slots) \in Nat
<1>1. R.next \in Nat \ {0} /\ R.segments \in Seq(Segment) /\ R.slots \in Seq(Nat)
  BY DEF Routing
<1> QED BY <1>1

LEMMA SegmentTypes ==
  ASSUME NEW R, R \in Routing, NEW i \in 1 .. Len(R.segments)
  PROVE  /\ R.segments[i] \in Segment
         /\ R.segments[i].begin \in Nat \ {0} /\ R.segments[i].end \in Nat
         /\ R.segments[i].source \in Nat \ {0}
         /\ R.segments[i].kind \in {"stored", "engine"}
         /\ R.segments[i].offset \in Nat
<1>1. R.segments[i] \in Segment
  BY RoutingTypes
<1> QED BY <1>1 DEF Segment

\* resolve_address() answers from the one segment that contains the address.
LEMMA ResolveCovered ==
  ASSUME NEW R, RoutingInv(R), NEW i, NEW a \in Nat, Covers(R, i, a)
  PROVE  Resolve(R, a) = Answer(R, i, a)
<1> DEFINE n == Len(R.segments)
<1>1. R \in Routing /\ n \in Nat /\ i \in 1 .. n
  BY RoutingTypes DEF RoutingInv, Covers
<1>2. ASSUME NEW j \in 1 .. n, SegmentBefore(R, a, j) PROVE j = i
  <2>1. CASE j < i
    <3>1. i \in j + 1 .. n BY <1>1, <2>1
    <3> QED BY <1>1, <1>2, <3>1, SegmentTypes DEF SegmentBefore, Covers
  <2>2. CASE i < j
    <3>1. R.segments[i].end <= R.segments[j].begin
      BY <1>1, <2>2 DEF RoutingInv, Precedes
    <3> QED BY <1>1, <1>2, <3>1, SegmentTypes DEF SegmentBefore, Covers
  <2> QED BY <1>1, <2>1, <2>2
<1>3. SegmentBefore(R, a, i)
  <2>1. ASSUME NEW j \in i + 1 .. n PROVE R.segments[j].begin > a
    <3>1. j \in 1 .. n /\ i < j BY <1>1
    <3>2. R.segments[i].end <= R.segments[j].begin
      BY <1>1, <3>1 DEF RoutingInv, Precedes
    <3> QED BY <1>1, <3>1, <3>2, SegmentTypes DEF Covers
  <2> QED BY <2>1 DEF SegmentBefore, Covers
<1>4. (CHOOSE j \in 1 .. n : SegmentBefore(R, a, j)) = i
  BY <1>1, <1>2, <1>3
<1> QED BY <1>1, <1>3, <1>4 DEF Resolve, Answer, Covers

LEMMA FreshRoutingInv == RoutingInv(FreshRouting)
BY DEF RoutingInv, FreshRouting, Routing, Segment

-----------------------------------------------------------------------------
(* Slots: taking one changes no answer. *)

LEMMA OneMore ==
  ASSUME NEW source \in Nat, NEW begin \in Nat, NEW end \in Nat, NEW n \in Nat
  PROVE  source + (end - begin) <= n + 1 => source + (end - begin) <= n + 1 + 1
OBVIOUS

\* More addresses and more slots leave room for every segment.
LEMMA FitsMore ==
  ASSUME NEW R, RoutingInv(R), NEW i \in 1 .. Len(R.segments), NEW Q,
         Q.next \in Nat, Q.next >= R.next,
         Len(Q.slots) \in {Len(R.slots), Len(R.slots) + 1}
  PROVE  SegmentFits(Q, R.segments[i])
<1> DEFINE s == R.segments[i]
           n == Len(R.slots)
<1>1. /\ R \in Routing /\ R.next \in Nat /\ n \in Nat
      /\ s.begin \in Nat /\ s.end \in Nat /\ s.source \in Nat
  BY RoutingTypes, SegmentTypes DEF RoutingInv
<1>2. SegmentFits(R, s) BY DEF RoutingInv
<1>3. s.end <= R.next => s.end <= Q.next BY <1>1
<1>4. s.source + (s.end - s.begin) <= n + 1 => s.source + (s.end - s.begin) <= n + 1 + 1
  BY <1>1, OneMore
<1> QED BY <1>2, <1>3, <1>4 DEF SegmentFits

LEMMA TakeSlotInv ==
  ASSUME NEW R, RoutingInv(R), NEW p \in Nat, NEW Q \in {TakeSlot(R, p), LoseRecord(R, p)}
  PROVE  RoutingInv(Q)
<1>1. /\ R \in Routing /\ R.segments \in Seq(Segment) /\ R.next \in Nat \ {0}
      /\ Append(R.slots, p) \in Seq(Nat) /\ Len(R.slots) \in Nat
      /\ Len(Append(R.slots, p)) = Len(R.slots) + 1
  BY RoutingTypes DEF RoutingInv
<1>2. /\ Q \in Routing /\ Q.segments = R.segments /\ Q.next \in {R.next, R.next + 1}
      /\ Len(Q.slots) = Len(R.slots) + 1
  <2>1. CASE Q = TakeSlot(R, p) BY <1>1, <2>1 DEF TakeSlot, Routing
  <2>2. CASE Q = LoseRecord(R, p) BY <1>1, <2>2 DEF LoseRecord, Routing
  <2> QED BY <2>1, <2>2
<1>3. ASSUME NEW i \in 1 .. Len(R.segments) PROVE SegmentFits(Q, R.segments[i])
  <2>1. Q.next \in Nat /\ Q.next >= R.next /\ Len(Q.slots) \in {Len(R.slots), Len(R.slots) + 1}
    BY <1>1, <1>2
  <2> QED BY <2>1, FitsMore
<1> QED BY <1>2, <1>3 DEF RoutingInv

LEMMA Within ==
  ASSUME NEW source \in Nat \ {0}, NEW begin \in Nat, NEW end \in Nat, NEW n \in Nat,
         NEW a \in Nat, begin <= a, a < end, source + (end - begin) <= n + 1
  PROVE  source + (a - begin) \in 1 .. n
OBVIOUS

\* A slot of a stored segment is one of the table.
LEMMA SlotOf ==
  ASSUME NEW R, RoutingInv(R), NEW i, NEW a \in Nat, Covers(R, i, a),
         R.segments[i].kind = "stored"
  PROVE  R.segments[i].source + (a - R.segments[i].begin) \in 1 .. Len(R.slots)
<1>1. R \in Routing /\ i \in 1 .. Len(R.segments) BY DEF RoutingInv, Covers
<1>2. R.segments[i].source + (R.segments[i].end - R.segments[i].begin) <= Len(R.slots) + 1
  BY <1>1 DEF RoutingInv, SegmentFits
<1>3. /\ R.segments[i].source \in Nat \ {0} /\ R.segments[i].begin \in Nat
      /\ R.segments[i].end \in Nat /\ Len(R.slots) \in Nat
  BY <1>1, SegmentTypes, RoutingTypes
<1>4. R.segments[i].begin <= a /\ a < R.segments[i].end
  BY DEF Covers
<1> QED BY <1>2, <1>3, <1>4, Within

LEMMA TakeSlotKeepsAnswers ==
  ASSUME NEW R, RoutingInv(R), NEW p \in Nat, NEW i, NEW a \in Nat, Covers(R, i, a)
  PROVE  /\ Covers(TakeSlot(R, p), i, a) /\ Covers(LoseRecord(R, p), i, a)
         /\ Answer(TakeSlot(R, p), i, a) = Answer(R, i, a)
         /\ Answer(LoseRecord(R, p), i, a) = Answer(R, i, a)
<1>1. R \in Routing BY DEF RoutingInv
<1>2. /\ TakeSlot(R, p).segments = R.segments /\ LoseRecord(R, p).segments = R.segments
      /\ TakeSlot(R, p).slots = Append(R.slots, p)
      /\ LoseRecord(R, p).slots = Append(R.slots, p)
  BY <1>1 DEF TakeSlot, LoseRecord, Routing
<1>3. \A k \in 1 .. Len(R.slots) : Append(R.slots, p)[k] = R.slots[k]
  BY <1>1, RoutingTypes
<1> QED BY <1>2, <1>3, SlotOf DEF Covers, Answer

-----------------------------------------------------------------------------
(* A new record *)

NewSegment(R) == StoredSegment(R.next, Len(R.slots) + 1)

LEMMA AppendSegments ==
  ASSUME NEW R, RoutingInv(R), NEW p \in Nat
  PROVE  LET Q == AppendRecord(R, p)
             n == Len(R.segments)
         IN
         /\ Q.next = R.next + 1 /\ Q.slots = Append(R.slots, p)
         /\ Continues(R, Len(R.slots) + 1) =>
              /\ n >= 1 /\ Len(Q.segments) = n
              /\ \A i \in 1 .. n - 1 : Q.segments[i] = R.segments[i]
              /\ Q.segments[n] = Lengthened(R.segments[n])
         /\ ~ Continues(R, Len(R.slots) + 1) =>
              /\ Len(Q.segments) = n + 1
              /\ \A i \in 1 .. n : Q.segments[i] = R.segments[i]
              /\ Q.segments[n + 1] = NewSegment(R)
<1>1. /\ R \in Routing /\ R.segments \in Seq(Segment) /\ Len(R.segments) \in Nat
  BY RoutingTypes DEF RoutingInv
<1>2. CASE Continues(R, Len(R.slots) + 1)
  <2>1. Len(R.segments) >= 1 BY <1>1, <1>2 DEF Continues
  <2> QED BY <1>1, <1>2, <2>1 DEF AppendRecord
<1>3. CASE ~ Continues(R, Len(R.slots) + 1)
  BY <1>1, <1>3 DEF AppendRecord, NewSegment
<1> QED BY <1>2, <1>3

LEMMA NewSegmentTypes ==
  ASSUME NEW R, RoutingInv(R)
  PROVE  /\ NewSegment(R) \in Segment
         /\ NewSegment(R).begin = R.next /\ NewSegment(R).end = R.next + 1
         /\ NewSegment(R).kind = "stored" /\ NewSegment(R).source = Len(R.slots) + 1
<1>1. R.next \in Nat \ {0} /\ Len(R.slots) \in Nat
  BY RoutingTypes DEF RoutingInv
<1> QED BY <1>1 DEF NewSegment, StoredSegment, Segment

LEMMA LengthenedTypes ==
  ASSUME NEW s \in Segment
  PROVE  /\ Lengthened(s) \in Segment
         /\ Lengthened(s).begin = s.begin /\ Lengthened(s).end = s.end + 1
         /\ Lengthened(s).kind = s.kind /\ Lengthened(s).source = s.source
         /\ Lengthened(s).offset = s.offset
BY DEF Lengthened, Segment

LEMMA OneLonger ==
  ASSUME NEW source \in Nat, NEW begin \in Nat, NEW end \in Nat, NEW n \in Nat,
         source + (end - begin) = n
  PROVE  source + ((end + 1) - begin) <= n + 1
OBVIOUS

LEMMA AppendRecordInv ==
  ASSUME NEW R, RoutingInv(R), NEW p \in Nat
  PROVE  RoutingInv(AppendRecord(R, p))
<1> DEFINE Q == AppendRecord(R, p)
           n == Len(R.segments)
<1> SUFFICES RoutingInv(Q) OBVIOUS
<1>1. /\ R \in Routing /\ n \in Nat /\ Len(R.slots) \in Nat /\ R.next \in Nat \ {0}
      /\ R.segments \in Seq(Segment) /\ R.slots \in Seq(Nat)
  BY RoutingTypes DEF RoutingInv
<1>2. /\ Q.next = R.next + 1 /\ Q.slots \in Seq(Nat) /\ Len(Q.slots) = Len(R.slots) + 1
      /\ Q.next \in Nat /\ Q.next >= R.next /\ Len(Q.slots) \in {Len(R.slots), Len(R.slots) + 1}
  <2>1. Q.next = R.next + 1 /\ Q.slots = Append(R.slots, p) BY DEF AppendRecord
  <2>2. Append(R.slots, p) \in Seq(Nat) /\ Len(Append(R.slots, p)) = Len(R.slots) + 1
    BY <1>1
  <2> HIDE DEF Q
  <2> QED BY <1>1, <2>1, <2>2
<1>3. CASE Continues(R, Len(R.slots) + 1)
  <2> DEFINE last == R.segments[n]
  <2>1. /\ n >= 1 /\ Len(Q.segments) = n
        /\ \A i \in 1 .. n - 1 : Q.segments[i] = R.segments[i]
        /\ Q.segments[n] = Lengthened(last)
    BY <1>3, AppendSegments
  <2>2. /\ last \in Segment /\ last.kind = "stored" /\ last.end = R.next
        /\ last.source + (last.end - last.begin) = Len(R.slots) + 1
        /\ last.begin \in Nat \ {0} /\ last.source \in Nat \ {0} /\ last.end \in Nat
    BY <1>1, <1>3, <2>1, SegmentTypes DEF Continues
  <2>3. SegmentFits(R, last) BY <1>1, <2>1 DEF RoutingInv
  <2> HIDE DEF last
  <2>4. Q \in Routing
    <3>1. Q = [next |-> R.next + 1, slots |-> Append(R.slots, p),
               segments |-> [R.segments EXCEPT ![n] = Lengthened(last)]]
      BY <1>3 DEF AppendRecord, last
    <3>2. [R.segments EXCEPT ![n] = Lengthened(last)] \in Seq(Segment)
      BY <1>1, <2>1, <2>2, LengthenedTypes
    <3> QED BY <1>1, <3>1, <3>2 DEF Routing
  <2>5. SegmentFits(Q, Lengthened(last))
    <3>1. last.begin < last.end + 1 /\ last.end + 1 <= Q.next
      BY <1>1, <1>2, <2>2, <2>3 DEF SegmentFits
    <3>2. last.source + ((last.end + 1) - last.begin) <= Len(R.slots) + 1 + 1
      BY <1>1, <2>2, OneLonger
    <3> QED BY <1>2, <2>2, <3>1, <3>2, LengthenedTypes, SMTT(30) DEF SegmentFits
  <2>6. ASSUME NEW i \in 1 .. n - 1 PROVE SegmentFits(Q, R.segments[i])
    <3>1. i \in 1 .. n BY <1>1
    <3> HIDE DEF Q
    <3> QED BY <1>2, <3>1, FitsMore
  <2>7. ASSUME NEW i \in 1 .. n - 1 PROVE Precedes(R.segments[i], Lengthened(last))
    <3>1. Precedes(R.segments[i], last)
      <4>1. i \in 1 .. n /\ n \in 1 .. n /\ i < n BY <1>1, <2>1
      <4> HIDE DEF n
      <4> QED BY <4>1 DEF RoutingInv, last, n
    <3> QED BY <2>2, <3>1, LengthenedTypes DEF Precedes
  <2>8. ASSUME NEW i \in 1 .. n, NEW j \in 1 .. n, i < j
        PROVE  Precedes(Q.segments[i], Q.segments[j])
    <3>1. i \in 1 .. n - 1 BY <1>1, <2>8
    <3>2. CASE j = n BY <2>1, <2>7, <3>1, <3>2
    <3>3. CASE j # n
      <4>1. j \in 1 .. n - 1 BY <1>1, <3>3
      <4> QED BY <1>1, <2>1, <2>8, <3>1, <4>1 DEF RoutingInv
    <3> QED BY <3>2, <3>3
  <2>9. ASSUME NEW i \in 1 .. n PROVE SegmentFits(Q, Q.segments[i])
    <3>1. CASE i = n BY <2>1, <2>5, <3>1
    <3>2. CASE i # n
      <4>1. i \in 1 .. n - 1 BY <1>1, <3>2
      <4> QED BY <2>1, <2>6, <4>1
    <3> QED BY <3>1, <3>2
  <2> HIDE DEF Q
  <2> QED BY <2>1, <2>4, <2>8, <2>9 DEF RoutingInv
<1>4. CASE ~ Continues(R, Len(R.slots) + 1)
  <2> DEFINE new == NewSegment(R)
  <2>1. /\ Len(Q.segments) = n + 1
        /\ \A i \in 1 .. n : Q.segments[i] = R.segments[i]
        /\ Q.segments[n + 1] = new
    BY <1>4, AppendSegments
  <2>2. /\ new \in Segment /\ new.begin = R.next /\ new.end = R.next + 1
        /\ new.kind = "stored" /\ new.source = Len(R.slots) + 1
    BY NewSegmentTypes
  <2>3. Q \in Routing
    <3>1. Q = [next |-> R.next + 1, slots |-> Append(R.slots, p),
               segments |-> Append(R.segments, new)]
      BY <1>4 DEF AppendRecord, NewSegment
    <3>2. Append(R.segments, new) \in Seq(Segment)
      BY <1>1, <2>2
    <3> QED BY <1>1, <3>1, <3>2 DEF Routing
  <2> HIDE DEF new
  <2>4. SegmentFits(Q, new)
    BY <1>1, <1>2, <2>2 DEF SegmentFits
  <2>5. ASSUME NEW i \in 1 .. n PROVE SegmentFits(Q, R.segments[i])
    <3> HIDE DEF Q
    <3> QED BY <1>2, FitsMore
  <2>6. ASSUME NEW i \in 1 .. n PROVE Precedes(R.segments[i], new)
    <3>1. SegmentFits(R, R.segments[i]) BY DEF RoutingInv
    <3> QED BY <2>2, <3>1 DEF SegmentFits, Precedes
  <2>7. ASSUME NEW i \in 1 .. n + 1, NEW j \in 1 .. n + 1, i < j
        PROVE  Precedes(Q.segments[i], Q.segments[j])
    <3>1. i \in 1 .. n BY <1>1, <2>7
    <3>2. CASE j = n + 1 BY <2>1, <2>6, <3>1, <3>2
    <3>3. CASE j # n + 1
      <4>1. j \in 1 .. n BY <1>1, <3>3
      <4> QED BY <1>1, <2>1, <2>7, <3>1, <4>1 DEF RoutingInv
    <3> QED BY <3>2, <3>3
  <2>8. ASSUME NEW i \in 1 .. n + 1 PROVE SegmentFits(Q, Q.segments[i])
    <3>1. CASE i = n + 1 BY <2>1, <2>4, <3>1
    <3>2. CASE i # n + 1
      <4>1. i \in 1 .. n BY <1>1, <3>2
      <4> QED BY <2>1, <2>5, <4>1
    <3> QED BY <3>1, <3>2
  <2> HIDE DEF Q
  <2> QED BY <2>1, <2>3, <2>7, <2>8 DEF RoutingInv
<1> QED BY <1>3, <1>4

LEMMA AppendRecordKeepsAnswers ==
  ASSUME NEW R, RoutingInv(R), NEW p \in Nat, NEW i, NEW a \in Nat, Covers(R, i, a)
  PROVE  /\ Covers(AppendRecord(R, p), i, a)
         /\ Answer(AppendRecord(R, p), i, a) = Answer(R, i, a)
<1> DEFINE Q == AppendRecord(R, p)
           n == Len(R.segments)
<1>1. /\ R \in Routing /\ n \in Nat /\ i \in 1 .. n /\ R.segments[i] \in Segment
      /\ R.segments[i].begin \in Nat /\ R.segments[i].end \in Nat
      /\ R.slots \in Seq(Nat)
  BY RoutingTypes, SegmentTypes DEF RoutingInv, Covers
<1>2. /\ i \in 1 .. Len(Q.segments)
      /\ Q.segments[i] = R.segments[i] \/ Q.segments[i] = Lengthened(R.segments[i])
  <2>1. CASE Continues(R, Len(R.slots) + 1)
    <3>1. CASE i = n BY <1>1, <2>1, <3>1, AppendSegments
    <3>2. CASE i # n
      <4>1. i \in 1 .. n - 1 BY <1>1, <3>2
      <4> QED BY <1>1, <2>1, <4>1, AppendSegments
    <3> QED BY <3>1, <3>2
  <2>2. CASE ~ Continues(R, Len(R.slots) + 1)
    BY <1>1, <2>2, AppendSegments
  <2> QED BY <2>1, <2>2
<1>3. /\ Q.segments[i].begin = R.segments[i].begin
      /\ Q.segments[i].end \in {R.segments[i].end, R.segments[i].end + 1}
      /\ Q.segments[i].kind = R.segments[i].kind
      /\ Q.segments[i].source = R.segments[i].source
      /\ Q.segments[i].offset = R.segments[i].offset
  <2> HIDE DEF Q
  <2> QED BY <1>1, <1>2, LengthenedTypes
<1>4. \A k \in 1 .. Len(R.slots) : Q.slots[k] = R.slots[k]
  <2>1. Q.slots = Append(R.slots, p) BY DEF AppendRecord
  <2> HIDE DEF Q
  <2> QED BY <1>1, <2>1
<1> HIDE DEF Q
<1>5. Covers(Q, i, a)
  <2>1. R.segments[i].begin <= a /\ a < R.segments[i].end BY DEF Covers
  <2>2. a < Q.segments[i].end BY <1>1, <1>3, <2>1
  <2> QED BY <1>2, <1>3, <2>1, <2>2 DEF Covers
<1>6. Answer(Q, i, a) = Answer(R, i, a)
  BY <1>3, <1>4, SlotOf DEF Answer
<1> QED BY <1>5, <1>6 DEF Q

\* The address of the new record leads to its slot.
LEMMA AppendRecordAnswers ==
  ASSUME NEW R, RoutingInv(R), NEW p \in Nat
  PROVE  LET Q == AppendRecord(R, p) IN
         /\ Covers(Q, Len(Q.segments), R.next)
         /\ Answer(Q, Len(Q.segments), R.next) = [kind |-> "stored", physical |-> p]
<1> DEFINE Q == AppendRecord(R, p)
           n == Len(R.segments)
           slot == Len(R.slots) + 1
<1>1. /\ R \in Routing /\ n \in Nat /\ Len(R.slots) \in Nat /\ R.next \in Nat \ {0}
      /\ R.slots \in Seq(Nat)
  BY RoutingTypes DEF RoutingInv
<1>2. Q.slots[slot] = p
  <2>1. Q.slots = Append(R.slots, p) BY DEF AppendRecord
  <2> HIDE DEF Q
  <2> QED BY <1>1, <2>1
<1>3. CASE Continues(R, slot)
  <2> DEFINE last == R.segments[n]
  <2>1. n >= 1 /\ Len(Q.segments) = n /\ Q.segments[n] = Lengthened(last)
    BY <1>3, AppendSegments
  <2>2. /\ last \in Segment /\ last.kind = "stored" /\ last.end = R.next
        /\ last.source + (last.end - last.begin) = slot
        /\ last.begin \in Nat \ {0} /\ last.source \in Nat \ {0} /\ last.end \in Nat
    BY <1>1, <1>3, <2>1, SegmentTypes DEF Continues
  <2>3. last.begin < last.end BY <1>1, <2>1 DEF RoutingInv, SegmentFits
  <2> HIDE DEF last, Q
  <2>4. Covers(Q, n, R.next)
    BY <1>1, <2>1, <2>2, <2>3, LengthenedTypes DEF Covers
  <2> QED BY <1>2, <2>1, <2>2, <2>4, LengthenedTypes DEF Answer, Q
<1>4. CASE ~ Continues(R, slot)
  <2>1. Len(Q.segments) = n + 1 /\ Q.segments[n + 1] = NewSegment(R)
    BY <1>4, AppendSegments
  <2> HIDE DEF Q
  <2>2. Covers(Q, n + 1, R.next)
    BY <1>1, <2>1, NewSegmentTypes DEF Covers
  <2>3. slot + (R.next - R.next) = slot BY <1>1
  <2> QED BY <1>2, <2>1, <2>2, <2>3, NewSegmentTypes DEF Answer, Q
<1> QED BY <1>3, <1>4

-----------------------------------------------------------------------------
(* The range of an engine *)

RangeSegment(R, capacity, engine, offset) ==
  [begin |-> R.next, end |-> R.next + capacity, kind |-> "engine", source |-> engine,
   offset |-> offset]

LEMMA AppendRangeSegments ==
  ASSUME NEW R, RoutingInv(R), NEW c \in Nat \ {0}, NEW g \in Nat \ {0}, NEW o \in Nat
  PROVE  LET Q == AppendRange(R, c, g, o)
             n == Len(R.segments)
             new == RangeSegment(R, c, g, o)
         IN
         /\ Q \in Routing /\ Q.next = R.next + c /\ Q.slots = R.slots
         /\ Len(Q.segments) = n + 1
         /\ \A i \in 1 .. n : Q.segments[i] = R.segments[i]
         /\ Q.segments[n + 1] = new
         /\ new \in Segment /\ new.begin = R.next /\ new.end = R.next + c
         /\ new.kind = "engine" /\ new.source = g /\ new.offset = o
<1> DEFINE new == RangeSegment(R, c, g, o)
<1>1. /\ R.next \in Nat \ {0} /\ R.segments \in Seq(Segment) /\ R.slots \in Seq(Nat)
  BY RoutingTypes DEF RoutingInv
<1>2. /\ new \in Segment /\ new.begin = R.next /\ new.end = R.next + c
      /\ new.kind = "engine" /\ new.source = g /\ new.offset = o
  BY <1>1 DEF RangeSegment, Segment
<1>3. AppendRange(R, c, g, o) =
        [next |-> R.next + c, slots |-> R.slots, segments |-> Append(R.segments, new)]
  BY DEF AppendRange, RangeSegment
<1> HIDE DEF new
<1>4. /\ Append(R.segments, new) \in Seq(Segment)
      /\ Len(Append(R.segments, new)) = Len(R.segments) + 1
      /\ \A i \in 1 .. Len(R.segments) : Append(R.segments, new)[i] = R.segments[i]
      /\ Append(R.segments, new)[Len(R.segments) + 1] = new
  BY <1>1, <1>2
<1>5. AppendRange(R, c, g, o) \in Routing
  BY <1>1, <1>3, <1>4 DEF Routing
<1> QED BY <1>1, <1>2, <1>3, <1>4, <1>5 DEF new

LEMMA AppendRangeInv ==
  ASSUME NEW R, RoutingInv(R), NEW c \in Nat, NEW g \in Nat \ {0}, NEW o \in Nat,
         \A i \in 1 .. Len(R.segments) :
           R.segments[i].kind = "engine" => R.segments[i].source # g
  PROVE  RoutingInv(AppendRange(R, c, g, o))
<1>1. CASE c = 0 BY <1>1 DEF AppendRange
<1>2. CASE c # 0
  <2> DEFINE Q == AppendRange(R, c, g, o)
             n == Len(R.segments)
             new == RangeSegment(R, c, g, o)
  <2> SUFFICES RoutingInv(Q) OBVIOUS
  <2>1. /\ n \in Nat /\ R.next \in Nat \ {0} /\ Len(R.slots) \in Nat
    BY RoutingTypes DEF RoutingInv
  <2>2. /\ Q \in Routing /\ Q.next = R.next + c /\ Q.slots = R.slots
        /\ Len(Q.segments) = n + 1
        /\ \A i \in 1 .. n : Q.segments[i] = R.segments[i]
        /\ Q.segments[n + 1] = new
        /\ new \in Segment /\ new.begin = R.next /\ new.end = R.next + c
        /\ new.kind = "engine" /\ new.source = g
    BY <1>2, AppendRangeSegments
  <2> HIDE DEF Q, new
  <2>3. SegmentFits(Q, new) BY <1>2, <2>1, <2>2 DEF SegmentFits
  <2>4. ASSUME NEW i \in 1 .. n PROVE SegmentFits(Q, R.segments[i])
    <3>1. Q.next \in Nat /\ Q.next >= R.next /\ Len(Q.slots) = Len(R.slots)
      BY <2>1, <2>2
    <3> QED BY <3>1, FitsMore
  <2>5. ASSUME NEW i \in 1 .. n PROVE Precedes(R.segments[i], new)
    <3>1. SegmentFits(R, R.segments[i]) BY DEF RoutingInv
    <3> QED BY <2>2, <3>1 DEF SegmentFits, Precedes
  <2>6. ASSUME NEW i \in 1 .. n + 1, NEW j \in 1 .. n + 1, i < j
        PROVE  Precedes(Q.segments[i], Q.segments[j])
    <3>1. i \in 1 .. n BY <2>1, <2>6
    <3>2. CASE j = n + 1 BY <2>2, <2>5, <3>1, <3>2
    <3>3. CASE j # n + 1
      <4>1. j \in 1 .. n BY <2>1, <3>3
      <4> QED BY <2>2, <2>6, <3>1, <4>1 DEF RoutingInv
    <3> QED BY <3>2, <3>3
  <2>7. ASSUME NEW i \in 1 .. n + 1 PROVE SegmentFits(Q, Q.segments[i])
    <3>1. CASE i = n + 1 BY <2>2, <2>3, <3>1
    <3>2. CASE i # n + 1
      <4>1. i \in 1 .. n BY <2>1, <3>2
      <4> QED BY <2>2, <2>4, <4>1
    <3> QED BY <3>1, <3>2
  <2> QED BY <2>2, <2>6, <2>7 DEF RoutingInv
<1> QED BY <1>1, <1>2

LEMMA AppendRangeKeepsAnswers ==
  ASSUME NEW R, RoutingInv(R), NEW c \in Nat, NEW g \in Nat \ {0}, NEW o \in Nat,
         NEW i, NEW a \in Nat, Covers(R, i, a)
  PROVE  /\ Covers(AppendRange(R, c, g, o), i, a)
         /\ Answer(AppendRange(R, c, g, o), i, a) = Answer(R, i, a)
<1>1. CASE c = 0 BY <1>1 DEF AppendRange
<1>2. CASE c # 0
  <2> DEFINE Q == AppendRange(R, c, g, o)
  <2>1. /\ Q.slots = R.slots /\ Len(Q.segments) = Len(R.segments) + 1
        /\ \A j \in 1 .. Len(R.segments) : Q.segments[j] = R.segments[j]
    BY <1>2, AppendRangeSegments
  <2>2. i \in 1 .. Len(R.segments) /\ Len(R.segments) \in Nat
    BY RoutingTypes DEF Covers, RoutingInv
  <2> SUFFICES Covers(Q, i, a) /\ Answer(Q, i, a) = Answer(R, i, a) OBVIOUS
  <2> HIDE DEF Q
  <2>3. Q.segments[i] = R.segments[i] BY <2>1, <2>2
  <2>4. Covers(Q, i, a) BY <2>1, <2>2, <2>3 DEF Covers
  <2>5. Answer(Q, i, a) = Answer(R, i, a) BY <2>1, <2>3 DEF Answer
  <2> QED BY <2>4, <2>5
<1> QED BY <1>1, <1>2

\* The addresses of the range lead to the vertices of the engine.
LEMMA AppendRangeAnswers ==
  ASSUME NEW R, RoutingInv(R), NEW c \in Nat, NEW g \in Nat \ {0}, NEW o \in Nat,
         NEW a \in R.next .. R.next + c - 1
  PROVE  LET Q == AppendRange(R, c, g, o)
             i == Len(R.segments) + 1
         IN /\ Covers(Q, i, a)
            /\ Answer(Q, i, a) = [kind |-> "engine", engine |-> g, local |-> a - R.next,
                                  offset |-> o]
<1> DEFINE Q == AppendRange(R, c, g, o)
           i == Len(R.segments) + 1
<1> SUFFICES Covers(Q, i, a) /\ Answer(Q, i, a) =
               [kind |-> "engine", engine |-> g, local |-> a - R.next, offset |-> o]
  OBVIOUS
<1>1. Len(R.segments) \in Nat /\ R.next \in Nat \ {0}
  BY RoutingTypes DEF RoutingInv
<1>2. c # 0 BY <1>1
<1>3. /\ Len(Q.segments) = i /\ Q.segments[i] = RangeSegment(R, c, g, o)
      /\ RangeSegment(R, c, g, o).begin = R.next
      /\ RangeSegment(R, c, g, o).end = R.next + c
      /\ RangeSegment(R, c, g, o).kind = "engine" /\ RangeSegment(R, c, g, o).source = g
      /\ RangeSegment(R, c, g, o).offset = o
  BY <1>2, AppendRangeSegments
<1> HIDE DEF Q
<1>4. Covers(Q, i, a) BY <1>1, <1>3 DEF Covers
<1>5. Answer(Q, i, a) = [kind |-> "engine", engine |-> g, local |-> a - R.next, offset |-> o]
  BY <1>3 DEF Answer
<1> QED BY <1>4, <1>5

-----------------------------------------------------------------------------
(* Two addresses never lead to the same place. *)

LEMMA Ordered ==
  ASSUME NEW source \in Nat, NEW begin \in Nat, NEW end \in Nat, NEW a \in Nat, a < end,
         NEW next \in Nat, NEW start \in Nat, NEW b \in Nat, start <= b,
         source + (end - begin) <= next
  PROVE  source + (a - begin) # next + (b - start)
OBVIOUS

LEMMA SlotsDifferInOrder ==
  ASSUME NEW R, RoutingInv(R), NEW i, NEW a \in Nat, Covers(R, i, a),
         NEW j, NEW b \in Nat, Covers(R, j, b), i < j,
         R.segments[i].kind = "stored", R.segments[j].kind = "stored"
  PROVE  R.segments[i].source + (a - R.segments[i].begin)
           # R.segments[j].source + (b - R.segments[j].begin)
<1>1. R \in Routing /\ i \in 1 .. Len(R.segments) /\ j \in 1 .. Len(R.segments)
  BY DEF RoutingInv, Covers
<1>2. R.segments[i].source + (R.segments[i].end - R.segments[i].begin) <= R.segments[j].source
  BY <1>1 DEF RoutingInv, Precedes
<1>3. /\ R.segments[i].source \in Nat /\ R.segments[i].begin \in Nat
      /\ R.segments[i].end \in Nat /\ R.segments[j].source \in Nat
      /\ R.segments[j].begin \in Nat
  BY <1>1, SegmentTypes
<1>4. a < R.segments[i].end /\ R.segments[j].begin <= b
  BY DEF Covers
<1> QED BY <1>2, <1>3, <1>4, Ordered

LEMMA Shifted ==
  ASSUME NEW source \in Nat, NEW begin \in Nat, NEW a \in Nat, NEW b \in Nat, a # b
  PROVE  source + (a - begin) # source + (b - begin) /\ a - begin # b - begin
OBVIOUS

LEMMA SlotsDiffer ==
  ASSUME NEW R, RoutingInv(R), NEW i, NEW a \in Nat, Covers(R, i, a),
         NEW j, NEW b \in Nat, Covers(R, j, b), a # b,
         R.segments[i].kind = "stored", R.segments[j].kind = "stored"
  PROVE  R.segments[i].source + (a - R.segments[i].begin)
           # R.segments[j].source + (b - R.segments[j].begin)
<1>1. R \in Routing /\ Len(R.segments) \in Nat
      /\ i \in 1 .. Len(R.segments) /\ j \in 1 .. Len(R.segments)
  BY RoutingTypes DEF RoutingInv, Covers
<1>2. CASE i < j BY <1>2, SlotsDifferInOrder
<1>3. CASE j < i BY <1>3, SlotsDifferInOrder
<1>4. CASE i = j
  <2>1. R.segments[i].source \in Nat /\ R.segments[i].begin \in Nat
    BY <1>1, SegmentTypes
  <2> QED BY <1>4, <2>1, Shifted
<1> QED BY <1>1, <1>2, <1>3, <1>4

LEMMA LocalsDiffer ==
  ASSUME NEW R, RoutingInv(R), NEW i, NEW a \in Nat, Covers(R, i, a),
         NEW j, NEW b \in Nat, Covers(R, j, b), a # b,
         R.segments[i].kind = "engine", R.segments[j].kind = "engine",
         R.segments[i].source = R.segments[j].source
  PROVE  a - R.segments[i].begin # b - R.segments[j].begin
<1>1. R \in Routing /\ Len(R.segments) \in Nat
      /\ i \in 1 .. Len(R.segments) /\ j \in 1 .. Len(R.segments)
  BY RoutingTypes DEF RoutingInv, Covers
<1>2. ~ (i < j) BY <1>1 DEF RoutingInv, Precedes
<1>3. ~ (j < i) BY <1>1 DEF RoutingInv, Precedes
<1>4. i = j BY <1>1, <1>2, <1>3
<1>5. R.segments[i].source \in Nat /\ R.segments[i].begin \in Nat
  BY <1>1, SegmentTypes
<1> QED BY <1>4, <1>5, Shifted

-----------------------------------------------------------------------------
(* The threads that use it *)

\* What a place stands for, in a store with records recs and engines engs.
Meaning(at, recs, engs) ==
  IF at.kind = "stored"
  THEN IF at.physical \in DOMAIN recs THEN recs[at.physical] ELSE Gone
  ELSE IF at.local \in engs[at.engine].active
       THEN Translate(engs[at.engine].kind, at.offset,
                      LocalSigma[engs[at.engine].kind][at.local])
       ELSE Gone

Faithful(R, recs, engs, given) ==
  \A a \in DOMAIN given :
    /\ a \in Nat /\ a < R.next
    /\ \E i : Covers(R, i, a) /\ Meaning(Answer(R, i, a), recs, engs) = given[a]

Engine == [kind : Engines, active : SUBSET Nat]

TypesInv ==
  /\ RoutingInv(routing)
  /\ engines \in Seq(Engine)
  /\ pc \in [Threads -> {"idle", "record", "append"}]
  /\ call \in [Threads -> [sigma : SUBSET Nat, physical : Nat]]
  /\ used \subseteq Nat /\ DOMAIN records \subseteq used

\* Every slot holds a physical address of its own.
SlotsInv(R) ==
  /\ \A k \in 1 .. Len(R.slots) : R.slots[k] \in used
  /\ \A k, l \in 1 .. Len(R.slots) : R.slots[k] = R.slots[l] => k = l

EnginesInv ==
  \A i \in 1 .. Len(routing.segments) :
    routing.segments[i].kind = "engine" => routing.segments[i].source \in 1 .. Len(engines)

\* A record whose push has not got its address yet is in no slot.
PushesInv ==
  \A t \in Threads :
    pc[t] = "append" =>
      /\ call[t].physical \in DOMAIN records
      /\ records[call[t].physical] = call[t].sigma
      /\ \A k \in 1 .. Len(routing.slots) : routing.slots[k] # call[t].physical
      /\ \A u \in Threads \ {t} : pc[u] = "append" => call[u].physical # call[t].physical

HybridInv ==
  /\ TypesInv /\ SlotsInv(routing) /\ EnginesInv /\ PushesInv
  /\ Faithful(routing, records, engines, issued)

-----------------------------------------------------------------------------
LEMMA ReadIsMeaning ==
  ASSUME NEW R, RoutingInv(R), NEW recs, NEW engs, NEW i, NEW a \in Nat, Covers(R, i, a)
  PROVE  (LET at == Resolve(R, a) IN
          CASE at.kind = "stored" -> IF at.physical \in DOMAIN recs THEN recs[at.physical]
                                                                    ELSE Gone
            [] at.kind = "engine" ->
                 IF at.local \in engs[at.engine].active
                 THEN Translate(engs[at.engine].kind, at.offset,
                                LocalSigma[engs[at.engine].kind][at.local])
                 ELSE Gone
            [] OTHER -> Gone)
         = Meaning(Answer(R, i, a), recs, engs)
<1>1. Resolve(R, a) = Answer(R, i, a) BY ResolveCovered
<1>2. i \in 1 .. Len(R.segments) /\ R \in Routing BY DEF Covers, RoutingInv
<1>3. R.segments[i].kind \in {"stored", "engine"} BY <1>2, SegmentTypes
<1>4. CASE R.segments[i].kind = "stored"
  BY <1>1, <1>4 DEF Answer, Meaning
<1>5. CASE R.segments[i].kind = "engine"
  BY <1>1, <1>5 DEF Answer, Meaning
<1> QED BY <1>3, <1>4, <1>5

LEMMA FaithfulReads ==
  ASSUME RoutingInv(routing), Faithful(routing, records, engines, issued)
  PROVE  AddressesAreFaithful
<1> SUFFICES ASSUME NEW a \in DOMAIN issued PROVE Read(a) = issued[a]
  BY DEF AddressesAreFaithful
<1>1. PICK i : /\ a \in Nat /\ Covers(routing, i, a)
               /\ Meaning(Answer(routing, i, a), records, engines) = issued[a]
  BY DEF Faithful
<1>2. Read(a) = Meaning(Answer(routing, i, a), records, engines)
  BY <1>1, ReadIsMeaning DEF Read, EngineSigma
<1> QED BY <1>1, <1>2

\* A step that keeps what every covered address stands for keeps Faithful.
LEMMA KeepsFaithful ==
  ASSUME NEW R, NEW Q, NEW recs, NEW engs, NEW recs2, NEW engs2, NEW given,
         Faithful(R, recs, engs, given),
         R.next \in Nat, Q.next \in Nat, R.next <= Q.next,
         \A a \in DOMAIN given \cap Nat : \A i : Covers(R, i, a) =>
           /\ Covers(Q, i, a)
           /\ Meaning(Answer(Q, i, a), recs2, engs2) = Meaning(Answer(R, i, a), recs, engs)
  PROVE  Faithful(Q, recs2, engs2, given)
<1> SUFFICES ASSUME NEW a \in DOMAIN given
             PROVE  /\ a \in Nat /\ a < Q.next
                    /\ \E i : /\ Covers(Q, i, a)
                              /\ Meaning(Answer(Q, i, a), recs2, engs2) = given[a]
  BY DEF Faithful
<1>1. a \in Nat /\ a < R.next BY DEF Faithful
<1>2. PICK i : Covers(R, i, a) /\ Meaning(Answer(R, i, a), recs, engs) = given[a]
  BY DEF Faithful
<1>3. a < Q.next BY <1>1
<1> QED BY <1>1, <1>2, <1>3

LEMMA StoredAnswer ==
  ASSUME NEW R, RoutingInv(R), NEW i, NEW a \in Nat, Covers(R, i, a),
         R.segments[i].kind = "stored"
  PROVE  \E k \in 1 .. Len(R.slots) :
           /\ k = R.segments[i].source + (a - R.segments[i].begin)
           /\ Answer(R, i, a) = [kind |-> "stored", physical |-> R.slots[k]]
BY SlotOf DEF Answer

LEMMA EngineAnswer ==
  ASSUME NEW R, RoutingInv(R), NEW i, NEW a \in Nat, Covers(R, i, a),
         R.segments[i].kind # "stored"
  PROVE  /\ i \in 1 .. Len(R.segments) /\ R.segments[i].kind = "engine"
         /\ Answer(R, i, a) = [kind |-> "engine", engine |-> R.segments[i].source,
                               local |-> a - R.segments[i].begin,
                               offset |-> R.segments[i].offset]
<1>1. i \in 1 .. Len(R.segments) /\ R \in Routing BY DEF Covers, RoutingInv
<1> QED BY <1>1, SegmentTypes DEF Answer

-----------------------------------------------------------------------------
(* The steps *)

LEMMA InitInv == ASSUME HybridAssumption, Init PROVE HybridInv
<1>1. /\ routing = FreshRouting /\ engines = <<>> /\ used = {} /\ DOMAIN records = {}
      /\ DOMAIN issued = {}
  BY DEF Init, Stored!Init
<1>2. FreshRouting.slots = <<>> /\ FreshRouting.segments = <<>> BY DEF FreshRouting
<1>3. TypesInv BY <1>1, FreshRoutingInv DEF Init, TypesInv, NoCall
<1>4. SlotsInv(routing) BY <1>1, <1>2 DEF SlotsInv
<1>5. EnginesInv BY <1>1, <1>2 DEF EnginesInv
<1>6. PushesInv BY DEF Init, PushesInv
<1>7. Faithful(routing, records, engines, issued) BY <1>1 DEF Faithful
<1> QED BY <1>3, <1>4, <1>5, <1>6, <1>7 DEF HybridInv

\* Steps that leave the routing, the records, the engines and what was issued.
LEMMA AsideInv ==
  ASSUME HybridInv, UNCHANGED <<records, used, routing, engines, issued>>,
         pc' \in [Threads -> {"idle", "record", "append"}],
         call' \in [Threads -> [sigma : SUBSET Nat, physical : Nat]],
         \A t \in Threads : pc'[t] = "append" => pc[t] = "append" /\ call'[t] = call[t]
  PROVE  HybridInv'
<1>1. TypesInv' BY DEF HybridInv, TypesInv
<1>2. SlotsInv(routing)' /\ EnginesInv' BY DEF HybridInv, SlotsInv, EnginesInv
<1>3. PushesInv' BY DEF HybridInv, PushesInv
<1>4. Faithful(routing, records, engines, issued)' BY DEF HybridInv, Faithful
<1> QED BY <1>1, <1>2, <1>3, <1>4 DEF HybridInv

LEMMA PushStartsInv ==
  ASSUME HybridAssumption, HybridInv, NEW t \in Threads,
         \/ \E sigma \in Signatures : AcceptSignature(t, sigma)
         \/ StoreThrows(t)
  PROVE  HybridInv'
<1>1. /\ pc \in [Threads -> {"idle", "record", "append"}]
      /\ call \in [Threads -> [sigma : SUBSET Nat, physical : Nat]]
  BY DEF HybridInv, TypesInv
<1>2. CASE \E sigma \in Signatures : AcceptSignature(t, sigma)
  <2>1. PICK sigma \in Signatures : AcceptSignature(t, sigma) BY <1>2
  <2>2. /\ UNCHANGED <<records, used, routing, engines, issued>>
        /\ pc' = [pc EXCEPT ![t] = "record"] /\ call' = [call EXCEPT ![t].sigma = sigma]
    BY <2>1 DEF AcceptSignature, Stored!Accept
  <2>3. sigma \in SUBSET Nat BY DEF HybridAssumption
  <2> QED BY <1>1, <2>2, <2>3, AsideInv
<1>3. CASE StoreThrows(t)
  <2>1. /\ UNCHANGED <<records, used, routing, engines, issued>>
        /\ pc' = [pc EXCEPT ![t] = "idle"] /\ call' = [call EXCEPT ![t] = NoCall]
    BY <1>3 DEF StoreThrows, stored, EndPush
  <2>2. NoCall \in [sigma : SUBSET Nat, physical : Nat] BY DEF NoCall
  <2> QED BY <1>1, <2>1, <2>2, AsideInv
<1> QED BY <1>2, <1>3

LEMMA StoreRecordInv ==
  ASSUME HybridAssumption, HybridInv, NEW t \in Threads, StoreRecord(t)
  PROVE  HybridInv'
<1>1. PICK p \in 1 .. MaxRecords :
        /\ Stored!Record(call[t].sigma, p)
        /\ call' = [call EXCEPT ![t].physical = p]
  BY DEF StoreRecord
<1>2. /\ p \in Nat /\ p \notin used /\ used' = used \cup {p}
      /\ records' = [b \in DOMAIN records \cup {p} |->
                       IF b = p THEN call[t].sigma ELSE records[b]]
  BY <1>1 DEF Stored!Record, HybridAssumption
<1>3. /\ pc[t] = "record" /\ pc' = [pc EXCEPT ![t] = "append"]
      /\ UNCHANGED <<routing, engines, issued>>
  BY DEF StoreRecord
<1>4. /\ pc \in [Threads -> {"idle", "record", "append"}]
      /\ call \in [Threads -> [sigma : SUBSET Nat, physical : Nat]]
      /\ RoutingInv(routing) /\ used \subseteq Nat /\ DOMAIN records \subseteq used
  BY DEF HybridInv, TypesInv
<1>5. \A k \in 1 .. Len(routing.slots) : routing.slots[k] \in used
  BY DEF HybridInv, SlotsInv
<1>6. DOMAIN records' = DOMAIN records \cup {p} BY <1>2
<1>7. \A b \in used : /\ b \in DOMAIN records' <=> b \in DOMAIN records
                      /\ b \in DOMAIN records => records'[b] = records[b]
  BY <1>2, <1>6
<1>8. TypesInv'
  BY <1>1, <1>2, <1>3, <1>4, <1>6 DEF HybridInv, TypesInv
<1>9. SlotsInv(routing)' /\ EnginesInv'
  BY <1>2, <1>3 DEF HybridInv, SlotsInv, EnginesInv
<1>10. PushesInv'
  <2> SUFFICES ASSUME NEW u \in Threads, pc'[u] = "append"
               PROVE /\ call'[u].physical \in DOMAIN records'
                     /\ records'[call'[u].physical] = call'[u].sigma
                     /\ \A k \in 1 .. Len(routing'.slots) :
                          routing'.slots[k] # call'[u].physical
                     /\ \A w \in Threads \ {u} :
                          pc'[w] = "append" => call'[w].physical # call'[u].physical
    BY DEF PushesInv
  <2>1. \A w \in Threads \ {t} : pc'[w] = pc[w] /\ call'[w] = call[w]
    BY <1>1, <1>3, <1>4
  <2>2. call'[t].physical = p /\ call'[t].sigma = call[t].sigma
    BY <1>1, <1>4
  <2>3. \A w \in Threads \ {t} : pc[w] = "append" =>
          call[w].physical \in DOMAIN records /\ records[call[w].physical] = call[w].sigma
    BY DEF HybridInv, PushesInv
  <2>4. CASE u = t
    <3>1. records'[p] = call[t].sigma BY <1>2
    <3> QED BY <1>2, <1>3, <1>4, <1>5, <1>6, <2>1, <2>2, <2>3, <2>4, <3>1
  <2>5. CASE u # t
    <3>1. /\ pc[u] = "append" /\ call'[u] = call[u] /\ call[u].physical \in DOMAIN records
          /\ call[u].physical \in used
          /\ records[call[u].physical] = call[u].sigma
          /\ \A k \in 1 .. Len(routing.slots) : routing.slots[k] # call[u].physical
          /\ \A w \in Threads \ {u} : pc[w] = "append" => call[w].physical # call[u].physical
      BY <1>4, <2>1, <2>5 DEF HybridInv, PushesInv
    <3>2. /\ call'[u].physical \in DOMAIN records'
          /\ records'[call'[u].physical] = call'[u].sigma
      BY <1>7, <3>1
    <3>3. \A k \in 1 .. Len(routing'.slots) : routing'.slots[k] # call'[u].physical
      BY <1>3, <3>1
    <3>4. ASSUME NEW w \in Threads \ {u}, pc'[w] = "append"
          PROVE  call'[w].physical # call'[u].physical
      <4>1. CASE w = t BY <1>2, <2>2, <3>1, <4>1
      <4>2. CASE w # t BY <2>1, <3>1, <3>4, <4>2
      <4> QED BY <4>1, <4>2
    <3> QED BY <3>2, <3>3, <3>4
  <2> QED BY <2>4, <2>5
<1>11. Faithful(routing, records, engines, issued)'
  <2>1. ASSUME NEW a \in DOMAIN issued \cap Nat, NEW i, Covers(routing, i, a)
        PROVE  Meaning(Answer(routing, i, a), records', engines)
                 = Meaning(Answer(routing, i, a), records, engines)
    <3>1. CASE routing.segments[i].kind = "stored"
      <4>1. PICK k \in 1 .. Len(routing.slots) :
              Answer(routing, i, a) = [kind |-> "stored", physical |-> routing.slots[k]]
        BY <1>4, <2>1, <3>1, StoredAnswer
      <4>2. routing.slots[k] \in used BY <1>5
      <4> QED BY <1>7, <4>1, <4>2 DEF Meaning
    <3>2. CASE routing.segments[i].kind # "stored"
      BY <1>4, <2>1, <3>2, EngineAnswer DEF Meaning
    <3> QED BY <3>1, <3>2
  <2>2. routing.next \in Nat BY <1>4, RoutingTypes DEF RoutingInv
  <2>3. Faithful(routing, records, engines, issued) BY DEF HybridInv
  <2>4. Faithful(routing, records', engines, issued)
    BY <2>1, <2>2, <2>3, KeepsFaithful
  <2> QED BY <1>3, <2>4
<1> QED BY <1>8, <1>9, <1>10, <1>11 DEF HybridInv

\* The last step of a push: its record is in a slot, or lost for good.
LEMMA PushEndsInv ==
  ASSUME HybridInv, NEW t \in Threads, pc[t] = "append", EndPush(t),
         UNCHANGED <<records, used, engines>>, RoutingInv(routing'), EnginesInv',
         routing'.slots \in {routing.slots, Append(routing.slots, call[t].physical)}
  PROVE  TypesInv' /\ SlotsInv(routing)' /\ PushesInv'
<1>1. /\ pc \in [Threads -> {"idle", "record", "append"}]
      /\ call \in [Threads -> [sigma : SUBSET Nat, physical : Nat]]
      /\ routing \in Routing /\ used \subseteq Nat /\ DOMAIN records \subseteq used
  BY DEF HybridInv, TypesInv, RoutingInv
<1>2. pc' = [pc EXCEPT ![t] = "idle"] /\ call' = [call EXCEPT ![t] = NoCall]
  BY DEF EndPush
<1>3. TypesInv'
  <2>1. NoCall \in [sigma : SUBSET Nat, physical : Nat] BY DEF NoCall
  <2> QED BY <1>1, <1>2, <2>1 DEF HybridInv, TypesInv
<1>4. /\ call[t].physical \in used /\ call[t].physical \in Nat
      /\ \A k \in 1 .. Len(routing.slots) : routing.slots[k] # call[t].physical
      /\ \A u \in Threads \ {t} : pc[u] = "append" => call[u].physical # call[t].physical
  BY <1>1 DEF HybridInv, PushesInv
<1>5. /\ \A k \in 1 .. Len(routing.slots) : routing.slots[k] \in used
      /\ \A k, l \in 1 .. Len(routing.slots) : routing.slots[k] = routing.slots[l] => k = l
  BY DEF HybridInv, SlotsInv
<1>6. routing.slots \in Seq(Nat) /\ Len(routing.slots) \in Nat
  BY <1>1, RoutingTypes
<1>7. CASE routing'.slots = routing.slots
  <2>1. SlotsInv(routing)' BY <1>5, <1>7 DEF SlotsInv
  <2>2. PushesInv' BY <1>1, <1>2, <1>7 DEF HybridInv, PushesInv
  <2> QED BY <1>3, <2>1, <2>2
<1>8. CASE routing'.slots = Append(routing.slots, call[t].physical)
  <2> DEFINE n == Len(routing.slots)
             p == call[t].physical
  <2>1. /\ Len(routing'.slots) = n + 1 /\ routing'.slots[n + 1] = p
        /\ \A k \in 1 .. n : routing'.slots[k] = routing.slots[k]
    BY <1>4, <1>6, <1>8
  <2>2. \A k \in 1 .. n + 1 : k \in 1 .. n \/ k = n + 1 BY <1>6
  <2> HIDE DEF n, p
  <2>3. \A k \in 1 .. n + 1 : routing'.slots[k] \in used
    BY <1>4, <1>5, <2>1, <2>2 DEF n, p
  <2>4. \A k, l \in 1 .. n + 1 : routing'.slots[k] = routing'.slots[l] => k = l
    <3> SUFFICES ASSUME NEW k \in 1 .. n + 1, NEW l \in 1 .. n + 1,
                        routing'.slots[k] = routing'.slots[l]
                 PROVE  k = l
      OBVIOUS
    <3>1. \A m \in 1 .. n : routing.slots[m] # p BY <1>4 DEF n, p
    <3>2. CASE k \in 1 .. n /\ l \in 1 .. n BY <1>5, <2>1, <3>2 DEF n
    <3>3. CASE k \in 1 .. n /\ l = n + 1 BY <2>1, <3>1, <3>3
    <3>4. CASE k = n + 1 /\ l \in 1 .. n BY <2>1, <3>1, <3>4
    <3> QED BY <2>2, <3>2, <3>3, <3>4
  <2>5. SlotsInv(routing)' BY <2>1, <2>3, <2>4 DEF SlotsInv
  <2>6. PushesInv'
    <3> SUFFICES ASSUME NEW u \in Threads, pc'[u] = "append"
                 PROVE /\ call'[u].physical \in DOMAIN records
                       /\ records[call'[u].physical] = call'[u].sigma
                       /\ \A k \in 1 .. n + 1 : routing'.slots[k] # call'[u].physical
                       /\ \A w \in Threads \ {u} :
                            pc'[w] = "append" => call'[w].physical # call'[u].physical
      BY <2>1 DEF PushesInv
    <3>1. /\ u # t /\ pc[u] = "append" /\ call'[u] = call[u]
          /\ \A w \in Threads : pc'[w] = "append" => pc[w] = "append" /\ call'[w] = call[w]
      BY <1>1, <1>2
    <3>2. /\ call[u].physical \in DOMAIN records
          /\ records[call[u].physical] = call[u].sigma
          /\ \A k \in 1 .. n : routing.slots[k] # call[u].physical
          /\ \A w \in Threads \ {u} : pc[w] = "append" => call[w].physical # call[u].physical
      BY <3>1 DEF HybridInv, PushesInv, n
    <3>3. call[u].physical # p BY <1>4, <3>1 DEF p
    <3>4. \A k \in 1 .. n + 1 : routing'.slots[k] # call[u].physical
      BY <2>1, <2>2, <3>2, <3>3
    <3> QED BY <3>1, <3>2, <3>4
  <2> QED BY <1>3, <2>5, <2>6
<1> QED BY <1>7, <1>8

LEMMA AppendStoredRecordInv ==
  ASSUME HybridInv, NEW t \in Threads, AppendStoredRecord(t)
  PROVE  HybridInv'
<1> DEFINE R == routing
           Q == AppendRecord(routing, call[t].physical)
           p == call[t].physical
<1>1. /\ pc[t] = "append" /\ routing' = Q /\ EndPush(t)
      /\ UNCHANGED <<records, used, engines>>
      /\ issued' = Issue(R.next, call[t].sigma)
  BY DEF AppendStoredRecord, stored
<1>2. RoutingInv(R) /\ p \in Nat /\ R.next \in Nat \ {0} /\ Len(R.segments) \in Nat
  BY RoutingTypes DEF HybridInv, TypesInv, RoutingInv
<1>3. RoutingInv(Q) BY <1>2, AppendRecordInv
<1>4. Q.next = R.next + 1 /\ Q.slots = Append(R.slots, p) BY <1>2, AppendSegments
<1>5. \A j \in 1 .. Len(Q.segments) : Q.segments[j].kind = "engine" =>
        j \in 1 .. Len(R.segments) /\ Q.segments[j] = R.segments[j]
  <2> SUFFICES ASSUME NEW j \in 1 .. Len(Q.segments), Q.segments[j].kind = "engine"
               PROVE  j \in 1 .. Len(R.segments) /\ Q.segments[j] = R.segments[j]
    OBVIOUS
  <2>1. CASE Continues(R, Len(R.slots) + 1)
    <3> DEFINE n == Len(R.segments)
    <3>1. /\ n >= 1 /\ Len(Q.segments) = n /\ Q.segments[n] = Lengthened(R.segments[n])
          /\ \A k \in 1 .. n - 1 : Q.segments[k] = R.segments[k]
      BY <1>2, <2>1, AppendSegments
    <3>2. R.segments[n].kind = "stored" BY <2>1 DEF Continues
    <3>3. Q.segments[n].kind = "stored" BY <3>1, <3>2 DEF Lengthened
    <3> HIDE DEF Q
    <3> QED BY <1>2, <3>1, <3>3
  <2>2. CASE ~ Continues(R, Len(R.slots) + 1)
    <3>1. /\ Len(Q.segments) = Len(R.segments) + 1
          /\ \A k \in 1 .. Len(R.segments) : Q.segments[k] = R.segments[k]
          /\ Q.segments[Len(R.segments) + 1].kind = "stored"
      BY <1>2, <2>2, AppendSegments, NewSegmentTypes
    <3> HIDE DEF Q
    <3> QED BY <1>2, <3>1
  <2> QED BY <2>1, <2>2
<1> HIDE DEF Q
<1>6. EnginesInv' BY <1>1, <1>5 DEF HybridInv, EnginesInv
<1>7. TypesInv' /\ SlotsInv(routing)' /\ PushesInv'
  BY <1>1, <1>3, <1>4, <1>6, PushEndsInv
<1>8. Faithful(Q, records, engines, issued')
  <2>1. Faithful(Q, records, engines, issued)
    <3>1. \A a \in DOMAIN issued \cap Nat : \A i : Covers(R, i, a) =>
            Covers(Q, i, a) /\ Answer(Q, i, a) = Answer(R, i, a)
      BY <1>2, AppendRecordKeepsAnswers DEF Q
    <3>2. Faithful(R, records, engines, issued) BY DEF HybridInv
    <3> QED BY <1>2, <1>4, <3>1, <3>2, KeepsFaithful
  <2>2. /\ Covers(Q, Len(Q.segments), R.next)
        /\ Answer(Q, Len(Q.segments), R.next) = [kind |-> "stored", physical |-> p]
    BY <1>2, AppendRecordAnswers DEF Q
  <2>3. Meaning(Answer(Q, Len(Q.segments), R.next), records, engines) = call[t].sigma
    BY <1>1, <2>2 DEF HybridInv, PushesInv, Meaning
  <2>4. DOMAIN issued' = DOMAIN issued \cup {R.next} BY <1>1 DEF Issue
  <2> SUFFICES ASSUME NEW a \in DOMAIN issued'
               PROVE  /\ a \in Nat /\ a < Q.next
                      /\ \E i : /\ Covers(Q, i, a)
                                /\ Meaning(Answer(Q, i, a), records, engines) = issued'[a]
    BY DEF Faithful
  <2>5. CASE a = R.next
    <3>1. issued'[a] = call[t].sigma BY <1>1, <2>5 DEF Issue
    <3> QED BY <1>2, <1>4, <2>2, <2>3, <2>5, <3>1
  <2>6. CASE a # R.next
    <3>1. a \in DOMAIN issued /\ issued'[a] = issued[a]
      BY <1>1, <2>4, <2>6 DEF Issue
    <3> QED BY <2>1, <3>1 DEF Faithful
  <2> QED BY <2>5, <2>6
<1> QED BY <1>1, <1>6, <1>7, <1>8 DEF HybridInv

LEMMA AppendThrowsInv ==
  ASSUME HybridInv, NEW t \in Threads, AppendThrows(t)
  PROVE  HybridInv'
<1> DEFINE p == call[t].physical
<1>1. /\ pc[t] = "append" /\ EndPush(t) /\ UNCHANGED <<records, used, engines, issued>>
      /\ routing' \in {routing, TakeSlot(routing, p), LoseRecord(routing, p)}
  BY DEF AppendThrows, stored
<1>2. RoutingInv(routing) /\ p \in Nat /\ routing.next \in Nat
  BY RoutingTypes DEF HybridInv, TypesInv, RoutingInv
<1>3. RoutingInv(routing') BY <1>1, <1>2, TakeSlotInv
<1>4. /\ routing'.segments = routing.segments
      /\ routing'.slots \in {routing.slots, Append(routing.slots, p)}
      /\ routing'.next \in {routing.next, routing.next + 1}
  BY <1>1 DEF TakeSlot, LoseRecord
<1>5. EnginesInv' BY <1>1, <1>4 DEF HybridInv, EnginesInv
<1>6. TypesInv' /\ SlotsInv(routing)' /\ PushesInv'
  BY <1>1, <1>3, <1>4, <1>5, PushEndsInv
<1>7. \A a \in DOMAIN issued \cap Nat : \A i : Covers(routing, i, a) =>
        Covers(routing', i, a) /\ Answer(routing', i, a) = Answer(routing, i, a)
  BY <1>1, <1>2, TakeSlotKeepsAnswers
<1>8. Faithful(routing', records, engines, issued)
  <2>1. Faithful(routing, records, engines, issued) BY DEF HybridInv
  <2>2. routing'.next \in Nat /\ routing.next <= routing'.next BY <1>2, <1>4
  <2> QED BY <1>2, <1>7, <2>1, <2>2, KeepsFaithful
<1> QED BY <1>1, <1>5, <1>6, <1>8 DEF HybridInv

LEMMA RangeAppended ==
  ASSUME NEW R, RoutingInv(R), NEW c \in Nat \ {0}, NEW m \in Nat, NEW o \in Nat
  PROVE  LET Q == AppendRange(R, c, m + 1, o)
         IN
         /\ Q.slots = R.slots /\ Q.next = R.next + c
         /\ Len(Q.segments) = Len(R.segments) + 1
         /\ \A j \in 1 .. Len(R.segments) : Q.segments[j] = R.segments[j]
         /\ Q.segments[Len(R.segments) + 1].source = m + 1
<1>1. m + 1 \in Nat \ {0} OBVIOUS
<1> DEFINE g == m + 1
<1> HIDE DEF g
<1>2. g \in Nat \ {0} BY <1>1 DEF g
<1>3. LET Q == AppendRange(R, c, g, o)
      IN
      /\ Q.slots = R.slots /\ Q.next = R.next + c
      /\ Len(Q.segments) = Len(R.segments) + 1
      /\ \A j \in 1 .. Len(R.segments) : Q.segments[j] = R.segments[j]
      /\ Q.segments[Len(R.segments) + 1].source = g
  BY <1>2, AppendRangeSegments
<1> QED BY <1>3 DEF g

LEMMA RegisterEngineInv ==
  ASSUME HybridAssumption, HybridInv, NEW g \in Engines, NEW offset \in Offsets,
         NEW active \in SUBSET (0 .. Capacity[g] - 1), RegisterEngine(g, offset, active)
  PROVE  HybridInv'
<1> DEFINE R == routing
           c == Capacity[g]
           m == Len(engines)
           Q == AppendRange(R, c, m + 1, offset)
           new == [kind |-> g, active |-> active]
<1>1. /\ routing' = Q /\ engines' = Append(engines, new)
      /\ UNCHANGED <<records, used, pc, call>>
      /\ issued' = [a \in DOMAIN issued \cup (R.next .. R.next + c - 1) |->
                      IF a < R.next THEN issued[a]
                      ELSE IF a - R.next \in active
                           THEN Translate(g, offset, LocalSigma[g][a - R.next]) ELSE Gone]
  BY DEF RegisterEngine
<1>2. /\ RoutingInv(R) /\ R.next \in Nat \ {0} /\ Len(R.segments) \in Nat
      /\ engines \in Seq(Engine) /\ m \in Nat /\ c \in Nat /\ offset \in Nat
      /\ new \in Engine
  BY RoutingTypes DEF HybridInv, TypesInv, RoutingInv, HybridAssumption, Engine
<1>3. \A j \in 1 .. Len(R.segments) :
        R.segments[j].kind = "engine" => R.segments[j].source \in 1 .. m
  BY DEF HybridInv, EnginesInv
<1>4. RoutingInv(Q)
  <2>1. m + 1 \in Nat \ {0} /\ m + 1 \notin 1 .. m BY <1>2
  <2> QED BY <1>2, <1>3, <2>1, AppendRangeInv
<1>5. /\ Len(engines') = m + 1 /\ engines' \in Seq(Engine) /\ engines'[m + 1] = new
      /\ \A j \in 1 .. m : engines'[j] = engines[j]
  BY <1>1, <1>2
<1>6. /\ Q.slots = R.slots /\ Q.next = R.next + c
      /\ \A j \in 1 .. Len(Q.segments) : Q.segments[j].kind = "engine" =>
           Q.segments[j].source \in 1 .. m + 1
  <2>1. CASE c = 0
    <3>1. Q = R BY <2>1 DEF AppendRange
    <3> HIDE DEF Q
    <3> QED BY <1>2, <1>3, <2>1, <3>1
  <2>2. CASE c # 0
    <3>1. /\ Q.slots = R.slots /\ Q.next = R.next + c
          /\ Len(Q.segments) = Len(R.segments) + 1
          /\ \A j \in 1 .. Len(R.segments) : Q.segments[j] = R.segments[j]
          /\ Q.segments[Len(R.segments) + 1].source = m + 1
      <4>1. RoutingInv(R) /\ c \in Nat \ {0} /\ m \in Nat /\ offset \in Nat BY <1>2, <2>2
      <4> HIDE DEF m, c, R
      <4> QED BY <4>1, RangeAppended, SMTT(30)
    <3>2. \A j \in 1 .. Len(R.segments) + 1 :
            j \in 1 .. Len(R.segments) \/ j = Len(R.segments) + 1
      BY <1>2
    <3> HIDE DEF Q
    <3>3. ASSUME NEW j \in 1 .. Len(Q.segments), Q.segments[j].kind = "engine"
          PROVE  Q.segments[j].source \in 1 .. m + 1
      <4>1. CASE j \in 1 .. Len(R.segments)
        <5>1. Q.segments[j] = R.segments[j] BY <3>1, <4>1
        <5>2. R.segments[j].source \in 1 .. m BY <1>3, <3>3, <4>1, <5>1
        <5> QED BY <1>2, <5>1, <5>2
      <4>2. CASE j = Len(R.segments) + 1 BY <1>2, <3>1, <4>2, SMTT(30)
      <4> QED BY <3>1, <3>2, <4>1, <4>2
    <3> QED BY <3>1, <3>3
  <2> QED BY <2>1, <2>2
<1>7. \A a \in Nat : \A j : Covers(R, j, a) =>
        Covers(Q, j, a) /\ Answer(Q, j, a) = Answer(R, j, a)
  <2>1. m + 1 \in Nat \ {0} BY <1>2
  <2> QED BY <1>2, <2>1, AppendRangeKeepsAnswers
<1>8. \A a \in R.next .. R.next + c - 1 :
        /\ Covers(Q, Len(R.segments) + 1, a)
        /\ Answer(Q, Len(R.segments) + 1, a) =
             [kind |-> "engine", engine |-> m + 1, local |-> a - R.next, offset |-> offset]
  <2>1. m + 1 \in Nat \ {0} BY <1>2
  <2> SUFFICES ASSUME NEW a \in R.next .. R.next + c - 1
               PROVE  /\ Covers(Q, Len(R.segments) + 1, a)
                      /\ Answer(Q, Len(R.segments) + 1, a) =
                           [kind |-> "engine", engine |-> m + 1, local |-> a - R.next,
                            offset |-> offset]
    OBVIOUS
  <2>2. RoutingInv(R) /\ c \in Nat /\ offset \in Nat BY <1>2
  <2> HIDE DEF m, c, R
  <2> QED BY <2>1, <2>2, AppendRangeAnswers, SMTT(30)
<1> HIDE DEF Q, new
<1>9. TypesInv' BY <1>1, <1>4, <1>5 DEF HybridInv, TypesInv
<1>10. SlotsInv(routing)' /\ EnginesInv' /\ PushesInv'
  BY <1>1, <1>5, <1>6 DEF HybridInv, SlotsInv, EnginesInv, PushesInv
<1>11. Faithful(Q, records, engines', issued)
  <2>1. ASSUME NEW a \in DOMAIN issued \cap Nat, NEW j, Covers(R, j, a)
        PROVE  Meaning(Answer(R, j, a), records, engines')
                 = Meaning(Answer(R, j, a), records, engines)
    <3>1. CASE R.segments[j].kind = "stored"
      BY <1>2, <2>1, <3>1, StoredAnswer DEF Meaning
    <3>2. CASE R.segments[j].kind # "stored"
      <4>1. R.segments[j].source \in 1 .. m
        BY <1>2, <1>3, <2>1, <3>2, EngineAnswer
      <4>2. engines'[R.segments[j].source] = engines[R.segments[j].source]
        BY <1>5, <4>1
      <4> QED BY <1>2, <2>1, <3>2, <4>2, EngineAnswer DEF Meaning
    <3> QED BY <3>1, <3>2
  <2>2. Faithful(R, records, engines, issued) BY DEF HybridInv
  <2>3. R.next <= Q.next /\ Q.next \in Nat BY <1>2, <1>6
  <2> QED BY <1>2, <1>7, <2>1, <2>2, <2>3, KeepsFaithful
<1>12. Faithful(Q, records, engines', issued')
  <2> SUFFICES ASSUME NEW a \in DOMAIN issued'
               PROVE  /\ a \in Nat /\ a < Q.next
                      /\ \E i : /\ Covers(Q, i, a)
                                /\ Meaning(Answer(Q, i, a), records, engines') = issued'[a]
    BY DEF Faithful
  <2>1. a \in DOMAIN issued \/ a \in R.next .. R.next + c - 1 BY <1>1
  <2>2. a \in Nat BY <1>2, <2>1 DEF HybridInv, Faithful
  <2>3. CASE a < R.next
    <3>1. a \in DOMAIN issued /\ issued'[a] = issued[a]
      BY <1>1, <1>2, <2>1, <2>2, <2>3
    <3> QED BY <1>11, <3>1 DEF Faithful
  <2>4. CASE ~ (a < R.next)
    <3>1. a \in R.next .. R.next + c - 1
      BY <1>2, <2>1, <2>4 DEF HybridInv, Faithful
    <3>2. a < Q.next BY <1>2, <1>6, <3>1
    <3>3. issued'[a] = IF a - R.next \in active
                       THEN Translate(g, offset, LocalSigma[g][a - R.next]) ELSE Gone
      BY <1>1, <2>4
    <3>4. engines'[m + 1].kind = g /\ engines'[m + 1].active = active
      BY <1>5 DEF new
    <3>5. Meaning(Answer(Q, Len(R.segments) + 1, a), records, engines') = issued'[a]
      <4>1. Answer(Q, Len(R.segments) + 1, a) =
              [kind |-> "engine", engine |-> m + 1, local |-> a - R.next, offset |-> offset]
        BY <1>8, <3>1
      <4> HIDE DEF m
      <4> QED BY <3>3, <3>4, <4>1 DEF Meaning
    <3> QED BY <1>8, <2>2, <3>1, <3>2, <3>5
  <2> QED BY <2>3, <2>4
<1> QED BY <1>1, <1>9, <1>10, <1>12 DEF HybridInv

LEMMA RegisterFailsInv ==
  ASSUME HybridInv, NEW g \in Engines, NEW offset \in Offsets, NEW active,
         RegisterConflicts(g, offset, active) \/ RegisterThrows(g, offset, active)
  PROVE  HybridInv'
<1>1. UNCHANGED <<records, used, routing, engines, issued, pc, call>>
  BY DEF RegisterConflicts, RegisterThrows
<1> QED BY <1>1, AsideInv DEF HybridInv, TypesInv

LEMMA EraseStoredInv ==
  ASSUME HybridInv, Idle, NEW a \in DOMAIN issued, EraseStored(a)
  PROVE  HybridInv'
<1> DEFINE R == routing
           p == Resolve(routing, a).physical
<1>1. /\ Resolve(R, a).kind = "stored" /\ p \in DOMAIN records
      /\ records' = [b \in DOMAIN records \ {p} |-> records[b]] /\ used' = used
      /\ issued' = [issued EXCEPT ![a] = Gone]
      /\ UNCHANGED <<routing, engines, pc, call>>
  BY DEF EraseStored, Stored!Remove
<1>2. RoutingInv(R) /\ R.next \in Nat /\ a \in Nat
  BY RoutingTypes DEF HybridInv, TypesInv, RoutingInv, Faithful
<1>3. PICK i : Covers(R, i, a) BY DEF HybridInv, Faithful
<1>4. Resolve(R, a) = Answer(R, i, a) BY <1>2, <1>3, ResolveCovered
<1>5. R.segments[i].kind = "stored" BY <1>1, <1>4, SMTT(30) DEF Answer
<1>6. PICK k \in 1 .. Len(R.slots) :
        k = R.segments[i].source + (a - R.segments[i].begin) /\ p = R.slots[k]
  BY <1>2, <1>3, <1>4, <1>5, StoredAnswer
<1> HIDE DEF p
<1>7. TypesInv' BY <1>1 DEF HybridInv, TypesInv
<1>8. SlotsInv(routing)' /\ EnginesInv' BY <1>1 DEF HybridInv, SlotsInv, EnginesInv
<1>9. PushesInv' BY <1>1 DEF PushesInv, Idle
<1>10. Faithful(R, records', engines, issued')
  <2> SUFFICES ASSUME NEW b \in DOMAIN issued'
               PROVE  /\ b \in Nat /\ b < R.next
                      /\ \E j : /\ Covers(R, j, b)
                                /\ Meaning(Answer(R, j, b), records', engines) = issued'[b]
    BY DEF Faithful
  <2>1. b \in DOMAIN issued BY <1>1
  <2>2. PICK j : /\ b \in Nat /\ b < R.next /\ Covers(R, j, b)
                 /\ Meaning(Answer(R, j, b), records, engines) = issued[b]
    BY <2>1 DEF HybridInv, Faithful
  <2>3. CASE b = a
    <3>1. issued'[b] = Gone BY <1>1, <2>3
    <3>2. Meaning(Answer(R, i, a), records', engines) = Gone
      <4>1. Answer(R, i, a).kind = "stored" /\ Answer(R, i, a).physical = p
        BY <1>1, <1>4 DEF p
      <4>2. p \notin DOMAIN records' BY <1>1
      <4> QED BY <4>1, <4>2 DEF Meaning
    <3> QED BY <1>3, <2>2, <2>3, <3>1, <3>2
  <2>4. CASE b # a
    <3>1. issued'[b] = issued[b] BY <1>1, <2>1, <2>4
    <3>2. CASE R.segments[j].kind = "stored"
      <4>1. PICK l \in 1 .. Len(R.slots) :
              /\ l = R.segments[j].source + (b - R.segments[j].begin)
              /\ Answer(R, j, b) = [kind |-> "stored", physical |-> R.slots[l]]
        BY <1>2, <2>2, <3>2, StoredAnswer
      <4>2. k # l BY <1>2, <1>3, <1>5, <1>6, <2>2, <2>4, <3>2, <4>1, SlotsDiffer
      <4>3. R.slots[l] # p BY <1>6, <4>2 DEF HybridInv, SlotsInv
      <4>4. /\ R.slots[l] \in DOMAIN records' <=> R.slots[l] \in DOMAIN records
            /\ R.slots[l] \in DOMAIN records => records'[R.slots[l]] = records[R.slots[l]]
        BY <1>1, <4>3
      <4>5. Meaning(Answer(R, j, b), records', engines)
              = Meaning(Answer(R, j, b), records, engines)
        BY <4>1, <4>4, SMTT(30) DEF Meaning
      <4> QED BY <2>2, <3>1, <4>5
    <3>3. CASE R.segments[j].kind # "stored"
      <4>1. Meaning(Answer(R, j, b), records', engines)
              = Meaning(Answer(R, j, b), records, engines)
        BY <1>2, <2>2, <3>3, EngineAnswer DEF Meaning
      <4> QED BY <2>2, <3>1, <4>1
    <3> QED BY <3>2, <3>3
  <2> QED BY <2>3, <2>4
<1> QED BY <1>1, <1>7, <1>8, <1>9, <1>10 DEF HybridInv

LEMMA EraseEngineVertexInv ==
  ASSUME HybridInv, Idle, NEW a \in DOMAIN issued, EraseEngineVertex(a)
  PROVE  HybridInv'
<1> DEFINE R == routing
           g == Resolve(routing, a).engine
           local == Resolve(routing, a).local
<1>1. /\ Resolve(R, a).kind = "engine"
      /\ engines' = [engines EXCEPT ![g].active = @ \ {local}]
      /\ issued' = [issued EXCEPT ![a] = Gone]
      /\ UNCHANGED <<records, used, routing, pc, call>>
  BY DEF EraseEngineVertex
<1>2. RoutingInv(R) /\ a \in Nat /\ engines \in Seq(Engine)
  BY DEF HybridInv, TypesInv, Faithful
<1>3. PICK i : Covers(R, i, a) BY DEF HybridInv, Faithful
<1>4. Resolve(R, a) = Answer(R, i, a) BY <1>2, <1>3, ResolveCovered
<1>5. R.segments[i].kind # "stored"
  <2> SUFFICES ASSUME R.segments[i].kind = "stored" PROVE FALSE OBVIOUS
  <2>1. \E k : Answer(R, i, a) = [kind |-> "stored", physical |-> R.slots[k]]
    BY <1>2, <1>3, StoredAnswer
  <2>2. Answer(R, i, a).kind = "stored" BY <2>1
  <2> QED BY <1>1, <1>4, <2>2
<1>6. /\ i \in 1 .. Len(R.segments) /\ R.segments[i].kind = "engine"
      /\ g = R.segments[i].source /\ local = a - R.segments[i].begin
      /\ Answer(R, i, a).kind = "engine" /\ Answer(R, i, a).engine = g
      /\ Answer(R, i, a).local = local
  BY <1>2, <1>3, <1>4, <1>5, EngineAnswer
<1>7. g \in 1 .. Len(engines) BY <1>6 DEF HybridInv, EnginesInv
<1> HIDE DEF g, local
<1>8. /\ engines[g] \in Engine
      /\ engines' = [engines EXCEPT ![g] = [engines[g] EXCEPT !.active = @ \ {local}]]
  BY <1>1, <1>2, <1>7
<1>9. [engines[g] EXCEPT !.active = @ \ {local}]
        = [kind |-> engines[g].kind, active |-> engines[g].active \ {local}]
  BY <1>8 DEF Engine
<1>10. [kind |-> engines[g].kind, active |-> engines[g].active \ {local}] \in Engine
  BY <1>8 DEF Engine
<1>11. /\ engines' \in Seq(Engine) /\ Len(engines') = Len(engines)
       /\ engines'[g].kind = engines[g].kind
       /\ engines'[g].active = engines[g].active \ {local}
       /\ \A h \in 1 .. Len(engines) : h # g => engines'[h] = engines[h]
  BY <1>2, <1>7, <1>8, <1>9, <1>10
<1>12. TypesInv' BY <1>1, <1>11 DEF HybridInv, TypesInv
<1>13. SlotsInv(routing)' /\ EnginesInv'
  BY <1>1, <1>11 DEF HybridInv, SlotsInv, EnginesInv
<1>14. PushesInv' BY <1>1 DEF PushesInv, Idle
<1>15. Faithful(R, records, engines', issued')
  <2> SUFFICES ASSUME NEW b \in DOMAIN issued'
               PROVE  /\ b \in Nat /\ b < R.next
                      /\ \E j : /\ Covers(R, j, b)
                                /\ Meaning(Answer(R, j, b), records, engines') = issued'[b]
    BY DEF Faithful
  <2>1. b \in DOMAIN issued BY <1>1
  <2>2. PICK j : /\ b \in Nat /\ b < R.next /\ Covers(R, j, b)
                 /\ Meaning(Answer(R, j, b), records, engines) = issued[b]
    BY <2>1 DEF HybridInv, Faithful
  <2>3. CASE b = a
    <3>1. issued'[b] = Gone BY <1>1, <2>3
    <3>2. Meaning(Answer(R, i, a), records, engines') = Gone
      BY <1>6, <1>11 DEF Meaning
    <3> QED BY <1>3, <2>2, <2>3, <3>1, <3>2
  <2>4. CASE b # a
    <3>1. issued'[b] = issued[b] BY <1>1, <2>1, <2>4
    <3>2. CASE R.segments[j].kind = "stored"
      <4>1. Meaning(Answer(R, j, b), records, engines')
              = Meaning(Answer(R, j, b), records, engines)
        BY <1>2, <2>2, <3>2, StoredAnswer DEF Meaning
      <4> QED BY <2>2, <3>1, <4>1
    <3>3. CASE R.segments[j].kind # "stored"
      <4> DEFINE h == R.segments[j].source
                 x == b - R.segments[j].begin
      <4>1. /\ j \in 1 .. Len(R.segments) /\ R.segments[j].kind = "engine"
            /\ Answer(R, j, b) = [kind |-> "engine", engine |-> h, local |-> x,
                                  offset |-> R.segments[j].offset]
        BY <1>2, <2>2, <3>3, EngineAnswer
      <4>2. h \in 1 .. Len(engines) BY <4>1 DEF HybridInv, EnginesInv
      <4>3. h = g => x # local
        BY <1>2, <1>3, <1>6, <2>2, <2>4, <4>1, LocalsDiffer
      <4> HIDE DEF h, x
      <4>4. /\ engines'[h].kind = engines[h].kind
            /\ x \in engines'[h].active <=> x \in engines[h].active
        BY <1>11, <4>2, <4>3
      <4>5. Meaning(Answer(R, j, b), records, engines')
              = Meaning(Answer(R, j, b), records, engines)
        BY <4>1, <4>4 DEF Meaning
      <4> QED BY <2>2, <3>1, <4>5
    <3> QED BY <3>2, <3>3
  <2> QED BY <2>3, <2>4
<1> QED BY <1>1, <1>12, <1>13, <1>14, <1>15 DEF HybridInv

LEMMA StepInv ==
  ASSUME HybridAssumption, HybridInv, [Next]_vars
  PROVE  HybridInv'
<1>1. CASE UNCHANGED vars
  BY <1>1, AsideInv DEF vars, HybridInv, TypesInv
<1>2. ASSUME NEW t \in Threads,
             \/ StoreRecord(t) \/ AppendStoredRecord(t) \/ AppendThrows(t) \/ StoreThrows(t)
             \/ \E sigma \in Signatures : AcceptSignature(t, sigma)
      PROVE  HybridInv'
  BY <1>2, StoreRecordInv, AppendStoredRecordInv, AppendThrowsInv, PushStartsInv
<1>3. ASSUME NEW g \in Engines, NEW offset \in Offsets,
             NEW active \in SUBSET (0 .. Capacity[g] - 1),
             \/ RegisterEngine(g, offset, active)
             \/ RegisterConflicts(g, offset, active) \/ RegisterThrows(g, offset, active)
      PROVE  HybridInv'
  BY <1>3, RegisterEngineInv, RegisterFailsInv
<1>4. ASSUME NEW a \in DOMAIN issued, Erase(a) PROVE HybridInv'
  BY <1>4, EraseStoredInv, EraseEngineVertexInv DEF Erase
<1>5. ASSUME \/ \E t \in Threads, sigma \in Signatures : KnownSignature(t, sigma)
             \/ \E a \in DOMAIN issued : ReadVertex(a)
      PROVE  UNCHANGED vars
  BY <1>5 DEF KnownSignature, ReadVertex
<1> QED BY <1>1, <1>2, <1>3, <1>4, <1>5 DEF Next

\* Every address that a caller of HybridDataBase ever got keeps leading to what it
\* was given for until exactly that is erased (hybrid_database.hpp 445-528).
THEOREM AddressesStayFaithful ==
  HybridAssumption => (Spec => []AddressesAreFaithful)
<1> SUFFICES ASSUME HybridAssumption PROVE Spec => []AddressesAreFaithful
  OBVIOUS
<1>1. Init => HybridInv BY InitInv
<1>2. HybridInv /\ [Next]_vars => HybridInv' BY StepInv
<1>3. HybridInv => AddressesAreFaithful
  BY FaithfulReads DEF HybridInv, TypesInv
<1> QED BY <1>1, <1>2, <1>3, PTL DEF Spec

-----------------------------------------------------------------------------
(* What the hash knows.  The signatures of live addresses, of pushes under *)
(* way and those at which a push or a registration threw are all           *)
(* different, and make up the hash.                                        *)

InFlightDiffer ==
  \A t, u \in Threads : pc[t] # "idle" /\ pc[u] # "idle" /\ call[t].sigma = call[u].sigma
    => t = u

HashInv ==
  /\ HashIsExact
  /\ Gone \notin accepted
  /\ InFlightDiffer
  /\ \A a \in Live : issued[a] \notin InFlight \cup orphans
  /\ InFlight \cap orphans = {}

\* The parts of HashInv that a step establishes one by one.
LEMMA HashInvParts ==
  ASSUME \A s : s \in accepted' <=> \/ \E a \in Live' : issued'[a] = s
                                   \/ s \in InFlight' \/ s \in orphans',
         \A a, b \in Live' : issued'[a] = issued'[b] => a = b,
         Gone \notin accepted', InFlightDiffer',
         \A a \in Live' : issued'[a] \notin InFlight' \cup orphans',
         InFlight' \cap orphans' = {}
  PROVE  HashInv'
<1>1. accepted' = {issued'[a] : a \in Live'} \cup InFlight' \cup orphans' OBVIOUS
<1> QED BY <1>1 DEF HashInv, HashIsExact

LEMMA HashParts ==
  ASSUME HashInv
  PROVE  /\ \A s : s \in accepted <=> \/ \E a \in Live : issued[a] = s
                                    \/ s \in InFlight \/ s \in orphans
         /\ \A a, b \in Live : issued[a] = issued[b] => a = b
BY DEF HashInv, HashIsExact

LEMMA InitHash == ASSUME Init PROVE HashInv
<1>1. /\ accepted = {} /\ orphans = {} /\ DOMAIN issued = {}
      /\ \A t \in Threads : pc[t] = "idle"
  BY DEF Init, Stored!Init
<1>2. Live = {} /\ InFlight = {} BY <1>1 DEF Live, InFlight
<1> QED BY <1>1, <1>2 DEF HashInv, HashIsExact, InFlightDiffer

\* A push begins with a signature that nobody has.
LEMMA AcceptSignatureHash ==
  ASSUME HybridAssumption, HybridInv, HashInv, NEW t \in Threads, NEW sigma \in Signatures,
         AcceptSignature(t, sigma)
  PROVE  HashInv'
<1>1. /\ sigma \notin accepted /\ accepted' = accepted \cup {sigma}
      /\ pc[t] = "idle" /\ pc' = [pc EXCEPT ![t] = "record"]
      /\ call' = [call EXCEPT ![t].sigma = sigma] /\ UNCHANGED <<issued, orphans>>
  BY DEF AcceptSignature, Stored!Accept
<1>2. /\ pc \in [Threads -> {"idle", "record", "append"}]
      /\ call \in [Threads -> [sigma : SUBSET Nat, physical : Nat]]
  BY DEF HybridInv, TypesInv
<1>3. sigma # Gone BY DEF HybridAssumption, Gone
<1>4. Live' = Live BY <1>1 DEF Live
<1>5. /\ pc'[t] = "record" /\ call'[t].sigma = sigma
      /\ \A u \in Threads \ {t} : pc'[u] = pc[u] /\ call'[u] = call[u]
  BY <1>1, <1>2
<1>6. InFlight' = InFlight \cup {sigma} BY <1>1, <1>5 DEF InFlight
<1>7. InFlightDiffer'
  <2>1. \A u \in Threads : pc[u] # "idle" => call[u].sigma \in accepted
    BY HashParts DEF InFlight
  <2> QED BY <1>1, <1>5, <2>1 DEF HashInv, InFlightDiffer
<1>8. /\ \A a \in Live : issued[a] \in accepted
      /\ orphans \subseteq accepted
  BY HashParts
<1> QED BY <1>1, <1>3, <1>4, <1>6, <1>7, <1>8, HashParts, HashInvParts DEF HashInv

\* The record is stored: the signature stays under way.
LEMMA StoreRecordHash ==
  ASSUME HybridInv, HashInv, NEW t \in Threads, StoreRecord(t)
  PROVE  HashInv'
<1>1. /\ pc[t] = "record" /\ pc' = [pc EXCEPT ![t] = "append"]
      /\ UNCHANGED <<accepted, issued, orphans>>
  BY DEF StoreRecord, Stored!Record
<1>2. PICK p : call' = [call EXCEPT ![t].physical = p] BY DEF StoreRecord
<1>3. /\ pc \in [Threads -> {"idle", "record", "append"}]
      /\ call \in [Threads -> [sigma : SUBSET Nat, physical : Nat]]
  BY DEF HybridInv, TypesInv
<1>4. \A u \in Threads : call'[u].sigma = call[u].sigma /\ (pc'[u] # "idle" <=> pc[u] # "idle")
  BY <1>1, <1>2, <1>3
<1>5. Live' = Live BY <1>1 DEF Live
<1>6. InFlight' = InFlight BY <1>4 DEF InFlight
<1>7. InFlightDiffer' BY <1>4 DEF HashInv, InFlightDiffer
<1> QED BY <1>1, <1>5, <1>6, <1>7 DEF HashInv, HashIsExact

\* A push that ends takes its signature, and no other, out of those under way.
LEMMA EndPushInFlight ==
  ASSUME HybridInv, HashInv, NEW t \in Threads, pc[t] # "idle", EndPush(t)
  PROVE  /\ call[t].sigma \in InFlight
         /\ InFlight' = InFlight \ {call[t].sigma}
         /\ InFlightDiffer'
<1>1. /\ pc \in [Threads -> {"idle", "record", "append"}]
      /\ call \in [Threads -> [sigma : SUBSET Nat, physical : Nat]]
  BY DEF HybridInv, TypesInv
<1>2. /\ pc'[t] = "idle"
      /\ \A u \in Threads \ {t} : pc'[u] = pc[u] /\ call'[u] = call[u]
  BY <1>1 DEF EndPush
<1>3. \A u \in Threads \ {t} : pc[u] # "idle" => call[u].sigma # call[t].sigma
  BY DEF HashInv, InFlightDiffer
<1> QED BY <1>2, <1>3 DEF InFlight, InFlightDiffer, HashInv

LEMMA AppendStoredRecordHash ==
  ASSUME HybridInv, HashInv, NEW t \in Threads, AppendStoredRecord(t)
  PROVE  HashInv'
<1> DEFINE s == call[t].sigma
           n == routing.next
<1>1. /\ pc[t] # "idle" /\ EndPush(t) /\ issued' = Issue(n, s)
      /\ accepted' = accepted /\ orphans' = orphans
  BY DEF AppendStoredRecord, stored
<1>2. s \in InFlight /\ InFlight' = InFlight \ {s} /\ InFlightDiffer'
  BY <1>1, EndPushInFlight
<1>3. s \in accepted /\ s # Gone BY <1>2, HashParts DEF HashInv
<1>4. n \notin DOMAIN issued
  <2>1. n \in Nat BY RoutingTypes DEF HybridInv, TypesInv, RoutingInv
  <2> QED BY <2>1 DEF HybridInv, Faithful
<1>5. /\ DOMAIN issued' = DOMAIN issued \cup {n} /\ issued'[n] = s
      /\ \A a \in DOMAIN issued : issued'[a] = issued[a]
  BY <1>1, <1>4 DEF Issue
<1> HIDE DEF s, n
<1>6. Live' = Live \cup {n} BY <1>3, <1>5 DEF Live
<1>7. Live \subseteq DOMAIN issued BY DEF Live
<1> QED BY <1>1, <1>2, <1>3, <1>4, <1>5, <1>6, <1>7, HashParts, HashInvParts DEF HashInv

LEMMA PushThrowsHash ==
  ASSUME HybridInv, HashInv, NEW t \in Threads, AppendThrows(t) \/ StoreThrows(t)
  PROVE  HashInv'
<1> DEFINE s == call[t].sigma
<1>1. /\ pc[t] # "idle" /\ EndPush(t) /\ issued' = issued
      /\ accepted' = accepted /\ orphans' = orphans \cup {s}
  BY DEF AppendThrows, StoreThrows, stored
<1>2. s \in InFlight /\ InFlight' = InFlight \ {s} /\ InFlightDiffer'
  BY <1>1, EndPushInFlight
<1>3. Live' = Live BY <1>1 DEF Live
<1> HIDE DEF s
<1> QED BY <1>1, <1>2, <1>3, HashParts, HashInvParts DEF HashInv

\* A finite set whose image is as large as itself is mapped one to one.
LEMMA SameSizeIsInjective ==
  ASSUME NEW S, IsFiniteSet(S), NEW f \in [S -> SUBSET Nat],
         Cardinality({f[x] : x \in S}) = Cardinality(S)
  PROVE  \A x, y \in S : f[x] = f[y] => x = y
<1> DEFINE T == {f[x] : x \in S}
<1>1. f \in [S -> T] OBVIOUS
<1>2. f \in Surjection(S, T) BY <1>1 DEF Surjection
<1>3. f \in Injection(S, T) BY <1>2, FS_Surjection
<1> QED BY <1>3 DEF Injection, IsInjective

\* An engine's signatures are new, and one address leads to each.
LEMMA RegisterEngineHash ==
  ASSUME HybridAssumption, HybridInv, HashInv, NEW g \in Engines, NEW offset \in Offsets,
         NEW active \in SUBSET (0 .. Capacity[g] - 1), RegisterEngine(g, offset, active)
  PROVE  HashInv'
<1> DEFINE n == routing.next
           c == Capacity[g]
           S(l) == Translate(g, offset, LocalSigma[g][l])
<1>1. /\ EngineSignatures(g, offset, active) \cap accepted = {}
      /\ Cardinality(EngineSignatures(g, offset, active)) = Cardinality(active)
      /\ accepted' = accepted \cup EngineSignatures(g, offset, active)
      /\ issued' = [a \in DOMAIN issued \cup (n .. n + c - 1) |->
                      IF a < n THEN issued[a]
                      ELSE IF a - n \in active THEN S(a - n) ELSE Gone]
      /\ Idle /\ UNCHANGED <<orphans, pc, call>>
  BY DEF RegisterEngine, CanRegister
<1>2. n \in Nat /\ c \in Nat /\ offset \in Nat /\ NodeCount[g] \in Nat
  BY RoutingTypes DEF HybridInv, TypesInv, RoutingInv, HybridAssumption
<1>3. \A a \in DOMAIN issued : a \in Nat /\ a < n BY DEF HybridInv, Faithful
<1>4. \A l \in active : l \in 0 .. c - 1 /\ S(l) \in SUBSET Nat /\ S(l) # Gone
  <2> SUFFICES ASSUME NEW l \in active PROVE S(l) \in SUBSET Nat /\ S(l) # Gone
    OBVIOUS
  <2>1. LocalSigma[g][l] \in (SUBSET Nat) \ {{}} BY DEF HybridAssumption
  <2> QED BY <1>2, <2>1 DEF Translate, Gone
<1>5. \A k, l \in active : S(k) = S(l) => k = l
  <2> DEFINE f == [l \in active |-> S(l)]
  <2>1. f \in [active -> SUBSET Nat] BY <1>4
  <2>2. {f[l] : l \in active} = EngineSignatures(g, offset, active)
    BY DEF EngineSignatures
  <2>3. IsFiniteSet(active)
    <3>1. 0 \in Int /\ c - 1 \in Int BY <1>2
    <3>2. IsFiniteSet(0 .. c - 1) BY <3>1, FS_Interval
    <3> QED BY <3>2, FS_Subset
  <2>4. \A x, y \in active : f[x] = f[y] => x = y
    <3> HIDE DEF f
    <3> QED BY <1>1, <2>1, <2>2, <2>3, SameSizeIsInjective
  <2> QED BY <2>4
<1>6. \A s : s \in EngineSignatures(g, offset, active) <=> \E l \in active : s = S(l)
  BY DEF EngineSignatures
<1> HIDE DEF S, n, c
<1>7. /\ \A a \in DOMAIN issued : a \in DOMAIN issued' /\ issued'[a] = issued[a]
      /\ \A l \in active : n + l \in DOMAIN issued' /\ issued'[n + l] = S(l)
      /\ \A a \in DOMAIN issued' :
           \/ a \in DOMAIN issued
           \/ issued'[a] = Gone
           \/ \E l \in active : a = n + l
  <2>1. \A a \in DOMAIN issued : a \in DOMAIN issued' /\ issued'[a] = issued[a]
    BY <1>1, <1>3
  <2>2. ASSUME NEW l \in active PROVE n + l \in DOMAIN issued' /\ issued'[n + l] = S(l)
    <3>1. n + l \in n .. n + c - 1 /\ ~(n + l < n) /\ (n + l) - n = l
      BY <1>2, <1>4
    <3> QED BY <1>1, <3>1
  <2>3. ASSUME NEW a \in DOMAIN issued', a \notin DOMAIN issued
        PROVE  issued'[a] = Gone \/ \E l \in active : a = n + l
    <3>1. a \in n .. n + c - 1 BY <1>1, <2>3
    <3>2. CASE a - n \in active BY <1>2, <3>1, <3>2
    <3>3. CASE a - n \notin active BY <1>1, <1>2, <3>1, <3>3
    <3> QED BY <3>2, <3>3
  <2> QED BY <2>1, <2>2, <2>3
<1>8. \A a : a \in Live' <=> a \in Live \/ \E l \in active : a = n + l
  BY <1>4, <1>7 DEF Live
<1>9. InFlight = {} /\ InFlight' = {} BY <1>1 DEF InFlight, Idle
<1>10. InFlightDiffer' BY <1>1 DEF InFlightDiffer, Idle
<1>11. \A a \in Live : a \in DOMAIN issued /\ issued'[a] = issued[a] /\ issued[a] \in accepted
  BY <1>7, HashParts DEF Live
<1>12. \A s : s \in accepted' <=> \/ \E a \in Live' : issued'[a] = s
                                \/ s \in InFlight' \/ s \in orphans'
  <2> SUFFICES ASSUME NEW s
               PROVE  s \in accepted' <=> \/ \E a \in Live' : issued'[a] = s
                                         \/ s \in InFlight' \/ s \in orphans'
    OBVIOUS
  <2>1. s \in accepted' <=> s \in accepted \/ \E l \in active : s = S(l)
    BY <1>1, <1>6
  <2>2. s \in accepted <=> (\E a \in Live : issued[a] = s) \/ s \in orphans
    BY <1>9, HashParts
  <2>3. ASSUME NEW a \in Live', issued'[a] = s
        PROVE  (\E b \in Live : issued[b] = s) \/ (\E l \in active : s = S(l))
    BY <1>7, <1>8, <1>11, <2>3
  <2>4. ASSUME NEW a \in Live, issued[a] = s PROVE a \in Live' /\ issued'[a] = s
    BY <1>8, <1>11, <2>4
  <2>5. ASSUME NEW l \in active, s = S(l) PROVE n + l \in Live' /\ issued'[n + l] = s
    BY <1>7, <1>8, <2>5
  <2> QED BY <1>1, <1>9, <2>1, <2>2, <2>3, <2>4, <2>5
<1>13. \A a, b \in Live' : issued'[a] = issued'[b] => a = b
  <2>1. \A l \in active : S(l) \notin accepted BY <1>1, <1>6
  <2> SUFFICES ASSUME NEW a \in Live', NEW b \in Live', issued'[a] = issued'[b]
               PROVE  a = b
    OBVIOUS
  <2>2. CASE a \in Live /\ b \in Live BY <1>11, <2>2, HashParts
  <2>3. CASE a \in Live /\ b \notin Live BY <1>7, <1>8, <1>11, <2>1, <2>3
  <2>4. CASE a \notin Live /\ b \in Live BY <1>7, <1>8, <1>11, <2>1, <2>4
  <2>5. CASE a \notin Live /\ b \notin Live BY <1>5, <1>7, <1>8, <2>5
  <2> QED BY <2>2, <2>3, <2>4, <2>5
<1>14. Gone \notin accepted' BY <1>1, <1>4, <1>6 DEF HashInv
<1>15. \A a \in Live' : issued'[a] \notin InFlight' \cup orphans'
  <2>1. orphans \subseteq accepted BY HashParts
  <2>2. \A l \in active : S(l) \notin orphans BY <1>1, <1>6, <2>1
  <2>3. \A a \in Live : issued[a] \notin orphans BY DEF HashInv
  <2> SUFFICES ASSUME NEW a \in Live' PROVE issued'[a] \notin orphans
    BY <1>1, <1>9
  <2>4. CASE a \in Live BY <1>11, <2>3, <2>4
  <2>5. CASE \E l \in active : a = n + l BY <1>7, <2>2, <2>5
  <2> QED BY <1>8, <2>4, <2>5
<1> QED BY <1>9, <1>10, <1>12, <1>13, <1>14, <1>15, HashInvParts

\* A registration refused for a conflict leaves the hash as it was.
LEMMA RegisterConflictsHash ==
  ASSUME HashInv, NEW g \in Engines, NEW offset \in Offsets, NEW active,
         RegisterConflicts(g, offset, active)
  PROVE  HashInv'
<1>1. UNCHANGED <<issued, orphans, pc, call>> BY DEF RegisterConflicts
<1>2. PICK before : before \cap accepted = {} /\ accepted' = (accepted \cup before) \ before
  BY DEF RegisterConflicts, Reaches
<1>3. accepted' = accepted BY <1>2
<1> QED BY <1>1, <1>3 DEF HashInv, HashIsExact, Live, InFlight, InFlightDiffer

\* A registration that throws leaves at most the signature at which it threw.
LEMMA RegisterThrowsHash ==
  ASSUME HybridAssumption, HashInv, NEW g \in Engines, NEW offset \in Offsets,
         NEW active \in SUBSET (0 .. Capacity[g] - 1), RegisterThrows(g, offset, active)
  PROVE  HashInv'
<1>1. Idle /\ UNCHANGED <<issued, pc, call>>
  BY DEF RegisterThrows, CanRegister
<1> DEFINE before(l) == EnteredBefore(g, offset, active, l)
           sigma(l)  == Translate(g, offset, LocalSigma[g][l])
<1>2. PICK l \in active :
        /\ before(l) \cap accepted = {} /\ sigma(l) \notin accepted \cup before(l)
        /\ \E left \in {{}, {sigma(l)}} :
             /\ accepted' = (accepted \cup before(l) \cup left) \ before(l)
             /\ orphans' = orphans \cup left
  BY DEF RegisterThrows, Reaches
<1>3. sigma(l) # Gone
  <2>1. LocalSigma[g][l] \in (SUBSET Nat) \ {{}} BY DEF HybridAssumption
  <2> QED BY <2>1 DEF Translate, Gone
<1> HIDE DEF before, sigma
<1>4. PICK left \in {{}, {sigma(l)}} :
        /\ accepted' = (accepted \cup before(l) \cup left) \ before(l)
        /\ orphans' = orphans \cup left
  BY <1>2
<1>5. accepted' = accepted \cup left /\ left \cap accepted = {} BY <1>2, <1>4
<1>6. Gone \notin accepted' BY <1>3, <1>4, <1>5 DEF HashInv
<1>7. /\ Live' = Live /\ InFlight = {} /\ InFlight' = {} /\ InFlightDiffer'
  BY <1>1 DEF Live, InFlight, InFlightDiffer, Idle
<1>8. \A a \in Live : issued[a] \in accepted /\ issued[a] \notin orphans
  BY HashParts DEF HashInv
<1>9. \A s : s \in accepted' <=> (\E a \in Live : issued[a] = s) \/ s \in orphans'
  BY <1>4, <1>5, <1>7, HashParts
<1>10. \A a \in Live : issued[a] \notin orphans' BY <1>4, <1>5, <1>8
<1> QED BY <1>1, <1>6, <1>7, <1>9, <1>10, HashParts, HashInvParts

\* The signature that erase() takes out of the hash is the one of its address.
LEMMA EraseHash ==
  ASSUME HashInv, Idle, NEW a \in DOMAIN issued, NEW s, s = issued[a],
         accepted' = accepted \ {s}, issued' = [issued EXCEPT ![a] = Gone],
         UNCHANGED <<orphans, pc, call>>
  PROVE  HashInv'
<1>1. InFlight = {} /\ InFlight' = {} /\ InFlightDiffer' BY DEF InFlight, InFlightDiffer, Idle
<1>2. Live' = Live \ {a} /\ \A b \in Live \ {a} : issued'[b] = issued[b] BY DEF Live
<1>3. CASE a \in Live
  <2>1. \A b \in Live \ {a} : issued[b] # s BY <1>3, HashParts
  <2>2. s \notin orphans BY <1>3 DEF HashInv
  <2> QED BY <1>1, <1>2, <1>3, <2>1, <2>2, HashParts, HashInvParts DEF HashInv
<1>4. CASE a \notin Live
  <2>1. s = Gone BY <1>4 DEF Live
  <2>2. accepted' = accepted BY <2>1 DEF HashInv
  <2> QED BY <1>1, <1>2, <1>4, <2>2, HashParts, HashInvParts DEF HashInv
<1> QED BY <1>3, <1>4

LEMMA EraseStepHash ==
  ASSUME HybridInv, HashInv, NEW a \in DOMAIN issued, Erase(a)
  PROVE  HashInv'
<1>1. Idle /\ Read(a) = issued[a]
  BY FaithfulReads DEF Erase, HybridInv, TypesInv, AddressesAreFaithful
<1>2. CASE EraseStored(a)
  <2> DEFINE at == Resolve(routing, a)
  <2>1. /\ at.kind = "stored" /\ at.physical \in DOMAIN records
        /\ accepted' = accepted \ {records[at.physical]}
        /\ issued' = [issued EXCEPT ![a] = Gone] /\ UNCHANGED <<orphans, pc, call>>
    BY <1>2 DEF EraseStored, Stored!Remove
  <2>2. records[at.physical] = issued[a] BY <1>1, <2>1 DEF Read
  <2> HIDE DEF at
  <2> QED BY <1>1, <2>1, <2>2, EraseHash
<1>3. CASE EraseEngineVertex(a)
  <2> DEFINE at == Resolve(routing, a)
             s == EngineSigma(at.engine, at.local, at.offset)
  <2>1. /\ at.kind = "engine" /\ accepted' = accepted \ {s}
        /\ issued' = [issued EXCEPT ![a] = Gone] /\ UNCHANGED <<orphans, pc, call>>
    BY <1>3 DEF EraseEngineVertex
  <2>2. s = issued[a] BY <1>1, <2>1 DEF Read
  <2> HIDE DEF s
  <2> QED BY <1>1, <2>1, <2>2, EraseHash
<1> QED BY <1>2, <1>3 DEF Erase

LEMMA StepHash ==
  ASSUME HybridAssumption, HybridInv, HashInv, [Next]_vars
  PROVE  HashInv'
<1>1. CASE UNCHANGED vars
  BY <1>1 DEF vars, HashInv, HashIsExact, Live, InFlight, InFlightDiffer
<1>2. ASSUME NEW t \in Threads,
             \/ StoreRecord(t) \/ AppendStoredRecord(t) \/ AppendThrows(t) \/ StoreThrows(t)
             \/ \E sigma \in Signatures : AcceptSignature(t, sigma)
      PROVE  HashInv'
  BY <1>2, StoreRecordHash, AppendStoredRecordHash, PushThrowsHash, AcceptSignatureHash
<1>3. ASSUME NEW g \in Engines, NEW offset \in Offsets,
             NEW active \in SUBSET (0 .. Capacity[g] - 1),
             \/ RegisterEngine(g, offset, active)
             \/ RegisterConflicts(g, offset, active) \/ RegisterThrows(g, offset, active)
      PROVE  HashInv'
  BY <1>3, RegisterEngineHash, RegisterConflictsHash, RegisterThrowsHash
<1>4. ASSUME NEW a \in DOMAIN issued, Erase(a) PROVE HashInv'
  BY <1>4, EraseStepHash
<1>5. ASSUME \/ \E t \in Threads, sigma \in Signatures : KnownSignature(t, sigma)
             \/ \E a \in DOMAIN issued : ReadVertex(a)
      PROVE  UNCHANGED vars
  BY <1>5 DEF KnownSignature, ReadVertex
<1> QED BY <1>1, <1>2, <1>3, <1>4, <1>5 DEF Next

\* The hash knows exactly the signatures that some address leads to, that a push is
\* about to give one, or at which a push or a registration threw; one address only
\* leads to each, and none to the last kind (hybrid_database.hpp 219-251, 322-334).
\* This holds through every exception; a registration that conflicts leaves nothing,
\* one that runs out of memory at most the signature at which it did.
THEOREM HashStaysExact ==
  HybridAssumption => (Spec => []HashIsExact)
<1> SUFFICES ASSUME HybridAssumption PROVE Spec => []HashIsExact
  OBVIOUS
<1>1. Init => HybridInv /\ HashInv BY InitInv, InitHash
<1>2. HybridInv /\ HashInv /\ [Next]_vars => (HybridInv /\ HashInv)'
  BY StepInv, StepHash
<1>3. HashInv => HashIsExact BY DEF HashInv
<1> QED BY <1>1, <1>2, <1>3, PTL DEF Spec
=============================================================================
