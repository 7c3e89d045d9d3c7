--------------------------- MODULE LogicalAddresses ---------------------------
(***************************************************************************)
(* The address space of HybridDataBase: one-based logical addresses, in    *)
(* segments that belong to stored records or to an engine's range.  A      *)
(* stored segment numbers slots of a table of physical addresses, and      *)
(* grows as long as its addresses and its slots continue one another.      *)
(* HybridNeighbourDatabase and the numeric databases route alike.          *)
(*                                                                         *)
(* A routing R is [next, segments, slots]; slots and segments count from   *)
(* one here.                                                               *)
(***************************************************************************)
EXTENDS Integers, Sequences

FreshRouting == [next |-> 1, segments |-> <<>>, slots |-> <<>>]

Unknown == [kind |-> "unknown"]

\* Whether slot may join the last segment at the address R.next.
Continues(R, slot) ==
  /\ R.segments # <<>>
  /\ LET last == R.segments[Len(R.segments)] IN
       /\ last.kind = "stored"
       /\ last.end = R.next
       /\ last.source + (last.end - last.begin) = slot

\* stored_physical_addresses_.push_back(), the first thing to happen.
TakeSlot(R, physical) ==
  [next |-> R.next, segments |-> R.segments, slots |-> Append(R.slots, physical)]

StoredSegment(address, slot) ==
  [begin |-> address, end |-> address + 1, kind |-> "stored", source |-> slot, offset |-> 0]

\* ++last.end.
Lengthened(s) == [begin |-> s.begin, end |-> s.end + 1, kind |-> s.kind,
                  source |-> s.source, offset |-> s.offset]

\* append_stored_record(); the record's logical address is R.next.
AppendRecord(R, physical) ==
  LET slot == Len(R.slots) + 1 IN
  [next     |-> R.next + 1,
   slots    |-> Append(R.slots, physical),
   segments |-> IF Continues(R, slot)
                THEN [R.segments EXCEPT ![Len(R.segments)] = Lengthened(@)]
                ELSE Append(R.segments, StoredSegment(R.next, slot))]

\* append_stored_record() whose segments_.push_back() throws: the slot and the
\* address stay taken, and nothing leads to them.
LoseRecord(R, physical) ==
  [next |-> R.next + 1, segments |-> R.segments, slots |-> Append(R.slots, physical)]

\* The end of register_engine(): an engine without vertices gets no segment.
AppendRange(R, capacity, engine, offset) ==
  IF capacity = 0 THEN R
  ELSE [next     |-> R.next + capacity,
        slots    |-> R.slots,
        segments |-> Append(R.segments, [begin |-> R.next, end |-> R.next + capacity,
                                         kind |-> "engine", source |-> engine,
                                         offset |-> offset])]

\* upper_bound() over the first addresses takes the wrong side of an equal one.
SegmentStrictlyBefore(R, a, i) ==
  /\ R.segments[i].begin < a
  /\ \A j \in i + 1 .. Len(R.segments) : R.segments[j].begin >= a

\* locate_segment_unlocked(): the segment before upper_bound().
SegmentBefore(R, a, i) ==
  /\ R.segments[i].begin <= a
  /\ \A j \in i + 1 .. Len(R.segments) : R.segments[j].begin > a

\* resolve_address().  Unknown stands for out_of_range.
Resolve(R, a) ==
  IF \E i \in 1 .. Len(R.segments) : SegmentBefore(R, a, i) /\ a < R.segments[i].end
  THEN LET s == R.segments[CHOOSE i \in 1 .. Len(R.segments) : SegmentBefore(R, a, i)] IN
       IF s.kind = "stored"
       THEN [kind |-> "stored", physical |-> R.slots[s.source + (a - s.begin)]]
       ELSE [kind |-> "engine", engine |-> s.source, local |-> a - s.begin,
             offset |-> s.offset]
  ELSE Unknown

Segment == [begin : Nat \ {0}, end : Nat, kind : {"stored", "engine"},
            source : Nat \ {0}, offset : Nat]
Routing == [next : Nat \ {0}, segments : Seq(Segment), slots : Seq(Nat)]

\* What every routing satisfies: the segments lie in the order of their
\* addresses without overlap, below next; a stored one stays within the slots,
\* and no two share a slot or an engine.
SegmentFits(R, s) ==
  /\ s.begin < s.end /\ s.end <= R.next
  /\ s.kind = "stored" => s.source + (s.end - s.begin) <= Len(R.slots) + 1

Precedes(s, u) ==
  /\ s.end <= u.begin
  /\ s.kind = "stored" /\ u.kind = "stored" => s.source + (s.end - s.begin) <= u.source
  /\ s.kind = "engine" /\ u.kind = "engine" => s.source # u.source

RoutingInv(R) ==
  /\ R \in Routing
  /\ \A i \in 1 .. Len(R.segments) : SegmentFits(R, R.segments[i])
  /\ \A i, j \in 1 .. Len(R.segments) : i < j => Precedes(R.segments[i], R.segments[j])
=============================================================================
