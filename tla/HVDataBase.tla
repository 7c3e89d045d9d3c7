----------------------------- MODULE HVDataBase -----------------------------
(***************************************************************************)
(* HVDataBase, the append-only block store below every mesh, as several    *)
(* threads use it at once.  push() claims the signature in the hash,       *)
(* reserves a range of units with one fetch_add, makes room for it, and    *)
(* copies the record under a read lock; only growing the block vector      *)
(* takes the write lock.  Capacity is looked at without any lock.          *)
(*                                                                         *)
(* A unit holds one value; unit i of the record of k is <<k, i>>, its      *)
(* first one the length of sigma.  A fresh block is zeroed, and a record   *)
(* whose length is zero reads as deleted.                                  *)
(***************************************************************************)
EXTENDS Integers, Sequences, FiniteSets, SequencesExt

CONSTANTS
  Callers,                 \* the threads
  VertexKeys, FacetKeys,   \* the signatures of vertices and of unbounded edges
  SigmaUnits,              \* the units of each signature
  PointUnits,              \* the units of a point (dimension_)
  BlockLength,             \* unit_length
  MaxUnits,                \* bound: no push starts beyond this many units
  FailingAllocations       \* which calls of vector::resize may throw

Keys == VertexKeys \cup FacetKeys

ASSUME StoreAssumption ==
  /\ VertexKeys \cap FacetKeys = {}
  /\ SigmaUnits \in [Keys -> Nat \ {0}]
  /\ PointUnits \in Nat \ {0} /\ BlockLength \in Nat \ {0} /\ MaxUnits \in Nat
  /\ FailingAllocations \subseteq {"outer", "block"} /\ IsFiniteSet(Callers)

\* sigma length, sigma, r and, for an unbounded edge, u.
RecordUnits(k) == 1 + SigmaUnits[k] + PointUnits * (IF k \in FacetKeys THEN 2 ELSE 1)

Zero == <<>>
EmptyBlock == <<>>
ZeroBlock == [i \in 1 .. BlockLength |-> Zero]

VARIABLES
  keys,      \* the QueueHash
  data,      \* the blocks; a block is empty until it is sized
  capacity,  \* the atomic capacity counter
  top,       \* the atomic reservation counter
  written,   \* the addresses callers got, each with the signature they pushed
  line,      \* the tickets of the lock: who waits for it, and its writer
  at,        \* where each thread is
  copy       \* its call: signature, first unit, units done, units read

blockVars == <<keys, data, capacity, top, written, line, at, copy>>

NoCopy == [key |-> Zero, begin |-> 0, done |-> 0, got |-> <<>>]

BlockInit ==
  /\ keys = {}
  /\ data = <<>>
  /\ capacity = 0
  /\ top = 0
  /\ written = [a \in {} |-> a]
  /\ line = <<>>
  /\ at = [t \in Callers |-> "idle"]
  /\ copy = [t \in Callers |-> NoCopy]

Goto(t, from, to) == at[t] = from /\ at' = [at EXCEPT ![t] = to]

\* The ReadWriteLock of the block vector, as ReadWriteLock.tla shows it to be:
\* a reader is admitted when everybody who asked earlier has been, a writer
\* when nobody is inside either; a writer keeps its place until it leaves.
\* Were the read lock taken before ensure_capacity(), a grower would count itself.
InsideWhileGrowing == {t \in Callers : at[t] \in {"write", "read", "ensure", "askToGrow",
                                                  "waitToGrow"}}
Inside == {t \in Callers : at[t] \in {"write", "read"}}

Ask(t, before, waiting) == /\ Goto(t, before, waiting)
                           /\ line' = Append(line, t)
                           /\ UNCHANGED <<keys, data, capacity, top, written, copy>>
NextInLine(t) == line # <<>> /\ Head(line) = t
LeaveLine == line' = Tail(line)

BlockOf(p)  == (p \div BlockLength) + 1
OffsetOf(p) == (p % BlockLength) + 1
Unit(p)     == data[BlockOf(p)][OffsetOf(p)]

\* How much of a copy fits between position p and the end of p's block.
ChunkUnits(p, remaining) ==
  LET room == BlockLength - (p % BlockLength) IN IF remaining < room THEN remaining ELSE room

End(t) == copy[t].begin + RecordUnits(copy[t].key)
Blocks(units) == (units + BlockLength - 1) \div BlockLength
SizedBlocks == {i \in 1 .. Len(data) : data[i] # EmptyBlock}

-----------------------------------------------------------------------------
(* push and push_facet *)

\* A push that does not ask whether the signature is known.
ClaimAgain(t, k) ==
  /\ Goto(t, "idle", "reserve")
  /\ top + RecordUnits(k) <= MaxUnits
  /\ keys' = keys \cup {k}
  /\ copy' = [copy EXCEPT ![t].key = k]
  /\ UNCHANGED <<data, capacity, top, written, line>>

\* The signature is known: push() returns 0 and leaves no trace.
KeyIsKnown(t, k) == at[t] = "idle" /\ k \in keys /\ UNCHANGED blockVars

\* keys.pushqueue(sigma, true) inserts the signature.
ClaimKey(t, k) ==
  /\ Goto(t, "idle", "reserve")
  /\ top + RecordUnits(k) <= MaxUnits
  /\ k \notin keys
  /\ keys' = keys \cup {k}
  /\ copy' = [copy EXCEPT ![t].key = k]
  /\ UNCHANGED <<data, capacity, top, written, line>>

\* A reservation that forgets the unit of the length.
ReserveWithoutHeader(t) ==
  /\ Goto(t, "reserve", "ensure")
  /\ copy' = [copy EXCEPT ![t].begin = top]
  /\ top' = top + RecordUnits(copy[t].key) - 1
  /\ UNCHANGED <<keys, data, capacity, written, line>>

ReserveUnits(t) ==
  /\ Goto(t, "reserve", "ensure")
  /\ copy' = [copy EXCEPT ![t].begin = top]
  /\ top' = top + RecordUnits(copy[t].key)
  /\ UNCHANGED <<keys, data, capacity, written, line>>

\* The first, unlocked look at capacity.
CheckCapacity(t) ==
  /\ at[t] = "ensure"
  /\ at' = [at EXCEPT ![t] = IF capacity >= End(t) THEN "askToWrite" ELSE "askToGrow"]
  /\ UNCHANGED <<keys, data, capacity, top, written, line, copy>>

\* WriteGuard of ensure_capacity().
AskToGrow(t) == Ask(t, "askToGrow", "waitToGrow")

EnterGrow(t) ==
  /\ Goto(t, "waitToGrow", "recheck")
  /\ NextInLine(t) /\ Inside = {}
  /\ UNCHANGED <<keys, data, capacity, top, written, line, copy>>

\* The second look: another thread has grown the vector meanwhile.
CapacitySuffices(t) ==
  /\ Goto(t, "recheck", "askToWrite")
  /\ capacity >= End(t)
  /\ LeaveLine
  /\ UNCHANGED <<keys, data, capacity, top, written, copy>>

\* A growth that trusts the unlocked look.
GrowUnchecked(t) ==
  /\ Goto(t, "recheck", "grow")
  /\ data' = [i \in 1 .. Blocks(End(t)) |-> IF i <= Len(data) THEN data[i] ELSE EmptyBlock]
  /\ copy' = [copy EXCEPT ![t].done = Len(data)]
  /\ UNCHANGED <<keys, capacity, top, written, line>>

\* vector::resize of the outer vector, in either direction; new blocks are empty
\* vectors.  done is old_block_count, then the loop variable.
GrowVector(t) ==
  /\ Goto(t, "recheck", "grow")
  /\ capacity < End(t)
  /\ data' = [i \in 1 .. Blocks(End(t)) |-> IF i <= Len(data) THEN data[i] ELSE EmptyBlock]
  /\ copy' = [copy EXCEPT ![t].done = Len(data)]
  /\ UNCHANGED <<keys, capacity, top, written, line>>

SizeBlock(t) ==
  /\ at[t] = "grow"
  /\ copy[t].done < Blocks(End(t))
  /\ data' = [data EXCEPT ![copy[t].done + 1] = ZeroBlock]
  /\ copy' = [copy EXCEPT ![t].done = @ + 1]
  /\ UNCHANGED <<keys, capacity, top, written, line, at>>

\* capacity.store() and the end of the write lock.
FinishGrow(t) ==
  /\ Goto(t, "grow", "askToWrite")
  /\ copy[t].done >= Blocks(End(t))
  /\ capacity' = Blocks(End(t)) * BlockLength
  /\ copy' = [copy EXCEPT ![t].done = 0]
  /\ LeaveLine
  /\ UNCHANGED <<keys, data, top, written>>

\* bad_alloc, from the resize of the block vector (nothing has changed yet) or
\* from that of a block: the guard unlocks, and the exception leaves push().
Allocating(t, which) ==
  CASE which = "outer" -> at[t] = "recheck" /\ capacity < End(t)
    [] which = "block" -> at[t] = "grow" /\ copy[t].done < Blocks(End(t))

AllocationFails(t) ==
  /\ \E which \in FailingAllocations : Allocating(t, which)
  /\ at' = [at EXCEPT ![t] = "idle"]
  /\ copy' = [copy EXCEPT ![t] = NoCopy]
  /\ LeaveLine
  /\ UNCHANGED <<keys, data, capacity, top, written>>

\* ReadGuard of push().
AskToWrite(t) == Ask(t, "askToWrite", "waitToWrite")

\* A writer of units that does not queue behind a waiting grower.
EnterAtOnce(t) ==
  /\ Goto(t, "waitToWrite", "write")
  /\ \A u \in Callers : at[u] \notin {"recheck", "grow"}
  /\ line' = SelectSeq(line, LAMBDA u : u # t)
  /\ UNCHANGED <<keys, data, capacity, top, written, copy>>

EnterWrite(t) ==
  /\ Goto(t, "waitToWrite", "write")
  /\ NextInLine(t)
  /\ LeaveLine
  /\ UNCHANGED <<keys, data, capacity, top, written, copy>>

\* One memcpy of write_values.  The last one ends the call, which returns the
\* one-based address.
WriteChunk(t) ==
  LET k == copy[t].key
      p == copy[t].begin + copy[t].done
      n == ChunkUnits(p, RecordUnits(k) - copy[t].done)
      copied(i) == i - OffsetOf(p)   \* which unit of the chunk goes to i
  IN
  /\ at[t] = "write"
  /\ data' = [data EXCEPT ![BlockOf(p)] =
                [i \in DOMAIN @ |-> IF copied(i) \in 0 .. n - 1
                                    THEN <<k, copy[t].done + copied(i) + 1>> ELSE @[i]]]
  /\ IF copy[t].done + n = RecordUnits(k)
     THEN /\ at' = [at EXCEPT ![t] = "idle"]
          /\ copy' = [copy EXCEPT ![t] = NoCopy]
          /\ written' = [a \in DOMAIN written \cup {copy[t].begin + 1} |->
                          IF a = copy[t].begin + 1 THEN k ELSE written[a]]
     ELSE /\ copy' = [copy EXCEPT ![t].done = @ + n]
          /\ UNCHANGED <<at, written>>
  /\ UNCHANGED <<keys, capacity, top, line>>

-----------------------------------------------------------------------------
(* read and read_facet *)

\* A caller reads an address it got from a push, deleted or not.
AskToRead(t, a) ==
  /\ Goto(t, "idle", "waitToRead")
  /\ line' = Append(line, t)
  /\ copy' = [copy EXCEPT ![t].begin = a - 1]
  /\ UNCHANGED <<keys, data, capacity, top, written>>

EnterRead(t) ==
  /\ Goto(t, "waitToRead", "read")
  /\ NextInLine(t)
  /\ LeaveLine
  /\ UNCHANGED <<keys, data, capacity, top, written, copy>>

\* read_value of the length: a zero ends the call with an empty sigma.
ReadLength(t) ==
  LET header == Unit(copy[t].begin) IN
  /\ at[t] = "read"
  /\ copy[t].got = <<>>
  /\ copy' = [copy EXCEPT ![t].got = <<header>>,
                          ![t].key = IF header = Zero THEN Zero ELSE header[1]]
  /\ at' = [at EXCEPT ![t] = IF header = Zero THEN "answer" ELSE "read"]
  /\ UNCHANGED <<keys, data, capacity, top, written, line>>

\* One memcpy of read_values.
ReadChunk(t) ==
  LET size == Len(copy[t].got)
      p    == copy[t].begin + size
      n    == ChunkUnits(p, RecordUnits(copy[t].key) - size)
      got  == copy[t].got \o SubSeq(data[BlockOf(p)], OffsetOf(p), OffsetOf(p) + n - 1)
  IN
  /\ at[t] = "read"
  /\ copy[t].got # <<>>
  /\ copy' = [copy EXCEPT ![t].got = got]
  /\ at' = [at EXCEPT ![t] = IF size + n = RecordUnits(copy[t].key) THEN "answer" ELSE "read"]
  /\ UNCHANGED <<keys, data, capacity, top, written, line>>

ReturnRead(t) ==
  /\ Goto(t, "answer", "idle")
  /\ copy' = [copy EXCEPT ![t] = NoCopy]
  /\ UNCHANGED <<keys, data, capacity, top, written, line>>

-----------------------------------------------------------------------------
(* erase *)

\* The hash entry goes first, then the record's length is overwritten under a
\* read lock.  The library erases between parallel phases only.
EraseRecord(a) ==
  /\ \A t \in Callers : at[t] = "idle"
  /\ written[a] \in keys /\ Unit(a - 1) # Zero
  /\ keys' = keys \ {written[a]}
  /\ data' = [data EXCEPT ![BlockOf(a - 1)][OffsetOf(a - 1)] = Zero]
  /\ UNCHANGED <<capacity, top, written, line, at, copy>>

-----------------------------------------------------------------------------

\* What a thread does until its call is over.
Continue(t) ==
  \/ ReserveUnits(t) \/ CheckCapacity(t)
  \/ AskToGrow(t) \/ EnterGrow(t) \/ CapacitySuffices(t) \/ GrowVector(t)
  \/ SizeBlock(t) \/ FinishGrow(t) \/ AllocationFails(t)
  \/ AskToWrite(t) \/ EnterWrite(t) \/ WriteChunk(t)
  \/ EnterRead(t) \/ ReadLength(t) \/ ReadChunk(t) \/ ReturnRead(t)

BlockNext ==
  \/ \E t \in Callers : \/ Continue(t)
                        \/ \E k \in Keys : ClaimKey(t, k) \/ KeyIsKnown(t, k)
                        \/ \E a \in DOMAIN written : AskToRead(t, a)
  \/ \E a \in DOMAIN written : EraseRecord(a)

BlockSafetySpec == BlockInit /\ [][BlockNext]_blockVars

\* Every thread that is in a call is scheduled again.
BlockSpec == BlockSafetySpec /\ \A t \in Callers : WF_blockVars(Continue(t))

-----------------------------------------------------------------------------
(* Properties *)

\* "Number of units that must fit in data": when ensure_capacity() has returned,
\* the whole reserved range lies in blocks that exist and are sized, and it
\* stays there until the record is written (hvdatabase.hpp 396-442).
RangeFits ==
  \A t \in Callers : at[t] \in {"askToWrite", "waitToWrite", "write"} =>
    \A p \in copy[t].begin .. End(t) - 1 : BlockOf(p) \in SizedBlocks

\* A read returns the complete record that was pushed under the address, or the
\* empty signature when it was erased: never a part of it, nor of another one.
ReadsAreFaithful ==
  \A t \in Callers : at[t] = "answer" =>
    LET k == written[copy[t].begin + 1] IN
    IF Unit(copy[t].begin) = Zero THEN copy[t].got = <<Zero>>
    ELSE copy[t].got = [i \in 1 .. RecordUnits(k) |-> <<k, i>>]

\* The records a reader would find in the blocks: at an issued address whose
\* length is not zero, the signature all of whose units stand there.
Holds(a, k) == \A i \in 1 .. RecordUnits(k) : Unit(a + i - 2) = <<k, i>>
LiveRecords == {a \in DOMAIN written : Unit(a - 1) # Zero}
Decode(a) == IF \E k \in Keys : Holds(a, k) THEN CHOOSE k \in Keys : Holds(a, k) ELSE Zero

Store == INSTANCE SignatureStore WITH
  Addresses <- 0 .. MaxUnits * (Cardinality(Callers) + 1),
  accepted <- keys,
  records <- [a \in LiveRecords |-> Decode(a)],
  used <- DOMAIN written

\* Byte ranges, growth and the unlocked capacity look together implement the
\* plain store: one record per signature, under an address of its own, intact
\* until it is erased.
ImplementsSignatureStore == Store!Spec

\* The lock of this module is the lock that ReadWriteLock.tla implements.
LockPhase(t) ==
  CASE at[t] \in {"waitToRead", "waitToWrite"} -> "wantRead"
    [] at[t] = "waitToGrow" -> "wantWrite"
    [] at[t] \in {"read", "write"} -> "reading"
    [] at[t] \in {"recheck", "grow"} -> "writing"
    [] OTHER -> "out"

AheadInLine(t) ==
  {u \in Callers : \E i, j \in 1 .. Len(line) : i < j /\ line[i] = u /\ line[j] = t}

Lock == INSTANCE FairReadWriteLock WITH
  Threads <- Callers,
  phase <- [t \in Callers |-> LockPhase(t)],
  ahead <- [t \in Callers |-> AheadInLine(t)]
UsesTheFairLock == Lock!Spec

\* Every push and every read ends: neither growers nor readers starve, whatever
\* the other threads go on doing.
CallsEnd == \A t \in Callers : at[t] # "idle" ~> at[t] = "idle"
=============================================================================
