--------------------------- MODULE QueueHashTable2 ---------------------------
(***************************************************************************)
(* QueueHashTable_2, the default table of signatures: open addressing with *)
(* tombstones.  One writer at a time (writelock_) inserts or erases beside *)
(* any number of readers (lock_, shared); a rehash builds the new table    *)
(* under writelock_ alone and asks for lock_ exclusively only to swap it   *)
(* in.  Which inserter rehashes is settled by a counter, extending_.       *)
(***************************************************************************)
EXTENDS Fingerprints, FiniteSets

CONSTANTS
  InitialCapacity,
  Lengths,             \* the arguments of resize()
  Operations,          \* the operations called
  Calls,               \* bound: how many calls each thread makes
  FailingAllocations,  \* whether the vectors of a rehash may throw bad_alloc
  NoThread

\* next_power_of_two(n)
PowerOfTwoFor(n) == CHOOSE c \in {2 ^ e : e \in 0 .. n} : c >= n /\ (c = 1 \/ c \div 2 < n)

ASSUME TableAssumption ==
  /\ IsFiniteSet(Threads) /\ NoKey \notin Keys /\ NoThread \notin Threads
  /\ First \in [Keys -> Nat] /\ Step \in [Keys -> Nat]
  /\ InitialCapacity \in Nat \ {0} /\ Lengths \subseteq Nat /\ Calls \in [Threads -> Nat]
  /\ Operations \subseteq {"push", "contains", "erase", "clear", "resize"}
  /\ FailingAllocations \in BOOLEAN
  /\ \A n \in Lengths : PowerOfTwoFor(n) \in Nat \ {0}

\* The stride is odd: fnv1a_hash() shifts until it is, double_hash_index() sets the bit.
ASSUME StrideAssumption ==
  /\ \A k \in Keys : Step[k] % 2 = 1
  /\ InitialCapacity = PowerOfTwoFor(InitialCapacity)

VARIABLES
  capacity,   \* table_.size() = mask_ + 1
  table, occupied, deleted,   \* the slots' keys, the slots published, the tombstones
  count,      \* data_count_
  writer,     \* the thread in writelock_
  readers,    \* the threads in lock_ for reading
  swapper,    \* the thread that asked for lock_ exclusively or holds it
  extending,  \* extending_
  draft,      \* the new table of a rehash and the slots copied so far
  pc, frame,  \* where each thread is, and its local variables
  left        \* the calls each thread may still begin

storage == <<capacity, table, occupied, deleted>>
locks   == <<writer, readers, swapper>>
vars    == <<storage, count, locks, extending, draft, pc, frame, left>>

NoFrame == [op |-> "none", key |-> NoKey, length |-> 0,
            slot |-> 0,        \* probes made; in an insertion the slot written
            observed |-> 0,    \* observed_capacity
            outcome |-> "open"]
NoDraft == [capacity |-> 0, table |-> [s \in {} |-> NoKey], occupied |-> {}, copied |-> 0]

EmptyTable(c) == [s \in 0 .. c - 1 |-> NoKey]

Init == /\ capacity = InitialCapacity
        /\ table = EmptyTable(InitialCapacity) /\ occupied = {} /\ deleted = {}
        /\ count = 0
        /\ writer = NoThread /\ readers = {} /\ swapper = NoThread
        /\ extending = 0
        /\ draft = NoDraft
        /\ pc = [t \in Threads |-> "idle"]
        /\ frame = [t \in Threads |-> NoFrame]
        /\ left = Calls

Holds(s, k) == s \in occupied /\ s \notin deleted /\ table[s] = k
Live == occupied \ deleted
Members == {table[s] : s \in Live}

\* The probes at which the loop of a writer for k ends: no key was ever here, or k is.
Stops(k) == {i \in 0 .. capacity - 1 :
               LET s == Slot(k, i, capacity) IN s \notin occupied \/ Holds(s, k)}

FirstStop(k, i) == i \in Stops(k) /\ \A j \in Stops(k) : i <= j

Goto(t, from, to) == pc[t] = from /\ pc' = [pc EXCEPT ![t] = to]
Finds(t, outcome) == frame' = [frame EXCEPT ![t].outcome = outcome]

-----------------------------------------------------------------------------
(* The beginning and the end of a call *)

Call(t) ==
  /\ pc[t] = "idle" /\ left[t] > 0
  /\ left' = [left EXCEPT ![t] = @ - 1]
  /\ \E op \in Operations :
       /\ pc' = [pc EXCEPT ![t] = IF op = "contains" THEN "read" ELSE "write"]
       /\ \E k \in IF op \in {"clear", "resize"} THEN {NoKey} ELSE Keys,
             n \in IF op = "resize" THEN Lengths ELSE {0} :
            frame' = [frame EXCEPT ![t] = [NoFrame EXCEPT !.op = op, !.key = k, !.length = n]]
  /\ UNCHANGED <<storage, count, locks, extending, draft>>

\* The call returns, or its exception leaves it.
Return(t) ==
  /\ Goto(t, "return", "idle")
  /\ frame' = [frame EXCEPT ![t] = NoFrame]
  /\ UNCHANGED <<storage, count, locks, extending, draft, left>>

-----------------------------------------------------------------------------
(* contains(), and pushqueue() without write: one step for each probe.  The *)
(* two flags and the key of a slot are read one after the other; a slot    *)
(* once occupied stays so while a reader is inside, so the step stands at  *)
(* the read that decides.                                                  *)

JoinReaders(t, from, to) ==
  /\ Goto(t, from, to)
  /\ swapper = NoThread
  /\ readers' = readers \cup {t}

EnterRead(t) ==
  /\ JoinReaders(t, "read", "probe")
  /\ UNCHANGED <<storage, count, writer, swapper, extending, draft, frame, left>>

Probe(t) ==
  LET k == frame[t].key
      i == frame[t].slot
      s == Slot(k, i, capacity)
      last == i + 1 = capacity
      found == Holds(s, k)
      over == s \notin occupied \/ found \/ last
  IN /\ pc[t] = "probe"
     /\ pc' = [pc EXCEPT ![t] = IF over THEN "leave" ELSE "probe"]
     /\ frame' = [frame EXCEPT ![t].slot = IF over THEN 0 ELSE i + 1,
                               ![t].outcome = IF found THEN "present"
                                              ELSE IF over THEN "absent" ELSE "open"]
     /\ UNCHANGED <<storage, count, locks, extending, draft, left>>

-----------------------------------------------------------------------------
(* pushqueue() and erase(): the writers' lock, then the shared lock *)

EnterWrite(t) ==
  /\ pc[t] = "write" /\ writer = NoThread
  /\ writer' = t
  /\ pc' = [pc EXCEPT ![t] = CASE frame[t].op = "clear" -> "gate"
                               [] frame[t].op = "resize" -> "plan"
                               [] OTHER -> "join"]
  /\ UNCHANGED <<storage, count, readers, swapper, extending, draft, frame, left>>

Join(t) ==
  /\ JoinReaders(t, "join", "search")
  /\ frame' = [frame EXCEPT ![t].observed = IF frame[t].op = "push" THEN capacity ELSE 0]
  /\ UNCHANGED <<storage, count, writer, swapper, extending, draft, left>>

\* The loop of insert_once_unlocked() or erase_unlocked() ends without a change: no slot
\* is left on the chain, the key is here, or there is nothing to erase.
EndSearch(t) ==
  LET k == frame[t].key
      push == frame[t].op = "push"
  IN /\ Goto(t, "search", "unlock")
     /\ \/ Stops(k) = {} /\ Finds(t, IF push THEN "full" ELSE "absent")
        \/ \E i \in Stops(k) : /\ FirstStop(k, i)
                               /\ push <=> Holds(Slot(k, i, capacity), k)
                               /\ Finds(t, IF push THEN "present" ELSE "absent")
     /\ UNCHANGED <<storage, count, locks, extending, draft, left>>

\* An insertion that reuses the first tombstone before it knows that the key is nowhere else.
ReuseTombstone(t) ==
  LET k == frame[t].key
      At(i) == Slot(k, i, capacity)
  IN /\ Goto(t, "search", "publish")
     /\ frame[t].op = "push"
     /\ \E i \in 0 .. capacity - 1 :
          /\ At(i) \notin Live
          /\ \A j \in 0 .. i - 1 : At(j) \in Live /\ ~Holds(At(j), k)
          /\ table' = [table EXCEPT ![At(i)] = k]
          /\ deleted' = deleted \ {At(i)}
          /\ frame' = [frame EXCEPT ![t].slot = At(i)]
     /\ UNCHANGED <<capacity, occupied, count, locks, extending, draft, left>>

\* The payload goes into the free slot that ends the chain, not yet visible.
WritePayload(t) ==
  LET k == frame[t].key
  IN /\ Goto(t, "search", "publish")
     /\ frame[t].op = "push"
     /\ \E i \in Stops(k) :
          LET s == Slot(k, i, capacity)
          IN /\ FirstStop(k, i) /\ s \notin occupied
             /\ table' = [table EXCEPT ![s] = k]
             /\ deleted' = deleted \ {s}
             /\ frame' = [frame EXCEPT ![t].slot = s]
     /\ UNCHANGED <<capacity, occupied, count, locks, extending, draft, left>>

Publish(t) ==
  /\ Goto(t, "publish", "count")
  /\ occupied' = occupied \cup {frame[t].slot}
  /\ frame' = [frame EXCEPT ![t].outcome = "inserted", ![t].slot = 0]
  /\ UNCHANGED <<capacity, table, deleted, count, locks, extending, draft, left>>

MarkDeleted(t) ==
  LET k == frame[t].key
  IN /\ Goto(t, "search", "count")
     /\ frame[t].op = "erase"
     /\ \E i \in Stops(k) :
          LET s == Slot(k, i, capacity)
          IN FirstStop(k, i) /\ Holds(s, k) /\ deleted' = deleted \cup {s}
     /\ Finds(t, "erased")
     /\ UNCHANGED <<capacity, table, occupied, count, locks, extending, draft, left>>

Count(t) ==
  /\ Goto(t, "count", "unlock")
  /\ count' = IF frame[t].op = "push" THEN count + 1 ELSE count - 1
  /\ UNCHANGED <<storage, locks, extending, draft, frame, left>>

UnlockWriter(t) ==
  /\ Goto(t, "unlock", "leave")
  /\ writer' = NoThread
  /\ UNCHANGED <<storage, count, readers, swapper, extending, draft, frame, left>>

LeaveReaders(t) ==
  /\ pc[t] = "leave"
  /\ readers' = readers \ {t}
  /\ pc' = [pc EXCEPT ![t] = CASE frame[t].outcome = "inserted" -> "load"
                               [] frame[t].outcome = "full" -> "elect"
                               [] OTHER -> "return"]
  /\ UNCHANGED <<storage, count, writer, swapper, extending, draft, frame, left>>

-----------------------------------------------------------------------------
(* maybe_extend() after an insertion, force_rehash() after "full" *)

CheckLoad(t) ==
  /\ pc[t] = "load"
  /\ pc' = [pc EXCEPT ![t] = IF count <= frame[t].observed \div 2 THEN "return" ELSE "elect"]
  /\ UNCHANGED <<storage, count, locks, extending, draft, frame, left>>

\* extending_.fetch_add(1): the one that found zero rehashes.
Elect(t) ==
  /\ pc[t] = "elect"
  /\ extending' = extending + 1
  /\ pc' = [pc EXCEPT ![t] = IF extending > 0 THEN "concede" ELSE "extend"]
  /\ UNCHANGED <<storage, count, locks, draft, frame, left>>

Concede(t) ==
  /\ pc[t] = "concede"
  /\ extending' = extending - 1
  /\ pc' = [pc EXCEPT ![t] = IF frame[t].outcome = "full" THEN "await" ELSE "return"]
  /\ UNCHANGED <<storage, count, locks, draft, frame, left>>

Retry(t, from) ==
  /\ Goto(t, from, "write")
  /\ frame' = [frame EXCEPT ![t].outcome = "open", ![t].observed = 0]

Await(t) ==
  /\ Retry(t, "await")
  /\ extending = 0
  /\ UNCHANGED <<storage, count, locks, extending, draft, left>>

EnterExtend(t) ==
  /\ Goto(t, "extend", "plan")
  /\ writer = NoThread
  /\ writer' = t
  /\ UNCHANGED <<storage, count, readers, swapper, extending, draft, frame, left>>

\* The look under writelock_: an extension may have become needless, a forced
\* rehash never is.
Needed(t) == CASE frame[t].op = "resize" -> PowerOfTwoFor(frame[t].length) > capacity
               [] frame[t].outcome = "inserted" -> count > capacity \div 2
               [] frame[t].outcome = "full" -> TRUE

Target(t) == IF frame[t].op = "resize" THEN PowerOfTwoFor(frame[t].length)
             ELSE IF count > capacity \div 2 THEN 2 * capacity ELSE capacity

SkipRehash(t) ==
  /\ Goto(t, "plan", "finish")
  /\ ~Needed(t)
  /\ Finds(t, IF frame[t].op = "resize" THEN "resized" ELSE frame[t].outcome)
  /\ UNCHANGED <<storage, count, locks, extending, draft, left>>

BeginRehash(t) ==
  /\ Goto(t, "plan", "copy")
  /\ Needed(t)
  /\ draft' = [capacity |-> Target(t), table |-> EmptyTable(Target(t)),
               occupied |-> {}, copied |-> 0]
  /\ UNCHANGED <<storage, count, locks, extending, frame, left>>

\* What the exception leaves in the table.  An insertion not yet done and a resize
\* fail.  An insertion that is done stays done: the call takes effect though its
\* caller gets the exception instead of the answer.  What callers make of that is
\* in their modules (StoreThrows and RegisterThrows of HybridDataBase).
GiveUp(t) == Finds(t, IF frame[t].outcome = "inserted" THEN "inserted" ELSE "failed")

\* bad_alloc from one of the three vectors of the new table.
AllocationFails(t) ==
  /\ FailingAllocations
  /\ Goto(t, "plan", "finish")
  /\ Needed(t)
  /\ GiveUp(t)
  /\ UNCHANGED <<storage, count, locks, extending, draft, left>>

\* Where insert_rehashed() may put k; were there no such probe, the logic_error of the
\* code, which has no action here, the thread would be stuck.
FreeProbes(k) == {i \in 0 .. draft.capacity - 1 :
                    Slot(k, i, draft.capacity) \notin draft.occupied}

SkipSlot(t) ==
  /\ pc[t] = "copy" /\ draft.copied < capacity /\ draft.copied \notin Live
  /\ draft' = [draft EXCEPT !.copied = @ + 1]
  /\ UNCHANGED <<storage, count, locks, extending, pc, frame, left>>

CopySlot(t) ==
  LET k == table[draft.copied]
  IN /\ pc[t] = "copy" /\ draft.copied < capacity /\ draft.copied \in Live
     /\ \E i \in FreeProbes(k) :
          LET s == Slot(k, i, draft.capacity)
          IN /\ \A j \in FreeProbes(k) : i <= j
             /\ draft' = [draft EXCEPT !.table[s] = k, !.occupied = @ \cup {s},
                                       !.copied = @ + 1]
     /\ UNCHANGED <<storage, count, locks, extending, pc, frame, left>>

\* lock_.writelock(): later readers queue behind the request.
AskExclusive(t) ==
  /\ \/ Goto(t, "copy", "swap") /\ draft.copied = capacity
     \/ Goto(t, "gate", "clear")
  /\ swapper' = t
  /\ UNCHANGED <<storage, count, writer, readers, extending, draft, frame, left>>

\* A swap that asks for the lock and does not wait for the readers inside.
SwapBesideReaders(t) ==
  /\ Goto(t, "swap", "finish")
  /\ capacity' = draft.capacity /\ table' = draft.table
  /\ occupied' = draft.occupied /\ deleted' = {}
  /\ draft' = NoDraft
  /\ swapper' = NoThread
  /\ Finds(t, IF frame[t].op = "resize" THEN "resized" ELSE frame[t].outcome)
  /\ UNCHANGED <<count, writer, readers, extending, left>>

\* The swap and writeunlock(): nobody else looks at the table in between.
Swap(t) ==
  /\ Goto(t, "swap", "finish")
  /\ readers = {}
  /\ capacity' = draft.capacity /\ table' = draft.table
  /\ occupied' = draft.occupied /\ deleted' = {}
  /\ draft' = NoDraft
  /\ swapper' = NoThread
  /\ Finds(t, IF frame[t].op = "resize" THEN "resized" ELSE frame[t].outcome)
  /\ UNCHANGED <<count, writer, readers, extending, left>>

\* A clear that resets the flags only.
ClearFlagsOnly(t) ==
  /\ Goto(t, "clear", "finish")
  /\ readers = {}
  /\ occupied' = {} /\ deleted' = {}
  /\ swapper' = NoThread
  /\ Finds(t, "cleared")
  /\ UNCHANGED <<capacity, table, count, writer, readers, extending, draft, left>>

Clear(t) ==
  /\ Goto(t, "clear", "finish")
  /\ readers = {}
  /\ occupied' = {} /\ deleted' = {} /\ count' = 0
  /\ swapper' = NoThread
  /\ Finds(t, "cleared")
  /\ UNCHANGED <<capacity, table, writer, readers, extending, draft, left>>

\* An exception that leaves without the fetch_sub.
FinishWithoutResigning(t) ==
  /\ pc[t] = "finish"
  /\ writer' = NoThread
  /\ pc' = [pc EXCEPT ![t] = IF frame[t].op = "push" /\ frame[t].outcome # "failed"
                             THEN "resign" ELSE "return"]
  /\ UNCHANGED <<storage, count, readers, swapper, extending, draft, frame, left>>

\* writelock_.writeunlock()
Finish(t) ==
  /\ pc[t] = "finish"
  /\ writer' = NoThread
  /\ pc' = [pc EXCEPT ![t] = IF frame[t].op = "push" THEN "resign" ELSE "return"]
  /\ UNCHANGED <<storage, count, readers, swapper, extending, draft, frame, left>>

\* A loop that extends until the load fits the capacity the call saw, which stays the old one.
ResignAndLookAgain(t) ==
  /\ extending' = extending - 1
  /\ \/ Retry(t, "resign") /\ frame[t].outcome = "full"
     \/ Goto(t, "resign", "load") /\ frame[t].outcome = "inserted" /\ UNCHANGED frame
     \/ Goto(t, "resign", "return") /\ frame[t].outcome = "failed" /\ UNCHANGED frame
  /\ UNCHANGED <<storage, count, locks, draft, left>>

\* extending_.fetch_sub(1); then pushqueue() returns, throws, or tries again.
Resign(t) ==
  /\ extending' = extending - 1
  /\ \/ Retry(t, "resign") /\ frame[t].outcome = "full"
     \/ Goto(t, "resign", "return") /\ frame[t].outcome # "full" /\ UNCHANGED frame
  /\ UNCHANGED <<storage, count, locks, draft, left>>

-----------------------------------------------------------------------------
Reads(t)   == EnterRead(t) \/ Probe(t)
Writes(t)  == \/ EnterWrite(t) \/ Join(t) \/ EndSearch(t) \/ WritePayload(t) \/ Publish(t)
              \/ MarkDeleted(t) \/ Count(t) \/ UnlockWriter(t)
              \/ LeaveReaders(t)
Rehash(t)  == \/ CheckLoad(t) \/ Elect(t) \/ Concede(t) \/ Await(t) \/ EnterExtend(t)
              \/ SkipRehash(t) \/ BeginRehash(t) \/ AllocationFails(t) \/ SkipSlot(t) \/ CopySlot(t)
              \/ AskExclusive(t) \/ Swap(t) \/ Clear(t) \/ Finish(t) \/ Resign(t)
Advance(t) == Reads(t) \/ Writes(t) \/ Rehash(t) \/ Return(t)

\* Every call has been made and has returned.
AllDone == \A t \in Threads : pc[t] = "idle" /\ left[t] = 0
Ended == AllDone /\ UNCHANGED vars

Next == (\E t \in Threads : Call(t) \/ Advance(t)) \/ Ended

\* Threads keep running inside a call; each may be preempted, none is stopped.
Fairness == \A t \in Threads : WF_vars(Advance(t))
Spec == Init /\ [][Next]_vars /\ Fairness

-----------------------------------------------------------------------------
Outcomes == {"open", "present", "absent", "inserted", "full", "erased", "cleared",
             "resized", "failed"}

\* The ranges of the variables: the slots lie in the table, the draft's in the draft,
\* and a rehash neither loses count nor leaves a lock to nobody.
TypeOK ==
  /\ capacity \in Nat \ {0}
  /\ table \in [0 .. capacity - 1 -> Keys \cup {NoKey}]
  /\ occupied \subseteq 0 .. capacity - 1 /\ deleted \subseteq occupied
  /\ count \in Nat
  /\ writer \in Threads \cup {NoThread} /\ readers \subseteq Threads
  /\ swapper \in {NoThread, writer}
  /\ extending \in Nat
  /\ draft.table \in [0 .. draft.capacity - 1 -> Keys \cup {NoKey}]
  /\ draft.occupied \subseteq 0 .. draft.capacity - 1 /\ draft.copied \in 0 .. capacity
  /\ \A t \in Threads : /\ frame[t].key \in Keys \cup {NoKey}
                        /\ frame[t].outcome \in Outcomes
                        /\ frame[t].slot \in 0 .. capacity - 1
                        /\ frame[t].observed \in Nat /\ frame[t].length \in Nat
                        /\ left[t] \in 0 .. Calls[t]

\* The probe chain of k leads to slot s over occupied slots.
Reachable(k, s, occ, c) == \E i \in 0 .. c - 1 : /\ Slot(k, i, c) = s
                                                /\ \A j \in 0 .. i - 1 : Slot(k, j, c) \in occ

\* Every key that was inserted and not erased since has one slot, and its probe chain
\* leads there: tombstones, growth and publication never break a chain.
KeysAreFindable ==
  /\ \A s \in Live : Reachable(table[s], s, occupied, capacity)
  /\ \A r, s \in Live : table[r] = table[s] => r = s

\* data_count_ is the number of keys whenever no writer is at work; the decisions to
\* extend and to double rest on it.
SizeIsExact == writer = NoThread => count = Cardinality(Members)

Elected(t)  == frame[t].op = "push" /\ pc[t] \in {"extend", "plan", "copy", "swap", "finish",
                                                  "resign"}

\* extending_ counts the threads between their fetch_add and fetch_sub, exceptions
\* included, and at most one of them was elected: "Only one thread performs the extension".
ElectionIsSound ==
  /\ extending = Cardinality({t \in Threads : Elected(t) \/ pc[t] = "concede"})
  /\ \A t, u \in Threads : Elected(t) /\ Elected(u) => t = u

\* Every call comes to its end: no insertion retries for ever, no rehash waits for ever.
CallsEnd == \A t \in Threads : pc[t] # "idle" ~> pc[t] = "idle"

Answered(outcome) == CASE outcome \in {"present", "erased", "cleared", "resized"} -> "yes"
                       [] outcome \in {"absent", "inserted"} -> "no"
                       [] outcome \in {"open", "full", "failed"} -> "open"

\* The call each thread is in, as its caller sees it.
OpenCalls == [t \in Threads |->
                IF pc[t] = "idle" THEN [op |-> "none", key |-> NoKey, answer |-> "none"]
                ELSE [op |-> frame[t].op, key |-> frame[t].key,
                      answer |-> Answered(frame[t].outcome)]]

Set == INSTANCE AtomicSet WITH members <- Members, calls <- OpenCalls

\* The table is linearizable: calls that overlap each other and a rehash answer as if
\* each took place at one instant, on one set.
ImplementsAtomicSet == Set!Spec
=============================================================================
