--------------------------- MODULE ReadWriteLock ---------------------------
(***************************************************************************)
(* detail::ReadWriteLock of core/detail/locks.hpp, the ticket lock below   *)
(* every shared structure of the library, at the granularity of its atomic *)
(* operations: a thread can be preempted between any two accesses to       *)
(* head_, tail_ and reads_count_.  ReadToWriteLockGuard, which gives up a  *)
(* read lock before it asks for the write lock, is part of the model.      *)
(*                                                                         *)
(* The three counters are std::uint64_t and wrap; here they count modulo   *)
(* Width, so no bound on the number of requests is needed.                 *)
(***************************************************************************)
EXTENDS Integers, FiniteSets

CONSTANTS
  Threads,    \* the threads that use one lock object
  Width       \* the number of values of a counter (2^64 in the code)

\* A counter can tell all outstanding tickets apart.
ASSUME CounterAssumption == /\ IsFiniteSet(Threads)
                            /\ Width \in Nat
                            /\ Cardinality(Threads) < Width

VARIABLES
  head,      \* head_: the ticket that is being served
  tail,      \* tail_: the next ticket
  reads,     \* reads_count_: the number of admitted readers
  ticket,    \* my_ticket of each thread's running acquisition
  nested,    \* nested[t]: t's write lock belongs to a ReadToWriteLockGuard
  pc         \* where each thread is

vars == <<head, tail, reads, ticket, nested, pc>>

Counter == 0 .. Width - 1

\* A counter that does not wrap.
SuccPastTheEnd(n) == n + 1

\* fetch_add(1) and fetch_sub(1) on an unsigned counter.
Succ(n) == IF n = Width - 1 THEN 0 ELSE n + 1
Pred(n) == IF n = 0 THEN Width - 1 ELSE n - 1

ReaderPCs == {"rwait", "rcount", "radvance", "reading"}
WriterPCs == {"wwait", "wcheck", "writing"}
\* "upgrading" and "downgrading" are the two instants of ReadToWriteLockGuard
\* at which the thread holds neither lock.
PCs == {"idle", "upgrading", "downgrading"} \cup ReaderPCs \cup WriterPCs

TypeOK == /\ head \in Counter
          /\ tail \in Counter
          /\ reads \in Counter
          /\ ticket \in [Threads -> Counter]
          /\ nested \in [Threads -> BOOLEAN]
          /\ pc \in [Threads -> PCs]

Init == /\ head = 0
        /\ tail = 0
        /\ reads = 0
        /\ ticket = [t \in Threads |-> 0]
        /\ nested = [t \in Threads |-> FALSE]
        /\ pc = [t \in Threads |-> "idle"]

Goto(t, from, to) == /\ pc[t] = from
                     /\ pc' = [pc EXCEPT ![t] = to]

TakeTicket(t) == /\ ticket' = [ticket EXCEPT ![t] = tail]
                 /\ tail' = Succ(tail)

\* my_ticket is a local variable.  A writer's is kept until it leaves, as the
\* name of the place in the queue it still holds.
Discard(t) == ticket' = [ticket EXCEPT ![t] = 0]

-----------------------------------------------------------------------------
(* readlock, readunlock *)

\* readlock() is called by a thread outside the lock or by the destructor of
\* ReadToWriteLockGuard.
RequestRead(t) ==
  /\ pc[t] \in {"idle", "downgrading"}
  /\ pc' = [pc EXCEPT ![t] = "rwait"]
  /\ TakeTicket(t)
  /\ UNCHANGED <<head, reads, nested>>

\* A reader that follows another reader in without its own turn.
ReaderSkipsLine(t) ==
  /\ Goto(t, "rwait", "rcount")
  /\ head = ticket[t] \/ reads > 0
  /\ UNCHANGED <<head, tail, reads, ticket, nested>>

ReaderSeesHead(t) ==
  /\ Goto(t, "rwait", "rcount")
  /\ head = ticket[t]
  /\ UNCHANGED <<head, tail, reads, ticket, nested>>

\* A reader that lets its successors in before it is counted.
AdvanceBeforeCounting(t) ==
  /\ Goto(t, "rcount", "radvance")
  /\ head' = Succ(head)
  /\ UNCHANGED <<tail, reads, ticket, nested>>

CountReader(t) ==
  /\ Goto(t, "rcount", "radvance")
  /\ reads' = Succ(reads)
  /\ UNCHANGED <<head, tail, ticket, nested>>

\* A reader that keeps its place in the queue, as a writer does.
AdmitWithoutAdvance(t) ==
  /\ Goto(t, "radvance", "reading")
  /\ UNCHANGED <<head, tail, reads, ticket, nested>>

AdvanceReader(t) ==
  /\ Goto(t, "radvance", "reading")
  /\ head' = Succ(head)
  /\ Discard(t)
  /\ UNCHANGED <<tail, reads, nested>>

ReadUnlock(t) ==
  /\ Goto(t, "reading", "idle")
  /\ reads' = Pred(reads)
  /\ UNCHANGED <<head, tail, ticket, nested>>

-----------------------------------------------------------------------------
(* writelock, writeunlock, and the guard that turns a read lock into one *)

\* An upgrade in place: the reader stays counted while it waits to write.
UpgradeInPlace(t) ==
  /\ Goto(t, "reading", "upgrading")
  /\ UNCHANGED <<head, tail, reads, ticket, nested>>

BeginUpgrade(t) ==
  /\ Goto(t, "reading", "upgrading")
  /\ reads' = Pred(reads)
  /\ UNCHANGED <<head, tail, ticket, nested>>

RequestWrite(t) ==
  /\ pc[t] \in {"idle", "upgrading"}
  /\ pc' = [pc EXCEPT ![t] = "wwait"]
  /\ nested' = [nested EXCEPT ![t] = pc[t] = "upgrading"]
  /\ TakeTicket(t)
  /\ UNCHANGED <<head, reads>>

WriterSeesHead(t) ==
  /\ Goto(t, "wwait", "wcheck")
  /\ head = ticket[t]
  /\ UNCHANGED <<head, tail, reads, ticket, nested>>

\* A writer that does not wait for the readers ahead of it.
IgnoreReaders(t) ==
  /\ Goto(t, "wcheck", "writing")
  /\ UNCHANGED <<head, tail, reads, ticket, nested>>

\* The second operand of the spin condition: with a reader inside, the
\* condition is evaluated again from head_.
CheckReaders(t) ==
  /\ pc[t] = "wcheck"
  /\ pc' = [pc EXCEPT ![t] = IF reads = 0 THEN "writing" ELSE "wwait"]
  /\ UNCHANGED <<head, tail, reads, ticket, nested>>

WriteUnlock(t) ==
  /\ pc[t] = "writing"
  /\ pc' = [pc EXCEPT ![t] = IF nested[t] THEN "downgrading" ELSE "idle"]
  /\ head' = Succ(head)
  /\ nested' = [nested EXCEPT ![t] = FALSE]
  /\ Discard(t)
  /\ UNCHANGED <<tail, reads>>

-----------------------------------------------------------------------------

\* What a thread does without being asked again: the spin loops, the release
\* of the RAII guards, and the second half of both guard transitions.
Continue(t) ==
  \/ ReaderSeesHead(t)
  \/ CountReader(t)
  \/ AdvanceReader(t)
  \/ ReadUnlock(t)
  \/ WriterSeesHead(t)
  \/ CheckReaders(t)
  \/ WriteUnlock(t)
  \/ pc[t] = "upgrading" /\ RequestWrite(t)
  \/ pc[t] = "downgrading" /\ RequestRead(t)

Next == \E t \in Threads : Continue(t) \/ RequestRead(t) \/ RequestWrite(t)
                             \/ BeginUpgrade(t)

SafetySpec == Init /\ [][Next]_vars

\* Every thread is scheduled again, and a guard's scope ends: the critical
\* sections of the library are short and contain no wait of their own.  Asking
\* for the lock, and asking for an upgrade, need no fairness.
Spec == SafetySpec /\ \A t \in Threads : WF_vars(Continue(t))

-----------------------------------------------------------------------------
(* Properties *)

\* How many tickets are served before ticket n, on the circle of counters.
Dist(n) == IF n >= head THEN n - head ELSE n + Width - head

Queued(t) == pc[t] \in {"rwait", "rcount", "radvance"} \cup WriterPCs
Reading(t) == pc[t] = "reading"
Writing(t) == pc[t] = "writing"

\* While a writer is inside, no other thread reads or writes: not even a
\* reader between its admission and its head_ increment (locks.hpp 171-172).
WriterIsAlone ==
  \A t, u \in Threads :
    Writing(t) /\ u # t => pc[u] \notin {"rcount", "radvance", "reading", "writing"}

\* reads_count_ is the number of readers that were counted and did not leave:
\* a count that drifts would let a writer in early or lock it out for ever.
CountedReaders == {t \in Threads : pc[t] \in {"radvance", "reading"}}
ReadCountIsExact == reads = Cardinality(CountedReaders)

\* Why the two properties above hold, as one inductive invariant: the tickets
\* still standing are distinct and fill the counter range from head_ up to
\* tail_, and a thread past its first test holds the ticket being served.
QueuedThreads == {t \in Threads : Queued(t)}
TicketsAreDistinct ==
  \A t, u \in QueuedThreads : t # u => ticket[t] # ticket[u]
TicketsAreIssued == \A t \in QueuedThreads : Dist(ticket[t]) < Dist(tail)
QueueIsFull == Dist(tail) = Cardinality(QueuedThreads)
ServedHoldHead ==
  \A t \in Threads :
    pc[t] \in {"rcount", "radvance", "wcheck", "writing"} => ticket[t] = head
NoReaderBesideWriter == \A t \in Threads : Writing(t) => reads = 0

LockInv == /\ TypeOK
           /\ TicketsAreDistinct
           /\ TicketsAreIssued
           /\ QueueIsFull
           /\ ServedHoldHead
           /\ ReadCountIsExact
           /\ NoReaderBesideWriter

\* The abstract lock: the thread that asked earlier is the one with the ticket
\* nearer to head_.
PhaseOf(t) ==
  CASE pc[t] \in {"idle", "upgrading", "downgrading"} -> "out"
    [] pc[t] \in {"rwait", "rcount", "radvance"} -> "wantRead"
    [] pc[t] \in {"wwait", "wcheck"} -> "wantWrite"
    [] pc[t] = "reading" -> "reading"
    [] pc[t] = "writing" -> "writing"

Waits(t) == pc[t] \in {"rwait", "rcount", "radvance", "wwait", "wcheck"}

Before(t) ==
  IF Waits(t)
  THEN {u \in QueuedThreads : Dist(ticket[u]) < Dist(ticket[t])}
  ELSE {}

Fair == INSTANCE FairReadWriteLock WITH
  phase <- [t \in Threads |-> PhaseOf(t)],
  ahead <- [t \in Threads |-> Before(t)]

\* The ticket protocol implements the fair lock: threads are admitted in the
\* order of their requests, also across a wrap of the counters, and a reader
\* behind a waiting writer never overtakes it (locks.hpp 124-132).
ImplementsFairLock == Fair!Spec

\* Nobody starves (locks.hpp 123-132): a thread that took a ticket gets in.
EveryRequestIsServed ==
  \A t \in Threads : Waits(t) ~> (Reading(t) \/ Writing(t))
=============================================================================
