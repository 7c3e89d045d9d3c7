------------------------ MODULE ReadWriteLockProofs ------------------------
(***************************************************************************)
(* The ticket lock excludes, for every finite set of threads and every     *)
(* counter width that exceeds their number.  The argument is about the     *)
(* queue of outstanding tickets: the three lemmas QueueStays, QueueGrows   *)
(* and QueueShrinks say what a step that leaves it alone, joins it or      *)
(* advances head_ does to it; the action lemmas only look up which applies.*)
(***************************************************************************)
EXTENDS ReadWriteLock, FiniteSetTheorems, TLAPS

\* The part of the invariant that speaks of the queue.
QueueInv == TicketsAreDistinct /\ TicketsAreIssued /\ QueueIsFull

\* Any set of threads is finite and smaller than the counter range.
LEMMA ThreadSets ==
  ASSUME NEW S \in SUBSET Threads
  PROVE  /\ IsFiniteSet(S)
         /\ Cardinality(S) \in Nat
         /\ Cardinality(S) < Width
         /\ \A t \in Threads \ S : Cardinality(S) + 1 < Width
<1>1. IsFiniteSet(S) /\ Cardinality(S) <= Cardinality(Threads)
  BY CounterAssumption, FS_Subset
<1>2. Cardinality(S) \in Nat /\ Cardinality(Threads) \in Nat
  BY <1>1, CounterAssumption, FS_CardinalityType
<1>3. ASSUME NEW t \in Threads \ S
      PROVE  Cardinality(S) + 1 < Width
  <2>1. Cardinality(S) + 1 = Cardinality(S \cup {t})
    BY <1>1, <1>3, FS_AddElement
  <2>2. S \cup {t} \in SUBSET Threads
    BY <1>3
  <2>3. Cardinality(S \cup {t}) <= Cardinality(Threads)
    BY <2>2, CounterAssumption, FS_Subset
  <2> QED
    BY <2>1, <2>3, <1>2, CounterAssumption
<1> QED
  BY <1>1, <1>2, <1>3, CounterAssumption

LEMMA WidthIsPositive == Width \in Nat /\ Width > 0
<1>1. Cardinality(Threads) \in Nat
  BY CounterAssumption, FS_CardinalityType
<1> QED
  BY <1>1, CounterAssumption

LEMMA CounterClosed == 0 \in Counter /\ \A n \in Counter : Succ(n) \in Counter
BY WidthIsPositive DEF Counter, Succ

\* Nothing that concerns the queue changed.
LEMMA QueueStays ==
  ASSUME QueueInv, QueuedThreads' = QueuedThreads,
         UNCHANGED <<head, tail, ticket>>
  PROVE  QueueInv'
BY DEF QueueInv, TicketsAreDistinct, TicketsAreIssued, QueueIsFull, Dist

\* A request joins at the end.
LEMMA QueueGrows ==
  ASSUME TypeOK, QueueInv, NEW t \in Threads, t \notin QueuedThreads,
         QueuedThreads' = QueuedThreads \cup {t},
         TakeTicket(t), head' = head
  PROVE  QueueInv'
<1> USE WidthIsPositive DEF TypeOK, Counter, TakeTicket
<1>1. QueuedThreads \in SUBSET Threads
  BY DEF QueuedThreads
<1>2. Dist(tail) + 1 < Width
  BY <1>1, ThreadSets DEF QueueInv, QueueIsFull
<1>3. Dist(tail)' = Dist(tail) + 1
  BY <1>2 DEF Dist, Succ
<1>4. ticket'[t] = tail /\ \A u \in QueuedThreads : ticket'[u] = ticket[u] /\ u \in Threads
  BY <1>1
<1>5. \A u \in QueuedThreads : ticket[u] # tail
  BY <1>1 DEF QueueInv, TicketsAreIssued, Dist
<1>6. TicketsAreDistinct'
  BY <1>1, <1>4, <1>5 DEF QueueInv, TicketsAreDistinct
<1>7. TicketsAreIssued'
  <2> SUFFICES ASSUME NEW u \in QueuedThreads \cup {t}
               PROVE  Dist(ticket[u])' < Dist(tail)'
    BY DEF TicketsAreIssued
  <2>1. CASE u = t
    BY <2>1, <1>3, <1>4 DEF Dist
  <2>2. CASE u # t
    <3>1. Dist(ticket[u]) < Dist(tail)
      BY <2>2 DEF QueueInv, TicketsAreIssued
    <3>2. Dist(ticket[u])' = Dist(ticket[u])
      BY <2>2, <1>4 DEF Dist
    <3>3. Dist(ticket[u]) \in Int /\ Dist(tail) \in Int
      BY <1>1, <2>2 DEF Dist
    <3> QED
      BY <3>1, <3>2, <3>3, <1>3
  <2> QED
    BY <2>1, <2>2
<1>8. QueueIsFull'
  <2>1. Cardinality(QueuedThreads \cup {t}) = Cardinality(QueuedThreads) + 1
    BY <1>1, ThreadSets, FS_AddElement
  <2> QED
    BY <2>1, <1>3 DEF QueueInv, QueueIsFull
<1> QED
  BY <1>6, <1>7, <1>8 DEF QueueInv

\* One step of head_ brings every ticket but the served one nearer by one.
LEMMA HeadMoves ==
  ASSUME TypeOK, head' = Succ(head)
  PROVE  \A n \in Counter \ {head} :
           /\ Dist(n) \in Int
           /\ (IF n >= head' THEN n - head' ELSE n + Width - head') = Dist(n) - 1
BY WidthIsPositive DEF TypeOK, Counter, Dist, Succ

\* The thread whose ticket is served leaves and admits the next one.
LEMMA QueueShrinks ==
  ASSUME TypeOK, QueueInv, NEW t \in Threads, t \in QueuedThreads,
         ticket[t] = head, QueuedThreads' = QueuedThreads \ {t},
         head' = Succ(head), tail' = tail, Discard(t)
  PROVE  QueueInv'
<1> USE WidthIsPositive DEF TypeOK, Counter
<1>1. QueuedThreads \in SUBSET Threads
  BY DEF QueuedThreads
<1>2. \A u \in QueuedThreads \ {t} : ticket'[u] = ticket[u] /\ ticket[u] # head
  BY <1>1 DEF QueueInv, TicketsAreDistinct, Discard
<1>3. \A n \in Counter \ {head} :
        /\ Dist(n) \in Int
        /\ (IF n >= head' THEN n - head' ELSE n + Width - head') = Dist(n) - 1
  BY HeadMoves
<1>4. tail # head
  BY DEF QueueInv, TicketsAreIssued, Dist
<1>5. Dist(tail)' = Dist(tail) - 1 /\ Dist(tail) \in Int
  BY <1>3, <1>4 DEF Dist
<1>6. TicketsAreDistinct'
  BY <1>1, <1>2 DEF QueueInv, TicketsAreDistinct
<1>7. TicketsAreIssued'
  <2> SUFFICES ASSUME NEW u \in QueuedThreads \ {t}
               PROVE  Dist(ticket[u])' < Dist(tail)'
    BY DEF TicketsAreIssued
  <2>1. ticket[u] \in Counter /\ ticket[u] # head /\ ticket'[u] = ticket[u]
    BY <1>1, <1>2
  <2>2. Dist(ticket[u])' = Dist(ticket[u]) - 1 /\ Dist(ticket[u]) \in Int
    BY <2>1, <1>3 DEF Dist
  <2>3. Dist(ticket[u]) < Dist(tail)
    BY DEF QueueInv, TicketsAreIssued
  <2> QED
    BY <2>2, <2>3, <1>5
<1>8. QueueIsFull'
  <2>1. Cardinality(QueuedThreads \ {t}) = Cardinality(QueuedThreads) - 1
    BY <1>1, ThreadSets, FS_RemoveElement
  <2> QED
    BY <2>1, <1>5 DEF QueueInv, QueueIsFull
<1> QED
  BY <1>6, <1>7, <1>8 DEF QueueInv

-----------------------------------------------------------------------------
(* The action lemmas. *)


\* Nothing that concerns the readers' count changed.
LEMMA CountStays ==
  ASSUME ReadCountIsExact, reads' = reads, CountedReaders' = CountedReaders
  PROVE  ReadCountIsExact'
BY DEF ReadCountIsExact

LEMMA Requests ==
  ASSUME LockInv, NEW t \in Threads, RequestRead(t) \/ RequestWrite(t)
  PROVE  LockInv'
<1> USE DEF LockInv, TypeOK, PCs, ReaderPCs, WriterPCs, RequestRead, RequestWrite
<1>1. TypeOK'
  <2>1. ticket' \in [Threads -> Counter] /\ tail' \in Counter
    BY CounterClosed DEF TakeTicket
  <2>2. nested' \in [Threads -> BOOLEAN]
    OBVIOUS
  <2>3. pc' \in [Threads -> PCs]
    OBVIOUS
  <2> QED
    BY <2>1, <2>2, <2>3
<1>2. QueueInv'
  <2>1. t \notin QueuedThreads
    BY DEF QueuedThreads, Queued
  <2>2. QueuedThreads' = QueuedThreads \cup {t}
    BY DEF QueuedThreads, Queued
  <2> QED
    BY <2>1, <2>2, QueueGrows DEF QueueInv
<1>3. ServedHoldHead'
  BY DEF ServedHoldHead, TakeTicket
<1>4. ReadCountIsExact'
  <2>1. CountedReaders' = CountedReaders
    BY DEF CountedReaders
  <2> QED
    BY <2>1, CountStays
<1>5. NoReaderBesideWriter'
  BY DEF NoReaderBesideWriter, Writing
<1> QED
  BY <1>1, <1>2, <1>3, <1>4, <1>5 DEF QueueInv

LEMMA SpinExits ==
  ASSUME LockInv, NEW t \in Threads,
         ReaderSeesHead(t) \/ WriterSeesHead(t) \/ CheckReaders(t)
  PROVE  LockInv'
<1> USE DEF LockInv, TypeOK, PCs, ReaderPCs, WriterPCs, ReaderSeesHead,
            WriterSeesHead, CheckReaders, Goto
<1>1. TypeOK'
  OBVIOUS
<1>2. QueueInv'
  <2>1. QueuedThreads' = QueuedThreads
    BY DEF QueuedThreads, Queued
  <2> QED
    BY <2>1, QueueStays DEF QueueInv
<1>3. ServedHoldHead'
  BY DEF ServedHoldHead
<1>4. ReadCountIsExact'
  <2>1. CountedReaders' = CountedReaders
    BY DEF CountedReaders
  <2> QED
    BY <2>1, CountStays
<1>5. NoReaderBesideWriter'
  BY DEF NoReaderBesideWriter, Writing
<1> QED
  BY <1>1, <1>2, <1>3, <1>4, <1>5 DEF QueueInv

\* Only here could a reader slip in beside a writer: both would hold head_.
LEMMA ReaderIsCounted ==
  ASSUME LockInv, NEW t \in Threads, CountReader(t)
  PROVE  LockInv'
<1> USE DEF LockInv, TypeOK, PCs, ReaderPCs, WriterPCs, CountReader, Goto
<1>1. CountedReaders \in SUBSET Threads /\ t \in Threads \ CountedReaders
  BY DEF CountedReaders
<1>2. reads + 1 < Width
  BY <1>1, ThreadSets DEF ReadCountIsExact
<1>3. reads' = reads + 1
  BY <1>2, WidthIsPositive DEF Succ, Counter
<1>4. TypeOK'
  BY CounterClosed
<1>5. QueueInv'
  <2>1. QueuedThreads' = QueuedThreads
    BY DEF QueuedThreads, Queued
  <2> QED
    BY <2>1, QueueStays DEF QueueInv
<1>6. ServedHoldHead'
  BY DEF ServedHoldHead
<1>7. ReadCountIsExact'
  <2>1. CountedReaders' = CountedReaders \cup {t}
    BY DEF CountedReaders
  <2>2. Cardinality(CountedReaders \cup {t}) = Cardinality(CountedReaders) + 1
    BY <1>1, ThreadSets, FS_AddElement
  <2> QED
    BY <2>1, <2>2, <1>3 DEF ReadCountIsExact
<1>8. NoReaderBesideWriter'
  <2>1. \A u \in Threads : ~Writing(u)
    BY DEF ServedHoldHead, TicketsAreDistinct, QueuedThreads, Queued, Writing
  <2> QED
    BY <2>1 DEF NoReaderBesideWriter, Writing
<1> QED
  BY <1>4, <1>5, <1>6, <1>7, <1>8 DEF QueueInv

LEMMA HeadAdvances ==
  ASSUME LockInv, NEW t \in Threads, AdvanceReader(t) \/ WriteUnlock(t)
  PROVE  LockInv'
<1> USE DEF LockInv, TypeOK, PCs, ReaderPCs, WriterPCs, AdvanceReader, WriteUnlock, Goto
<1>1. TypeOK'
  <2>1. ticket' \in [Threads -> Counter] /\ head' \in Counter
    BY CounterClosed DEF Discard
  <2>2. nested' \in [Threads -> BOOLEAN]
    OBVIOUS
  <2>3. pc' \in [Threads -> PCs]
    OBVIOUS
  <2> QED
    BY <2>1, <2>2, <2>3
<1>2. t \in QueuedThreads /\ ticket[t] = head
  BY DEF QueuedThreads, Queued, ServedHoldHead
<1>3. QueueInv'
  <2>1. QueuedThreads' = QueuedThreads \ {t}
    BY DEF QueuedThreads, Queued
  <2> QED
    BY <2>1, <1>2, QueueShrinks DEF QueueInv
<1>4. ServedHoldHead'
  \* Nobody else held head_, and a thread past its test keeps its ticket.
  <2>1. \A u \in Threads \ {t} : pc[u] \notin {"rcount", "radvance", "wcheck", "writing"}
    BY <1>2 DEF ServedHoldHead, TicketsAreDistinct, QueuedThreads, Queued
  <2> QED
    BY <2>1 DEF ServedHoldHead
<1>5. ReadCountIsExact'
  <2>1. CountedReaders' = CountedReaders
    BY DEF CountedReaders
  <2> QED
    BY <2>1, CountStays
<1>6. NoReaderBesideWriter'
  BY DEF NoReaderBesideWriter, Writing
<1> QED
  BY <1>1, <1>3, <1>4, <1>5, <1>6 DEF QueueInv

LEMMA ReaderLeaves ==
  ASSUME LockInv, NEW t \in Threads, ReadUnlock(t) \/ BeginUpgrade(t)
  PROVE  LockInv'
<1> USE DEF LockInv, TypeOK, PCs, ReaderPCs, WriterPCs, ReadUnlock, BeginUpgrade, Goto
<1>1. CountedReaders \in SUBSET Threads /\ t \in CountedReaders
  BY DEF CountedReaders
<1>2. Cardinality(CountedReaders \ {t}) = reads - 1
  BY <1>1, ThreadSets, FS_RemoveElement DEF ReadCountIsExact
<1>3. reads' = reads - 1 /\ reads - 1 \in Counter
  <2>1. Cardinality(CountedReaders \ {t}) \in Nat
    BY <1>1, ThreadSets
  <2> QED
    BY <2>1, <1>2, WidthIsPositive DEF Pred, Counter
<1>4. TypeOK'
  BY <1>3
<1>5. QueueInv'
  <2>1. QueuedThreads' = QueuedThreads
    BY DEF QueuedThreads, Queued
  <2> QED
    BY <2>1, QueueStays DEF QueueInv
<1>6. ServedHoldHead'
  BY DEF ServedHoldHead
<1>7. ReadCountIsExact'
  <2>1. CountedReaders' = CountedReaders \ {t}
    BY DEF CountedReaders
  <2> QED
    BY <2>1, <1>2, <1>3 DEF ReadCountIsExact
<1>8. NoReaderBesideWriter'
  <2>1. reads # 0
    BY <1>3, WidthIsPositive DEF Counter
  <2>2. \A u \in Threads : ~Writing(u)
    BY <2>1 DEF NoReaderBesideWriter
  <2> QED
    BY <2>2 DEF NoReaderBesideWriter, Writing
<1> QED
  BY <1>4, <1>5, <1>6, <1>7, <1>8 DEF QueueInv

-----------------------------------------------------------------------------
(* The theorems *)

\* The initial state satisfies the inductive invariant.
LEMMA InitLockInv == Init => LockInv
<1> SUFFICES ASSUME Init PROVE LockInv
  OBVIOUS
<1>1. TypeOK
  BY WidthIsPositive DEF Init, TypeOK, Counter, PCs
<1>2. QueuedThreads = {} /\ CountedReaders = {}
  BY DEF Init, QueuedThreads, Queued, WriterPCs, CountedReaders
<1>3. TicketsAreDistinct /\ TicketsAreIssued
  BY <1>2 DEF TicketsAreDistinct, TicketsAreIssued
<1>4. QueueIsFull /\ ReadCountIsExact
  BY <1>2, FS_EmptySet DEF Init, QueueIsFull, ReadCountIsExact, Dist
<1>5. ServedHoldHead /\ NoReaderBesideWriter
  BY DEF Init, ServedHoldHead, NoReaderBesideWriter, Writing
<1> QED
  BY <1>1, <1>3, <1>4, <1>5 DEF LockInv

LEMMA StepLockInv == LockInv /\ [Next]_vars => LockInv'
<1> SUFFICES ASSUME LockInv, [Next]_vars PROVE LockInv'
  OBVIOUS
<1>1. CASE UNCHANGED vars
  BY <1>1 DEF vars, LockInv, TypeOK, TicketsAreDistinct, TicketsAreIssued,
     QueueIsFull, ServedHoldHead, ReadCountIsExact, NoReaderBesideWriter,
     QueuedThreads, Queued, CountedReaders, Writing, Dist
<1>2. CASE Next
  <2> PICK t \in Threads :
        Continue(t) \/ RequestRead(t) \/ RequestWrite(t) \/ BeginUpgrade(t)
    BY <1>2 DEF Next
  <2>1. CASE RequestRead(t) \/ RequestWrite(t)
    BY <2>1, Requests
  <2>2. CASE ReaderSeesHead(t) \/ WriterSeesHead(t) \/ CheckReaders(t)
    BY <2>2, SpinExits
  <2>3. CASE CountReader(t)
    BY <2>3, ReaderIsCounted
  <2>4. CASE AdvanceReader(t) \/ WriteUnlock(t)
    BY <2>4, HeadAdvances
  <2>5. CASE ReadUnlock(t) \/ BeginUpgrade(t)
    BY <2>5, ReaderLeaves
  <2> QED
    BY <2>1, <2>2, <2>3, <2>4, <2>5 DEF Continue
<1> QED
  BY <1>1, <1>2

\* The queue of tickets is what the code relies on, in every reachable state.
THEOREM LockInvariant == SafetySpec => []LockInv
BY InitLockInv, StepLockInv, PTL DEF SafetySpec

\* reads_count_ always is the number of readers inside.
THEOREM ReadCount == SafetySpec => []ReadCountIsExact
<1>1. LockInv => ReadCountIsExact
  BY DEF LockInv
<1> QED
  BY <1>1, LockInvariant, PTL

\* Mutual exclusion: no thread is inside beside a writer.
THEOREM MutualExclusion == SafetySpec => []WriterIsAlone
<1>1. ASSUME LockInv PROVE WriterIsAlone
  <2> SUFFICES ASSUME NEW t \in Threads, NEW u \in Threads, Writing(t), u # t
               PROVE  pc[u] \notin {"rcount", "radvance", "reading", "writing"}
    BY DEF WriterIsAlone
  <2>1. pc[u] \notin {"rcount", "radvance", "writing"}
    BY <1>1 DEF LockInv, ServedHoldHead, TicketsAreDistinct, QueuedThreads, Queued,
       Writing, WriterPCs
  <2>2. CountedReaders = {}
    <3>1. Cardinality(CountedReaders) = 0
      BY <1>1 DEF LockInv, NoReaderBesideWriter, ReadCountIsExact
    <3>2. IsFiniteSet(CountedReaders)
      BY ThreadSets DEF CountedReaders
    <3> QED
      BY <3>1, <3>2, FS_EmptySet
  <2> QED
    BY <2>1, <2>2 DEF CountedReaders
<1> QED
  BY <1>1, LockInvariant, PTL

-----------------------------------------------------------------------------
(* The ticket lock implements the fair lock, step by step. *)

\* A step that moves a thread within its abstract phase is invisible.
LEMMA InvisibleSteps ==
  ASSUME LockInv, NEW t \in Threads,
         ReaderSeesHead(t) \/ CountReader(t) \/ WriterSeesHead(t)
           \/ (CheckReaders(t) /\ reads # 0)
  PROVE  UNCHANGED Fair!vars
<1> USE DEF LockInv, TypeOK, PCs, ReaderPCs, WriterPCs, ReaderSeesHead, CountReader,
            WriterSeesHead, CheckReaders, Goto
<1>1. \A u \in Threads : PhaseOf(u)' = PhaseOf(u) /\ (Waits(u)' <=> Waits(u))
  BY DEF PhaseOf, Waits
<1>2. QueuedThreads' = QueuedThreads
  BY DEF QueuedThreads, Queued
<1>3. \A u \in Threads : Before(u)' = Before(u)
  BY <1>1, <1>2 DEF Before, Dist
<1> QED
  BY <1>1, <1>3 DEF Fair!vars

\* A new ticket is behind every outstanding one and moves none of them.
LEMMA RequestsRefine ==
  ASSUME LockInv, LockInv', NEW t \in Threads, RequestRead(t) \/ RequestWrite(t)
  PROVE  Fair!Next
<1> USE DEF LockInv, TypeOK, PCs, ReaderPCs, WriterPCs, RequestRead, RequestWrite
<1>1. QueuedThreads' = QueuedThreads \cup {t} /\ t \notin QueuedThreads
  BY DEF QueuedThreads, Queued
<1>2. /\ ticket'[t] = tail
      /\ \A u \in QueuedThreads : u \in Threads /\ ticket'[u] = ticket[u]
      /\ head' = head
  BY <1>1 DEF TakeTicket, QueuedThreads
<1>3. \A n \in Counter : Dist(n) \in Int
  BY WidthIsPositive DEF Dist, Counter
<1>4. \A u \in QueuedThreads : Dist(ticket[u]) < Dist(tail) /\ Dist(ticket[u]) \in Int
  BY <1>2, <1>3 DEF TicketsAreIssued
<1>5. Before(t)' = {u \in Threads : Fair!Standing(u)}
  <2>1. Waits(t)'
    BY DEF Waits
  <2>2. Before(t)' = QueuedThreads
    BY <1>1, <1>2, <1>3, <1>4, <2>1 DEF Before, Dist
  <2>3. \A u \in Threads : Fair!Standing(u) <=> Queued(u)
    BY DEF Fair!Standing, Fair!Waiting, PhaseOf, Queued
  <2> QED
    BY <2>2, <2>3 DEF QueuedThreads
<1>6. \A u \in Threads \ {t} : Before(u)' = Before(u)
  <2> SUFFICES ASSUME NEW u \in Threads \ {t} PROVE Before(u)' = Before(u)
    OBVIOUS
  <2>1. Waits(u)' <=> Waits(u)
    BY DEF Waits
  <2>2. CASE ~Waits(u)
    BY <2>1, <2>2 DEF Before
  <2>3. CASE Waits(u)
    <3>1. u \in QueuedThreads
      BY <2>3 DEF QueuedThreads, Queued, Waits
    <3>2. ~(Dist(tail) < Dist(ticket[u]))
      BY <3>1, <1>3, <1>4
    <3> QED
      BY <2>1, <2>3, <3>1, <3>2, <1>1, <1>2 DEF Before, Dist
  <2> QED
    BY <2>2, <2>3
<1>7. /\ PhaseOf(t) = "out" /\ PhaseOf(t)' \in Fair!Waiting
      /\ \A u \in Threads \ {t} : PhaseOf(u)' = PhaseOf(u)
  BY DEF Fair!Waiting, PhaseOf
<1>8. Fair!Request(t, PhaseOf(t)')
  <2>1. [u \in Threads |-> PhaseOf(u)]'
          = [[u \in Threads |-> PhaseOf(u)] EXCEPT ![t] = PhaseOf(t)']
    BY <1>7
  <2>2. [u \in Threads |-> Before(u)]'
          = [[u \in Threads |-> Before(u)] EXCEPT ![t] = {u \in Threads : Fair!Standing(u)}]
    BY <1>5, <1>6
  <2> QED
    BY <1>7, <2>1, <2>2 DEF Fair!Request
<1> QED
  BY <1>7, <1>8 DEF Fair!Next

\* When head_ advances, the thread that was served leaves everybody's way.
LEMMA AdvanceRefines ==
  ASSUME LockInv, LockInv', NEW t \in Threads, AdvanceReader(t) \/ WriteUnlock(t)
  PROVE  Fair!Next
<1> USE DEF LockInv, TypeOK, PCs, ReaderPCs, WriterPCs, AdvanceReader, WriteUnlock, Goto
<1>1. /\ QueuedThreads' = QueuedThreads \ {t}
      /\ t \in QueuedThreads
      /\ ticket[t] = head
  BY DEF QueuedThreads, Queued, ServedHoldHead
<1>2. \A u \in QueuedThreads \ {t} : /\ u \in Threads
                                     /\ ticket'[u] = ticket[u]
                                     /\ ticket[u] \in Counter \ {head}
  BY <1>1 DEF Discard, QueuedThreads, TicketsAreDistinct
<1>3. \A u \in QueuedThreads \ {t} :
        Dist(ticket[u])' = Dist(ticket[u]) - 1 /\ Dist(ticket[u]) \in Int
  BY <1>2, HeadMoves DEF Dist
<1>4. Before(t) = {}
  <2>1. Dist(ticket[t]) = 0
    BY <1>1 DEF Dist, Counter
  <2>2. \A n \in Counter : ~(Dist(n) < 0)
    BY WidthIsPositive DEF Dist, Counter
  <2> QED
    BY <2>1, <2>2 DEF Before, QueuedThreads
<1>5. \A u \in Threads : Before(u)' = Before(u) \ {t}
  <2> SUFFICES ASSUME NEW u \in Threads PROVE Before(u)' = Before(u) \ {t}
    OBVIOUS
  <2>1. CASE u = t
    BY <2>1, <1>4 DEF Before, Waits
  <2>2. CASE u # t /\ ~Waits(u)
    BY <2>2 DEF Before, Waits
  <2>3. CASE u # t /\ Waits(u)
    <3>1. u \in QueuedThreads \ {t} /\ Waits(u)'
      BY <2>3 DEF QueuedThreads, Queued, Waits
    <3>2. \A v \in QueuedThreads \ {t} :
            Dist(ticket[v])' < Dist(ticket[u])' <=> Dist(ticket[v]) < Dist(ticket[u])
      BY <3>1, <1>3
    <3> QED
      BY <3>1, <3>2, <2>3, <1>1 DEF Before
  <2> QED
    BY <2>1, <2>2, <2>3
<1>6. \A u \in Threads \ {t} : PhaseOf(u)' = PhaseOf(u)
  BY DEF PhaseOf
<1>7. CASE AdvanceReader(t)
  <2>1. PhaseOf(t) = "wantRead" /\ PhaseOf(t)' = "reading"
    BY <1>7 DEF PhaseOf
  <2>2. Fair!AdmitReader(t)
    BY <2>1, <1>4, <1>5, <1>6 DEF Fair!AdmitReader, Fair!Pass
  <2> QED
    BY <2>2 DEF Fair!Next, Fair!Progress
<1>8. CASE WriteUnlock(t)
  <2>1. PhaseOf(t) = "writing" /\ PhaseOf(t)' = "out"
    BY <1>8 DEF PhaseOf
  <2>2. Fair!LeaveWriter(t)
    BY <2>1, <1>5, <1>6 DEF Fair!LeaveWriter, Fair!Pass
  <2> QED
    BY <2>2 DEF Fair!Next, Fair!Progress
<1> QED
  BY <1>7, <1>8

LEMMA WriterEntryRefines ==
  ASSUME LockInv, NEW t \in Threads, CheckReaders(t), reads = 0
  PROVE  Fair!Next
<1> USE DEF LockInv, TypeOK, PCs, ReaderPCs, WriterPCs, CheckReaders
<1>1. QueuedThreads' = QueuedThreads
  BY DEF QueuedThreads, Queued
<1>2. Before(t) = {}
  <2>1. Dist(ticket[t]) = 0
    BY DEF Dist, Counter, ServedHoldHead
  <2>2. \A n \in Counter : ~(Dist(n) < 0)
    BY WidthIsPositive DEF Dist, Counter
  <2> QED
    BY <2>1, <2>2 DEF Before, QueuedThreads
<1>3. \A u \in Threads : Before(u)' = Before(u)
  <2>1. Before(t)' = {}
    BY DEF Before, Waits
  <2>2. \A u \in Threads \ {t} : Waits(u)' <=> Waits(u)
    BY DEF Waits
  <2> QED
    BY <1>1, <1>2, <2>1, <2>2 DEF Before, Dist
<1>4. \A u \in Threads : PhaseOf(u) # "reading"
  <2>1. CountedReaders = {}
    <3>1. IsFiniteSet(CountedReaders)
      BY ThreadSets DEF CountedReaders
    <3> QED
      BY <3>1, FS_EmptySet DEF ReadCountIsExact
  <2> QED
    BY <2>1 DEF PhaseOf, CountedReaders
<1>5. /\ PhaseOf(t) = "wantWrite" /\ PhaseOf(t)' = "writing"
      /\ \A u \in Threads \ {t} : PhaseOf(u)' = PhaseOf(u)
  BY DEF PhaseOf
<1>6. Fair!AdmitWriter(t)
  BY <1>2, <1>3, <1>4, <1>5 DEF Fair!AdmitWriter
<1> QED
  BY <1>6 DEF Fair!Next, Fair!Progress

LEMMA ReaderExitRefines ==
  ASSUME LockInv, NEW t \in Threads, ReadUnlock(t) \/ BeginUpgrade(t)
  PROVE  Fair!Next
<1> USE DEF LockInv, TypeOK, PCs, ReaderPCs, WriterPCs, ReadUnlock, BeginUpgrade, Goto
<1>1. QueuedThreads' = QueuedThreads
  BY DEF QueuedThreads, Queued
<1>2. \A u \in Threads : Waits(u)' <=> Waits(u)
  BY DEF Waits
<1>3. \A u \in Threads : Before(u)' = Before(u)
  BY <1>1, <1>2 DEF Before, Dist
<1>4. /\ PhaseOf(t) = "reading" /\ PhaseOf(t)' = "out"
      /\ \A u \in Threads \ {t} : PhaseOf(u)' = PhaseOf(u)
  BY DEF PhaseOf
<1>5. Fair!LeaveReader(t)
  BY <1>3, <1>4 DEF Fair!LeaveReader
<1> QED
  BY <1>5 DEF Fair!Next, Fair!Progress

\* The lock of the code is a fair read/write lock: every step of it is a step
\* of FairReadWriteLock or leaves what that specification sees unchanged.
THEOREM FairLockRefinement == SafetySpec => ImplementsFairLock
<1>1. Init => Fair!Init
  BY DEF Init, Fair!Init, PhaseOf, Before, Waits
<1>2. ASSUME LockInv, LockInv', [Next]_vars PROVE [Fair!Next]_(Fair!vars)
  <2>1. CASE UNCHANGED vars
    <3>1. \A u \in Threads : PhaseOf(u)' = PhaseOf(u) /\ Before(u)' = Before(u)
      BY <2>1 DEF vars, PhaseOf, Before, Waits, QueuedThreads, Queued, Dist
    <3> QED
      BY <3>1 DEF Fair!vars
  <2>2. CASE Next
    <3> PICK t \in Threads :
          Continue(t) \/ RequestRead(t) \/ RequestWrite(t) \/ BeginUpgrade(t)
      BY <2>2 DEF Next
    <3>1. CASE RequestRead(t) \/ RequestWrite(t)
      BY <3>1, <1>2, RequestsRefine
    <3>2. CASE ReaderSeesHead(t) \/ CountReader(t) \/ WriterSeesHead(t)
                 \/ (CheckReaders(t) /\ reads # 0)
      BY <3>2, <1>2, InvisibleSteps
    <3>3. CASE CheckReaders(t) /\ reads = 0
      BY <3>3, <1>2, WriterEntryRefines
    <3>4. CASE AdvanceReader(t) \/ WriteUnlock(t)
      BY <3>4, <1>2, AdvanceRefines
    <3>5. CASE ReadUnlock(t) \/ BeginUpgrade(t)
      BY <3>5, <1>2, ReaderExitRefines
    <3> QED
      BY <3>1, <3>2, <3>3, <3>4, <3>5 DEF Continue
  <2> QED
    BY <1>2, <2>1, <2>2
<1> QED
  BY <1>1, <1>2, LockInvariant, PTL DEF SafetySpec, ImplementsFairLock, Fair!Spec
=============================================================================
