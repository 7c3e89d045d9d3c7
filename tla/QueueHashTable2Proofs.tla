------------------------ MODULE QueueHashTable2Proofs ------------------------
(***************************************************************************)
(* QueueHashTable_2 is a linearizable set, for any number of threads and   *)
(* keys, any hashes and any capacity.                                      *)
(***************************************************************************)
EXTENDS QueueHashTable2, FiniteSetTheorems, TLAPS

Stages == {"idle", "read", "probe", "write", "join", "search", "publish", "count", "unlock",
           "leave", "load", "elect", "concede", "await", "extend", "plan", "copy", "swap",
           "gate", "clear", "finish", "resign", "return"}
Writing == {"join", "search", "publish", "count", "unlock", "plan", "copy", "swap", "gate",
            "clear", "finish"}                                    \* inside writelock_
Sharing == {"probe", "search", "publish", "count", "unlock", "leave"}   \* inside lock_

Frames == [op : {"none", "push", "contains", "erase", "clear", "resize"},
           key : Keys \cup {NoKey}, length : Nat, slot : Nat, observed : Nat,
           outcome : Outcomes]

\* What a thread's position says about its local variables.
Fits(p, f) ==
  /\ p = "idle" <=> f.op = "none"
  /\ f.op \in {"push", "contains", "erase"} => f.key \in Keys
  /\ f.op = "resize" => f.length \in Lengths
  /\ p \notin {"probe", "publish"} => f.slot = 0
  /\ p \in {"idle", "read", "probe", "write", "join", "search", "publish", "gate", "clear"}
       => f.outcome = "open"
  /\ p \in {"read", "probe"} => f.op = "contains"
  /\ p = "write" => f.op \in {"push", "erase", "clear", "resize"}
  /\ p \in {"join", "search"} => f.op \in {"push", "erase"}
  /\ p = "publish" => f.op = "push"
  /\ p = "count" => \/ f.op = "push" /\ f.outcome = "inserted"
                    \/ f.op = "erase" /\ f.outcome = "erased"
  /\ p = "unlock" => \/ f.op = "push" /\ f.outcome \in {"inserted", "present", "full"}
                     \/ f.op = "erase" /\ f.outcome \in {"erased", "absent"}
  /\ p = "leave" => \/ f.op = "push" /\ f.outcome \in {"inserted", "present", "full"}
                    \/ f.op = "erase" /\ f.outcome \in {"erased", "absent"}
                    \/ f.op = "contains" /\ f.outcome \in {"present", "absent"}
  /\ p = "load" => f.op = "push" /\ f.outcome = "inserted"
  /\ p \in {"elect", "concede", "extend"} => f.op = "push" /\ f.outcome \in {"inserted", "full"}
  /\ p = "await" => f.op = "push" /\ f.outcome = "full"
  /\ p \in {"plan", "copy", "swap"} => \/ f.op = "resize" /\ f.outcome = "open"
                                       \/ f.op = "push" /\ f.outcome \in {"inserted", "full"}
  /\ p \in {"gate", "clear"} => f.op = "clear"
  /\ p = "finish" => \/ f.op = "resize" /\ f.outcome \in {"resized", "failed"}
                     \/ f.op = "clear" /\ f.outcome = "cleared"
                     \/ f.op = "push" /\ f.outcome \in {"inserted", "full", "failed"}
  /\ p = "resign" => f.op = "push" /\ f.outcome \in {"inserted", "full", "failed"}
  /\ p = "return" => /\ f.outcome \notin {"open", "full"}
                     /\ f.outcome = "failed" => f.op \in {"push", "resize"}

FramesInv == /\ pc \in [Threads -> Stages] /\ frame \in [Threads -> Frames]
             /\ \A t \in Threads : Fits(pc[t], frame[t])

LocksInv == /\ writer \in Threads \cup {NoThread} /\ swapper \in Threads \cup {NoThread}
            /\ \A t \in Threads : writer = t <=> pc[t] \in Writing
            /\ readers = {t \in Threads : pc[t] \in Sharing}
            /\ \A t \in Threads : swapper = t <=> pc[t] \in {"swap", "clear"}

LEMMA FrameMoves ==
  ASSUME FramesInv, NEW t \in Threads, NEW p \in Stages, NEW f \in Frames, Fits(p, f),
         pc' = [pc EXCEPT ![t] = p], frame' = [frame EXCEPT ![t] = f]
  PROVE  FramesInv'
BY DEF FramesInv, Fits

LEMMA FrameFacts ==
  ASSUME FramesInv, NEW t \in Threads
  PROVE  /\ pc[t] \in Stages /\ frame[t] \in Frames /\ Fits(pc[t], frame[t])
         /\ frame[t].key \in Keys \cup {NoKey} /\ frame[t].length \in Nat
         /\ frame[t].slot \in Nat /\ frame[t].observed \in Nat /\ frame[t].outcome \in Outcomes
BY DEF FramesInv, Frames

LEMMA SlotRange ==
  ASSUME NEW k \in Keys, NEW i \in Nat, NEW c \in Nat \ {0}
  PROVE  Slot(k, i, c) \in 0 .. c - 1
<1>1. First[k] \in Nat /\ Step[k] \in Nat
  BY TableAssumption
<1>2. i * Step[k] \in Int
  BY <1>1
<1> QED
  BY <1>1, <1>2 DEF Slot

LEMMA RetryKeepsFrames ==
  ASSUME FramesInv, NEW t \in Threads, NEW from \in {"await", "resign"}, Retry(t, from)
  PROVE  FramesInv'
<1> DEFINE f == [frame[t] EXCEPT !.outcome = "open", !.observed = 0]
<1>1. pc[t] = from /\ frame[t] \in Frames /\ Fits(from, frame[t])
  BY FrameFacts DEF Retry, Goto
<1>2. frame' = [frame EXCEPT ![t] = f] /\ pc' = [pc EXCEPT ![t] = "write"]
  BY DEF Retry, Goto, FramesInv
<1>3. f \in Frames /\ Fits("write", f)
  BY <1>1 DEF Fits, Frames, Outcomes
<1> QED
  BY <1>2, <1>3, FrameMoves DEF Stages

LEMMA CallFits ==
  ASSUME FramesInv, NEW t \in Threads, Call(t)
  PROVE  FramesInv'
<1>1. PICK op \in Operations :
        /\ pc' = [pc EXCEPT ![t] = IF op = "contains" THEN "read" ELSE "write"]
        /\ \E k \in IF op \in {"clear", "resize"} THEN {NoKey} ELSE Keys,
              n \in IF op = "resize" THEN Lengths ELSE {0} :
             frame' = [frame EXCEPT ![t] = [NoFrame EXCEPT !.op = op, !.key = k, !.length = n]]
  BY DEF Call
<1>2. PICK k \in IF op \in {"clear", "resize"} THEN {NoKey} ELSE Keys,
           n \in IF op = "resize" THEN Lengths ELSE {0} :
        frame' = [frame EXCEPT ![t] = [NoFrame EXCEPT !.op = op, !.key = k, !.length = n]]
  BY <1>1
<1> DEFINE f == [NoFrame EXCEPT !.op = op, !.key = k, !.length = n]
           p == IF op = "contains" THEN "read" ELSE "write"
<1>3. /\ op \in {"push", "contains", "erase", "clear", "resize"} /\ n \in Nat
      /\ k \in Keys \cup {NoKey} /\ (op \in {"push", "contains", "erase"} => k \in Keys)
      /\ op = "resize" => n \in Lengths
  BY <1>2, TableAssumption
<1>4. /\ f.op = op /\ f.key = k /\ f.length = n
      /\ f.slot = 0 /\ f.observed = 0 /\ f.outcome = "open"
  BY DEF NoFrame
<1>5. f \in Frames
  BY <1>3 DEF Frames, Outcomes, NoFrame
<1>6. Fits(p, f)
  BY <1>3, <1>4 DEF Fits
<1>7. p \in Stages
  BY DEF Stages
<1>8. pc' = [pc EXCEPT ![t] = p] /\ frame' = [frame EXCEPT ![t] = f]
  BY <1>1, <1>2
<1> HIDE DEF f, p
<1> QED
  BY <1>5, <1>6, <1>7, <1>8, FrameMoves

LEMMA ProbeFits ==
  ASSUME FramesInv, NEW t \in Threads, Probe(t)
  PROVE  FramesInv'
<1> DEFINE s == Slot(frame[t].key, frame[t].slot, capacity)
           found == Holds(s, frame[t].key)
           over  == s \notin occupied \/ found \/ frame[t].slot + 1 = capacity
           Moves(p, i, out) ==
             /\ pc' = [pc EXCEPT ![t] = p]
             /\ frame' = [frame EXCEPT ![t] = [frame[t] EXCEPT !.slot = i, !.outcome = out]]
<1>1. /\ pc[t] = "probe"
      /\ \/ Moves("leave", 0, "present") \/ Moves("leave", 0, "absent")
         \/ Moves("probe", frame[t].slot + 1, "open")
  BY DEF Probe, FramesInv
<1>2. ASSUME NEW out \in {"present", "absent"}, Moves("leave", 0, out)
      PROVE  FramesInv'
  <2> DEFINE f == [frame[t] EXCEPT !.slot = 0, !.outcome = out]
  <2>1. f \in Frames
    BY FrameFacts DEF Frames, Outcomes
  <2>2. Fits("leave", f)
    BY <1>1, FrameFacts DEF Frames, Fits
  <2>3. pc' = [pc EXCEPT ![t] = "leave"] /\ frame' = [frame EXCEPT ![t] = f]
    BY <1>2
  <2> HIDE DEF f
  <2> QED
    BY <2>1, <2>2, <2>3, FrameMoves DEF Stages
<1>3. ASSUME Moves("probe", frame[t].slot + 1, "open")
      PROVE  FramesInv'
  <2> DEFINE f == [frame[t] EXCEPT !.slot = frame[t].slot + 1, !.outcome = "open"]
  <2>1. f \in Frames
    <3>1. frame[t] \in Frames /\ frame[t].slot + 1 \in Nat
      BY FrameFacts
    <3> QED
      BY <3>1 DEF Frames, Outcomes
  <2>2. Fits("probe", f)
    BY <1>1, FrameFacts DEF Frames, Fits
  <2>3. pc' = [pc EXCEPT ![t] = "probe"] /\ frame' = [frame EXCEPT ![t] = f]
    BY <1>3
  <2> HIDE DEF f
  <2> QED
    BY <2>1, <2>2, <2>3, FrameMoves DEF Stages
<1> QED
  BY <1>1, <1>2, <1>3

LEMMA WritePayloadFits ==
  ASSUME FramesInv, NEW t \in Threads, WritePayload(t), capacity \in Nat \ {0}
  PROVE  FramesInv'
<1>1. PICK i \in Stops(frame[t].key) :
        frame' = [frame EXCEPT ![t].slot = Slot(frame[t].key, i, capacity)]
  BY DEF WritePayload
<1> DEFINE f == [frame[t] EXCEPT !.slot = Slot(frame[t].key, i, capacity)]
<1>2. /\ frame[t].key \in Keys /\ i \in Nat
      /\ pc[t] = "search" /\ frame[t].op = "push" /\ frame[t].outcome = "open"
  BY <1>1, FrameFacts DEF WritePayload, Goto, Stops, Fits
<1>3. Slot(frame[t].key, i, capacity) \in Nat
  BY <1>2, SlotRange
<1>4. frame' = [frame EXCEPT ![t] = f] /\ pc' = [pc EXCEPT ![t] = "publish"]
  BY <1>1 DEF WritePayload, Goto, FramesInv
<1>5. f \in Frames
  BY <1>3, FrameFacts DEF Frames
<1>6. Fits("publish", f)
  BY <1>2, FrameFacts DEF Fits, Frames
<1> HIDE DEF f
<1> QED
  BY <1>4, <1>5, <1>6, FrameMoves DEF Stages

LEMMA PublishFits ==
  ASSUME FramesInv, NEW t \in Threads, Publish(t)
  PROVE  FramesInv'
<1> DEFINE f == [frame[t] EXCEPT !.outcome = "inserted", !.slot = 0]
<1>1. frame' = [frame EXCEPT ![t] = f] /\ pc' = [pc EXCEPT ![t] = "count"]
  BY DEF Publish, Goto, FramesInv
<1>2. f \in Frames
  BY FrameFacts DEF Frames, Outcomes
<1>3. Fits("count", f)
  BY FrameFacts DEF Publish, Goto, Fits, Frames
<1> HIDE DEF f
<1> QED
  BY <1>1, <1>2, <1>3, FrameMoves DEF Stages

LEMMA FramesAreKept ==
  ASSUME FramesInv, NEW t \in Threads, Call(t) \/ Advance(t), capacity \in Nat \ {0}
  PROVE  FramesInv'
<1> USE FrameFacts DEF Goto, Finds, Fits, Frames, Outcomes, Stages
<1>1. CASE Call(t)
  BY <1>1, CallFits
<1>2. CASE Return(t)
  BY <1>2 DEF Return, NoFrame, FramesInv
<1>3. CASE EnterRead(t)
  BY <1>3 DEF EnterRead, JoinReaders, FramesInv
<1>4. CASE Probe(t)
  BY <1>4, ProbeFits
<1>5. CASE EnterWrite(t)
  BY <1>5 DEF EnterWrite, FramesInv
<1>6. CASE Join(t)
  BY <1>6 DEF Join, JoinReaders, FramesInv
<1>7. CASE EndSearch(t)
  BY <1>7 DEF EndSearch, FramesInv
<1>8. CASE LeaveReaders(t)
  BY <1>8 DEF LeaveReaders, FramesInv
<1>9. CASE WritePayload(t)
  BY <1>9, WritePayloadFits
<1>10. CASE Publish(t)
  BY <1>10, PublishFits
<1>11. CASE MarkDeleted(t)
  BY <1>11 DEF MarkDeleted, FramesInv
<1>12. CASE Count(t)
  BY <1>12 DEF Count, FramesInv
<1>13. CASE UnlockWriter(t)
  BY <1>13 DEF UnlockWriter, FramesInv
<1>14. CASE CheckLoad(t)
  BY <1>14 DEF CheckLoad, FramesInv
<1>15. CASE Elect(t)
  BY <1>15 DEF Elect, FramesInv
<1>16. CASE Concede(t)
  BY <1>16 DEF Concede, FramesInv
<1>17. CASE Await(t)
  BY <1>17, RetryKeepsFrames DEF Await
<1>18. CASE EnterExtend(t)
  BY <1>18 DEF EnterExtend, FramesInv
<1>19. CASE SkipRehash(t)
  BY <1>19 DEF SkipRehash, Needed, FramesInv
<1>20. CASE BeginRehash(t)
  BY <1>20 DEF BeginRehash, FramesInv
<1>21. CASE AllocationFails(t)
  BY <1>21 DEF AllocationFails, GiveUp, FramesInv
<1>22. CASE SkipSlot(t)
  BY <1>22 DEF SkipSlot, FramesInv
<1>23. CASE CopySlot(t)
  BY <1>23 DEF CopySlot, FramesInv
<1>24. CASE AskExclusive(t)
  BY <1>24 DEF AskExclusive, FramesInv
<1>25. CASE Swap(t)
  BY <1>25 DEF Swap, FramesInv
<1>26. CASE Clear(t)
  BY <1>26 DEF Clear, FramesInv
<1>27. CASE Finish(t)
  BY <1>27 DEF Finish, FramesInv
<1>28. CASE Resign(t)
  <2>1. CASE Retry(t, "resign") /\ frame[t].outcome = "full"
    BY <2>1, RetryKeepsFrames
  <2>2. CASE Goto(t, "resign", "return") /\ frame[t].outcome # "full" /\ UNCHANGED frame
    BY <2>2 DEF FramesInv
  <2> QED
    BY <1>28, <2>1, <2>2 DEF Resign
<1> QED
  BY <1>1, <1>2, <1>3, <1>4, <1>5, <1>6, <1>7, <1>8, <1>9, <1>10, <1>11, <1>12, <1>13, <1>14,
     <1>15, <1>16, <1>17, <1>18, <1>19, <1>20, <1>21, <1>22, <1>23, <1>24, <1>25, <1>26, <1>27,
     <1>28 DEF Advance, Reads, Writes, Rehash

LEMMA LocksAreKept ==
  ASSUME FramesInv, LocksInv, NEW t \in Threads, Call(t) \/ Advance(t)
  PROVE  LocksInv'
<1>0. Fits(pc[t], frame[t]) /\ NoThread \notin Threads /\ pc \in [Threads -> Stages]
  BY TableAssumption DEF FramesInv
<1> USE <1>0 DEF Goto, LocksInv, Writing, Sharing, locks
<1>1. CASE Call(t)
  BY <1>1 DEF Call
<1>2. CASE Return(t)
  BY <1>2 DEF Return
<1>3. CASE EnterRead(t)
  BY <1>3 DEF EnterRead, JoinReaders
<1>4. CASE Probe(t)
  BY <1>4 DEF Probe
<1>5. CASE EnterWrite(t)
  BY <1>5 DEF EnterWrite, Fits
<1>6. CASE Join(t)
  BY <1>6 DEF Join, JoinReaders
<1>7. CASE EndSearch(t)
  BY <1>7 DEF EndSearch
<1>8. CASE LeaveReaders(t)
  BY <1>8 DEF LeaveReaders
<1>9. CASE WritePayload(t)
  BY <1>9 DEF WritePayload
<1>10. CASE Publish(t)
  BY <1>10 DEF Publish
<1>11. CASE MarkDeleted(t)
  BY <1>11 DEF MarkDeleted
<1>12. CASE Count(t)
  BY <1>12 DEF Count
<1>13. CASE UnlockWriter(t)
  BY <1>13 DEF UnlockWriter
<1>14. CASE CheckLoad(t)
  BY <1>14 DEF CheckLoad
<1>15. CASE Elect(t)
  BY <1>15 DEF Elect
<1>16. CASE Concede(t)
  BY <1>16 DEF Concede
<1>17. CASE Await(t)
  BY <1>17 DEF Await, Retry
<1>18. CASE EnterExtend(t)
  BY <1>18 DEF EnterExtend
<1>19. CASE SkipRehash(t)
  BY <1>19 DEF SkipRehash
<1>20. CASE BeginRehash(t)
  BY <1>20 DEF BeginRehash
<1>21. CASE AllocationFails(t)
  BY <1>21 DEF AllocationFails
<1>22. CASE SkipSlot(t)
  BY <1>22 DEF SkipSlot
<1>23. CASE CopySlot(t)
  BY <1>23 DEF CopySlot
<1>24. CASE AskExclusive(t)
  BY <1>24 DEF AskExclusive
<1>25. CASE Swap(t)
  BY <1>25 DEF Swap
<1>26. CASE Clear(t)
  BY <1>26 DEF Clear
<1>27. CASE Finish(t)
  BY <1>27 DEF Finish
<1>28. CASE Resign(t)
  BY <1>28 DEF Resign, Retry
<1> QED
  BY <1>1, <1>2, <1>3, <1>4, <1>5, <1>6, <1>7, <1>8, <1>9, <1>10, <1>11, <1>12, <1>13,
     <1>14, <1>15, <1>16, <1>17, <1>18, <1>19, <1>20, <1>21, <1>22, <1>23, <1>24, <1>25,
     <1>26, <1>27, <1>28 DEF Advance, Reads, Writes, Rehash

-----------------------------------------------------------------------------
(* The table, the slot an insertion has written and not yet published, and *)
(* the chain a reader has walked so far.                                   *)

TableInv ==
  /\ capacity \in Nat \ {0}
  /\ table \in [0 .. capacity - 1 -> Keys \cup {NoKey}]
  /\ occupied \subseteq 0 .. capacity - 1 /\ deleted \subseteq occupied
  /\ \A s \in occupied : table[s] \in Keys
  /\ KeysAreFindable

Written(s, k) == /\ s \in 0 .. capacity - 1 /\ s \notin occupied /\ table[s] = k
                 /\ k \notin Members
                 /\ Reachable(k, s, occupied, capacity)

Walked(k, i) == \A j \in 0 .. i - 1 : LET s == Slot(k, j, capacity)
                                      IN s \in occupied /\ ~Holds(s, k)

PublishInv == \A t \in Threads : pc[t] = "publish" => Written(frame[t].slot, frame[t].key)

ProbeInv == \A t \in Threads : pc[t] = "probe" => /\ frame[t].slot \in 0 .. capacity - 1
                                                  /\ Walked(frame[t].key, frame[t].slot)

\* A walk that ended without meeting the key proves it absent.
LEMMA WalkDecides ==
  ASSUME TableInv, NEW k \in Keys, NEW i \in 0 .. capacity,
         \A j \in 0 .. i - 1 : ~Holds(Slot(k, j, capacity), k),
         i = capacity \/ Slot(k, i, capacity) \notin occupied
  PROVE  k \notin Members
<1> SUFFICES ASSUME NEW s \in Live, table[s] = k
             PROVE  FALSE
  BY DEF Members
<1>1. PICK n \in 0 .. capacity - 1 : /\ Slot(k, n, capacity) = s
                                     /\ \A j \in 0 .. n - 1 : Slot(k, j, capacity) \in occupied
  BY DEF TableInv, KeysAreFindable, Reachable
<1>2. Holds(s, k)
  BY DEF Holds, Live
<1>3. ~(n < i)
  BY <1>1, <1>2 DEF TableInv
<1>4. n # i
  BY <1>1 DEF Live, TableInv
<1>5. ~(i < n)
  BY <1>1 DEF TableInv
<1> QED
  BY <1>3, <1>4, <1>5 DEF TableInv

\* The end of a writer's loop, at the first stop or past the last probe.
LEMMA StopDecides ==
  ASSUME TableInv, NEW k \in Keys
  PROVE  /\ Stops(k) = {} => k \notin Members
         /\ \A i \in Stops(k) : FirstStop(k, i) =>
              /\ i \in 0 .. capacity - 1 /\ Slot(k, i, capacity) \in 0 .. capacity - 1
              /\ \A j \in 0 .. i - 1 : Slot(k, j, capacity) \in occupied
              /\ Holds(Slot(k, i, capacity), k) => k \in Members
              /\ ~Holds(Slot(k, i, capacity), k) =>
                   k \notin Members /\ Slot(k, i, capacity) \notin occupied
<1>1. ASSUME Stops(k) = {}
      PROVE  k \notin Members
  <2>1. \A j \in 0 .. capacity - 1 : ~Holds(Slot(k, j, capacity), k)
    BY <1>1 DEF Stops
  <2>2. capacity \in 0 .. capacity
    BY DEF TableInv
  <2> QED
    BY <2>1, <2>2, WalkDecides
<1>2. ASSUME NEW i \in Stops(k), FirstStop(k, i)
      PROVE  /\ i \in 0 .. capacity - 1 /\ Slot(k, i, capacity) \in 0 .. capacity - 1
             /\ \A j \in 0 .. i - 1 : Slot(k, j, capacity) \in occupied
             /\ Holds(Slot(k, i, capacity), k) => k \in Members
             /\ ~Holds(Slot(k, i, capacity), k) =>
                  k \notin Members /\ Slot(k, i, capacity) \notin occupied
  <2>1. i \in 0 .. capacity - 1 /\ capacity \in Nat \ {0}
    BY DEF Stops, TableInv
  <2>2. \A j \in 0 .. i - 1 : /\ Slot(k, j, capacity) \in occupied
                              /\ ~Holds(Slot(k, j, capacity), k)
    <3> SUFFICES ASSUME NEW j \in 0 .. i - 1
                 PROVE  j \notin Stops(k)
      BY <2>1 DEF Stops
    <3> QED
      BY <1>2, <2>1 DEF FirstStop
  <2>3. Slot(k, i, capacity) \in 0 .. capacity - 1
    BY <2>1, SlotRange
  <2>4. Holds(Slot(k, i, capacity), k) => k \in Members
    BY DEF Holds, Members, Live
  <2>5. ~Holds(Slot(k, i, capacity), k) => Slot(k, i, capacity) \notin occupied
    BY <1>2 DEF Stops
  <2>6. ~Holds(Slot(k, i, capacity), k) => k \notin Members
    <3>1. i \in 0 .. capacity
      BY <2>1
    <3> QED
      BY <2>2, <2>5, <3>1, WalkDecides
  <2> QED
    BY <2>1, <2>2, <2>3, <2>4, <2>5, <2>6
<1> QED
  BY <1>1, <1>2

\* A thread's step moves that thread alone.
LEMMA OthersStay ==
  ASSUME FramesInv, NEW t \in Threads, Call(t) \/ Advance(t), NEW u \in Threads, u # t
  PROVE  pc'[u] = pc[u] /\ frame'[u] = frame[u]
<1> USE DEF FramesInv, Goto, Finds
<1>1. CASE Call(t) \/ Return(t)
  BY <1>1 DEF Call, Return
<1>2. CASE Reads(t)
  BY <1>2 DEF Reads, EnterRead, JoinReaders, Probe
<1>3. CASE Writes(t)
  BY <1>3 DEF Writes, EnterWrite, Join, JoinReaders, EndSearch, WritePayload, Publish,
              MarkDeleted, Count, UnlockWriter, LeaveReaders
<1>4. CASE Rehash(t)
  BY <1>4 DEF Rehash, CheckLoad, Elect, Concede, Await, Retry, EnterExtend, SkipRehash,
              BeginRehash, AllocationFails, GiveUp, SkipSlot, CopySlot, AskExclusive, Swap,
              Clear, Finish, Resign
<1> QED
  BY <1>1, <1>2, <1>3, <1>4 DEF Advance

\* The steps that leave the slots alone and begin no walk.
Quiet(t) == /\ Call(t) \/ Advance(t)
            /\ ~(EnterRead(t) \/ Probe(t) \/ WritePayload(t) \/ Publish(t) \/ MarkDeleted(t)
                 \/ Swap(t) \/ Clear(t))

LEMMA QuietSteps ==
  ASSUME FramesInv, NEW t \in Threads, Quiet(t)
  PROVE  UNCHANGED storage /\ pc'[t] \notin {"publish", "probe"}
<1> USE DEF FramesInv, Goto, Finds, Stages
<1>1. CASE Call(t) \/ Return(t)
  BY <1>1 DEF Call, Return
<1>2. CASE Writes(t)
  BY <1>2 DEF Quiet, Writes, EnterWrite, Join, JoinReaders, EndSearch, Count, UnlockWriter,
              LeaveReaders
<1>3. CASE Rehash(t)
  BY <1>3 DEF Quiet, Rehash, CheckLoad, Elect, Concede, Await, Retry, EnterExtend, SkipRehash,
              BeginRehash, AllocationFails, GiveUp, SkipSlot, CopySlot, AskExclusive, Finish,
              Resign
<1> QED
  BY <1>1, <1>2, <1>3 DEF Quiet, Advance, Reads

LEMMA StorageStays ==
  ASSUME TableInv, UNCHANGED storage
  PROVE  /\ TableInv' /\ Members' = Members
         /\ \A s, k : Written(s, k)' <=> Written(s, k)
         /\ \A k, i : Walked(k, i)' <=> Walked(k, i)
<1> USE DEF storage, Live, Holds, Members, Reachable
<1>1. TableInv' /\ Members' = Members
  BY DEF TableInv, KeysAreFindable
<1>2. \A s, k : Written(s, k)' <=> Written(s, k)
  BY DEF Written
<1>3. \A k, i : Walked(k, i)' <=> Walked(k, i)
  BY DEF Walked
<1> QED
  BY <1>1, <1>2, <1>3

LEMMA QuietKeepsTable ==
  ASSUME FramesInv, TableInv, PublishInv, ProbeInv, NEW t \in Threads, Quiet(t)
  PROVE  TableInv' /\ Members' = Members /\ PublishInv' /\ ProbeInv'
<1>1. UNCHANGED storage /\ pc'[t] \notin {"publish", "probe"} /\ capacity' = capacity
  BY QuietSteps DEF storage
<1>2. \A u \in Threads \ {t} : pc'[u] = pc[u] /\ frame'[u] = frame[u]
  BY OthersStay DEF Quiet
<1>3. PublishInv'
  <2> SUFFICES ASSUME NEW u \in Threads, pc'[u] = "publish"
               PROVE  Written(frame[u].slot, frame[u].key)'
    BY DEF PublishInv
  <2>1. u # t /\ pc[u] = "publish" /\ frame'[u] = frame[u]
    BY <1>1, <1>2
  <2>2. Written(frame[u].slot, frame[u].key)
    BY <2>1 DEF PublishInv
  <2> QED
    BY <1>1, <2>1, <2>2, StorageStays DEF Written, storage, Live, Members, Reachable
<1>4. ProbeInv'
  <2> SUFFICES ASSUME NEW u \in Threads, pc'[u] = "probe"
               PROVE  /\ frame'[u].slot \in 0 .. capacity' - 1
                      /\ Walked(frame[u].key, frame[u].slot)'
    BY DEF ProbeInv
  <2>1. u # t /\ pc[u] = "probe" /\ frame'[u] = frame[u]
    BY <1>1, <1>2
  <2>2. frame[u].slot \in 0 .. capacity - 1 /\ Walked(frame[u].key, frame[u].slot)
    BY <2>1 DEF ProbeInv
  <2> QED
    BY <1>1, <2>1, <2>2 DEF Walked, storage, Holds
<1> QED
  BY <1>1, <1>3, <1>4, StorageStays

LEMMA EnterReadKeepsTable ==
  ASSUME FramesInv, TableInv, PublishInv, ProbeInv, NEW t \in Threads, EnterRead(t)
  PROVE  TableInv' /\ Members' = Members /\ PublishInv' /\ ProbeInv'
<1>1. UNCHANGED storage /\ UNCHANGED frame /\ capacity' = capacity
  BY DEF EnterRead, storage
<1>2. pc'[t] = "probe" /\ frame[t].slot = 0 /\ pc[t] = "read"
  BY FrameFacts DEF EnterRead, JoinReaders, Goto, FramesInv, Fits
<1>3. \A u \in Threads \ {t} : pc'[u] = pc[u]
  BY OthersStay DEF Advance, Reads
<1>4. PublishInv'
  BY <1>1, <1>2, <1>3 DEF PublishInv, Written, storage, Live, Members, Reachable
<1>5. ProbeInv'
  <2> SUFFICES ASSUME NEW u \in Threads, pc'[u] = "probe"
               PROVE  /\ frame'[u].slot \in 0 .. capacity' - 1
                      /\ Walked(frame[u].key, frame[u].slot)'
    BY DEF ProbeInv
  <2>1. frame[u].slot \in 0 .. capacity - 1 /\ Walked(frame[u].key, frame[u].slot)
    BY <1>2, <1>3 DEF ProbeInv, Walked, TableInv
  <2> QED
    BY <1>1, <2>1 DEF Walked, storage, Holds
<1> QED
  BY <1>1, <1>4, <1>5, StorageStays

LEMMA ProbeKeepsTable ==
  ASSUME FramesInv, TableInv, PublishInv, ProbeInv, NEW t \in Threads, Probe(t)
  PROVE  TableInv' /\ Members' = Members /\ PublishInv' /\ ProbeInv'
<1>1. UNCHANGED storage /\ capacity' = capacity
  BY DEF Probe, storage
<1>2. \A u \in Threads \ {t} : pc'[u] = pc[u] /\ frame'[u] = frame[u]
  BY OthersStay DEF Advance, Reads
<1>3. pc'[t] # "publish" /\ pc[t] = "probe"
  BY DEF Probe, FramesInv
<1>4. PublishInv'
  <2> SUFFICES ASSUME NEW u \in Threads, pc'[u] = "publish"
               PROVE  Written(frame[u].slot, frame[u].key)'
    BY DEF PublishInv
  <2>1. frame'[u] = frame[u] /\ Written(frame[u].slot, frame[u].key)
    BY <1>2, <1>3 DEF PublishInv
  <2> QED
    BY <1>1, <2>1 DEF Written, storage, Live, Members, Reachable
<1>5. ProbeInv'
  <2> SUFFICES ASSUME NEW u \in Threads, pc'[u] = "probe"
               PROVE  /\ frame'[u].slot \in 0 .. capacity' - 1
                      /\ Walked(frame[u].key, frame[u].slot)'
    BY DEF ProbeInv
  <2>1. CASE u # t
    <3>1. /\ frame'[u] = frame[u]
          /\ frame[u].slot \in 0 .. capacity - 1 /\ Walked(frame[u].key, frame[u].slot)
      BY <1>2, <2>1 DEF ProbeInv
    <3> QED
      BY <1>1, <3>1 DEF Walked, storage, Holds
  <2>2. CASE u = t
    <3> DEFINE k == frame[t].key
               i == frame[t].slot
    <3>1. /\ i \in 0 .. capacity - 1 /\ Walked(k, i)
          /\ capacity \in Nat \ {0}
      BY <1>3 DEF ProbeInv, TableInv
    <3>2. /\ Slot(k, i, capacity) \in occupied /\ ~Holds(Slot(k, i, capacity), k)
          /\ i + 1 # capacity
          /\ frame'[t].slot = i + 1 /\ frame'[t].key = k
      BY <2>2 DEF Probe, FramesInv, Frames
    <3>3. i + 1 \in 0 .. capacity - 1
      BY <3>1, <3>2
    <3>4. Walked(k, i + 1)
      <4> SUFFICES ASSUME NEW j \in 0 .. i
                   PROVE  Slot(k, j, capacity) \in occupied /\ ~Holds(Slot(k, j, capacity), k)
        BY <3>1 DEF Walked
      <4> QED
        BY <3>1, <3>2 DEF Walked
    <3> QED
      BY <1>1, <2>2, <3>2, <3>3, <3>4 DEF Walked, storage, Holds
  <2> QED
    BY <2>1, <2>2
<1> QED
  BY <1>1, <1>4, <1>5, StorageStays

LEMMA WritePayloadKeepsTable ==
  ASSUME FramesInv, LocksInv, TableInv, PublishInv, ProbeInv, NEW t \in Threads,
         WritePayload(t)
  PROVE  TableInv' /\ Members' = Members /\ PublishInv' /\ ProbeInv'
<1> DEFINE k == frame[t].key
<1>1. k \in Keys /\ pc[t] = "search"
  BY FrameFacts DEF WritePayload, Goto, Fits
<1>2. PICK i \in Stops(k) :
        /\ FirstStop(k, i) /\ Slot(k, i, capacity) \notin occupied
        /\ table' = [table EXCEPT ![Slot(k, i, capacity)] = k]
        /\ deleted' = deleted \ {Slot(k, i, capacity)}
        /\ frame' = [frame EXCEPT ![t].slot = Slot(k, i, capacity)]
  BY DEF WritePayload
<1> DEFINE s == Slot(k, i, capacity)
<1>3. /\ i \in 0 .. capacity - 1 /\ s \in 0 .. capacity - 1 /\ s \notin occupied
      /\ \A j \in 0 .. i - 1 : Slot(k, j, capacity) \in occupied
      /\ k \notin Members
  BY <1>1, <1>2, StopDecides DEF Holds
<1>4. /\ capacity' = capacity /\ occupied' = occupied /\ deleted' = deleted
      /\ \A r \in occupied : table'[r] = table[r]
      /\ table'[s] = k /\ table' \in [0 .. capacity - 1 -> Keys \cup {NoKey}]
  BY <1>1, <1>2, <1>3, ZenonT(60) DEF WritePayload, TableInv
<1> HIDE DEF s
<1>5. Live' = Live /\ Live \subseteq occupied /\ Members' = Members
  BY <1>4 DEF Live, Members
<1>6. TableInv'
  BY <1>4, <1>5 DEF TableInv, KeysAreFindable, Reachable
<1>7. \A u \in Threads \ {t} : pc'[u] = pc[u] /\ frame'[u] = frame[u] /\ pc[u] # "publish"
  BY <1>1, OthersStay DEF Advance, Writes, LocksInv, Writing
<1>8. PublishInv'
  <2> SUFFICES Written(frame[t].slot, frame[t].key)'
    BY <1>7 DEF PublishInv
  <2>1. frame'[t].slot = s /\ frame'[t].key = k
    BY <1>2 DEF FramesInv, Frames, s
  <2>2. Reachable(k, s, occupied, capacity)
    BY <1>3 DEF Reachable, s
  <2> QED
    BY <1>3, <1>4, <1>5, <2>1, <2>2 DEF Written, Reachable
<1>9. ProbeInv'
  <2> SUFFICES ASSUME NEW u \in Threads, pc'[u] = "probe"
               PROVE  /\ frame'[u].slot \in 0 .. capacity' - 1
                      /\ Walked(frame[u].key, frame[u].slot)'
    BY DEF ProbeInv
  <2>1. u # t
    BY DEF WritePayload, Goto, FramesInv
  <2>2. /\ frame'[u] = frame[u]
        /\ frame[u].slot \in 0 .. capacity - 1 /\ Walked(frame[u].key, frame[u].slot)
    BY <1>7, <2>1 DEF ProbeInv
  <2> QED
    BY <1>4, <2>2 DEF Walked, Holds
<1> QED
  BY <1>5, <1>6, <1>8, <1>9

LEMMA PublishKeepsTable ==
  ASSUME FramesInv, LocksInv, TableInv, PublishInv, ProbeInv, NEW t \in Threads, Publish(t)
  PROVE  /\ TableInv' /\ PublishInv' /\ ProbeInv'
         /\ frame[t].key \notin Members /\ Members' = Members \cup {frame[t].key}
<1> DEFINE k == frame[t].key
           s == frame[t].slot
<1>1. k \in Keys /\ pc[t] = "publish" /\ Written(s, k)
  BY FrameFacts DEF Publish, Goto, Fits, PublishInv
<1>2. /\ capacity' = capacity /\ table' = table /\ deleted' = deleted
      /\ occupied' = occupied \cup {s}
  BY DEF Publish
<1> HIDE DEF s, k
<1>3. Live' = Live \cup {s} /\ s \notin Live
  BY <1>1, <1>2 DEF Live, Written, TableInv
<1>4. Members' = Members \cup {k} /\ k \notin Members
  BY <1>1, <1>2, <1>3 DEF Members, Written
<1>5. \A r \in Live : table[r] # k
  BY <1>4 DEF Members
<1>6. KeysAreFindable'
  <2>1. \A r \in Live' : Reachable(table[r], r, occupied, capacity)'
    <3> SUFFICES ASSUME NEW r \in Live'
                 PROVE  Reachable(table[r], r, occupied, capacity)'
      OBVIOUS
    <3>1. Reachable(table[r], r, occupied, capacity)
      BY <1>1, <1>3 DEF TableInv, KeysAreFindable, Written
    <3> QED
      BY <1>2, <3>1 DEF Reachable
  <2>2. \A q, r \in Live' : table'[q] = table'[r] => q = r
    BY <1>1, <1>2, <1>3, <1>5 DEF TableInv, KeysAreFindable, Written
  <2> QED
    BY <2>1, <2>2 DEF KeysAreFindable
<1>7. TableInv'
  BY <1>1, <1>2, <1>6 DEF TableInv, Written
<1>8. \A u \in Threads \ {t} : pc'[u] = pc[u] /\ frame'[u] = frame[u] /\ pc[u] # "publish"
  BY <1>1, OthersStay DEF Advance, Writes, LocksInv, Writing
<1>9. pc'[t] = "count"
  BY DEF Publish, Goto, FramesInv
<1>10. PublishInv'
  BY <1>8, <1>9 DEF PublishInv
<1>11. ProbeInv'
  <2> SUFFICES ASSUME NEW u \in Threads, pc'[u] = "probe"
               PROVE  /\ frame'[u].slot \in 0 .. capacity' - 1
                      /\ Walked(frame[u].key, frame[u].slot)'
    BY DEF ProbeInv
  <2>1. /\ frame'[u] = frame[u]
        /\ frame[u].slot \in 0 .. capacity - 1 /\ Walked(frame[u].key, frame[u].slot)
    BY <1>8, <1>9 DEF ProbeInv
  <2>2. s \notin occupied
    BY <1>1 DEF Written
  <2> QED
    BY <1>2, <2>1, <2>2 DEF Walked, Holds
<1> QED
  BY <1>4, <1>7, <1>10, <1>11 DEF k

LEMMA MarkDeletedKeepsTable ==
  ASSUME FramesInv, LocksInv, TableInv, PublishInv, ProbeInv, NEW t \in Threads, MarkDeleted(t)
  PROVE  /\ TableInv' /\ PublishInv' /\ ProbeInv'
         /\ frame[t].key \in Members /\ Members' = Members \ {frame[t].key}
<1> DEFINE k == frame[t].key
<1>1. PICK i \in Stops(k) : /\ Holds(Slot(k, i, capacity), k)
                            /\ deleted' = deleted \cup {Slot(k, i, capacity)}
  BY DEF MarkDeleted
<1> DEFINE s == Slot(k, i, capacity)
<1>2. /\ s \in Live /\ table[s] = k /\ deleted' = deleted \cup {s}
      /\ capacity' = capacity /\ table' = table /\ occupied' = occupied
  BY <1>1 DEF MarkDeleted, Holds, Live
<1> HIDE DEF s, k
<1>3. Live' = Live \ {s}
  BY <1>2 DEF Live
<1>4. Members' = Members \ {k} /\ k \in Members
  <2>1. \A r \in Live : table[r] = k => r = s
    BY <1>2 DEF TableInv, KeysAreFindable
  <2> QED
    BY <1>2, <1>3, <2>1 DEF Members
<1>5. TableInv'
  BY <1>2, <1>3 DEF TableInv, KeysAreFindable, Reachable, Live
<1>6. \A u \in Threads \ {t} : pc'[u] = pc[u] /\ frame'[u] = frame[u] /\ pc[u] # "publish"
  BY OthersStay, ZenonT(60) DEF Advance, Writes, LocksInv, Writing, MarkDeleted, Goto
<1>7. pc'[t] = "count"
  BY DEF MarkDeleted, Goto, FramesInv
<1>8. PublishInv'
  BY <1>6, <1>7 DEF PublishInv
<1>9. ProbeInv'
  <2> SUFFICES ASSUME NEW u \in Threads, pc'[u] = "probe"
               PROVE  /\ frame'[u].slot \in 0 .. capacity' - 1
                      /\ Walked(frame[u].key, frame[u].slot)'
    BY DEF ProbeInv
  <2>1. /\ frame'[u] = frame[u]
        /\ frame[u].slot \in 0 .. capacity - 1 /\ Walked(frame[u].key, frame[u].slot)
    BY <1>6, <1>7 DEF ProbeInv
  <2> QED
    BY <1>2, <2>1 DEF Walked, Holds
<1> QED
  BY <1>4, <1>5, <1>8, <1>9 DEF k

\* While the lock is held exclusively nobody walks and nobody has written.
LEMMA ClearKeepsTable ==
  ASSUME FramesInv, LocksInv, TableInv, NEW t \in Threads, Clear(t)
  PROVE  TableInv' /\ PublishInv' /\ ProbeInv' /\ Members' = {}
<1>1. /\ occupied' = {} /\ deleted' = {} /\ capacity' = capacity /\ table' = table
      /\ readers = {} /\ pc' = [pc EXCEPT ![t] = "finish"]
  BY DEF Clear, Goto
<1>2. \A u \in Threads : pc'[u] \notin {"publish", "probe"}
  BY <1>1 DEF LocksInv, Sharing, FramesInv
<1>3. Live' = {} /\ Members' = {}
  BY <1>1 DEF Live, Members
<1> QED
  BY <1>1, <1>2, <1>3 DEF TableInv, KeysAreFindable, PublishInv, ProbeInv

-----------------------------------------------------------------------------
(* The new table of a rehash *)

\* The draft holds the live keys of the slots copied so far, each once and reachable.
Copies(d) ==
  /\ d.capacity \in Nat \ {0}
  /\ d.table \in [0 .. d.capacity - 1 -> Keys \cup {NoKey}]
  /\ d.occupied \subseteq 0 .. d.capacity - 1 /\ d.copied \in 0 .. capacity
  /\ \A s \in d.occupied : d.table[s] \in Keys /\ Reachable(d.table[s], s, d.occupied, d.capacity)
  /\ \A r, s \in d.occupied : d.table[r] = d.table[s] => r = s
  /\ \A s \in d.occupied : \E r \in Live : r < d.copied /\ table[r] = d.table[s]
  /\ \A r \in Live : r < d.copied => \E s \in d.occupied : d.table[s] = table[r]

Copying(t) == pc[t] \in {"copy", "swap"}

DraftInv ==
  /\ draft = [capacity |-> draft.capacity, table |-> draft.table,
              occupied |-> draft.occupied, copied |-> draft.copied]
  /\ \A t \in Threads : /\ Copying(t) => Copies(draft)
                        /\ pc[t] = "swap" => draft.copied = capacity
  /\ (\A t \in Threads : ~Copying(t)) => draft = NoDraft

LEMMA BeginRehashKeepsDraft ==
  ASSUME FramesInv, LocksInv, TableInv, DraftInv, NEW t \in Threads, BeginRehash(t)
  PROVE  DraftInv'
<1>1. /\ pc[t] = "plan" /\ pc' = [pc EXCEPT ![t] = "copy"] /\ UNCHANGED storage
      /\ draft' = [capacity |-> Target(t), table |-> EmptyTable(Target(t)),
                   occupied |-> {}, copied |-> 0]
  BY DEF BeginRehash, Goto
<1>2. Target(t) \in Nat \ {0}
  <2>1. frame[t].op = "resize" => PowerOfTwoFor(frame[t].length) \in Nat \ {0}
    BY FrameFacts, TableAssumption DEF Fits
  <2> QED
    BY <2>1 DEF Target, TableInv
<1>3. EmptyTable(Target(t)) \in [0 .. Target(t) - 1 -> Keys \cup {NoKey}]
  BY DEF EmptyTable
<1>4. Copies(draft)'
  <2> DEFINE c == Target(t)
  <2>1. /\ draft'.capacity = c /\ draft'.table = EmptyTable(c)
        /\ draft'.occupied = {} /\ draft'.copied = 0
    BY <1>1
  <2>2. c \in Nat \ {0} /\ EmptyTable(c) \in [0 .. c - 1 -> Keys \cup {NoKey}]
    BY <1>2, <1>3
  <2> HIDE DEF c
  <2>3. /\ Live' = Live /\ capacity' = capacity /\ capacity \in Nat \ {0}
        /\ \A r \in Live : ~(r < 0)
    BY <1>1 DEF TableInv, storage, Live
  <2> QED
    BY <2>1, <2>2, <2>3 DEF Copies
<1>5. \A u \in Threads \ {t} : pc'[u] = pc[u] /\ ~Copying(u)
  BY <1>1 DEF LocksInv, Writing, Copying, FramesInv
<1>6. pc'[t] = "copy"
  BY <1>1 DEF FramesInv
<1> QED
  BY <1>1, <1>4, <1>5, <1>6 DEF DraftInv, Copying

LEMMA SkipSlotKeepsDraft ==
  ASSUME FramesInv, LocksInv, TableInv, DraftInv, NEW t \in Threads, SkipSlot(t)
  PROVE  DraftInv'
<1>1. /\ pc[t] = "copy" /\ pc' = pc /\ UNCHANGED storage
      /\ draft.copied < capacity /\ draft.copied \notin Live
  BY DEF SkipSlot
<1>2. Copies(draft)
  BY <1>1 DEF DraftInv, Copying
<1>3. draft' = [capacity |-> draft.capacity, table |-> draft.table,
                occupied |-> draft.occupied, copied |-> draft.copied + 1]
  BY DEF SkipSlot, DraftInv
<1>4. Live' = Live /\ table' = table /\ capacity' = capacity
  BY <1>1 DEF storage, Live
<1>5. \A r \in Live : r \in Int /\ (r < draft.copied + 1 <=> r < draft.copied)
  BY <1>1, <1>2 DEF Copies, Live, TableInv
<1>6. draft.copied + 1 \in 0 .. capacity
  BY <1>1, <1>2 DEF Copies, TableInv
<1>7. Copies(draft)'
  BY <1>2, <1>3, <1>4, <1>5, <1>6 DEF Copies
<1>8. \A u \in Threads \ {t} : ~Copying(u)
  BY <1>1 DEF LocksInv, Writing, Copying, FramesInv
<1> QED
  BY <1>1, <1>3, <1>7, <1>8 DEF DraftInv, Copying

LEMMA CopySlotKeepsDraft ==
  ASSUME FramesInv, LocksInv, TableInv, DraftInv, NEW t \in Threads, CopySlot(t)
  PROVE  DraftInv'
<1> DEFINE k == table[draft.copied]
<1>1. /\ pc[t] = "copy" /\ pc' = pc /\ UNCHANGED storage
      /\ draft.copied < capacity /\ draft.copied \in Live
  BY DEF CopySlot
<1>2. PICK i \in FreeProbes(k) :
        /\ \A j \in FreeProbes(k) : i <= j
        /\ draft' = [draft EXCEPT !.table[Slot(k, i, draft.capacity)] = k,
                                  !.occupied = @ \cup {Slot(k, i, draft.capacity)},
                                  !.copied = @ + 1]
  BY DEF CopySlot
<1> DEFINE s == Slot(k, i, draft.capacity)
<1>3. Copies(draft) /\ draft.capacity \in Nat \ {0} /\ k \in Keys
  BY <1>1 DEF DraftInv, Copying, Copies, TableInv, Live
<1>4. /\ i \in 0 .. draft.capacity - 1 /\ s \in 0 .. draft.capacity - 1
      /\ s \notin draft.occupied
      /\ \A j \in 0 .. i - 1 : Slot(k, j, draft.capacity) \in draft.occupied
  <2>1. i \in 0 .. draft.capacity - 1 /\ s \notin draft.occupied
    BY DEF FreeProbes
  <2>2. s \in 0 .. draft.capacity - 1
    BY <1>3, <2>1, SlotRange
  <2>3. \A j \in 0 .. i - 1 : j \in 0 .. draft.capacity - 1 /\ j \notin FreeProbes(k)
    BY <1>2, <1>3, <2>1
  <2> QED
    BY <2>1, <2>2, <2>3 DEF FreeProbes
<1>5. draft' = [capacity |-> draft.capacity, table |-> [draft.table EXCEPT ![s] = k],
                occupied |-> draft.occupied \cup {s}, copied |-> draft.copied + 1]
  BY <1>2 DEF DraftInv
<1>6. Live' = Live /\ table' = table /\ capacity' = capacity
  BY <1>1 DEF storage, Live
<1>7. Reachable(k, s, draft.occupied, draft.capacity)
  BY <1>4 DEF Reachable
<1>8. table[draft.copied] = k /\ draft.copied \in Live
  BY <1>1
<1> HIDE DEF s, k
<1>9. draft.copied + 1 \in 0 .. capacity /\ \A r \in Live : r \in Int
  BY <1>1, <1>3 DEF Copies, TableInv, Live
<1>10. \A r \in draft.occupied : draft.table[r] # k
  BY <1>3, <1>8, <1>9 DEF Copies, TableInv, KeysAreFindable
<1>11. Copies(draft)'
  <2> DEFINE tab == [draft.table EXCEPT ![s] = k]
             occ == draft.occupied \cup {s}
  <2>1. /\ tab \in [0 .. draft.capacity - 1 -> Keys \cup {NoKey}]
        /\ occ \subseteq 0 .. draft.capacity - 1
        /\ tab[s] = k /\ \A r \in draft.occupied : tab[r] = draft.table[r]
    BY <1>3, <1>4 DEF Copies
  <2> HIDE DEF tab
  <2>2. \A r \in occ : tab[r] \in Keys /\ Reachable(tab[r], r, occ, draft.capacity)
    BY <1>3, <1>7, <2>1 DEF Copies, Reachable
  <2>3. \A q, r \in occ : tab[q] = tab[r] => q = r
    BY <1>3, <1>10, <2>1 DEF Copies
  <2>4. \A q \in occ : \E r \in Live : r < draft.copied + 1 /\ table[r] = tab[q]
    BY <1>3, <1>8, <1>9, <2>1 DEF Copies
  <2>5. \A r \in Live : r < draft.copied + 1 => \E q \in occ : tab[q] = table[r]
    <3> SUFFICES ASSUME NEW r \in Live, r < draft.copied + 1
                 PROVE  \E q \in occ : tab[q] = table[r]
      OBVIOUS
    <3>1. CASE r < draft.copied
      BY <1>3, <2>1, <3>1 DEF Copies
    <3>2. CASE r = draft.copied
      BY <1>8, <2>1, <3>2
    <3> QED
      BY <1>3, <1>9, <3>1, <3>2 DEF Copies
  <2>6. draft' = [capacity |-> draft.capacity, table |-> tab, occupied |-> occ,
                  copied |-> draft.copied + 1]
    BY <1>5 DEF tab
  <2> HIDE DEF occ
  <2> QED
    BY <1>3, <1>6, <1>9, <2>1, <2>2, <2>3, <2>4, <2>5, <2>6 DEF Copies
<1>12. \A u \in Threads \ {t} : ~Copying(u)
  BY <1>1 DEF LocksInv, Writing, Copying, FramesInv
<1> QED
  BY <1>1, <1>5, <1>11, <1>12 DEF DraftInv, Copying

\* The steps that begin no rehash, copy nothing and swap nothing.
LEMMA DraftSteps ==
  ASSUME FramesInv, NEW t \in Threads, Call(t) \/ Advance(t),
         ~(BeginRehash(t) \/ SkipSlot(t) \/ CopySlot(t) \/ Swap(t))
  PROVE  /\ draft' = draft /\ (Copying(t)' <=> Copying(t))
         /\ pc'[t] = "swap" => pc[t] = "copy" /\ draft.copied = capacity
         /\ UNCHANGED storage \/ pc[t] \in {"search", "publish", "clear"}
<1> USE DEF FramesInv, Goto, Copying, storage
<1>1. CASE Call(t) \/ Return(t)
  BY <1>1 DEF Call, Return
<1>2. CASE Reads(t)
  BY <1>2 DEF Reads, EnterRead, JoinReaders, Probe
<1>3. CASE Writes(t)
  BY <1>3 DEF Writes, EnterWrite, Join, JoinReaders, EndSearch, WritePayload, Publish,
              MarkDeleted, Count, UnlockWriter, LeaveReaders
<1>4. CASE Rehash(t)
  BY <1>4 DEF Rehash, CheckLoad, Elect, Concede, Await, Retry, EnterExtend, SkipRehash,
              AllocationFails, AskExclusive, Clear, Finish, Resign
<1> QED
  BY <1>1, <1>2, <1>3, <1>4 DEF Advance

\* The copier is the writer: nobody else changes a slot meanwhile.
LEMMA DraftIsKept ==
  ASSUME FramesInv, LocksInv, DraftInv, NEW t \in Threads, Call(t) \/ Advance(t),
         ~(BeginRehash(t) \/ SkipSlot(t) \/ CopySlot(t) \/ Swap(t))
  PROVE  DraftInv'
<1>1. /\ draft' = draft /\ (Copying(t)' <=> Copying(t))
      /\ pc'[t] = "swap" => pc[t] = "copy" /\ draft.copied = capacity
      /\ UNCHANGED storage \/ pc[t] \in {"search", "publish", "clear"}
  BY DraftSteps
<1>2. \A u \in Threads \ {t} : pc'[u] = pc[u] /\ (Copying(u)' <=> Copying(u))
  BY OthersStay DEF Copying
<1>3. \A u \in Threads : Copying(u)' <=> Copying(u)
  BY <1>1, <1>2
<1>4. ASSUME NEW u \in Threads, Copying(u)'
      PROVE  Copies(draft)' /\ (pc'[u] = "swap" => draft'.copied = capacity')
  <2>1. Copying(u) /\ Copies(draft)
    BY <1>3, <1>4 DEF DraftInv
  <2>2. UNCHANGED storage
    BY <1>1, <2>1 DEF LocksInv, Writing, Copying
  <2>3. Live' = Live /\ table' = table /\ capacity' = capacity
    BY <2>2 DEF storage, Live
  <2>4. Copies(draft)'
    BY <1>1, <2>1, <2>3 DEF Copies
  <2>5. pc'[u] = "swap" => draft.copied = capacity
    BY <1>1, <1>2 DEF DraftInv
  <2> QED
    BY <1>1, <2>3, <2>4, <2>5
<1>5. (\A u \in Threads : ~Copying(u)') => draft' = NoDraft
  BY <1>1, <1>3 DEF DraftInv
<1>6. \A u \in Threads : pc'[u] = "swap" => Copying(u)'
  BY DEF Copying
<1>7. draft' = [capacity |-> draft'.capacity, table |-> draft'.table,
                occupied |-> draft'.occupied, copied |-> draft'.copied]
  BY <1>1 DEF DraftInv
<1> QED
  BY <1>4, <1>5, <1>6, <1>7 DEF DraftInv

\* The draft is complete and nobody is inside: the swap loses no key and revives none.
LEMMA SwapKeepsTable ==
  ASSUME FramesInv, LocksInv, TableInv, DraftInv, NEW t \in Threads, Swap(t)
  PROVE  TableInv' /\ Members' = Members /\ PublishInv' /\ ProbeInv' /\ DraftInv'
<1>1. /\ capacity' = draft.capacity /\ table' = draft.table
      /\ occupied' = draft.occupied /\ deleted' = {} /\ draft' = NoDraft
      /\ readers = {} /\ pc[t] = "swap" /\ pc' = [pc EXCEPT ![t] = "finish"]
  BY DEF Swap, Goto
<1>2. Copies(draft) /\ draft.copied = capacity
  BY <1>1 DEF DraftInv, Copying
<1>3. Live' = draft.occupied
  BY <1>1 DEF Live
<1>4. \A r \in Live : r < draft.copied
  BY <1>2 DEF Live, TableInv
<1>5. Members' = Members
  BY <1>1, <1>2, <1>3, <1>4 DEF Members, Copies
<1>6. KeysAreFindable'
  BY <1>1, <1>2, <1>3 DEF KeysAreFindable, Copies, Reachable
<1>7. TableInv'
  BY <1>1, <1>2, <1>6 DEF TableInv, Copies
<1>8. \A u \in Threads : pc'[u] \notin {"publish", "probe"}
  BY <1>1 DEF LocksInv, Sharing, FramesInv
<1>9. PublishInv' /\ ProbeInv'
  BY <1>8 DEF PublishInv, ProbeInv
<1>10. \A u \in Threads : pc'[u] \notin {"copy", "swap"}
  BY <1>1 DEF LocksInv, Writing, FramesInv
<1>11. DraftInv'
  BY <1>1, <1>10 DEF DraftInv, Copying, NoDraft
<1> QED
  BY <1>5, <1>7, <1>9, <1>11

\* Every step keeps the four parts about the slots, and what it does to the set.
LEMMA SlotsAreKept ==
  ASSUME FramesInv, LocksInv, TableInv, PublishInv, ProbeInv, DraftInv, NEW t \in Threads,
         Call(t) \/ Advance(t)
  PROVE  /\ TableInv' /\ PublishInv' /\ ProbeInv' /\ DraftInv'
         /\ ~(Publish(t) \/ MarkDeleted(t) \/ Clear(t)) => Members' = Members
<1>1. DraftInv'
  BY BeginRehashKeepsDraft, SkipSlotKeepsDraft, CopySlotKeepsDraft, SwapKeepsTable, DraftIsKept
<1>2. /\ TableInv' /\ PublishInv' /\ ProbeInv'
      /\ ~(Publish(t) \/ MarkDeleted(t) \/ Clear(t)) => Members' = Members
  BY QuietKeepsTable, EnterReadKeepsTable, ProbeKeepsTable, WritePayloadKeepsTable,
     PublishKeepsTable, MarkDeletedKeepsTable, SwapKeepsTable, ClearKeepsTable DEF Quiet
<1> QED
  BY <1>1, <1>2

-----------------------------------------------------------------------------
(* The count of the keys, and the election of the thread that rehashes *)

CountInv ==
  /\ count \in Nat /\ IsFiniteSet(Members)
  /\ \A t \in Threads : pc[t] = "count" =>
       Cardinality(Members) = IF frame[t].op = "push" THEN count + 1 ELSE count - 1
  /\ (\A t \in Threads : pc[t] # "count") => count = Cardinality(Members)

\* The steps that neither change the set nor the count.
LEMMA CountSteps ==
  ASSUME FramesInv, NEW t \in Threads, Call(t) \/ Advance(t),
         ~(Publish(t) \/ MarkDeleted(t) \/ Clear(t) \/ Count(t))
  PROVE  count' = count /\ pc[t] # "count" /\ pc'[t] # "count"
<1> USE DEF FramesInv, Goto
<1>1. CASE Call(t) \/ Return(t)
  BY <1>1 DEF Call, Return
<1>2. CASE Reads(t)
  BY <1>2 DEF Reads, EnterRead, JoinReaders, Probe
<1>3. CASE Writes(t)
  BY <1>3 DEF Writes, EnterWrite, Join, JoinReaders, EndSearch, WritePayload, UnlockWriter,
              LeaveReaders
<1>4. CASE Rehash(t)
  BY <1>4 DEF Rehash, CheckLoad, Elect, Concede, Await, Retry, EnterExtend, SkipRehash,
              BeginRehash, AllocationFails, SkipSlot, CopySlot, AskExclusive, Swap, Finish,
              Resign
<1> QED
  BY <1>1, <1>2, <1>3, <1>4 DEF Advance

LEMMA CountIsKept ==
  ASSUME FramesInv, LocksInv, TableInv, PublishInv, ProbeInv, DraftInv, CountInv,
         NEW t \in Threads, Call(t) \/ Advance(t)
  PROVE  CountInv'
<1>1. \A u \in Threads \ {t} : pc'[u] = pc[u] /\ frame'[u] = frame[u]
  BY OthersStay
<1>2. CASE ~(Publish(t) \/ MarkDeleted(t) \/ Clear(t) \/ Count(t))
  <2>1. Members' = Members
    BY <1>2, SlotsAreKept
  <2>2. count' = count /\ pc[t] # "count" /\ pc'[t] # "count"
    BY <1>2, CountSteps
  <2> QED
    BY <1>1, <2>1, <2>2 DEF CountInv
<1>3. CASE Publish(t)
  <2>1. frame[t].key \notin Members /\ Members' = Members \cup {frame[t].key}
    BY <1>3, PublishKeepsTable
  <2>2. /\ pc[t] = "publish" /\ pc'[t] = "count" /\ count' = count
        /\ frame'[t].op = "push"
    BY <1>3, FrameFacts DEF Publish, Goto, FramesInv, Fits, Frames
  <2>3. \A u \in Threads \ {t} : pc[u] # "count"
    BY <2>2 DEF LocksInv, Writing
  <2>4. count = Cardinality(Members) /\ IsFiniteSet(Members) /\ count \in Nat
    BY <2>2, <2>3 DEF CountInv
  <2>5. IsFiniteSet(Members') /\ Cardinality(Members') = count + 1
    BY <2>1, <2>4, FS_AddElement
  <2> QED
    BY <1>1, <2>2, <2>3, <2>4, <2>5 DEF CountInv
<1>4. CASE MarkDeleted(t)
  <2>1. frame[t].key \in Members /\ Members' = Members \ {frame[t].key}
    BY <1>4, MarkDeletedKeepsTable
  <2>2. /\ pc[t] = "search" /\ pc'[t] = "count" /\ count' = count
        /\ frame'[t].op = "erase"
    BY <1>4, FrameFacts DEF MarkDeleted, Goto, Finds, FramesInv, Frames
  <2>3. \A u \in Threads \ {t} : pc[u] # "count"
    BY <2>2 DEF LocksInv, Writing
  <2>4. count = Cardinality(Members) /\ IsFiniteSet(Members) /\ count \in Nat
    BY <2>2, <2>3 DEF CountInv
  <2>5. IsFiniteSet(Members') /\ Cardinality(Members') = count - 1
    BY <2>1, <2>4, FS_RemoveElement
  <2> QED
    BY <1>1, <2>2, <2>3, <2>4, <2>5 DEF CountInv
<1>5. CASE Clear(t)
  <2>1. Members' = {} /\ IsFiniteSet({}) /\ Cardinality({}) = 0
    BY <1>5, ClearKeepsTable, FS_EmptySet
  <2>2. pc[t] = "clear" /\ pc'[t] = "finish" /\ count' = 0
    BY <1>5 DEF Clear, Goto, FramesInv
  <2>3. \A u \in Threads : pc'[u] # "count"
    BY <1>1, <2>2 DEF LocksInv, Writing
  <2> QED
    BY <2>1, <2>2, <2>3 DEF CountInv
<1>6. CASE Count(t)
  <2>1. Members' = Members
    BY <1>6 DEF Count, storage, Members, Live
  <2>2. /\ pc[t] = "count" /\ pc'[t] = "unlock"
        /\ count' = IF frame[t].op = "push" THEN count + 1 ELSE count - 1
    BY <1>6 DEF Count, Goto, FramesInv
  <2>3. \A u \in Threads : pc'[u] # "count"
    BY <1>1, <2>2 DEF LocksInv, Writing
  <2>4. count' = Cardinality(Members) /\ IsFiniteSet(Members)
    BY <2>2 DEF CountInv
  <2>5. Cardinality(Members) \in Nat
    BY <2>4, FS_CardinalityType
  <2> QED
    BY <2>1, <2>3, <2>4, <2>5 DEF CountInv
<1> QED
  BY <1>2, <1>3, <1>4, <1>5, <1>6

Claims(t) == Elected(t) \/ pc[t] = "concede"
Claimants == {t \in Threads : Claims(t)}

ElectionInv == extending = Cardinality(Claimants) /\ \A t, u \in Threads : Elected(t) /\ Elected(u) => t = u

LEMMA ElectionSteps ==
  ASSUME FramesInv, NEW t \in Threads, Call(t) \/ Advance(t),
         ~(Elect(t) \/ Concede(t) \/ Resign(t))
  PROVE  extending' = extending /\ (Elected(t)' <=> Elected(t)) /\ (Claims(t)' <=> Claims(t))
<1>0. Fits(pc[t], frame[t]) /\ frame[t] \in Frames
  BY FrameFacts
<1> USE <1>0 DEF FramesInv, Goto, Finds, Elected, Claims
<1>1. CASE Call(t) \/ Return(t)
  BY <1>1 DEF Call, Return
<1>2. CASE Reads(t)
  BY <1>2 DEF Reads, EnterRead, JoinReaders, Probe
<1>3. CASE EnterWrite(t)
  BY <1>3 DEF EnterWrite, Fits
<1>4. CASE Writes(t) /\ ~EnterWrite(t)
  BY <1>4 DEF Writes, Join, JoinReaders, EndSearch, WritePayload, Publish, MarkDeleted, Count,
              UnlockWriter, LeaveReaders
<1>5. CASE Rehash(t)
  <2>1. CASE CheckLoad(t) \/ Await(t) \/ EnterExtend(t) \/ Finish(t)
    BY <2>1 DEF CheckLoad, Await, Retry, EnterExtend, Finish, Fits
  <2>2. CASE SkipRehash(t) \/ BeginRehash(t) \/ AllocationFails(t)
    BY <2>2 DEF SkipRehash, BeginRehash, AllocationFails, GiveUp, Frames
  <2>3. CASE SkipSlot(t) \/ CopySlot(t) \/ AskExclusive(t)
    BY <2>3 DEF SkipSlot, CopySlot, AskExclusive
  <2>4. CASE Swap(t) \/ Clear(t)
    BY <2>4 DEF Swap, Clear, Fits, Frames
  <2> QED
    BY <1>5, <2>1, <2>2, <2>3, <2>4 DEF Rehash
<1> QED
  BY <1>1, <1>2, <1>3, <1>4, <1>5 DEF Advance

LEMMA ElectionIsKept ==
  ASSUME FramesInv, ElectionInv, NEW t \in Threads, Call(t) \/ Advance(t)
  PROVE  ElectionInv'
<1>1. \A u \in Threads \ {t} : (Elected(u)' <=> Elected(u)) /\ (Claims(u)' <=> Claims(u))
  BY OthersStay DEF Elected, Claims
<1>2. IsFiniteSet(Claimants) /\ extending = Cardinality(Claimants) /\ extending \in Nat
  BY TableAssumption, FS_Subset, FS_CardinalityType DEF Claimants, ElectionInv
<1>3. CASE ~(Elect(t) \/ Concede(t) \/ Resign(t))
  <2>1. extending' = extending /\ (Elected(t)' <=> Elected(t)) /\ (Claims(t)' <=> Claims(t))
    BY <1>3, ElectionSteps
  <2>2. \A u \in Threads : (Elected(u)' <=> Elected(u)) /\ (Claims(u)' <=> Claims(u))
    BY <1>1, <2>1
  <2> QED
    BY <2>1, <2>2 DEF ElectionInv, Claimants
<1>4. CASE Elect(t)
  <2>1. /\ pc[t] = "elect" /\ extending' = extending + 1 /\ frame' = frame
        /\ pc'[t] = IF extending > 0 THEN "concede" ELSE "extend"
        /\ frame[t].op = "push"
    BY <1>4, FrameFacts DEF Elect, FramesInv, Fits
  <2>2. ~Claims(t) /\ Claims(t)' /\ (Elected(t)' => extending = 0)
    BY <1>2, <2>1 DEF Claims, Elected
  <2>3. Claimants' = Claimants \cup {t} /\ t \notin Claimants
    BY <1>1, <2>2 DEF Claimants
  <2>4. extending' = Cardinality(Claimants')
    BY <1>2, <2>1, <2>3, FS_AddElement
  <2>5. Elected(t)' => \A u \in Threads : ~Elected(u)
    BY <1>2, <2>2, FS_EmptySet DEF Claimants, Claims
  <2> QED
    BY <1>1, <2>2, <2>4, <2>5 DEF ElectionInv, Claims
<1>5. CASE Concede(t) \/ Resign(t)
  <2>1. /\ pc[t] \in {"concede", "resign"} /\ extending' = extending - 1
        /\ pc'[t] \in {"await", "return", "write"}
        /\ pc[t] = "resign" => frame[t].op = "push"
    BY <1>5, FrameFacts DEF Concede, Resign, Retry, Goto, FramesInv, Fits
  <2>2. Claims(t) /\ ~Claims(t)' /\ ~Elected(t)'
    BY <2>1 DEF Claims, Elected
  <2>3. Claimants' = Claimants \ {t} /\ t \in Claimants
    BY <1>1, <2>2 DEF Claimants
  <2>4. extending' = Cardinality(Claimants')
    BY <1>2, <2>1, <2>3, FS_RemoveElement
  <2> QED
    BY <1>1, <2>2, <2>4 DEF ElectionInv
<1> QED
  BY <1>3, <1>4, <1>5

-----------------------------------------------------------------------------
(* The invariant *)

LeftInv == left \in [Threads -> Nat] /\ \A t \in Threads : left[t] <= Calls[t]

Inv == /\ FramesInv /\ LocksInv
       /\ TableInv /\ PublishInv /\ ProbeInv /\ DraftInv
       /\ CountInv /\ ElectionInv /\ LeftInv

LEMMA InitInv == Init => Inv
<1> SUFFICES ASSUME Init
             PROVE  Inv
  OBVIOUS
<1> USE DEF Init
<1>1. FramesInv
  BY DEF FramesInv, Frames, Fits, Stages, NoFrame, Outcomes
<1>2. LocksInv
  BY TableAssumption DEF LocksInv, Writing, Sharing
<1>3. Live = {} /\ Members = {}
  BY DEF Live, Members
<1>4. TableInv
  BY <1>3, TableAssumption DEF TableInv, KeysAreFindable, EmptyTable
<1>5. PublishInv /\ ProbeInv
  BY DEF PublishInv, ProbeInv
<1>6. DraftInv
  BY DEF DraftInv, Copying, NoDraft
<1>7. CountInv
  BY <1>3, FS_EmptySet DEF CountInv
<1>8. ElectionInv
  <2>1. Claimants = {}
    BY DEF Claimants, Claims, Elected
  <2> QED
    BY <2>1, FS_EmptySet DEF ElectionInv, Elected
<1>9. LeftInv
  BY TableAssumption DEF LeftInv
<1> QED
  BY <1>1, <1>2, <1>4, <1>5, <1>6, <1>7, <1>8, <1>9 DEF Inv

LEMMA LeftIsKept ==
  ASSUME LeftInv, NEW t \in Threads, Call(t) \/ Advance(t)
  PROVE  LeftInv'
<1>0. Calls \in [Threads -> Nat]
  BY TableAssumption
<1>1. CASE Call(t)
  <2>1. left[t] > 0 /\ left[t] \in Nat /\ left' = [left EXCEPT ![t] = left[t] - 1]
    BY <1>1 DEF Call, LeftInv
  <2>2. left[t] - 1 \in Nat /\ left[t] - 1 <= Calls[t]
    BY <1>0, <2>1 DEF LeftInv
  <2> QED
    BY <2>1, <2>2 DEF LeftInv
<1>2. CASE left' = left
  BY <1>2 DEF LeftInv
<1>3. Advance(t) => left' = left
  BY DEF Advance, Return, Reads, EnterRead, Probe, Writes, EnterWrite, Join, EndSearch,
         WritePayload, Publish, MarkDeleted, Count, UnlockWriter, LeaveReaders, Rehash,
         CheckLoad, Elect, Concede, Await, EnterExtend, SkipRehash, BeginRehash,
         AllocationFails, SkipSlot, CopySlot, AskExclusive, Swap, Clear, Finish, Resign
<1> QED
  BY <1>1, <1>2, <1>3

LEMMA StutterInv ==
  ASSUME Inv, UNCHANGED vars
  PROVE  Inv' /\ Members' = Members
<1> USE DEF vars, storage, locks
<1>1. Live' = Live /\ Members' = Members
  BY DEF Live, Members
<1>2. (FramesInv /\ LocksInv /\ LeftInv)'
  BY DEF Inv, FramesInv, LocksInv, LeftInv
<1>3. TableInv' /\ PublishInv' /\ ProbeInv'
  BY StorageStays DEF Inv, PublishInv, ProbeInv
<1>4. DraftInv'
  BY <1>1 DEF Inv, DraftInv, Copies, Copying
<1>5. CountInv' /\ ElectionInv'
  BY <1>1 DEF Inv, CountInv, ElectionInv, Claimants, Claims, Elected
<1> QED
  BY <1>1, <1>2, <1>3, <1>4, <1>5 DEF Inv

LEMMA NextInv == Inv /\ [Next]_vars => Inv'
<1> SUFFICES ASSUME Inv, [Next]_vars
             PROVE  Inv'
  OBVIOUS
<1>1. CASE \E t \in Threads : Call(t) \/ Advance(t)
  <2>1. PICK t \in Threads : Call(t) \/ Advance(t)
    BY <1>1
  <2>2. FramesInv' /\ LocksInv'
    BY <2>1, FramesAreKept, LocksAreKept DEF Inv, TableInv
  <2>3. TableInv' /\ PublishInv' /\ ProbeInv' /\ DraftInv'
    BY <2>1, SlotsAreKept DEF Inv
  <2>4. CountInv' /\ ElectionInv' /\ LeftInv'
    BY <2>1, CountIsKept, ElectionIsKept, LeftIsKept DEF Inv
  <2> QED
    BY <2>2, <2>3, <2>4 DEF Inv
<1>2. CASE UNCHANGED vars
  BY <1>2, StutterInv
<1> QED
  BY <1>1, <1>2 DEF Next, Ended

LEMMA Invariance == Spec => []Inv
<1>1. Init => Inv
  BY InitInv
<1>2. Inv /\ [Next]_vars => Inv'
  BY NextInv
<1> QED
  BY <1>1, <1>2, PTL DEF Spec

\* Every variable keeps to its range: no probe, publication or rehash leaves the table, and
\* the exclusive side of lock_ is asked for by the holder of writelock_ only.
THEOREM TypeInvariant == Spec => []TypeOK
<1>1. Inv => TypeOK
  <2> SUFFICES ASSUME Inv
               PROVE  TypeOK
    OBVIOUS
  <2>1. swapper \in {NoThread, writer}
    BY DEF Inv, LocksInv, Writing
  <2>2. /\ draft.table \in [0 .. draft.capacity - 1 -> Keys \cup {NoKey}]
        /\ draft.occupied \subseteq 0 .. draft.capacity - 1 /\ draft.copied \in 0 .. capacity
    <3>1. CASE \E t \in Threads : Copying(t)
      BY <3>1 DEF Inv, DraftInv, Copies
    <3>2. CASE draft = NoDraft
      BY <3>2 DEF NoDraft, Inv, TableInv
    <3> QED
      BY <3>1, <3>2 DEF Inv, DraftInv
  <2>3. extending \in Nat
    <3>1. IsFiniteSet(Claimants)
      BY TableAssumption, FS_Subset DEF Claimants
    <3> QED
      BY <3>1, FS_CardinalityType DEF Inv, ElectionInv
  <2>4. ASSUME NEW t \in Threads
        PROVE  /\ frame[t].key \in Keys \cup {NoKey} /\ frame[t].outcome \in Outcomes
               /\ frame[t].slot \in 0 .. capacity - 1
               /\ frame[t].observed \in Nat /\ frame[t].length \in Nat
               /\ left[t] \in 0 .. Calls[t]
    <3>1. pc[t] \notin {"probe", "publish"} => frame[t].slot = 0
      BY FrameFacts DEF Inv, Fits
    <3>2. frame[t].slot \in 0 .. capacity - 1
      BY <3>1 DEF Inv, PublishInv, ProbeInv, Written, TableInv
    <3>3. left[t] \in 0 .. Calls[t]
      BY TableAssumption DEF Inv, LeftInv
    <3> QED
      BY <3>2, <3>3, FrameFacts DEF Inv
  <2>5. /\ writer \in Threads \cup {NoThread} /\ readers \subseteq Threads
        /\ count \in Nat
    BY DEF Inv, LocksInv, CountInv
  <2> QED
    BY <2>1, <2>2, <2>3, <2>4, <2>5 DEF TypeOK, Inv, TableInv
<1> QED
  BY <1>1, Invariance, PTL

\* Every key inserted and not erased since has exactly one slot and a probe chain that leads
\* there, whatever tombstones, half-done insertions and rehashes there were.
THEOREM Findability == Spec => []KeysAreFindable
<1>1. Inv => KeysAreFindable
  BY DEF Inv, TableInv
<1> QED
  BY <1>1, Invariance, PTL

\* data_count_ agrees with the slots whenever no writer is at work.
THEOREM ExactSize == Spec => []SizeIsExact
<1>1. Inv => SizeIsExact
  BY TableAssumption DEF Inv, SizeIsExact, CountInv, LocksInv, Writing
<1> QED
  BY <1>1, Invariance, PTL

\* extending_ is the number of threads between fetch_add and fetch_sub, and at most one of
\* them found zero.
THEOREM SoundElection == Spec => []ElectionIsSound
<1>1. Inv => ElectionIsSound
  BY DEF Inv, ElectionInv, ElectionIsSound, Claimants, Claims
<1> QED
  BY <1>1, Invariance, PTL

-----------------------------------------------------------------------------
(* The instant at which each call takes effect *)

LEMMA OthersCalls ==
  ASSUME FramesInv, NEW t \in Threads, Call(t) \/ Advance(t)
  PROVE  \A u \in Threads \ {t} : OpenCalls'[u] = OpenCalls[u]
BY OthersStay DEF OpenCalls

\* A step within a call answers it or leaves its answer as it was.
LEMMA Within ==
  ASSUME FramesInv, NEW t \in Threads, Call(t) \/ Advance(t), pc[t] # "idle", pc'[t] # "idle",
         frame'[t].op = frame[t].op, frame'[t].key = frame[t].key
  PROVE  /\ OpenCalls' = [OpenCalls EXCEPT ![t].answer = Answered(frame'[t].outcome)]
         /\ Answered(frame'[t].outcome) = Answered(frame[t].outcome) => OpenCalls' = OpenCalls
         /\ OpenCalls[t].op = frame[t].op /\ OpenCalls[t].key = frame[t].key
         /\ OpenCalls[t].answer = Answered(frame[t].outcome)
<1>1. OpenCalls[t] = [op |-> frame[t].op, key |-> frame[t].key,
                      answer |-> Answered(frame[t].outcome)]
  BY DEF OpenCalls
<1>2. OpenCalls'[t] = [op |-> frame[t].op, key |-> frame[t].key,
                       answer |-> Answered(frame'[t].outcome)]
  BY DEF OpenCalls
<1>3. /\ OpenCalls = [u \in Threads |-> OpenCalls[u]]
      /\ OpenCalls' = [u \in Threads |-> OpenCalls'[u]]
  BY DEF OpenCalls
<1> DEFINE a == Answered(frame'[t].outcome)
           b == Answered(frame[t].outcome)
<1>4. OpenCalls' = [OpenCalls EXCEPT ![t].answer = a]
  <2>1. [OpenCalls[t] EXCEPT !.answer = a] = OpenCalls'[t]
    BY <1>1, <1>2
  <2> HIDE DEF a
  <2> QED
    BY <1>3, <2>1, OthersCalls
<1>5. a = b => OpenCalls' = OpenCalls
  <2>1. a = b => OpenCalls'[t] = OpenCalls[t]
    BY <1>1, <1>2
  <2> QED
    BY <1>3, <2>1, OthersCalls
<1> QED
  BY <1>1, <1>4, <1>5

LEMMA CallRefines ==
  ASSUME FramesInv, NEW t \in Threads, Call(t)
  PROVE  Set!Begin(t)
<1>1. PICK op \in Operations :
        /\ pc' = [pc EXCEPT ![t] = IF op = "contains" THEN "read" ELSE "write"]
        /\ \E k \in IF op \in {"clear", "resize"} THEN {NoKey} ELSE Keys,
              n \in IF op = "resize" THEN Lengths ELSE {0} :
             frame' = [frame EXCEPT ![t] = [NoFrame EXCEPT !.op = op, !.key = k, !.length = n]]
  BY DEF Call
<1>2. PICK k \in IF op \in {"clear", "resize"} THEN {NoKey} ELSE Keys,
           n \in IF op = "resize" THEN Lengths ELSE {0} :
        frame' = [frame EXCEPT ![t] = [NoFrame EXCEPT !.op = op, !.key = k, !.length = n]]
  BY <1>1
<1> DEFINE c == [op |-> op, key |-> k, answer |-> "open"]
<1>3. /\ frame'[t].op = op /\ frame'[t].key = k /\ frame'[t].outcome = "open"
      /\ pc'[t] # "idle" /\ pc[t] = "idle"
  BY <1>1, <1>2 DEF Call, NoFrame, FramesInv
<1>4. OpenCalls'[t] = c /\ OpenCalls[t] = Set!NoCall
  BY <1>3 DEF OpenCalls, Answered, Set!NoCall
<1>5. OpenCalls' = [OpenCalls EXCEPT ![t] = c]
  <2>1. /\ OpenCalls = [u \in Threads |-> OpenCalls[u]]
        /\ OpenCalls' = [u \in Threads |-> OpenCalls'[u]]
    BY DEF OpenCalls
  <2> HIDE DEF c
  <2> QED
    BY <1>4, <2>1, OthersCalls
<1>6. c \in [op : {"push", "contains", "erase"}, key : Keys, answer : {"open"}]
              \cup [op : {"clear", "resize"}, key : {NoKey}, answer : {"open"}]
  BY <1>2, TableAssumption
<1>7. Members' = Members
  BY DEF Call, storage, Members, Live
<1> QED
  BY <1>4, <1>5, <1>6, <1>7 DEF Set!Begin

LEMMA ReturnRefines ==
  ASSUME FramesInv, NEW t \in Threads, Return(t)
  PROVE  Set!End(t)
<1>1. /\ pc[t] = "return" /\ pc'[t] = "idle"
      /\ frame[t].outcome \notin {"open", "full"} /\ frame[t].outcome \in Outcomes
      /\ frame[t].outcome = "failed" => frame[t].op \in {"push", "resize"}
  BY FrameFacts DEF Return, Goto, FramesInv, Fits
<1>2. OpenCalls[t].op = frame[t].op /\ OpenCalls[t].answer = Answered(frame[t].outcome)
  BY <1>1 DEF OpenCalls
<1>3. \/ OpenCalls[t].answer \in {"yes", "no"}
      \/ OpenCalls[t].answer = "open" /\ OpenCalls[t].op \in {"push", "resize"}
  BY <1>1, <1>2 DEF Answered, Outcomes
<1>4. OpenCalls'[t] = Set!NoCall
  BY <1>1 DEF OpenCalls, Set!NoCall
<1>5. OpenCalls' = [OpenCalls EXCEPT ![t] = Set!NoCall]
  <2>1. /\ OpenCalls = [u \in Threads |-> OpenCalls[u]]
        /\ OpenCalls' = [u \in Threads |-> OpenCalls'[u]]
    BY DEF OpenCalls
  <2> QED
    BY <1>4, <2>1, OthersCalls DEF Advance
<1>6. Members' = Members
  BY DEF Return, storage, Members, Live
<1> QED
  BY <1>3, <1>5, <1>6 DEF Set!End

\* A step that shows in the set: the call is open before and answered after.
LEMMA TakeRefines ==
  ASSUME FramesInv, NEW t \in Threads, Call(t) \/ Advance(t), pc[t] # "idle", pc'[t] # "idle",
         frame'[t].op = frame[t].op, frame'[t].key = frame[t].key,
         Answered(frame[t].outcome) = "open",
         NEW k, k = frame[t].key, NEW a, a = Answered(frame'[t].outcome),
         \/ frame[t].op = "push" /\ a = Set!Answer(k \in Members) /\ Members' = Members \cup {k}
         \/ frame[t].op = "contains" /\ a = Set!Answer(k \in Members) /\ Members' = Members
         \/ frame[t].op = "erase" /\ a = Set!Answer(k \in Members) /\ Members' = Members \ {k}
         \/ frame[t].op = "clear" /\ a = "yes" /\ Members' = {}
         \/ frame[t].op = "resize" /\ a = "yes" /\ Members' = Members
  PROVE  Set!Act(t)
<1>1. /\ OpenCalls' = [OpenCalls EXCEPT ![t].answer = a]
      /\ OpenCalls[t].op = frame[t].op /\ OpenCalls[t].key = k
      /\ OpenCalls[t].answer = "open"
  BY Within
<1> QED
  BY <1>1 DEF Set!Act, Set!Take, Set!Present

Visible(t) == Set!Begin(t) \/ Set!Act(t) \/ Set!End(t)
Refines(t) == Visible(t) \/ UNCHANGED <<Members, OpenCalls>>

\* A reader answers at the probe that decides: it stands on the key, or its walk is over.
LEMMA ProbeRefines ==
  ASSUME FramesInv, TableInv, ProbeInv, NEW t \in Threads, Probe(t), Members' = Members
  PROVE  Refines(t)
<1> DEFINE k == frame[t].key
           i == frame[t].slot
           s == Slot(k, i, capacity)
           found == Holds(s, k)
           over == s \notin occupied \/ found \/ i + 1 = capacity
<1>1. /\ pc[t] = "probe" /\ k \in Keys /\ frame[t].op = "contains"
      /\ frame[t].outcome = "open" /\ pc'[t] # "idle"
      /\ frame'[t].op = frame[t].op /\ frame'[t].key = k
      /\ frame'[t].outcome = IF found THEN "present" ELSE IF over THEN "absent" ELSE "open"
  BY FrameFacts DEF Probe, FramesInv, Fits, Frames
<1>2. i \in 0 .. capacity - 1 /\ Walked(k, i)
  BY <1>1 DEF ProbeInv
<1>3. CASE found
  <2>1. k \in Members
    BY <1>3 DEF Holds, Members, Live
  <2>2. Answered(frame[t].outcome) = "open" /\ Answered(frame'[t].outcome) = "yes"
    BY <1>1, <1>3 DEF Answered
  <2>3. Set!Act(t)
    BY <1>1, <2>1, <2>2, TakeRefines DEF Advance, Reads, Set!Answer
  <2> QED
    BY <2>3 DEF Refines, Visible
<1>4. CASE ~found /\ over
  <2>1. k \notin Members
    <3>1. \A j \in 0 .. i - 1 : ~Holds(Slot(k, j, capacity), k)
      BY <1>2 DEF Walked
    <3>2. CASE s \notin occupied
      <4>1. i \in 0 .. capacity
        BY <1>2 DEF TableInv
      <4> QED
        BY <1>1, <3>1, <3>2, <4>1, WalkDecides
    <3>3. CASE i + 1 = capacity
      <4>1. \A j \in 0 .. capacity - 1 : j \in 0 .. i - 1 \/ j = i
        BY <1>2, <3>3
      <4>2. \A j \in 0 .. capacity - 1 : ~Holds(Slot(k, j, capacity), k)
        BY <1>4, <3>1, <4>1
      <4>3. capacity \in 0 .. capacity
        BY DEF TableInv
      <4> QED
        BY <1>1, <4>2, <4>3, WalkDecides
    <3> QED
      BY <1>4, <3>2, <3>3
  <2>2. Answered(frame[t].outcome) = "open" /\ Answered(frame'[t].outcome) = "no"
    BY <1>1, <1>4 DEF Answered
  <2>3. Set!Act(t)
    BY <1>1, <2>1, <2>2, TakeRefines DEF Advance, Reads, Set!Answer
  <2> QED
    BY <2>3 DEF Refines, Visible
<1>5. CASE ~found /\ ~over
  <2>1. Answered(frame'[t].outcome) = Answered(frame[t].outcome)
    BY <1>1, <1>5
  <2> QED
    BY <1>1, <2>1, Within DEF Refines, Advance, Reads
<1> QED
  BY <1>3, <1>4, <1>5

\* A search that changes nothing has found the key, or found it nowhere.
LEMMA EndSearchRefines ==
  ASSUME FramesInv, TableInv, NEW t \in Threads, EndSearch(t), Members' = Members
  PROVE  Refines(t)
<1> DEFINE k == frame[t].key
           push == frame[t].op = "push"
           Says(out) == frame'[t].outcome = out
<1>1. /\ pc[t] = "search" /\ k \in Keys /\ frame[t].op \in {"push", "erase"}
      /\ frame[t].outcome = "open" /\ pc'[t] # "idle"
      /\ frame'[t].op = frame[t].op /\ frame'[t].key = k
  BY FrameFacts DEF EndSearch, Goto, Finds, FramesInv, Fits, Frames
<1>2. \/ push /\ Says("full")
      \/ ~push /\ Says("absent") /\ k \notin Members
      \/ push /\ Says("present") /\ k \in Members
  <2>1. CASE Stops(k) = {} /\ Finds(t, IF push THEN "full" ELSE "absent")
    BY <1>1, <2>1, StopDecides DEF Finds, FramesInv, Frames
  <2>2. CASE \E i \in Stops(k) : /\ FirstStop(k, i)
                                 /\ push <=> Holds(Slot(k, i, capacity), k)
                                 /\ Finds(t, IF push THEN "present" ELSE "absent")
    BY <1>1, <2>2, StopDecides DEF Finds, FramesInv, Frames
  <2> QED
    BY <2>1, <2>2 DEF EndSearch
<1>3. CASE Says("full")
  <2>1. Answered(frame'[t].outcome) = Answered(frame[t].outcome)
    BY <1>1, <1>3 DEF Answered
  <2> QED
    BY <1>1, <2>1, Within DEF Refines, Advance, Writes
<1>4. CASE ~push /\ Says("absent") /\ k \notin Members
  <2>1. Answered(frame[t].outcome) = "open" /\ Answered(frame'[t].outcome) = "no"
    BY <1>1, <1>4 DEF Answered
  <2>2. Members' = Members \ {k} /\ frame[t].op = "erase"
    BY <1>1, <1>4
  <2>3. Set!Act(t)
    BY <1>1, <1>4, <2>1, <2>2, TakeRefines DEF Advance, Writes, Set!Answer
  <2> QED
    BY <2>3 DEF Refines, Visible
<1>5. CASE push /\ Says("present") /\ k \in Members
  <2>1. Answered(frame[t].outcome) = "open" /\ Answered(frame'[t].outcome) = "yes"
    BY <1>1, <1>5 DEF Answered
  <2>2. Members' = Members \cup {k}
    BY <1>5
  <2>3. Set!Act(t)
    BY <1>1, <1>5, <2>1, <2>2, TakeRefines DEF Advance, Writes, Set!Answer
  <2> QED
    BY <2>3 DEF Refines, Visible
<1> QED
  BY <1>2, <1>3, <1>4, <1>5

\* An insertion takes effect when it publishes its slot, an erasure when it marks one.
LEMMA ChangesRefine ==
  ASSUME FramesInv, LocksInv, TableInv, PublishInv, ProbeInv, NEW t \in Threads,
         Publish(t) \/ MarkDeleted(t) \/ Clear(t)
  PROVE  Refines(t)
<1>1. Advance(t)
  BY DEF Advance, Writes, Rehash
<1>2. CASE Publish(t)
  <2>1. /\ pc[t] = "publish" /\ pc'[t] # "idle" /\ frame[t].op = "push"
        /\ frame[t].outcome = "open" /\ frame'[t].outcome = "inserted"
        /\ frame'[t].op = frame[t].op /\ frame'[t].key = frame[t].key
    BY <1>2, FrameFacts DEF Publish, Goto, FramesInv, Fits, Frames
  <2>2. frame[t].key \notin Members /\ Members' = Members \cup {frame[t].key}
    BY <1>2, PublishKeepsTable
  <2>3. Answered(frame[t].outcome) = "open" /\ Answered(frame'[t].outcome) = "no"
    BY <2>1 DEF Answered
  <2>4. Set!Act(t)
    BY <1>1, <2>1, <2>2, <2>3, TakeRefines DEF Set!Answer
  <2> QED
    BY <2>4 DEF Refines, Visible
<1>3. CASE MarkDeleted(t)
  <2>1. /\ pc[t] = "search" /\ pc'[t] # "idle" /\ frame[t].op = "erase"
        /\ frame[t].outcome = "open" /\ frame'[t].outcome = "erased"
        /\ frame'[t].op = frame[t].op /\ frame'[t].key = frame[t].key
    BY <1>3, FrameFacts DEF MarkDeleted, Goto, Finds, FramesInv, Fits, Frames
  <2>2. frame[t].key \in Members /\ Members' = Members \ {frame[t].key}
    BY <1>3, MarkDeletedKeepsTable
  <2>3. Answered(frame[t].outcome) = "open" /\ Answered(frame'[t].outcome) = "yes"
    BY <2>1 DEF Answered
  <2>4. Set!Act(t)
    BY <1>1, <2>1, <2>2, <2>3, TakeRefines DEF Set!Answer
  <2> QED
    BY <2>4 DEF Refines, Visible
<1>4. CASE Clear(t)
  <2>1. /\ pc[t] = "clear" /\ pc'[t] # "idle" /\ frame[t].op = "clear"
        /\ frame[t].outcome = "open" /\ frame'[t].outcome = "cleared"
        /\ frame'[t].op = frame[t].op /\ frame'[t].key = frame[t].key
    BY <1>4, FrameFacts DEF Clear, Goto, Finds, FramesInv, Fits, Frames
  <2>2. Members' = {}
    BY <1>4, ClearKeepsTable
  <2>3. Answered(frame[t].outcome) = "open" /\ Answered(frame'[t].outcome) = "yes"
    BY <2>1 DEF Answered
  <2>4. Set!Act(t)
    BY <1>1, <2>1, <2>2, <2>3, TakeRefines
  <2> QED
    BY <2>4 DEF Refines, Visible
<1> QED
  BY <1>2, <1>3, <1>4

\* The end of a rehash answers resize(); to an insertion it is invisible.
LEMMA RehashRefines ==
  ASSUME FramesInv, NEW t \in Threads, Members' = Members,
         SkipRehash(t) \/ Swap(t) \/ AllocationFails(t)
  PROVE  Refines(t)
<1>0. Advance(t)
  BY DEF Advance, Rehash
<1>1. /\ pc[t] \in {"plan", "swap"} /\ pc'[t] # "idle"
      /\ frame'[t].op = frame[t].op /\ frame'[t].key = frame[t].key
      /\ \/ frame[t].op = "resize" /\ frame[t].outcome = "open"
         \/ frame[t].op = "push" /\ frame[t].outcome \in {"inserted", "full"}
  BY FrameFacts DEF SkipRehash, Swap, AllocationFails, GiveUp, Goto, Finds, FramesInv, Fits,
                    Frames
<1>2. \/ frame'[t].outcome = IF frame[t].op = "resize" THEN "resized" ELSE frame[t].outcome
      \/ frame'[t].outcome = IF frame[t].outcome = "inserted" THEN "inserted" ELSE "failed"
  BY DEF SkipRehash, Swap, AllocationFails, GiveUp, Finds, FramesInv, Frames
<1>3. CASE frame[t].op = "resize" /\ frame'[t].outcome = "resized"
  <2>1. Answered(frame[t].outcome) = "open" /\ Answered(frame'[t].outcome) = "yes"
    BY <1>1, <1>3 DEF Answered
  <2>2. Set!Act(t)
    BY <1>0, <1>1, <1>3, <2>1, TakeRefines
  <2> QED
    BY <2>2 DEF Refines, Visible
<1>4. ASSUME Answered(frame'[t].outcome) = Answered(frame[t].outcome)
      PROVE  Refines(t)
  BY <1>0, <1>1, <1>4, Within DEF Refines
<1>5. CASE frame[t].op = "resize"
  <2>1. \/ frame'[t].outcome = "resized"
        \/ Answered(frame'[t].outcome) = "open" /\ Answered(frame[t].outcome) = "open"
    BY <1>1, <1>2, <1>5 DEF Answered
  <2> QED
    BY <1>3, <1>4, <1>5, <2>1
<1>6. CASE frame[t].op = "push" /\ frame[t].outcome = "inserted"
  <2>1. frame'[t].outcome = "inserted"
    BY <1>2, <1>6
  <2> QED
    BY <1>4, <1>6, <2>1
<1>7. CASE frame[t].op = "push" /\ frame[t].outcome = "full"
  <2>1. frame'[t].outcome \in {"full", "failed"}
    BY <1>2, <1>7
  <2>2. Answered(frame'[t].outcome) = "open" /\ Answered(frame[t].outcome) = "open"
    BY <1>7, <2>1 DEF Answered
  <2> QED
    BY <1>4, <2>2
<1> QED
  BY <1>1, <1>5, <1>6, <1>7

\* The other steps move between the locks, or try again.
LEMMA InvisibleSteps ==
  ASSUME FramesInv, NEW t \in Threads, Advance(t), Members' = Members,
         ~(Return(t) \/ Probe(t) \/ EndSearch(t) \/ Publish(t) \/ MarkDeleted(t) \/ Clear(t)
           \/ SkipRehash(t) \/ Swap(t) \/ AllocationFails(t))
  PROVE  Refines(t)
<1> DEFINE Silent == /\ frame'[t].op = frame[t].op /\ frame'[t].key = frame[t].key
                     /\ \/ frame'[t].outcome = frame[t].outcome
                        \/ frame[t].outcome = "full" /\ frame'[t].outcome = "open"
<1>1. Silent /\ pc[t] # "idle" /\ pc'[t] # "idle"
  <2> USE DEF FramesInv, Goto, Finds
  <2>1. CASE EnterRead(t) \/ Writes(t)
    BY <2>1 DEF EnterRead, Writes, EnterWrite, Join, JoinReaders, WritePayload, Count,
                UnlockWriter, LeaveReaders, Frames
  <2>2. CASE Await(t) \/ Resign(t)
    <3>1. pc[t] = "await" => frame[t].outcome = "full"
      BY FrameFacts DEF Fits
    <3> QED
      BY <2>2, <3>1 DEF Await, Resign, Retry, Frames
  <2>3. CASE Rehash(t) /\ ~Await(t) /\ ~Resign(t)
    BY <2>3 DEF Rehash, CheckLoad, Elect, Concede, EnterExtend, BeginRehash, SkipSlot,
                CopySlot, AskExclusive, Finish
  <2> QED
    BY <2>1, <2>2, <2>3 DEF Advance, Reads
<1>2. Answered(frame'[t].outcome) = Answered(frame[t].outcome)
  BY <1>1 DEF Answered
<1> QED
  BY <1>1, <1>2, Within DEF Refines

\* Linearizability: calls that overlap each other and a rehash answer as if each took place
\* at one instant, on one set.
THEOREM SetRefinement == Spec => ImplementsAtomicSet
<1>1. Init => Set!Init
  <2> SUFFICES ASSUME Init
               PROVE  Set!Init
    OBVIOUS
  <2>1. Members = {}
    BY DEF Init, Members, Live
  <2>2. OpenCalls = [t \in Threads |-> Set!NoCall]
    BY DEF Init, OpenCalls, Set!NoCall
  <2> QED
    BY <2>1, <2>2 DEF Set!Init
<1>2. ASSUME Inv, [Next]_vars
      PROVE  [Set!Next]_(Set!vars)
  <2>1. CASE \E t \in Threads : Call(t) \/ Advance(t)
    <3>1. PICK t \in Threads : Call(t) \/ Advance(t)
      BY <2>1
    <3>2. /\ FramesInv /\ LocksInv /\ TableInv /\ PublishInv /\ ProbeInv
          /\ ~(Publish(t) \/ MarkDeleted(t) \/ Clear(t)) => Members' = Members
      BY <1>2, <3>1, SlotsAreKept DEF Inv
    <3>3. ASSUME Call(t) \/ Return(t)
         PROVE  Refines(t)
      BY <3>2, <3>3, CallRefines, ReturnRefines DEF Refines, Visible
    <3>4. ASSUME Publish(t) \/ MarkDeleted(t) \/ Clear(t)
         PROVE  Refines(t)
      BY <3>2, <3>4, ChangesRefine
    <3>5. ASSUME Advance(t) /\ ~Return(t) /\ ~(Publish(t) \/ MarkDeleted(t) \/ Clear(t))
         PROVE  Refines(t)
      BY <3>2, <3>5, ProbeRefines, EndSearchRefines, RehashRefines, InvisibleSteps
    <3>6. Refines(t)
      BY <3>1, <3>3, <3>4, <3>5
    <3> QED
      BY <3>6 DEF Refines, Visible, Set!Next, Set!vars
  <2>2. CASE UNCHANGED vars
    BY <2>2 DEF vars, storage, Members, Live, OpenCalls, Set!vars
  <2> QED
    BY <1>2, <2>1, <2>2 DEF Next, Ended
<1> QED
  BY <1>1, <1>2, Invariance, PTL DEF Spec, ImplementsAtomicSet, Set!Spec

=============================================================================
