------------------------- MODULE FairReadWriteLock -------------------------
(***************************************************************************)
(* What detail::ReadWriteLock promises its callers (the class comment of   *)
(* core/detail/locks.hpp, lines 120-139): readers share, a writer is       *)
(* alone, and a request is admitted only after every request issued before *)
(* it.  There are no tickets here: ahead[t] is the set of threads that     *)
(* asked before t did and still stand between t and the lock.              *)
(***************************************************************************)
CONSTANT Threads

VARIABLES
  phase,    \* what each thread is doing with the lock
  ahead     \* the requests each waiting thread must let pass first

vars == <<phase, ahead>>

Waiting  == {"wantRead", "wantWrite"}
Phases   == Waiting \cup {"out", "reading", "writing"}

\* A request keeps its place in the queue until it is admitted as a reader or,
\* for a writer, until the writer leaves.
Standing(t) == phase[t] \in Waiting \cup {"writing"}

Init == /\ phase = [t \in Threads |-> "out"]
        /\ ahead = [t \in Threads |-> {}]

Pass(t) == [u \in Threads |-> ahead[u] \ {t}]

Request(t, want) ==
  /\ phase[t] = "out"
  /\ phase' = [phase EXCEPT ![t] = want]
  /\ ahead' = [ahead EXCEPT ![t] = {u \in Threads : Standing(u)}]

AdmitReader(t) ==
  /\ phase[t] = "wantRead"
  /\ ahead[t] = {}
  /\ phase' = [phase EXCEPT ![t] = "reading"]
  /\ ahead' = Pass(t)

AdmitWriter(t) ==
  /\ phase[t] = "wantWrite"
  /\ ahead[t] = {}
  /\ \A u \in Threads : phase[u] # "reading"
  /\ phase' = [phase EXCEPT ![t] = "writing"]
  /\ UNCHANGED ahead

LeaveReader(t) ==
  /\ phase[t] = "reading"
  /\ phase' = [phase EXCEPT ![t] = "out"]
  /\ UNCHANGED ahead

LeaveWriter(t) ==
  /\ phase[t] = "writing"
  /\ phase' = [phase EXCEPT ![t] = "out"]
  /\ ahead' = Pass(t)

Progress(t) == AdmitReader(t) \/ AdmitWriter(t) \/ LeaveReader(t) \/ LeaveWriter(t)

Next == \E t \in Threads : Progress(t) \/ \E want \in Waiting : Request(t, want)

Spec == Init /\ [][Next]_vars
=============================================================================
