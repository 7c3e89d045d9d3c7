------------------------------ MODULE AtomicSet ------------------------------
(***************************************************************************)
(* What a queue table promises the threads that share it: a set of keys on *)
(* which every call takes effect at one instant between its beginning and  *)
(* its end.  A push or resize that fails before that instant leaves no     *)
(* trace.  One that throws after it, as a push does when the table cannot  *)
(* be extended for the key it has just inserted, is a call that took       *)
(* effect: what is left is its effect, whatever its caller is told.        *)
(***************************************************************************)
CONSTANTS Threads, Keys, NoKey

VARIABLES
  members,  \* the keys present
  calls     \* the call each thread is in, and its answer once it has taken effect

vars == <<members, calls>>

NoCall == [op |-> "none", key |-> NoKey, answer |-> "none"]

Init == members = {} /\ calls = [t \in Threads |-> NoCall]

Begin(t) ==
  /\ calls[t] = NoCall
  /\ \E c \in [op : {"push", "contains", "erase"}, key : Keys, answer : {"open"}]
            \cup [op : {"clear", "resize"}, key : {NoKey}, answer : {"open"}] :
       calls' = [calls EXCEPT ![t] = c]
  /\ UNCHANGED members

Answer(present) == IF present THEN "yes" ELSE "no"

\* The instant of a call: its answer is the truth at that instant.
Take(t, op, answer, after) ==
  /\ calls[t].op = op /\ calls[t].answer = "open"
  /\ calls' = [calls EXCEPT ![t].answer = answer]
  /\ members' = after

Present(t) == calls[t].key \in members

Act(t) ==
  \/ Take(t, "push", Answer(Present(t)), members \cup {calls[t].key})
  \/ Take(t, "contains", Answer(Present(t)), members)
  \/ Take(t, "erase", Answer(Present(t)), members \ {calls[t].key})
  \/ Take(t, "clear", "yes", {})
  \/ Take(t, "resize", "yes", members)

End(t) == /\ \/ calls[t].answer \in {"yes", "no"}
             \/ calls[t].answer = "open" /\ calls[t].op \in {"push", "resize"}
          /\ calls' = [calls EXCEPT ![t] = NoCall]
          /\ UNCHANGED members

Next == \E t \in Threads : Begin(t) \/ Act(t) \/ End(t)

Spec == Init /\ [][Next]_vars
=============================================================================
