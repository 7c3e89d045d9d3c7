--------------------------- MODULE SignatureStore ---------------------------
(***************************************************************************)
(* What the record database promises its callers: a signature is accepted  *)
(* once, an accepted signature gets one record under an address nobody had *)
(* before, the record stays what it is until it is removed, and only then  *)
(* can the signature be accepted again.                                    *)
(***************************************************************************)
CONSTANTS Keys, Addresses

VARIABLES
  accepted,   \* the signatures that count as present
  records,    \* the live records: a function from addresses to signatures
  used        \* the addresses ever given out

vars == <<accepted, records, used>>

Init == /\ accepted = {}
        /\ records = [a \in {} |-> a]
        /\ used = {}

Accept(k) == /\ k \notin accepted
             /\ accepted' = accepted \cup {k}
             /\ UNCHANGED <<records, used>>

Record(k, a) == /\ k \in accepted
                /\ \A b \in DOMAIN records : records[b] # k
                /\ a \notin used
                /\ records' = [b \in DOMAIN records \cup {a} |->
                                 IF b = a THEN k ELSE records[b]]
                /\ used' = used \cup {a}
                /\ UNCHANGED accepted

Remove(a) == /\ a \in DOMAIN records
             /\ accepted' = accepted \ {records[a]}
             /\ records' = [b \in DOMAIN records \ {a} |-> records[b]]
             /\ UNCHANGED used

Next == \/ \E k \in Keys : Accept(k) \/ \E a \in Addresses : Record(k, a)
        \/ \E a \in Addresses : Remove(a)

Spec == Init /\ [][Next]_vars
=============================================================================
