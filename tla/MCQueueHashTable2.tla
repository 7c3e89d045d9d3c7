-------------------------- MODULE MCQueueHashTable2 --------------------------
(***************************************************************************)
(* The hash tables, each kind on its own.                                  *)
(*                                                                         *)
(* "default": QueueHashTable2 with two keys that start at the same slot    *)
(* and go round the table in opposite directions.  The table begins with   *)
(* two slots, so that few calls fill it with keys or tombstones.           *)
(*                                                                         *)
(* "containers": HashContainers, as one table of one slot, as two fixed    *)
(* tables, and as a growing vector of none at first, in which the second   *)
(* key needs a second table.                                               *)
(***************************************************************************)
EXTENDS QueueHashTable2, HashContainers, TLC

CONSTANTS a, b, t1, t2

SameStart   == a :> 1 @@ b :> 1
BothStrides == a :> 1 @@ b :> 3
ThreeAndTwo == t1 :> 3 @@ t2 :> 2

ThreeAndOne == t1 :> 3 @@ t2 :> 1
TwoAndOne   == t1 :> 2 @@ t2 :> 1

OneTable   == [growing |-> FALSE, tables |-> 1, block |-> 1, calls |-> ThreeAndTwo,
               operations |-> {"push", "erase", "resize"}]
TwoTables  == [growing |-> FALSE, tables |-> 2, block |-> 1, calls |-> ThreeAndOne,
               operations |-> {"push", "clear"}]
Growing    == [growing |-> TRUE, tables |-> 0, block |-> 2, calls |-> ThreeAndOne,
               operations |-> {"push", "contains", "erase"}]
EdgeTables == [growing |-> TRUE, tables |-> 0, block |-> 2, calls |-> TwoAndOne,
               operations |-> {"edge"}]
ClearedEdgeTable == [growing |-> FALSE, tables |-> 1, block |-> 1, calls |-> TwoAndOne,
                     operations |-> {"edge", "clear"}]

Key0 == a :> 0 @@ b :> 3

Containers == {OneTable, TwoTables, Growing, EdgeTables, ClearedEdgeTable}

VARIABLE layer

MCInit == /\ Init /\ ContainersInit
          /\ layer \in {"default", "containers"}
          /\ layer = "default" => layout = TwoTables
MCNext == \/ layer = "default"    /\ Next           /\ UNCHANGED <<layer, containerVars>>
          \/ layer = "containers" /\ ContainersNext /\ UNCHANGED <<layer, vars>>
MCSpec == MCInit /\ [][MCNext]_<<layer, vars, containerVars>> /\ Fairness

ASSUME ContainerConstants == ContainersAssumption
=============================================================================
