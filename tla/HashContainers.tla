--------------------------- MODULE HashContainers ---------------------------
(***************************************************************************)
(* The other hash tables: QueueHashTable, which reuses tombstones, and     *)
(* EdgeHashTable, each behind a container that routes a key to one of      *)
(* several tables.  A table does a whole call under its own lock, so a     *)
(* call is one step of its table; the vector of tables has another lock,   *)
(* and grows between the routing and that step.                            *)
(***************************************************************************)
EXTENDS Fingerprints, Sequences, FiniteSets, SequencesExt

CONSTANTS
  FirstValue,             \* key[0]
  Layouts,                \* the containers: [growing, tables, block, operations, calls];
                          \* bound: calls is how many calls each thread makes
  HashCapacity,           \* the slots of a new table
  Tokens,                 \* the cells that edges are pushed for
  NoToken                 \* NoToken is no_second_cell

\* What the constants satisfy: strides are odd and a new table has a power of two of
\* slots (its divisors are one or even), so that a chain visits every slot.
ContainersAssumption ==
  /\ NoKey \notin Keys /\ NoToken \notin Tokens
  /\ FirstValue \in [Keys -> Nat] /\ First \in [Keys -> Nat]
  /\ \A k \in Keys : Step[k] \in Nat /\ Step[k] % 2 = 1
  /\ \A l \in Layouts : l.growing \in BOOLEAN /\ l.tables \in Nat /\ l.block \in Nat \ {0}
  /\ \A l \in Layouts : ~l.growing => l.tables > 0
  /\ \A l \in Layouts : l.operations \subseteq {"push", "contains", "erase", "edge", "clear", "resize"}
  /\ HashCapacity \in Nat \ {0}
  /\ \A d, e \in 1 .. HashCapacity : d * e = HashCapacity => d = 1 \/ d % 2 = 0

VARIABLES
  layout,        \* which container this is
  queue, edges,  \* tables_ of the queue container and of the edge container
  pushed,        \* every edge's pushes, in the order they took effect
  stage, call, callsLeft

containerVars == <<layout, queue, edges, pushed, stage, call, callsLeft>>

NoCall == [op |-> "none", key |-> NoKey, token |-> NoToken, mode |-> FALSE, answer |-> "open"]

\* A slot is used when it is occupied; entry is what stands there, deleted or not.
NewTable(c) == [capacity |-> c, entry |-> [s \in 0 .. c - 1 |-> NoKey],
                occupied |-> {}, deleted |-> {}]
NewEdgeTable(c) == [capacity |-> c, entry |-> [s \in 0 .. c - 1 |-> NoKey],
                    occupied |-> {}, overfull |-> FALSE]

ContainersInit ==
  /\ layout \in Layouts
  /\ queue = [i \in 1 .. layout.tables |-> NewTable(HashCapacity)]
  /\ edges = [i \in 1 .. layout.tables |-> NewEdgeTable(HashCapacity)]
  /\ pushed = [k \in Keys |-> <<>>]
  /\ stage = [t \in Threads |-> "idle"]
  /\ call = [t \in Threads |-> NoCall]
  /\ callsLeft = layout.calls

\* The slots on a key's chain, and its table.
Chain(k, c) == [n \in 1 .. c |-> Slot(k, n - 1, c)]
TableOf(k) == IF layout.growing THEN (FirstValue[k] \div layout.block) + 1
                                ELSE (FirstValue[k] % layout.tables) + 1

\* The first slot of the chain in a set, when there is one.
FirstIn(k, c, S) == SelectInSeq(Chain(k, c), LAMBDA s : s \in S)
SlotIn(k, c, S) == Chain(k, c)[FirstIn(k, c, S)]
Unused(T) == DOMAIN T.entry \ T.occupied

-----------------------------------------------------------------------------
(* QueueHashTable *)

Matching(T, k) == {s \in T.occupied : T.entry[s] = k}

\* contains_unlocked: the loop ends at the key or at a slot that was never used.
Found(T, k) ==
  LET i == FirstIn(k, T.capacity, Matching(T, k) \cup (Unused(T) \ T.deleted)) IN
  i # 0 /\ Chain(k, T.capacity)[i] \in T.occupied

Occupy(T, s, e) == [T EXCEPT !.entry[s] = e, !.occupied = @ \cup {s}, !.deleted = @ \ {s}]

\* insert_rehashed
Place(T, e) == Occupy(T, SlotIn(e, T.capacity, Unused(T)), e)

\* rehash_unlocked: the new table when the first n slots of the old one are carried over;
\* the entries go in slot order, and no tombstone goes with them.
CarriedOver(T, c) ==
  LET new[n \in 0 .. T.capacity] ==
        IF n = 0 THEN NewTable(c)
        ELSE IF n - 1 \in T.occupied THEN Place(new[n - 1], T.entry[n - 1]) ELSE new[n - 1]
  IN new
Rehashed(T, c) == CarriedOver(T, c)[T.capacity]

\* A search for a free slot that ends at the first tombstone.
InsertAtTombstone(T, k) ==
  LET Fits == IF Unused(T) = {} THEN Rehashed(T, 2 * T.capacity) ELSE T
      s    == SlotIn(k, Fits.capacity, Matching(Fits, k) \cup Unused(Fits))
  IN Occupy(Fits, s, k)

\* insert_unlocked: a key that is not on its chain takes the first slot of it that is
\* not occupied; the table doubles when there is none.
Insert(T, k) ==
  IF Found(T, k) THEN T
  ELSE LET Fits == IF Unused(T) = {} THEN Rehashed(T, 2 * T.capacity) ELSE T
       IN Place(Fits, k)

\* erase_unlocked
EraseKey(T, k) ==
  IF ~Found(T, k) THEN T
  ELSE LET s == SlotIn(k, T.capacity, Matching(T, k))
       IN [T EXCEPT !.occupied = @ \ {s}, !.deleted = @ \cup {s}]

Cleared(T) == [T EXCEPT !.occupied = {}, !.deleted = {}]

\* resize(): never smaller.
Resized(T, c) == IF c > T.capacity THEN Rehashed(T, c) ELSE T

-----------------------------------------------------------------------------
(* EdgeHashTable: an entry holds the key and the two cells *)

EdgeSlots(T, k) == {s \in T.occupied : T.entry[s].key = k}
OccupyEdge(T, s, e) == [T EXCEPT !.entry[s] = e, !.occupied = @ \cup {s}]

\* A growth that keeps the keys and the first cells.
PlaceFirstCell(T, e) ==
  OccupyEdge(T, SlotIn(e.key, T.capacity, Unused(T)), [e EXCEPT !.cell2 = NoToken])

PlaceEdge(T, e) == OccupyEdge(T, SlotIn(e.key, T.capacity, Unused(T)), e)

CarriedEdges(T, c) ==
  LET new[n \in 0 .. T.capacity] ==
        IF n = 0 THEN [NewEdgeTable(c) EXCEPT !.overfull = T.overfull]
        ELSE IF n - 1 \in T.occupied THEN PlaceEdge(new[n - 1], T.entry[n - 1]) ELSE new[n - 1]
  IN new
RehashedEdges(T, c) == CarriedEdges(T, c)[T.capacity]

\* The edge had a second cell before: what pushedge() returns.
HadTwo(T, k) == \E s \in EdgeSlots(T, k) : T.entry[s].cell2 # NoToken

\* pushedge_unlocked: no tombstones here, so the first unused slot ends the search.
PushEdge(T, k, token, mode) ==
  LET Fits == IF Unused(T) = {} /\ EdgeSlots(T, k) = {}
              THEN RehashedEdges(T, 2 * T.capacity) ELSE T
      s    == SlotIn(k, Fits.capacity, EdgeSlots(Fits, k) \cup Unused(Fits))
  IN
  IF s \notin Fits.occupied
  THEN OccupyEdge(Fits, s, [key |-> k, cell1 |-> token, cell2 |-> NoToken])
  ELSE IF Fits.entry[s].cell2 # NoToken THEN [Fits EXCEPT !.overfull = TRUE]
  ELSE IF mode \/ Fits.entry[s].cell1 # token THEN [Fits EXCEPT !.entry[s].cell2 = token]
  ELSE Fits

\* all_edges_complete() of a table and of a container.
TableIsComplete(T) == ~T.overfull /\ \A s \in T.occupied : T.entry[s].cell2 # NoToken
AllEdgesComplete == \A i \in DOMAIN edges : TableIsComplete(edges[i])

ClearedEdges(T) == [T EXCEPT !.occupied = {}, !.overfull = FALSE]

-----------------------------------------------------------------------------
(* The containers *)

Idle == \A t \in Threads : stage[t] = "idle"
TablesFor(t) == IF call[t].op = "edge" THEN Len(edges) ELSE Len(queue)

\* clear() comes between the parallel phases; nobody else is in a call.
Quiet(t) == \A u \in Threads \ {t} : stage[u] = "idle" \/ call[u].op \notin {"clear", "resize"}

BeginCall(t) ==
  /\ stage[t] = "idle" /\ callsLeft[t] > 0 /\ Quiet(t)
  /\ callsLeft' = [callsLeft EXCEPT ![t] = @ - 1]
  /\ \E op \in layout.operations :
       /\ op \in {"clear", "resize"} => Idle
       /\ \E k \in IF op \in {"clear", "resize"} THEN {NoKey} ELSE Keys,
             token \in IF op = "edge" THEN Tokens ELSE {NoToken},
             mode \in IF op = "edge" THEN BOOLEAN ELSE {FALSE} :
            call' = [call EXCEPT ![t] = [op |-> op, key |-> k, token |-> token,
                                         mode |-> mode, answer |-> "open"]]
  /\ stage' = [stage EXCEPT ![t] = "route"]
  /\ UNCHANGED <<layout, queue, edges, pushed>>

\* The look at length_ under the read lock: find_table() gives up when there is no
\* such table, ensure_table() goes on to make one.
Route(t) ==
  /\ stage[t] = "route" /\ call[t].key # NoKey
  /\ LET missing == TableOf(call[t].key) > TablesFor(t)
         makes   == call[t].op \in {"push", "edge"}
     IN /\ stage' = [stage EXCEPT ![t] = IF ~missing THEN "table"
                                   ELSE IF makes THEN "grow" ELSE "return"]
        /\ call' = [call EXCEPT ![t].answer = IF missing /\ ~makes THEN "no" ELSE @]
  /\ UNCHANGED <<layout, queue, edges, pushed, callsLeft>>

UpTo(tables, n, new) == [i \in 1 .. n |-> IF i <= Len(tables) THEN tables[i] ELSE new]

\* A growth that trusts the look under the read lock.
GrowUnchecked(t) ==
  /\ stage[t] = "grow"
  /\ LET n == TableOf(call[t].key) IN
     IF call[t].op = "edge"
     THEN edges' = [i \in 1 .. n |-> IF i < n THEN edges[i] ELSE NewEdgeTable(HashCapacity)]
          /\ UNCHANGED queue
     ELSE queue' = [i \in 1 .. n |-> IF i < n /\ i <= Len(queue) THEN queue[i]
                                     ELSE NewTable(HashCapacity)]
          /\ UNCHANGED edges
  /\ stage' = [stage EXCEPT ![t] = "table"]
  /\ UNCHANGED <<layout, pushed, call, callsLeft>>

\* The write lock of ensure_table(): its loop looks at length_ again.
GrowTables(t) ==
  /\ stage[t] = "grow"
  /\ LET n == IF TableOf(call[t].key) > TablesFor(t) THEN TableOf(call[t].key)
              ELSE TablesFor(t)
     IN IF call[t].op = "edge"
        THEN edges' = UpTo(edges, n, NewEdgeTable(HashCapacity)) /\ UNCHANGED queue
        ELSE queue' = UpTo(queue, n, NewTable(HashCapacity)) /\ UNCHANGED edges
  /\ stage' = [stage EXCEPT ![t] = "table"]
  /\ UNCHANGED <<layout, pushed, call, callsLeft>>

Answer(present) == IF present THEN "yes" ELSE "no"

Does(t, op) == stage[t] = "table" /\ call[t].op = op /\ stage' = [stage EXCEPT ![t] = "return"]
Answers(t, present) == call' = [call EXCEPT ![t].answer = Answer(present)]

PushQueue(t) ==
  LET k == call[t].key IN
  /\ Does(t, "push")
  /\ Answers(t, Found(queue[TableOf(k)], k))
  /\ queue' = [queue EXCEPT ![TableOf(k)] = Insert(@, k)]
  /\ UNCHANGED <<layout, edges, pushed, callsLeft>>

\* contains(), and pushqueue() without write.
ContainsKey(t) ==
  LET k == call[t].key IN
  /\ Does(t, "contains")
  /\ Answers(t, Found(queue[TableOf(k)], k))
  /\ UNCHANGED <<layout, queue, edges, pushed, callsLeft>>

Erase(t) ==
  LET k == call[t].key IN
  /\ Does(t, "erase")
  /\ Answers(t, Found(queue[TableOf(k)], k))
  /\ queue' = [queue EXCEPT ![TableOf(k)] = EraseKey(@, k)]
  /\ UNCHANGED <<layout, edges, pushed, callsLeft>>

PushOneEdge(t) ==
  LET k == call[t].key IN
  /\ Does(t, "edge")
  /\ Answers(t, HadTwo(edges[TableOf(k)], k))
  /\ edges' = [edges EXCEPT ![TableOf(k)] = PushEdge(@, k, call[t].token, call[t].mode)]
  /\ pushed' = [pushed EXCEPT ![k] = Append(@, [token |-> call[t].token,
                                               mode |-> call[t].mode])]
  /\ UNCHANGED <<layout, queue, callsLeft>>

\* clear() of both containers, table by table.
ClearAll(t) ==
  /\ stage[t] = "route" /\ call[t].op = "clear"
  /\ stage' = [stage EXCEPT ![t] = "return"]
  /\ queue' = [i \in DOMAIN queue |-> Cleared(queue[i])]
  /\ edges' = [i \in DOMAIN edges |-> ClearedEdges(edges[i])]
  /\ pushed' = [k \in Keys |-> <<>>]
  /\ Answers(t, TRUE)
  /\ UNCHANGED <<layout, callsLeft>>

\* resize() of a table, which only a container of one table hands out.
ResizeTable(t) ==
  /\ stage[t] = "route" /\ call[t].op = "resize"
  /\ stage' = [stage EXCEPT ![t] = "return"]
  /\ queue' = [i \in DOMAIN queue |-> IF Len(queue) = 1 THEN Resized(queue[i], 4) ELSE queue[i]]
  /\ Answers(t, TRUE)
  /\ UNCHANGED <<layout, edges, pushed, callsLeft>>

EndCall(t) ==
  /\ stage[t] = "return"
  /\ stage' = [stage EXCEPT ![t] = "idle"]
  /\ call' = [call EXCEPT ![t] = NoCall]
  /\ UNCHANGED <<layout, queue, edges, pushed, callsLeft>>

Proceed(t) == \/ Route(t) \/ GrowTables(t) \/ PushQueue(t) \/ ContainsKey(t) \/ Erase(t)
              \/ PushOneEdge(t) \/ ClearAll(t) \/ ResizeTable(t) \/ EndCall(t)

NoCallLeft == Idle /\ (\A t \in Threads : callsLeft[t] = 0) /\ UNCHANGED containerVars
ContainersNext == (\E t \in Threads : BeginCall(t) \/ Proceed(t)) \/ NoCallLeft
ContainersSpec == ContainersInit /\ [][ContainersNext]_containerVars

-----------------------------------------------------------------------------
(* Properties *)

KeysHeld == UNION {{queue[i].entry[s] : s \in queue[i].occupied} : i \in DOMAIN queue}

ContainerCalls ==
  [t \in Threads |->
     IF stage[t] = "idle" \/ call[t].op = "edge"
     THEN [op |-> "none", key |-> NoKey, answer |-> "none"]
     ELSE [op |-> call[t].op, key |-> call[t].key, answer |-> call[t].answer]]

OneSet == INSTANCE AtomicSet WITH members <- KeysHeld, calls <- ContainerCalls

\* A container of queue tables is one set: a key that was inserted into a reused
\* tombstone, moved by a growth, or routed while the vector of tables grew is there
\* once, is found by everybody, and is gone once it is erased.
ContainerIsAtomicSet == OneSet!Spec

\* The push that completes an edge: the first one after its first that counts again.
Completing(k) ==
  {n \in 2 .. Len(pushed[k]) : pushed[k][n].mode \/ pushed[k][n].token # pushed[k][1].token}
Complete(k) == Completing(k) # {}
Overfull(k) == \E n \in Completing(k) : n < Len(pushed[k])

\* The edge tables remember exactly what was pushed, however the tables grew: an edge
\* is complete when it has two different ends (or two, in the counting mode), and the
\* mesh is closed when every edge has two and none a third.
EdgesAreCounted ==
  /\ \A k \in Keys : LET at == TableOf(k) IN
       /\ (pushed[k] # <<>>) <=> (at <= Len(edges) /\ EdgeSlots(edges[at], k) # {})
       /\ at <= Len(edges) =>
            /\ Cardinality(EdgeSlots(edges[at], k)) <= 1
            /\ HadTwo(edges[at], k) <=> Complete(k)
  /\ AllEdgesComplete <=> (\A k \in Keys : pushed[k] # <<>> => Complete(k) /\ ~Overfull(k))
=============================================================================
