--------------------------- MODULE ComputeVoronoi ---------------------------
(***************************************************************************)
(* The parallel mesh construction: ComputeVoronoi with its branches        *)
(* (SystematicVoronoi) and their geometry threads (VoronoiWorker).         *)
(*                                                                         *)
(* A branch computes its cells one after the other.  For a cell its        *)
(* workers first queue the vertices the mesh already has, then explore the *)
(* edges of queued vertices until the queue is empty; every vertex found   *)
(* is queued locally, stored in the mesh and offered to all other          *)
(* branches.  Between two cells the branch retires the current cell, takes *)
(* cell_state_lock_ for writing and clears queue, claims and edge table.   *)
(*                                                                         *)
(* The geometry is given: Vertices is the diagram the ray caster finds, in *)
(* general position (each edge of the diagram ends in at most two          *)
(* vertices), and a walk along an edge returns its other end or infinity.  *)
(* A signature is a set of generators; those of a branch are in the        *)
(* branch's own numbering, those of the mesh in the wrapped numbering.     *)
(***************************************************************************)
EXTENDS BranchViews, Sequences, FiniteSets, SequencesExt

CONSTANTS
  CastThreads,      \* the number of geometry workers of a branch
  Vertices,         \* all vertices of the diagram
  Known,            \* the vertices stored before compute() is called
  DescentMayFail    \* whether descent() may give up and throw

Ordinary == 0 .. NodeCount - 1

\* The edges of a vertex: drop one generator.
EdgesOf(v) == {v \ {g} : g \in v}

ASSUME GeometryAssumption ==
  /\ CastThreads \in Nat \ {0}
  /\ IsFiniteSet(Vertices) /\ Known \subseteq Vertices
  /\ DescentMayFail \in BOOLEAN
  /\ \A v \in Vertices : v \subseteq Nat /\ v \cap Ordinary # {}
  /\ \A v \in Vertices : \A e \in EdgesOf(v) :
       Cardinality({u \in Vertices : e \subseteq u}) <= 2

\* The boundary of a cell is connected: no set of its vertices is closed under
\* the edges of the cell but the whole and the empty one.
ASSUME ConnectednessAssumption ==
  \A g \in Ordinary : \A S \in SUBSET {v \in Vertices : g \in v} :
    S # {} /\ (\A v \in S : \A x \in v \ {g} : {u \in Vertices : v \ {x} \subseteq u} \subseteq S)
      => S = {v \in Vertices : g \in v}

Workers == Branches \X (1 .. CastThreads)
Own(w)  == w[1]
Crew(b) == {w \in Workers : Own(w) = b}

None   == {}    \* no signature
NoCell == -1    \* invalid_cell(), the largest Index: no generator has it

Diagram(b) == {ToBranch(b, v) : v \in Vertices}

VARIABLES
  stored,      \* HVDataBase: the signatures stored so far
  lists,       \* the vertices listed for each ordinary generator
  dirty,       \* the generators whose neighbour lists are marked stale
  infinite,    \* the stored unbounded edges
  newVertices, \* ComputeVoronoi::new_vertices_
  phase,       \* of each branch: where compute() is
  cell,        \* of each branch: the cell of the running iteration
  published,   \* of each branch: current_cell_ holds cell (not the sentinel)
  upcoming,    \* of each branch: the cell the next reset() installs
  pending,     \* of each branch: what ConcurrentVertexIterator has left
  consumed,    \* of each branch: consumed() # 0
  queue,       \* of each branch: the slots of VoronoiVertexQueue
  claimed,     \* of each branch: its queue_hash_
  edges,       \* of each branch: the EdgeHash
  prototype,   \* of each branch: the holder of prototype_lock_
  pc,          \* of each worker: where it is
  frame        \* of each worker: its local variables

meshVars   == <<stored, lists, dirty, infinite, newVertices>>
branchVars == <<phase, cell, published, upcoming>>
iterVars   == <<pending, consumed>>
stateVars  == <<queue, claimed, edges, prototype>>
vars == <<meshVars, branchVars, iterVars, stateVars, pc, frame>>

NoWorker == <<>>

\* job: which loop the worker runs.   sigma: the vertex being queued or
\* registered, in the worker's own numbering.   at, task, arg: the target
\* branch, the vertex in its numbering and the cell argument of queue_vertex().
\* todo, complete: the loop of queue_edges().   origin, left: the loop of
\* systematic_explore_vertex().   unlisted: the lists store_vertex() has still
\* to extend.   fresh: newly_stored.   rest: the branches not yet informed.
EmptyFrame == [job |-> "none", sigma |-> None, at |-> 0, task |-> None, arg |-> 0,
               todo |-> {}, complete |-> TRUE, origin |-> None, left |-> {},
               unlisted |-> {}, fresh |-> FALSE, rest |-> {}]

\* EdgeHashTable: an absent edge is <<>>, else the one or two tokens recorded.
Init ==
  /\ stored = Known
  /\ lists = [g \in Ordinary |-> {v \in Known : g \in v}]
  /\ dirty = {}
  /\ infinite = {}
  /\ newVertices = 0
  /\ phase = [b \in Branches |-> "retire"]
  /\ cell = [b \in Branches |-> 0]
  /\ published = [b \in Branches |-> TRUE]
  /\ upcoming = [b \in Branches |-> 0]
  /\ pending = [b \in Branches |-> {}]
  /\ consumed = [b \in Branches |-> FALSE]
  /\ queue = [b \in Branches |-> <<>>]
  /\ claimed = [b \in Branches |-> {}]
  /\ edges = [b \in Branches |-> [e \in {} |-> <<>>]]
  /\ prototype = [b \in Branches |-> NoWorker]
  /\ pc = [w \in Workers |-> "idle"]
  /\ frame = [w \in Workers |-> EmptyFrame]

-----------------------------------------------------------------------------
(* Helpers *)

\* An iterator that never leaves out the first generator of a signature.
SkipsPastFirst(sigma, c) == {g \in sigma : g # Min(sigma) /\ c = Min(sigma)}

\* The generators whose omission leaves an edge that `c' owns: an edge belongs
\* to the smallest of its generators (EdgeIterator::reset_general).
OwnedSkips(sigma, c) ==
  {g \in sigma : c \in sigma \ {g} /\ c = Min(sigma \ {g})}

\* EdgeHashTable::pushedge: the tokens after the call, and its result.
Tokens(b, e) == IF e \in DOMAIN edges[b] THEN edges[b][e] ELSE <<>>

\* A table that keeps recording an edge that is full.
PushedWithoutCap(old, token, mode) ==
  IF old # <<>> /\ ~mode /\ old[1] = token THEN old ELSE Append(old, token)

PushedTokens(old, token, mode) ==
  IF old = <<>> THEN <<token>>
  ELSE IF Len(old) = 1 /\ (mode \/ old[1] # token) THEN Append(old, token) ELSE old

\* An edge that counts as done when it has been met from one end.
SeenOnce(b, e) == Len(Tokens(b, e)) >= 1

AlreadyComplete(b, e) == Len(Tokens(b, e)) = 2

PushEdgeInto(b, e, token, mode) ==
  edges' = [edges EXCEPT ![b] =
              [f \in DOMAIN @ \cup {e} |->
                 IF f = e THEN PushedTokens(Tokens(b, e), token, mode) ELSE @[f]]]

\* The workers inside queue_vertex() of branch b: they hold its
\* cell_state_lock_ for reading.
Inside(b) == {w \in Workers : pc[w] \in {"proto", "push"} /\ frame[w].at = b}

CurrentCell(b) == IF published[b] THEN cell[b] ELSE NoCell

Joined(b) == \A w \in Crew(b) : pc[w] = "idle"

\* run_workers(): every worker of the branch starts the given loop.
RunWorkers(b, loop, job) ==
  /\ pc' = [w \in Workers |-> IF w \in Crew(b) THEN loop ELSE pc[w]]
  /\ frame' = [w \in Workers |-> IF w \in Crew(b)
                                 THEN [EmptyFrame EXCEPT !.job = job] ELSE frame[w]]

-----------------------------------------------------------------------------
(* VoronoiWorker: the two worker loops *)

\* How each kind of queue_vertex() call goes on: the next existing vertex, the
\* registration of the vertex just found, the next branch to inform.
AfterQueueing(w) ==
  IF frame[w].at # Own(w) THEN "broadcast"
  ELSE IF frame[w].job = "iterate" THEN "next" ELSE "store"

\* Call queue_vertex() of the worker's own branch for sigma.
QueueLocally(f, b, sigma) ==
  [f EXCEPT !.sigma = sigma, !.at = b, !.task = sigma, !.arg = cell[b]]

\* queue_vertices_from_iterator() with ConcurrentVertexIterator::next().
NextVertex(w) ==
  LET b == Own(w) IN
  /\ pc[w] = "next"
  /\ \E v \in pending[b] :
       /\ pending' = [pending EXCEPT ![b] = @ \ {v}]
       /\ consumed' = [consumed EXCEPT ![b] = TRUE]
       /\ frame' = [frame EXCEPT ![w] = QueueLocally(@, b, v)]
  /\ pc' = [pc EXCEPT ![w] = "claim"]
  /\ UNCHANGED <<meshVars, branchVars, stateVars>>

\* The iterator is exhausted: the thread ends.
NoNextVertex(w) ==
  /\ pc[w] = "next"
  /\ pending[Own(w)] = {}
  /\ pc' = [pc EXCEPT ![w] = "idle"]
  /\ frame' = [frame EXCEPT ![w] = EmptyFrame]
  /\ UNCHANGED <<meshVars, branchVars, iterVars, stateVars>>

\* systematic_explore_all_vertices(): take the task queued last.
PopVertex(w) ==
  LET b == Own(w) IN
  /\ pc[w] = "pop"
  /\ queue[b] # <<>>
  /\ queue' = [queue EXCEPT ![b] = Front(@)]
  /\ frame' = [frame EXCEPT ![w].origin = Last(queue[b]),
                            ![w].left = OwnedSkips(Last(queue[b]), cell[b])]
  /\ pc' = [pc EXCEPT ![w] = "edges"]
  /\ UNCHANGED <<meshVars, branchVars, iterVars, claimed, edges, prototype>>

\* A queue that is empty for the moment ends the thread.
NothingToPop(w) ==
  /\ pc[w] = "pop"
  /\ queue[Own(w)] = <<>>
  /\ pc' = [pc EXCEPT ![w] = "idle"]
  /\ frame' = [frame EXCEPT ![w] = EmptyFrame]
  /\ UNCHANGED <<meshVars, branchVars, iterVars, stateVars>>

\* One edge of systematic_explore_vertex(): record it, and walk along it unless
\* it has been recorded twice.  The walk ends in the other vertex of the edge,
\* which is registered, or at infinity, which is stored.
ExploreEdge(w) ==
  LET b     == Own(w)
      f     == frame[w]
      skip  == Min(f.left)
      edge  == f.origin \ {skip}
      ends  == {u \in Diagram(b) : edge \subseteq u} \ {f.origin}
      after == [f EXCEPT !.left = @ \ {skip}]
  IN
  /\ pc[w] = "edges"
  /\ f.left # {}
  /\ PushEdgeInto(b, edge, cell[b], TRUE)
  /\ \/ /\ AlreadyComplete(b, edge)
        /\ frame' = [frame EXCEPT ![w] = after]
        /\ UNCHANGED <<pc, infinite>>
     \/ /\ ~AlreadyComplete(b, edge)
        /\ \E u \in ends : frame' = [frame EXCEPT ![w] = QueueLocally(after, b, u)]
        /\ pc' = [pc EXCEPT ![w] = "claim"]
        /\ UNCHANGED infinite
     \/ /\ ~AlreadyComplete(b, edge)
        /\ ends = {}
        /\ infinite' = infinite \cup {ToMesh(b, edge)}
        /\ frame' = [frame EXCEPT ![w] = after]
        /\ UNCHANGED pc
  /\ UNCHANGED <<stored, lists, dirty, newVertices, branchVars, iterVars, queue, claimed,
                 prototype>>

VertexExplored(w) ==
  /\ pc[w] = "edges"
  /\ frame[w].left = {}
  /\ frame' = [frame EXCEPT ![w] = [EmptyFrame EXCEPT !.job = "explore"]]
  /\ pc' = [pc EXCEPT ![w] = "pop"]
  /\ UNCHANGED <<meshVars, branchVars, iterVars, stateVars>>

-----------------------------------------------------------------------------
(* SystematicVoronoi::queue_vertex() *)

\* A claim that never fails.
AcceptsAnyone(w) ==
  LET f == frame[w] IN
  f.arg = CurrentCell(f.at) /\ f.arg \in f.task

\* Under cell_state_lock_ held for reading: the cell argument is still the
\* current cell, the vertex touches it, and nobody queued it before.
Accepts(w) ==
  LET f == frame[w] IN
  /\ f.arg = CurrentCell(f.at)
  /\ f.arg \in f.task
  /\ f.task \notin claimed[f.at]

\* claim() succeeds, and the edges of the vertex are to be recorded: with the
\* worker's own iterator, or the prototype's when another branch is the target.
ClaimVertex(w) ==
  LET f == frame[w] IN
  /\ pc[w] = "claim"
  /\ Accepts(w)
  /\ claimed' = [claimed EXCEPT ![f.at] = @ \cup {f.task}]
  /\ frame' = [frame EXCEPT ![w].todo = OwnedSkips(f.task, f.arg), ![w].complete = TRUE]
  /\ pc' = [pc EXCEPT ![w] = IF f.at = Own(w) THEN "push" ELSE "proto"]
  /\ UNCHANGED <<meshVars, branchVars, iterVars, queue, edges, prototype>>

ClaimFails(w) ==
  /\ pc[w] = "claim"
  /\ ~Accepts(w)
  /\ pc' = [pc EXCEPT ![w] = AfterQueueing(w)]
  /\ UNCHANGED <<meshVars, branchVars, iterVars, stateVars, frame>>

TakePrototype(w) ==
  /\ pc[w] = "proto"
  /\ prototype[frame[w].at] = NoWorker
  /\ prototype' = [prototype EXCEPT ![frame[w].at] = w]
  /\ pc' = [pc EXCEPT ![w] = "push"]
  /\ UNCHANGED <<meshVars, branchVars, iterVars, queue, claimed, edges, frame>>

\* One edge of queue_edges(), recorded with the generator it leaves out.
QueueEdge(w) ==
  LET f    == frame[w]
      skip == Min(f.todo)
      edge == f.task \ {skip}
  IN
  /\ pc[w] = "push"
  /\ f.todo # {}
  /\ PushEdgeInto(f.at, edge, skip, FALSE)
  /\ frame' = [frame EXCEPT ![w].todo = @ \ {skip},
                            ![w].complete = @ /\ AlreadyComplete(f.at, edge)]
  /\ UNCHANGED <<meshVars, branchVars, iterVars, queue, claimed, prototype, pc>>

\* A pass that ends without releasing prototype_lock_.
FinishWithoutRelease(w) ==
  LET f == frame[w] IN
  /\ pc[w] = "push"
  /\ f.todo = {}
  /\ queue' = [queue EXCEPT ![f.at] = IF f.complete THEN @ ELSE Append(@, f.task)]
  /\ pc' = [pc EXCEPT ![w] = AfterQueueing(w)]
  /\ UNCHANGED <<meshVars, branchVars, iterVars, claimed, edges, prototype, frame>>

\* The vertex is queued unless every edge of it was met from both ends; then
\* prototype_lock_ and cell_state_lock_ are released.
FinishQueueing(w) ==
  LET f == frame[w] IN
  /\ pc[w] = "push"
  /\ f.todo = {}
  /\ queue' = [queue EXCEPT ![f.at] = IF f.complete THEN @ ELSE Append(@, f.task)]
  /\ prototype' = [prototype EXCEPT ![f.at] = IF @ = w THEN NoWorker ELSE @]
  /\ pc' = [pc EXCEPT ![w] = AfterQueueing(w)]
  /\ UNCHANGED <<meshVars, branchVars, iterVars, claimed, edges, frame>>

-----------------------------------------------------------------------------
(* ComputeVoronoi::register_vertex() and AbstractMesh::store_vertex() *)

Rest(w) == Branches \ {Own(w)}

\* What store_vertex() leaves to do: whether the vertex is new to the mesh, and
\* the lists to extend.
Registered(w, fresh, toList) ==
  LET sigma == ToMesh(Own(w), frame[w].sigma) IN
  /\ pc[w] = "store"
  /\ stored' = stored \cup {sigma}
  /\ frame' = [frame EXCEPT ![w].fresh = fresh, ![w].unlisted = toList,
                            ![w].rest = Rest(w)]
  /\ pc' = [pc EXCEPT ![w] = "list"]
  /\ UNCHANGED <<lists, dirty, infinite, newVertices, branchVars, iterVars, stateVars>>

\* A store that takes every vertex for a new one.
StoreWithoutLookup(w) ==
  LET sigma == ToMesh(Own(w), frame[w].sigma) IN
  Registered(w, TRUE, sigma \cap Ordinary)

\* A store that lists a vertex for its smallest generator only.
ListPrimaryOnly(w) ==
  LET sigma == ToMesh(Own(w), frame[w].sigma) IN
  Registered(w, sigma \notin stored,
             IF sigma \in stored THEN {} ELSE {Min(sigma \cap Ordinary)})

\* HVDataBase::push(): the loser of a race gets address 0 and lists nothing,
\* but it still informs the other branches.
StoreVertex(w) ==
  LET sigma == ToMesh(Own(w), frame[w].sigma) IN
  Registered(w, sigma \notin stored,
             IF sigma \in stored THEN {} ELSE sigma \cap Ordinary)

\* The primary list of the smallest generator, then the secondary lists.
ListVertex(w) ==
  LET g == Min(frame[w].unlisted) IN
  /\ pc[w] = "list"
  /\ frame[w].unlisted # {}
  /\ lists' = [lists EXCEPT ![g] = @ \cup {ToMesh(Own(w), frame[w].sigma)}]
  /\ frame' = [frame EXCEPT ![w].unlisted = @ \ {g}]
  /\ UNCHANGED <<stored, dirty, infinite, newVertices, branchVars, iterVars, stateVars, pc>>

\* mark_neighbours_dirty() ends store_vertex() of a new vertex.
VertexListed(w) ==
  /\ pc[w] = "list"
  /\ frame[w].unlisted = {}
  /\ dirty' = IF frame[w].fresh
              THEN dirty \cup (ToMesh(Own(w), frame[w].sigma) \cap Ordinary) ELSE dirty
  /\ pc' = [pc EXCEPT ![w] = "broadcast"]
  /\ UNCHANGED <<stored, lists, infinite, newVertices, branchVars, iterVars, stateVars, frame>>

\* The next branch is offered the vertex in its own numbering.  Its current
\* cell is read here, before queue_vertex() takes the lock.
InformBranch(w) ==
  LET target == Min(frame[w].rest) IN
  /\ pc[w] = "broadcast"
  /\ frame[w].rest # {}
  /\ frame' = [frame EXCEPT
                 ![w].rest = @ \ {target},
                 ![w].at = target,
                 ![w].task = ToBranch(target, ToMesh(Own(w), frame[w].sigma)),
                 ![w].arg = CurrentCell(target)]
  /\ pc' = [pc EXCEPT ![w] = "claim"]
  /\ UNCHANGED <<meshVars, branchVars, iterVars, stateVars>>

\* new_vertices_ is counted last.  The worker goes on with the next edge, or,
\* after descent(), returns to compute().
VertexRegistered(w) ==
  /\ pc[w] = "broadcast"
  /\ frame[w].rest = {}
  /\ newVertices' = newVertices + (IF frame[w].fresh THEN 1 ELSE 0)
  /\ \/ /\ frame[w].job = "explore"
        /\ pc' = [pc EXCEPT ![w] = "edges"]
        /\ frame' = [frame EXCEPT ![w] = [EmptyFrame EXCEPT !.job = "explore",
                                                           !.origin = frame[w].origin,
                                                           !.left = frame[w].left]]
     \/ /\ frame[w].job = "descend"
        /\ pc' = [pc EXCEPT ![w] = "idle"]
        /\ frame' = [frame EXCEPT ![w] = EmptyFrame]
  /\ UNCHANGED <<stored, lists, dirty, infinite, branchVars, iterVars, stateVars>>

-----------------------------------------------------------------------------
(* SystematicVoronoi::compute() and reset() *)

\* The iterator takes a snapshot of the lists; all workers queue from it.
OpenIterator(b) ==
  /\ phase[b] = "open"
  /\ pending' = [pending EXCEPT ![b] =
       {ToBranch(b, v) : v \in lists[UnmapIndex(b, cell[b])]}]
  /\ consumed' = [consumed EXCEPT ![b] = FALSE]
  /\ phase' = [phase EXCEPT ![b] = "iterate"]
  /\ RunWorkers(b, "next", "iterate")
  /\ UNCHANGED <<meshVars, cell, published, upcoming, stateVars>>

NeedsDescent(b) == ~consumed[b] /\ queue[b] = <<>>

\* A cell that nobody touched yet is entered by descent(): the first worker
\* finds some vertex of the cell and registers it.
Descend(b) ==
  LET w == <<b, 1>> IN
  /\ phase[b] = "iterate" /\ Joined(b)
  /\ NeedsDescent(b)
  /\ \E v \in Diagram(b) :
       /\ cell[b] \in v
       /\ frame' = [frame EXCEPT ![w] = [QueueLocally(@, b, v) EXCEPT !.job = "descend"]]
  /\ pc' = [pc EXCEPT ![w] = "claim"]
  /\ phase' = [phase EXCEPT ![b] = "descend"]
  /\ UNCHANGED <<meshVars, cell, published, upcoming, iterVars, stateVars>>

\* descent() throws: compute() of this branch ends, nothing is cleaned up, and
\* the exception is rethrown when all branches have ended.
DescentThrows(b) ==
  /\ DescentMayFail
  /\ phase[b] = "iterate" /\ Joined(b)
  /\ NeedsDescent(b)
  /\ phase' = [phase EXCEPT ![b] = "failed"]
  /\ UNCHANGED <<meshVars, cell, published, upcoming, iterVars, stateVars, pc, frame>>

StartExploring(b) ==
  /\ \/ phase[b] = "iterate" /\ ~NeedsDescent(b)
     \/ phase[b] = "descend"
  /\ Joined(b)
  /\ phase' = [phase EXCEPT ![b] = "explore"]
  /\ RunWorkers(b, "pop", "explore")
  /\ UNCHANGED <<meshVars, cell, published, upcoming, iterVars, stateVars>>

\* All workers found the queue empty: the cell counts as computed.
CompleteCell(b) ==
  /\ phase[b] = "explore" /\ Joined(b)
  /\ upcoming' = [upcoming EXCEPT ![b] = cell[b] + 1]
  /\ phase' = [phase EXCEPT ![b] = "retire"]
  /\ UNCHANGED <<meshVars, cell, published, iterVars, stateVars, pc, frame>>

\* The sentinel is published before the lock is asked for.
RetireCell(b) ==
  /\ phase[b] = "retire"
  /\ published' = [published EXCEPT ![b] = FALSE]
  /\ phase' = [phase EXCEPT ![b] = "wipe"]
  /\ UNCHANGED <<meshVars, cell, upcoming, iterVars, stateVars, pc, frame>>

\* What happens under the lock: the shared state of the old cell is cleared,
\* and the next cell, if there is one, is published.
ClearCell(b) ==
  /\ queue' = [queue EXCEPT ![b] = <<>>]
  /\ claimed' = [claimed EXCEPT ![b] = {}]
  /\ edges' = [edges EXCEPT ![b] = [e \in {} |-> <<>>]]
  /\ IF upcoming[b] < CellCount(b)
     THEN /\ cell' = [cell EXCEPT ![b] = upcoming[b]]
          /\ published' = [published EXCEPT ![b] = TRUE]
          /\ phase' = [phase EXCEPT ![b] = "open"]
     ELSE /\ phase' = [phase EXCEPT ![b] = "done"]
          /\ UNCHANGED <<cell, published>>
  /\ UNCHANGED <<meshVars, upcoming, iterVars, prototype, pc, frame>>

\* A reset that does not take cell_state_lock_.
WipeWithoutLock(b) == phase[b] = "wipe" /\ ClearCell(b)

\* cell_state_lock_ is granted for writing when nobody is inside queue_vertex().
WipeCell(b) ==
  /\ phase[b] = "wipe"
  /\ Inside(b) = {}
  /\ ClearCell(b)

-----------------------------------------------------------------------------
(* Specification *)

\* ComputeVoronoi::compute() joins the branches and returns or rethrows.
Ended == \A b \in Branches : phase[b] \in {"done", "failed"} /\ Joined(b)

WorkerStep(w) ==
  \/ NextVertex(w) \/ NoNextVertex(w) \/ PopVertex(w) \/ NothingToPop(w)
  \/ ExploreEdge(w) \/ VertexExplored(w)
  \/ ClaimVertex(w) \/ ClaimFails(w) \/ TakePrototype(w) \/ QueueEdge(w)
  \/ FinishQueueing(w)
  \/ StoreVertex(w) \/ ListVertex(w) \/ VertexListed(w) \/ InformBranch(w)
  \/ VertexRegistered(w)

BranchStep(b) ==
  \/ OpenIterator(b) \/ Descend(b) \/ DescentThrows(b) \/ StartExploring(b)
  \/ CompleteCell(b) \/ RetireCell(b) \/ WipeCell(b)

Next == \/ \E w \in Workers : WorkerStep(w)
        \/ \E b \in Branches : BranchStep(b)
        \/ Ended /\ UNCHANGED vars

\* Every thread is scheduled again; a lock that is free again is granted in the
\* order of the requests (ReadWriteLock.tla), so nobody waits for it for ever.
Spec == /\ Init /\ [][Next]_vars
        /\ \A w \in Workers : WF_vars(WorkerStep(w))
        /\ \A b \in Branches : WF_vars(BranchStep(b))

-----------------------------------------------------------------------------
(* Properties *)

Frames == [job : {"none", "iterate", "explore", "descend"}, sigma : SUBSET Nat,
           at : Branches, task : SUBSET Nat, arg : Nat \cup {NoCell},
           todo : SUBSET Nat, complete : BOOLEAN, origin : SUBSET Nat,
           left : SUBSET Nat, unlisted : SUBSET Ordinary, fresh : BOOLEAN,
           rest : SUBSET Branches]

TypeOK ==
  /\ stored \subseteq Vertices
  /\ lists \in [Ordinary -> SUBSET Vertices]
  /\ dirty \subseteq Ordinary
  /\ infinite \subseteq UNION {EdgesOf(v) : v \in Vertices}
  /\ newVertices \in 0 .. Cardinality(Vertices)
  /\ phase \in [Branches -> {"retire", "wipe", "open", "iterate", "descend",
                             "explore", "done", "failed"}]
  /\ \A b \in Branches :
       /\ cell[b] \in 0 .. CellCount(b) - 1 /\ upcoming[b] \in 0 .. CellCount(b)
       /\ published[b] \in BOOLEAN /\ consumed[b] \in BOOLEAN
       /\ pending[b] \subseteq Diagram(b) /\ claimed[b] \subseteq Diagram(b)
       /\ ToSet(queue[b]) \subseteq claimed[b]
       /\ \A e \in DOMAIN edges[b] : Len(edges[b][e]) \in 1 .. 2
       /\ prototype[b] \in Workers \cup {NoWorker}
  /\ pc \in [Workers -> {"idle", "next", "pop", "edges", "claim", "proto", "push",
                         "store", "list", "broadcast"}]
  /\ frame \in [Workers -> Frames]

\* No task of an old cell reaches the queue of a new one, whoever brings it and
\* whenever: explored with the ray caster of another cell it would be walked
\* under the wrong edge ownership (systematic_voronoi.hpp 378-385).
QueueBelongsToCell ==
  \A b \in Branches :
    /\ published[b] => \A v \in ToSet(queue[b]) : cell[b] \in v
    /\ \A w \in Inside(b) : frame[w].arg = cell[b]

\* "Exactly one queue claimant performs the OnQueueEdges pass for a signature
\* in one cell generation", and nobody explores the vertex meanwhile: the
\* iterators share the branch's storage of that signature without a lock.
EdgePassIsExclusive ==
  \A w, x \in Workers :
    w # x /\ pc[w] = "push" =>
      /\ pc[x] = "push" /\ frame[x].at = frame[w].at => frame[x].task # frame[w].task
      /\ frame[x].origin # None /\ Own(x) = frame[w].at
           => frame[x].origin # frame[w].task

\* When a branch leaves a cell, the mesh holds every vertex of the cell.
CellVertices(b, c) == {v \in Vertices : UnmapIndex(b, c) \in v}
CellsLeft(b) == 0 .. (IF phase[b] = "done" THEN CellCount(b) ELSE upcoming[b]) - 1

EveryVertexIsFound ==
  \A b \in Branches : \A c \in CellsLeft(b) : CellVertices(b, c) \subseteq stored

\* What the branches owe each other: a branch whose earlier cells are complete
\* completes the next one too, if the other branches have told it everything
\* they had stored by the time its own workers had stopped.
OwesNews(w, b) == \/ b \in frame[w].rest
                  \/ pc[w] \in {"claim", "proto", "push"} /\ frame[w].at = b
QuietlyLeft(b) == /\ phase[b] = "retire" /\ upcoming[b] = cell[b] + 1
                  /\ queue[b] = <<>>
                  /\ \A w \in Workers \ Crew(b) : ~OwesNews(w, b)
QuietCellsAreComplete ==
  \A b \in Branches :
    /\ QuietlyLeft(b)
    /\ \A c \in 0 .. cell[b] - 1 : CellVertices(b, c) \subseteq stored
    => CellVertices(b, cell[b]) \subseteq stored

\* The weaker promise: when compute() returns, the mesh is the whole diagram of
\* the computed cells, whichever branch found what.
MeshIsComplete ==
  (\A b \in Branches : phase[b] = "done") =>
    {v \in Vertices : v \cap (0 .. RangeEnd) # {}} \subseteq stored

\* ... and every unbounded edge of it: the edges of the diagram with one end.
Unbounded == {e \in UNION {EdgesOf(v) : v \in Vertices} :
                Cardinality({v \in Vertices : e \subseteq v}) = 1}

EveryUnboundedEdgeIsFound ==
  \A b \in Branches : \A c \in CellsLeft(b) :
    {e \in Unbounded : UnmapIndex(b, c) \in e} \subseteq infinite

\* A vertex is listed for all its generators, and their neighbours are marked
\* stale, when its registration is over, and for none before it is stored.
BeingListed == {ToMesh(Own(w), frame[w].sigma) : w \in {x \in Workers : pc[x] = "list"}}
ListsFollowStore ==
  \A g \in Ordinary :
    /\ lists[g] \subseteq stored
    /\ \A v \in stored \ BeingListed :
         g \in v => v \in lists[g] /\ (v \notin Known => g \in dirty)

\* Concurrent discoveries of one vertex count once (test_compute_voronoi:
\* new_vertex_count() is the number of vertices added).
NewVertexCountIsExact ==
  Ended => newVertices = Cardinality(stored \ Known)

\* compute() ends, whatever the branches tell each other.
Terminates == <>Ended
=============================================================================
