# TLA+ models of HighVoronoiCC

HighVoronoiCC computes Voronoi diagrams in arbitrary dimension. A diagram is
found by walking its edges: from a known vertex each edge leads to another
vertex (or to infinity), so that the whole diagram is reached from one vertex
per connected piece of work. Several *branches* do that in parallel, each for a
block of cells and each with several worker threads; they share a mesh, a record
database, hash tables and hand-written locks. On top of this sit incremental
refinement and removal of nodes, a periodic ("high") mesh that is repaired by
rounds of mirrored nodes, neighbour databases and integration over cells.

These modules say what the program does and check that it is right. Where
threads meet (locks, tables, database, parallel construction) the geometry is
left out: a model is given a diagram (which vertices exist, each as the set of
its generators) and asks whether the program finds it, whatever the threads do.
Where the program works in calls and phases (refinement, removal, integration,
the periodic transaction) the geometry is what is at stake, and the models have
points in the plane and compute with exact integers and rationals. All line
numbers are those of `src/include/highvoronoi/`.

## Inventory

| Part | State it keeps | Operations | Hard behaviour | What makes it correct |
|---|---|---|---|---|
| Locks (`core/detail/locks.hpp`) | `tail_`, `head_`, `reads_count_` | read/write lock and unlock, read-to-write guard | two-step admission of a reader, wrap of the counters | exclusion, admission in request order, an exact reader count, everyone is served |
| Branch views (`mesh/detail/hvview.hpp`, `compute_voronoi.hpp` 387-443) | none | dividing the cells, mapping indices both ways | block edges, uneven blocks | the blocks partition the cells, the maps are inverse |
| Parallel construction (`compute_voronoi.hpp`, `systematic_voronoi.hpp`, `voronoi_worker.hpp`) | current cell, queue, claims, edge table, locals of each thread | iterate, descend, explore, queue, register, broadcast, reset | threads stop at an empty queue; branches offer vertices while the target changes its cell; a branch fails | no task of an old cell, exclusive edge pass, complete cells, exact lists and counts, termination |
| Record database (`storage/hvdatabase.hpp`) | blocks, capacity, fill mark, signatures | push, read, erase | growth beside readers and writers, records across blocks, failing allocation | reads return what was pushed; the capacity is backed by blocks |
| Default signature table (`storage/hash/queue_hash_table_2.hpp`) | slots, tombstones, count, two locks, `extending_` | insert, contains, erase, resize, clear, rehash | a writer beside readers, a rehash beside both, tombstones that fill a chain, election of the thread that rehashes, failing allocation | linearizable as a set; chains unbroken; exact count; one rehash at a time; every call ends |
| Other hash tables (`storage/hash/`) | slots, tombstones, tokens, routed tables | insert, contains, erase, grow, clear | tombstone reuse, two-token edges, tables created on demand | a set, and a table of token pairs |
| Hybrid database, protected lists (`storage/`) | segments of logical addresses, slots, engines; address lists | push, read, erase, register an engine | a push is two steps under two locks and may throw between them; a registration may fail midway | an address keeps its meaning, the hash knows what addresses lead to |
| Mesh engines (`mesh/engine/`) | shape, which vertices are left | numbering, signatures, incidences, neighbours, erase | edges of the grid, axes of length one | a vertex is listed exactly in the cells of its signature |
| Abstract mesh (`mesh/abstract_mesh.hpp`, ...) | nodes, views, primary and secondary lists, dirty bits | store a vertex or unbounded edge, append, erase, compact | a store is several steps | lists agree with the database |
| Incremental (`algorithm/incremental/`) | watermark, NEW and AFFECTED sets | refine, remove, close | phases in any legal order | the result is the diagram of the active nodes |
| HighVoronoi (`mesh/high_voronoi_mesh.hpp`, `algorithm/high_voronoi/`) | visible and reference nodes, pending changes, boundary planes | append, erase, compute | rounds, round limit, partial failure | every reference is requested once, pending work is not lost |
| Bit vector, progress meter (`core/detail/`) | words; counter, time of last output | set, reset, resize, or; step | word-wise atomics; election of a reporter | no lost bit between resizes, one report per interval |
| Edge iterator, ray caster (`algorithm/`) | candidate sets, QR state, FEI cache | enumerate edges, walk, correct | degenerate vertices | every edge is enumerated once by its owner |
| Neighbours (`storage/neighbour/`) | lists per cell, dirty bits, trackers, version | mark, propagate, recompute | several consumers, late ones | no consumer misses a change |
| Integration (`integration/`) | per-cell and per-interface values | passes with dependencies, reuse of interfaces, publication | stale data after a change; which of two cells measures an interface; a pass that throws | what a clean cell stores is what the mesh has |
| Spherical mesh, validation, search, nodes | (see PROJECT.json) | | | |

How they interact: `ComputeVoronoi::compute()` starts one thread per branch; a
branch (`SystematicVoronoi`) computes its cells one after the other with a crew
of `VoronoiWorker` threads that call back into the branch (`queue_vertex`,
`register_found_vertex`) and through it into `ComputeVoronoi::register_vertex`,
which stores the vertex in the mesh (database, lists, dirty bits) and calls
`queue_vertex` of every other branch on the finder's own thread. The locks
involved are the branch's `cell_state_lock_` and `prototype_lock_`, the lock of
each hash table, of each address list and of the database.

Above the mesh everything is sequential between calls: `RefineVoronoi`,
`RemoveVoronoi` and `ComputeHighVoronoi` change the mesh and run
`ComputeVoronoi` over a *front* of cells; the mesh propagates its dirty bits to
the trackers of its consumers; a `VoronoiIntegral` is such a consumer, and
`Integrator::integrate()` reads the mesh, asks it for neighbour lists (which
clears the mesh's own bits) and publishes a transaction of cells.

## Modules

| Module | Stands for |
|---|---|
| `FairReadWriteLock` | abstract: a line of requests, served in order; readers share |
| `ReadWriteLock` | `ReadWriteLock` and `ReadToWriteLockGuard`, one action per atomic access; `ImplementsFairLock` is its refinement of the former |
| `BranchViews` | the division of cells and `SwitchView`, as operators |
| `ComputeVoronoi` | `ComputeVoronoi`, `SystematicVoronoi`, `VoronoiWorker`, `store_vertex` |
| `SignatureStore` | abstract: a set of accepted signatures and an address for each record |
| `HVDataBase` | `HVDataBase` with its blocks, unit by block-sized chunk; refines `SignatureStore`, and its use of the lock refines `FairReadWriteLock` |
| `LogicalAddresses` | the segments and slots that route logical addresses, as operators on a routing |
| `HybridDataBase` | `HybridDataBase` over a `SignatureStore`: pushes, engines, deletions, exceptions |
| `CuboidMeshEngine` | the arithmetic of grid engines, as operators on a shape |
| `AtomicSet` | abstract: a set of keys; each call takes effect at one instant between its beginning and its end |
| `QueueHashTable2` | `QueueHashTable_2`, probe by probe and copied slot by copied slot; refines `AtomicSet` |
| `Fingerprints` | what a key's hash value decides: where its probes start, and their odd stride |
| `HashContainers` | `QueueHashTable`, `EdgeHashTable` and the containers that route keys to several of them; the queue kind refines `AtomicSet` |
| `IncrementalMesh` | `RefineVoronoi` and `RemoveVoronoi` on a `VoronoiMesh`, its numbering, records, infinite edges, neighbour lists, dirty bits and trackers |
| `VoronoiIntegral` | `Integrator::integrate()` with the polygon and the Monte-Carlo algorithm, several integrals on one `IncrementalMesh` |
| `PeriodicDomain` | `Boundary::cuboid`, the planes as generators, and the exact Voronoi vertices of generators in the plane |
| `EdgeWalk` | a run of `ComputeVoronoi` over a front by walking edges: descent, owned edges, `ClassicRayCaster` |
| `HighVoronoi` | `HighVoronoiMesh` and the phases of `ComputeHighVoronoi::compute()` |
| `*Proofs` | the theorems about a module and their proofs |
| `MC*` | the instances TLC checks |

### ReadWriteLock

`tail`, `head` and `reads` are the three atomics, with the wrap `% Width`.
`RequestRead` is the `fetch_add` on `tail_`; `ReaderSeesHead` the load that ends
the spin loop; `CountReader` and `AdvanceReader` the two increments after it.
A writer's loop condition loads `head_` first and `reads_count_` second, so
`WriterSeesHead` and `CheckReaders` are two steps, and a writer that finds
readers goes back to the first. `BeginUpgrade` is the constructor of
`ReadToWriteLockGuard`: release, then ask anew at the end of the line.
Memory orders are not modelled: every access is one step on one shared state.
The accesses the argument needs are acquire loads of what a release increment
wrote.

### ComputeVoronoi

A branch `b` is in a `phase`: `retire`, `wipe` and `open` are `reset()` and the
creation of the iterator; `iterate`, `descend` and `explore` the three stages of
a cell; then `done` or `failed`. The actions of a branch are the steps of
`SystematicVoronoi::compute()` between which something can happen elsewhere.
`published[b]` tells whether `current_cell_` holds the cell or the sentinel.

A worker's `pc` follows the call it is in: `next` or `pop` at the head of its
loop, `edges` in the loop over the edges of a vertex, `claim`, `proto`, `push`
inside `queue_vertex()`, `store`, `list`, `broadcast` inside
`register_vertex()`. Its `frame` holds the local variables that survive a step.
`queue_vertex()` takes `cell_state_lock_` for reading: the workers in `proto`
and `push` hold it, and `WipeCell` (the write lock of `reset()`) waits for them.
Checking the cell, claiming the signature, each `pushedge()` and the enqueue are
separate steps because each takes a lock of its own.

The edge table records for an edge up to two tokens (`PushedTokens`); the
queueing pass offers the omitted generator, the exploring one the cell with
`mode` set, as the code does. An edge is walked only by its owner, its smallest
generator in the branch's numbering, which is why the numbering matters.

Simplified: vertices are in general position (each edge leaves out exactly one
generator); a ray walk returns the other end of the edge in the given diagram
or infinity; the hash tables are the sets they implement; the lock is the fair
lock. `store_vertex()` appends to one list per step. The snapshot an iterator
takes of the lists is one step.

### HVDataBase

`push`, `push_facet`, `read`, `read_facet` and `erase` of several threads on
blocks of `unit_length` units. `line` is the ticket line of the fair lock.
`ensure_capacity()` looks at the capacity without the lock (`CheckCapacity`),
asks for it exclusively, looks again, grows the outer vector, sizes each new
block and publishes. `AllocationFails` throws `bad_alloc` in either growth step
where `FailingAllocations` allows it. Values are written and read in chunks
that end at a block's edge, as `write_values()` and `read_values()` do.

### LogicalAddresses, HybridDataBase, CuboidMeshEngine

`HybridDataBase` gives callers *logical* addresses. A routing is the next free
one, a table of slots (the physical addresses of stored records, in the order in
which they got a logical one) and the segments, each a range of logical
addresses that stands for consecutive slots or for the vertices of an engine
(`hybrid_database.hpp` 445-528; sequences count from one). The stored backend is
the abstract `SignatureStore` that `HVDataBase` is shown to implement, so a push
is `AcceptSignature`, `StoreRecord`, `AppendStoredRecord`: two threads get their
logical addresses in either order. `StoreThrows` and `AppendThrows` are the ways
out in between; what they leave is a signature that counts as known and has no
address (`orphans`), which `HashIsExact` names rather than hides.
`register_engine` enters the signatures of an engine one after the other and
takes them out again at the first that is known (`RegisterConflicts`) or when
something throws (`RegisterThrows`). Its rollback knows what
`inserted_signatures` holds, and a signature gets there after it has been entered:
when the hash throws from extending its table, or `push_back` itself throws, that
one signature stays, an orphan like those of `push`. It and `erase` run between
parallel phases (`Idle`). `issued` is what callers remember.

`CuboidMeshEngine` has no state of its own but the set of vertices left; its
operators are evaluated for all shapes of up to three axes by `GridsAreExact` in
`MCHVDataBase`, for the complete grid and with any one vertex erased, and they
give the engines that the `routing` layer of that module registers.

### QueueHashTable2

The table that `QueueTable`, the default, resolves to. `capacity`, `table`,
`occupied`, `deleted`, `count` and `extending` are the members of the class; a
key stands for its fingerprint, which decides equality and, by `First` and
`Step`, the probe chain. `writer` is the holder of `writelock_`. `lock_` is
`readers`, the threads that share it, and `swapper`, the thread that has asked
for it exclusively: from then on no reader joins, as the ticket line of the lock
demands, and the swapper goes on when `readers` is empty. A thread that waits
for a lock holds nothing that the others need: writers take `writelock_` first.

`pc` names the position in `pushqueue()`, `erase()`, `resize()` or `clear()`,
and `frame` the local variables (`slot` is the number of probes made, or the
slot written). `Probe` is one round of the readers' loop. The code reads two
flags and the key there; since an occupied slot never changes its key and only
gains a tombstone while a reader is inside, the step stands at the load that
decides. The loops of the writers are one step (`EndSearch`, `WritePayload` or
`MarkDeleted`): the writer holds `writelock_`, so nobody changes a slot
meanwhile. Payload and publication are two steps, and so are the change and the
count. Unlocking `writelock_` and leaving `lock_` are two steps, in the code's
order.

After an insertion `CheckLoad` is the look at the load outside the locks;
`Elect` the `fetch_add`, `Concede` the `fetch_sub` of a thread that found it
taken, `Await` the end of the spin in `force_rehash()`. Under `writelock_`,
`Needed` is the second look (a forced rehash is always needed), `BeginRehash`
allocates, `CopySlot` and `SkipSlot` go through the old table, and `Swap`
exchanges the vectors and unlocks. `AllocationFails` is `bad_alloc`: the rehash
is given up and `Finish` and `Resign` undo what was taken. The `logic_error`
thrown when a rehash finds no free slot has no action: a thread that came there
would be stuck, and `CallsEnd` would fail.

Simplified: `Calls` bounds the calls of each thread; the payload of a slot is
written in one step, which is safe because readers do not look at it before it
is published; `size()` and `capacity()` are reads of one value. `AtomicSet`
allows a push or resize that has not taken effect to end by an exception.

### HashContainers

`QueueHashTable` and `EdgeHashTable` do a whole call under one lock, so a call is
one step of its table, written as an operator on it (`Insert`, `EraseKey`,
`PushEdge`, ...) with the probe chain and its tombstones. What is left to
interleave is the container: `Route` looks at the number of tables under the read
lock, `GrowTables` makes the missing ones under the write lock after another
look, and the table's call comes later still. A container is the static kind
(`FirstValue % tables`) or the growing one (`FirstValue \div block`). `clear()`
goes through the tables one by one and is called between the parallel phases
(`Quiet`). `pushed` is what callers remember of the edges they pushed.

`SignatureStore` and `ComputeVoronoi` use the tables as sets with atomic
operations: `ImplementsAtomicSet` justifies that for the default table,
`ContainerIsAtomicSet` for the containers.

### IncrementalMesh

One variable per member: `total` is the number of slots ever used,
`publicToInternal` the dense numbering, `records` and `rays` the stored vertices
and infinite edges, `neighbours` and `dirty` the neighbour lists with the mesh's
bits, `tracker` the bits of each consumer, `remover` the fields of each
`RemoveVoronoi`. The geometry is given by two tables over the slots (what lies
inside the sphere through a signature, what on either side of an edge's plane),
which the instance computes from points of the plane with integer determinants.

`Refine` is a whole `RefineVoronoi(...).compute()`: the block is appended, the
cells of the block are computed, the OLD generators seen there are AFFECTED, and
a stored vertex is erased if all its generators are AFFECTED and a NEW node lies
inside. A removal is three calls of one object, between which other calls may
come: `ConstructRemover` (it remembers public indices and stable slots),
`RemoveNodes` and `CloseHoles`; `compute()` without `remove()` does both.

### VoronoiIntegral

`data[k][i]` is what consumer `k` has published for slot `i`. A pass is one step
(nothing else touches the mesh meanwhile), written as the code's stages: `Plan`
(NEW and DIRTY cells, bounded ones first), `EnsureLists`, `Kept` (what survives
`prepare_update`), `FirstPass` and `CleanedUp` (polygon) or `Sampled` (Monte
Carlo), `Finalized` for unbounded cells, `Publish`, `FinishUpdate`. `Share`,
`Own` and `Position` are the division of the work among integration threads,
which decides on which side an interface is measured. `IntegrateThrows` is a
pass that stops while it measures (`MeasuringThrows`: some lists are current,
nothing is published) or among its commits (`PublishingThrows`: some cells are
published, each whole, and none is clean).

An area is represented by the set of the facet's vertices: it is current if and
only if the facet has the vertices it was measured with. Volumes and integrals
are sums over these. Sampling is exact.

### PeriodicDomain, EdgeWalk, HighVoronoi

`PeriodicDomain` has the box with its four planes, the periodic shift of a mask
of planes, and `VerticesOf`, the definition of a Voronoi vertex clipped by
planes. `EdgeWalk` finds vertices as the program does: for each cell of the front
in turn, from the vertices listed for it or from a descent, along the edges the
cell owns (one recursive function for each loop of the code, over the state of the
loop), each ray by `ClassicRayCaster`'s steps to the nearest generator. Where
the code draws at random (where the descent arrives, the first generator ahead of
a ray) the model takes every outcome; `Walks` is the set of possible results.

`HighVoronoi` is the state machine. `slots`, `active`, `boundary`, `records`,
`integrated` and `pendingDeleted` are the mesh; the other variables belong to a
`compute()` and follow its `phase`: `refine` (a block of NEW nodes: first the
visible ones, then each round of copies), `closing` (requests become copies and
the internal boundary moves out), `removal` (the holes of erased nodes), `repair`
and `sweep` (the sparse repair from recorded seeds). Every exception the code
throws on the way has an action that gives up (`RoundLimit`, `SweepLimit`, and a
new vertex at a copy in `Sweep`). `seeds` belong to the `ComputeHighVoronoi`
object, so they survive a call only if the same object is used again.

## Runs

| Run | Instance | Checks |
|---|---|---|
| `read_write_lock` | 3 threads, counters modulo 4 | exclusion, the inductive invariant with the exact reader count, refinement of the fair lock, every request is served |
| `cast_workers` | 1 branch, 2 workers, cell 0 in a wheel of four vertices with four unbounded edges | exclusive edge pass, every vertex and unbounded edge of every cell left is found, lists, counts |
| `mesh_branches` | 2 branches, 1 worker each, four cells in a half plane with three vertices and four unbounded edges, `descent()` may throw | stale tasks, quiet cells, termination |
| `mesh_completeness` | 2 branches, one triangle and its mirrors | violated: see below |
| `database` | two layers, each on its own: 2 threads, blocks of two units, growth may fail in the outer vector; 2 threads and up to two engines (a grid of two vertices, an engine with one at the boundary) on four logical addresses | capacity, faithful reads, two refinements, every call ends; faithful logical addresses, exact hash |
| `block_allocation` | sizing a block may fail | violated: see below |
| `queue_table` | two layers, each on its own: 2 threads with 3 and 2 calls of all kinds, two keys, a default table of two slots, allocations may fail; the other tables, of one slot at first, as one, as two and as a growing vector of none | unbroken chains, exact count, sound election, linearizability, every call ends; the containers are one set, edges keep their two ends |
| `integration` | 7 points of the plane, 5 of them at the start; refinements by one, two overlapping removals of one, two integrals with two threads; the same with one removal and one integral, which may also fail after one to four published cells | no stale vertex, no forgotten hole, current lists and measures, the chosen nodes are removed |
| `unbounded_measures` | 6 points, refined by one that cuts node 0 off from the hull | violated: see below |
| `forgotten_areas` | the points of `integration`, Monte Carlo | violated: see below |
| `high_voronoi` | a torus of 20 x 23, four points and one to append, one erased between two calls, round limits 1 and 16, sweep limits 0 and 16 | the mesh is the periodic tiling's, no stale record, the rounds close |
| `hidden_vertices` | a strip of 20 x 37, three points | violated: see below |

Why these bounds are enough. The lock's protocol distinguishes the ticket being
served, one behind it and one more; three threads give all three and the
counters wrap. In the construction the two kinds of races are worker against
worker (same queue, edge table and claims) and branch against branch (broadcast
against reset); each has its own instance, because both at once is beyond what
TLC does in minutes. The diagrams have cells that share edges with a cell of
another owner, unbounded edges and a vertex without own cells of one branch. The
database's blocks are shorter than its records, so every record straddles. The
two keys of the hash table start at the same slot and go round in opposite
directions, and two slots are few enough that three calls fill a chain with
tombstones or keys: insertions find the table full, rehash at the same and at
the double capacity, lose the election, wait and try again.

The points of `integration` are in general position (the tables are only asked
for sets of at least three active nodes without three on a line or four on a
circle), and the two late ones are an outer node that changes the hull and one at
the place of a removed node, so that vertices come back. One node per call
suffices for every order of calls; `Removers` and `Consumers` are symmetric. A pass
that throws half published (`Interrupted` says after how many cells) multiplies
the states, so it is explored with one integral and one removal, in behaviours of
their own (`alone` of `MCVoronoiIntegral`), for as many such passes as fit.
Neighbours are asked for one inner cell only (`Asked`), which is enough for a
list that is clean for the mesh and dirty for a consumer. `high_voronoi` has four
points because with fewer the first block can close before anything is repaired,
and both limits small and large, so that every transaction also fails where it
can. `Capacity` bounds the slots: a transaction whose copies
do not fit stops before they are appended and nothing is claimed of it; the first
transactions fit. `MaxOrphans` of `database` bounds what failed registrations may
leave. Both diagrams of `MCHighVoronoi` are checked for general position
(`GeneralPosition`) for all subsets of the points a run can have.

Nothing is replaced or constrained in a `.cfg`; the instances bound the data
(diagram, keys, threads), and no counter of a model grows beyond its data.
`ComputeVoronoi` stutters when `compute()` has returned (`Ended`), so a deadlock
would be reported.

### Fairness

Threads run to the end of what they do: every thread's next step is weakly fair.
That a lock which is free again is not taken from a waiting thread for ever is
not assumed but checked: `ReadWriteLock` admits in the order of the requests and
`EveryRequestIsServed`. In `HVDataBase` the line is part of the state, so weak
fairness of each thread suffices. In `ComputeVoronoi` the lock appears only by
its exclusion; the writer's wait for `Inside(b) = {}` can be weakly fair because
no worker enters once the sentinel is published. In `QueueHashTable2` each
thread's next step inside a call is weakly fair and nobody is obliged to call;
the calls are finitely many, so that no thread is overtaken for ever at
`writelock_` (the fair lock excludes that for any number of calls) or in the
spin of `force_rehash()`, which is not fair.

`IncrementalMesh`, `VoronoiIntegral` and `HighVoronoi` are sequences of calls by
a user who owes nobody the next one: no fairness is stated and no liveness
claimed. Their runs set `CHECK_DEADLOCK FALSE` because the bounds (slots,
removals) end a behaviour. That `compute()` ends is a safety property here: each
round and sweep is bounded by a limit that throws, and `ClosureSuffices` says
that the limit is not what ends it.

### What the runs found

`mesh_completeness`: a branch's workers stop when its queue is empty. If a
thread of another branch has claimed a vertex for it and not yet queued it, the
branch's own discovery of that vertex is refused as already claimed, its workers
see an empty queue, the cell is declared complete and `reset()` discards the
task. Nobody walks that vertex's edges for the cell, and with several mesh
threads the diagram can miss a vertex. `QuietCellsAreComplete` states what does
hold: a cell is complete when its crew has stopped at an empty queue and no
foreign worker has anything left to tell the branch (`QuietlyLeft`). That no
foreign worker is inside `queue_vertex()` is not enough: one that has stored a
vertex and not yet offered it hides it as well, because it may have listed the
vertex after the branch took its snapshot (the instance of `mesh_branches` has
such executions). Inside one branch the early stop is harmless
(`cast_workers`, and `VertexCompleteness` in general), because the claimant is
one of the crew the branch joins.

`block_allocation`: a throw between `data.resize()` and the sizing of the new
blocks leaves empty blocks that a later growth starts behind and counts.

`unbounded_measures`: a refinement never erases an infinite edge, so a cell that
new nodes cut off from the hull stays classed as unbounded and is stored with an
infinite volume.

`forgotten_areas`: an incremental Monte-Carlo pass starts a cell by filling all
its areas with zero and samples only the interfaces it has to recompute; those to
clean neighbours, which were to be kept, are published as zero.

`hidden_vertices`: a vertex whose nodes are all OLD and that lies behind the first
periodic plane is found only from the seeds of the sparse repair, and a seed is
recorded only if an edge leads from a periodic plane to a vertex that is not on
one. Where all such edges cross the domain from plane to plane there is no seed.

A registration that runs out of memory after it has entered a signature leaves that
signature in the hash (`hybrid_database.hpp` 240-251). No comment or test says
otherwise (`test_registration_collision_is_transactional` is about conflicts), so it
is stated in `HashIsExact`: the signature stays for good, because only an address
erases it, and a retry of the registration is refused.

Three observations made on the way are documented by the bounds of the instances
rather than by runs of their own. Calling `compute()` again after the round limit
threw (`MayRetry`) leaves copies that no block refines, because a copy is not
pending. Integrating between `remove()` and `compute()` (`MeasuresHoles`) lets a
cell be measured whose infinite edges are stored later, which marks nothing
dirty. And with nodes (7,2), (2,9), (9,8) on a torus of 28 x 21 the closure needs
a fourth round and the sparse repair then meets a vertex at a copy, so that
`compute()` ends with the `logic_error` of `periodic_boundary_repair.hpp:487`.

## Proofs

What TLC shows for an instance is proved for every value of the constants here.

`ReadWriteLockProofs`. `LockInv` is the inductive invariant: the outstanding
tickets are distinct, lie between `head` and `tail`, and there are as many as
that distance; the reader count is the number of counted readers; a writer
inside holds the ticket `head` and there are no readers. Exclusion alone is not
inductive: it depends on the tickets being distinct *modulo the width*, which
follows only from the queue being full, hence the assumption that the width
exceeds the number of threads. `FairLockRefinement` maps the line of the
abstract lock to the outstanding tickets in the order of their distance from
`head`.

`ComputeVoronoiProofs`. Its first part is about the operators of `BranchViews`:
`BranchesPartitionCells` is division with remainder done carefully (the solver
has no non-linear arithmetic, so products are introduced as named facts);
`ViewIsBijective` follows with `LastCell(b) < NodeCount`. The safety properties of the queue protocol and of the
registration hold for every finite diagram, every division into branches and any
number of workers. They are proved from one inductive invariant, `Inv`, whose
parts are stronger than the properties:

- `Types`, `Shapes`: the types, with `Known` a subset of `stored`, and a queue
  that only holds claimed tasks.
- `Workings`: what a position says about the local variables. A worker of a
  branch that is not running is idle; an idle worker explores nothing; what is
  being registered is a vertex of the worker's own branch; `fresh` is set only
  from the store to the end of the registration.
- `Queueings` (for `QueueIsolation` and `ExclusiveEdgePass`): a worker inside
  `queue_vertex()` has the target's cell as its argument and a task that is
  claimed, not yet queued and nobody else's; every queued or explored vertex is
  claimed. Freshness of a claim is what excludes a second pass, so the claims,
  the queue and the vertices being explored have to be related. `WipeCell`
  preserves it because nobody is inside the branch and its own crew rests.
- `ListsInv` (for `ListsAgree`): a stored vertex is listed and has marked its
  generators, or the one worker that stored it still lists it.
- `CountInv` (for `ExactCount`): the vertices stored and not counted are as many
  as the workers that carry the flag `fresh`. At the end nobody carries it.

The numberings enter through `SignatureRenumbering` (a signature of the mesh
survives the way to a branch and back), which rests on `ViewIsBijective`; the
smallest element of a set of generators exists by the well-foundedness of finite
sets (`MinIsLeast`). From the geometry only the finiteness of the diagram and its
being made of sets of generators is used; that an edge has at most two ends is
needed for completeness only.

The second part of `ComputeVoronoiProofs` is completeness, that a cell is complete
when its branch leaves it: any
number of branches and workers for `QuietCompleteness`, any number of workers of
one branch for `VertexCompleteness` and `UnboundedEdgeCompleteness`
(`MeshThreads = 1` is a hypothesis; with several branches the statement is false,
as `mesh_completeness` shows). The invariant `Progress` says that nothing a
cell lacks is forgotten:

- `JobsFit`, `PhasesFit`, `ListsFit`: what the place of a worker and the phase of
  a branch say about frames, iterator, published cell and lists.
- `ClaimsFit`: a claimed vertex touches the cell and is stored or on its way.
- `EdgeFits`: an edge with one token was met from a claimed vertex and carries the
  generator that vertex has besides; both ends of a full edge are claimed or about
  to be, and a full edge with one end is stored as unbounded.
- `ClaimedAreSeen`: each owned edge of a claimed vertex is full, or its vertex is
  queued, or a worker has it in its tour or in the pass that may queue it.
- `TasksAreRecorded`: queued and explored vertices have all their owned edges in
  the table. This is what makes an exploring push fill the entry, and a pass that
  met only full edges be right not to queue.
- `NewsArrive`: a stored vertex of the cell is claimed, waits in the iterator's
  snapshot, or is carried by a worker that will offer it.
- `CellIsTouched`, `CellIsEntered`: exploration starts from a claimed vertex.

When crew and messengers rest and the queue is empty, the alternatives that
involve somebody at work fall away. The claimed vertices are then closed under
the edges the cell owns; its other edges have a smaller generator of the branch,
whose cell is complete by hypothesis (by induction along the behaviour for one
branch), so their ends are stored, hence claimed. A nonempty set closed under the
edges of a cell is all its vertices: that is `ConnectednessAssumption`, the only
geometric fact besides "an edge has at most two ends". A cell is a convex
polytope, whose vertices and edges form a connected graph (Balinski), so the code
may rely on it; TLC evaluates it for all diagrams used. `cell[b]` is left only
after the join with an empty queue because a worker queues only before it looks at
the queue again (`QueueStaysServed`), which needs that nobody else queues.

`QueueHashTable2Proofs`. All safety properties of the default table, and that it
implements `AtomicSet`, for any threads, keys, hash values, capacities and
failures. The invariant says, beside types and locks:

- `TableInv`: a live slot is reachable from its key's start over occupied slots,
  and no key is live twice.
- `PublishInv`: the slot a writer has filled and not yet published is free, its
  chain leads there, and its key is nowhere else.
- `ProbeInv`: the slots a reader has passed are occupied and do not hold its
  key. This is stable, although the key may be inserted behind the reader's back:
  an insertion fills only free slots, at the end of the chain. With `TableInv` it
  gives `WalkDecides`: a walk that ends has proved the key absent *at that
  instant*, which is the instant of the call in the refinement.
- `DraftInv`: the new table of a rehash holds exactly the live keys of the slots
  copied so far. The copier holds `writelock_`, so the old table stays as it is.
- `CountInv` and `ElectionInv`: the count is off by one only between a change and
  its `fetch_add`; `extending` is the number of threads between theirs.

The refinement maps a call's outcome to its answer: an insertion takes effect at
`Publish`, an erasure at `MarkDeleted`, a negative answer of either at
`EndSearch`, `contains()` at the deciding `Probe`, `clear()` at `Clear`, and
`resize()` at its end. Nothing is assumed of the hashes; that strides are odd
matters for `CallsEnd` only.

`HashContainersProofs`. Any number of tables, keys, hash values and threads, either
container. Two facts about one table carry everything:

- `ProbesVisitAll`: an odd stride visits every slot of a table whose capacity is a
  power of two. Hence an insertion or an edge push that finds no place on its chain has
  a full table before it, which the growth rule excludes: it cannot fail.
- `RehashKeeps`: a growth carries over exactly the keys (the edge entries) of the
  old table, one slot each. This is an induction over the slots copied.

The invariant `IInv` says of each table (`SizesOK`) that a key lies in one slot
and no slot before that on its chain is free, that the counters are those of the
slots and leave room; of each call (`CallsOK`, `PushesOK`) where its key is
routed and that this table exists or is about to be made; and that callers
remember exactly the edges that are in the tables (`EdgesKept`, from which
`EdgesStayCounted`). Tombstones are why the chain has to be stated over slots
that are not free instead of slots that are live. `ContainerRefinement` lets
`push`, `contains` and `erase` take effect at their step in the table, an answer
given because the table does not exist yet at `Route`, `clear()` and `resize()`
at their own step; edge pushes and the growth of the container stutter. The
hypothesis is `ContainersAssumption`: a new table has a power of two of slots (of
any size) and strides are odd, as the code computes them.

The library states induction with an operator parameter, which no prover here
can instantiate. The module states the least-number principle and induction for
*sets* of numbers instead (`LeastNumber`, `SetInduction`, from the
well-foundedness of the order), and uses them also to show that the recursive
functions of the model (`CarriedOver`, `CarriedEdges`, ...) are what their
equations say.

`HVDataBaseProofs`. `BlockInv` holds for any threads, records and block lengths:
the grower is at the head of the line and nobody is inside (`LineInv`); only the
blocks a grower has still to size are empty, and none of them counts as capacity
(`GrowthInv`); the ranges reserved or written are pairwise disjoint and below the
fill mark, and a push that has passed the capacity checks fits (`RangesInv`); a
recorded address holds its whole record, but for the length of an erased one, and
copies and reads in progress are prefixes (`RecordsInv`, `CopiesInv`,
`ReadsInv`); a signature belongs to one push or one live record (`KeysInv`).
Disjointness is what lets writers copy side by side, and what keeps the prefix a
read has got valid. `BoundInv` only serves the bound on addresses by which the
abstract store is instantiated. Positions are divided into block and offset
(`Positions`, `InOneBlock`), so a record that straddles blocks needs no special
case. `StoreRefinement` maps `ClaimKey` to `Accept`, the last `WriteChunk` of a
record to `Record` and `EraseRecord` to `Remove`; every other step stutters. The
hypothesis of `RangesFit`, `ReadsStayFaithful` and `StoreRefinement` is that a
block that was appended can be sized (`BlocksAreSized`: `"block"` is not in
`FailingAllocations`; growth of the outer vector may still throw); the run
`block_allocation` refutes `RangeFits` without it. `LockRefinement` needs no such
hypothesis. The set of callers is finite, as threads are.

`HybridDataBaseProofs`. `HybridInv` says that the segments cover the addresses given out without gap or overlap (`RoutingInv`),
that no physical address stands in two slots, that what an engine's segment
stands for lies within that engine's range, that a record whose push is not over
stands in no slot, and that every address callers remember resolves to what it
was given for. The last part alone is not inductive: an append keeps the meaning
of the older addresses only because segments are sorted and slots injective.
`HashInv` adds that the signatures behind addresses, those in flight and those at
which a push or a registration threw are pairwise different and together the
hash; a registration that fails takes out exactly what it entered because those
two sets are disjoint, all but the signature at which memory ran out. `ResolveCovered` is the binary search on its own.

`IncrementalMeshProofs`. The geometry enters by two tables. Beside their shape,
all that is assumed of them (`GeometryAssumption`) is that cells change only
beside what is added: every generator of a vertex or unbounded edge that some
nodes have and a larger set has not shares a vertex or an unbounded edge of the
larger set with an additional node. TLC evaluates this for the points of both
instances and all sets of them in general position. The invariant `MeshInv` says:

- the public order is an increasing sequence of slots in use, and all lists,
  dirty bits, trackers and fronts name such slots;
- `Sound`: every stored vertex is one of the active nodes' diagram
  (`NoVertexIsStale`); a stored infinite edge need not be;
- `HolesInv`: *every* generator of a vertex or unbounded edge that is missing is
  in the front of a removal that has still to be computed.
  `HolesAreRemembered` promises one such generator, which is not inductive: when
  a second removal overlaps the first, a new hole lies beside vertices that may
  themselves be missing, and only if all their generators are remembered is the
  new hole's;
- a list that is not dirty is what the stored vertices give, on which
  `CleanListsStayCurrent` rests with the propagation to the trackers;
- `RemoversInv` (for `ChosenNodesAreRemoved`): between the constructor and
  `remove()` either a block was appended, or there are fewer public nodes, or the
  public indices still lead to the chosen slots. Comparing the two counts suffices
  because calls only append slots and removals only shrink the order.

`HighVoronoiProofs`. The bookkeeping of a mesh on a periodic plane, for any box,
points, sequence of calls and limits, and *whichever* vertices the geometry yields:
of a run of `ComputeVoronoi` only what `WalksAreKnown` says is used, that each
vertex it reports names a node of the front and otherwise nodes and planes of its
view. The inductive invariant `Inv` (`InvHolds`) has three parts:

- `Mesh`: a slot is a visible node inside the external box or a copy of an
  earlier visible one, at that node's image, the only one under its shift, and
  active exactly when its node is; the internal boundary contains all of them and
  leaves as much room again beyond each periodic plane. The copies' uniqueness
  needs that the plan of a round lists every missing copy once, hence that the
  order in which copies are appended is total (`CopyOrderIsTotal`, `RanksAreUsed`,
  `InOrderLists`); their place needs that a periodic shift moves along periodic
  axes only (`ShiftFacts`, on the sums of the community modules: `SumIsInteger`).
- `RecordsOK`: a stored vertex names slots that are active, or at rest inactive ones
  that wait for the next `compute()`, and no periodic plane. `compute()` starts by
  taking out what names such nodes, and no phase deletes a node, so that nothing
  dead can come back from a walk or from the vertices it is given.
- `ComputeOK`: the requests, the block, the remover and the watermark refer to
  active nodes and slots in use, in every phase. This is what makes the views
  of the walks consist of active nodes.

From it follow `CopiesFollowTheirNodes`, `RecordsNameTheLiving` (the first half of
`NoStaleRecord`), `BoundaryHasRoom` and the action property `NodesKeepTheirNumbers`,
which are defined beside their proofs; they hold after the exceptions of
`RoundLimit` and `Sweep` as well. Hypotheses are `DomainAssumption` and
`MeshAssumption`: points are integer points inside the external box, the initial
ones fit the capacity, and numbers of slots stay below those of the planes.

A recursive function of `EdgeWalk` is only a `CHOOSE`, so its equation has to be
earned: `RecursionHasSolution` solves a recursion along a measure that decreases
(from the least-number principle), and `ExploreRecursion`, `DescendRecursion` and
`ReportsRecursion` apply it to the vertices not yet seen, the corners not yet
walked from and the cells not yet computed. The termination of
these three loops is thereby proved for every finite view. `Settle`, the steps of
one ray, needs no such fact: whatever it answers is cut to the cell's generators,
as the code's indices are.

Only model-checked:

- liveness (`EveryRequestIsServed`, `Terminates`, `CallsEnd`), which is out of the
  prover's reach as ENABLED is;
- `MeasuresAreCurrent`, a statement about the instance: with the stale infinite edge
  of `unbounded_measures` a removal can change whether a cell counts as unbounded
  without marking that cell dirty, and the points of the run `integration` avoid it;
- `MeshIsPeriodic`, `ClosureSuffices` and the second half of `NoStaleRecord` (no
  active node closer to a stored vertex than its generators). They are
  about which vertices exact geometry yields: that rays find all vertices of a cell,
  that the cells of copies near a periodic plane look like those across it, in
  general position. No table of assumptions short of the theorem itself would
  state that, and the arithmetic of circumcentres (products of degree four) is
  beyond the installed solvers.

## Plan

Done: locks, branch views, parallel construction, record database, default
signature table, other hash tables and their containers, hybrid database,
incremental refinement and removal, with their theorems; the periodic transaction
on top of an exact walk along edges, with the theorems about its bookkeeping; the
grid engine; integration passes.

Left, in this order:

1. Theorems about an integration pass that follow from the mesh's dirty bits,
   apart from unbounded cells.
2. `HighVoronoiIntegrationView`: reciprocal interfaces and presentation of
   periodic cells.
3. The bit vector and the progress meter.
4. `append_mesh`/`append_engine`, the spherical mesh.
5. Degenerate vertices and the FEI cache of the edge iterator; the FastPolygon
   cache.

## Not modelled

Floating-point numerics (QR solver, correction of vertices, quadrature,
tolerances), the coordinates a grid engine generates, coordinate storage, public
facades, examples and the vendored search library. Incremental and periodic
models have two dimensions, general position, axis-aligned boxes and one thread;
a `RefineVoronoi` or `RemoveVoronoi` that throws midway is left out. The hardware
memory model is not modelled.
