# A TLA+ model of the remote CUDA runtime

The repository runs CUDA programs against a CoreX device on another machine. The client
library `libcorex_remote_cudart` implements the CUDA runtime API over one TCP connection
(the CRX9 protocol); a single-threaded server executes the requests of one connection at a
time. This directory models the state machines on both sides, checks them with TLC on small
instances, and proves the central ones with TLAPS for every value of the constants.

## 1. The system and where its difficulty lies

```
application threads ── libcorex_remote_cudart ── CRX9/TCP ── runtime_server ── CoreX driver
      (many)           one mutex, one socket                 one session        asynchronous
```

| Part | Source | Module |
| --- | --- | --- |
| Hidden transfers, causal frontiers, streams, events | `src/corex_remote_cuda.c`, `server/runtime_server.c` | `Frontiers`, `HiddenTransfers`, `LegacySyncOps` |
| Runtime mutex and host-callback worker | `src/corex_runtime_context.c`, `src/corex_remote_cuda.c:3482-3568` | `CallbackGate` |
| Fat-binary registration, modules, kernels, device globals | `src/corex_remote_cuda.c:3842-4731`, `server/runtime_server.c:1429-1788` | `Registration` |
| Graph memory nodes, executables, retirement | `src/corex_graph_runtime.inc`, `server/corex_graph_runtime.inc` | `GraphMemory` |
| Graph registries, clones, children, stream capture | the same and `src/corex_capture_runtime.inc` | `GraphCapture` |
| Connection, HELLO, `rpc`, accept loop, `serve_session` | `src/corex_remote_cuda.c:132-430,2021-2089`, `server/runtime_server.c:229-299,4636-4885` | `Calls` |
| Protocol encoding, generated codecs, message layouts | `include/internal/corex_protocol.h`, `include/generated/corex_api_schema.h`, the `remote_*` and `handle_*` functions | `Wire`, `ApiSchema`, `Messages`, `Samples` |
| Bounds of two- and three-dimensional regions | `src/corex_remote_cuda.c:2466-2525`, `server/runtime_server.c:883-1000` | `Extents` |
| Device memory, fake address arena, pitched layouts | `src/corex_remote_cuda.c:1387-1490,2314-2638`, `server/runtime_server.c:306-335,803-881,1341-1400` | `DeviceMemory`, `PointerSpec` |
| Memory pools | `src/corex_remote_cuda.c:6311-6604`, `server/runtime_server.c:573-633,2622-2850` | `DeviceMemory` |
| Cleanup of a session, context reset | `server/runtime_server.c:642-796,4868-4882` | `DeviceMemory` |
| Host page-lock registry | `src/corex_remote_cuda.c:5683-5798` | `HostRegistry` |
| CoreX backend and driver | `server/corex_backend.c` | external; its promises are actions |
| Image extraction and metadata parsing | `src/corex_fatbin_runtime.c`, `src/corex_metadata.c` | not modelled: byte parsers |
| Launch configuration, device queries | `src/corex_launch_config.c`, `src/corex_device_api.c` | not modelled: thread-local or read-only |

What is hard about this code, and hard to test:

* An asynchronous copy to the host is *accepted* long before its bytes reach the caller's
  buffer. Which copies a later call must fetch is decided from vectors of sequence numbers
  (frontiers) that the client maintains without asking the device. One missed causal path
  and a successful `cudaStreamSynchronize` leaves a stale buffer.
* Every id restarts at 1 in each session while handles live as long as the process.
* Every RPC of a multi-RPC call may be the one that fails, and client and server then
  forget different halves.
* Both sides decide separately when graph memory is retired, while the device still runs.
* A capture has three parties (client, server, driver) that may disagree after a failure.
* The layouts of some ninety messages are written down twice, once on either side, and a
  single byte too many or too few shifts every later message of the connection.
* Page locks do not count: two registrations may depend on the lock of one page.

`PROJECT.json` lists the hazards at their lines, with the properties that cover each.

## 2. Modules

In every module but `Calls` a client call that holds the mutex for a single RPC is one step. A call of
several RPCs is several steps, and a failure may come between them. A call that both sides
refuse without a change has no step.

### Frontiers, HiddenTransfers

`Frontiers` has the vectors: pointwise merge, and *a transfer is covered by a frontier*.
`HiddenTransfers` has the client's handle tables (`streamState`, `eventState`,
`allocState`, `frontier`, `seq`, `evFrontier`), its table `hidden`, the server's table
`transfers`, and the device. The device is external and promises stream order only:
`preds[i]` is what is ordered before item `i`, `before[s]` what is ordered before the next
submission on `s`, `evBefore[e]` what event `e` captured. The client never reads these; the
properties compare its frontiers with them.

* Submissions (`MemcpyAsync`, `Memcpy2DAsync`, `StreamOp`, `LaunchKernel`, `FreeAsync`,
  `EventRecord`, `StreamWaitEvent`) are one RPC each. `cudaMemcpy2DAsync` finds its table
  entry after the RPC, the others before it. A copy of several chunks is a run of
  single-chunk submissions.
* Synchronising calls (`StreamSynchronize`, `EventQuery`, `Free`, ...) begin, wait at the
  server's barrier or query, drain one transfer per RPC, and finish. `call` is the call in
  progress, and `ret` what the last one reported.
* `TransportFailure` may hit any RPC: `mark_session_failed_locked` on the client, and
  `cleanup_session` on the server before it accepts another connection.
* `HostCallback` treats the worker's wait and drain as the submitting call's. `CallbackGate`
  justifies this: no other call gets through the gate meanwhile.

A handle's generation is implied here by its state, because a failure marks every live
handle dead. It is explicit in `Registration`.

`LegacySyncOps` adds the synchronous memory calls, which are default-stream operations on the
device and do not touch the client's frontiers, and `cudaMemset2DAsync`, which the client
sends as the synchronous fill: it runs on the default stream too, and on the client it only
counts up its own stream. They are kept apart because the theorem on visibility is false with
them (section 5). Graph launches are not among the submissions: what
`graph_launch_locked` does to the frontiers (`src/corex_graph_runtime.inc:492,505-521`) is
modelled nowhere, so the properties of `HiddenTransfers` speak of programs without them.

### CallbackGate

The mutex, the `callback_pending` flag, the condition variable shared by worker and waiting
threads (with spurious wakeups), the worker loop, and the two ways to queue a function.
Host functions make no runtime calls, as CUDA demands; the code does not check this, and
such a call would wait for itself.

### Registration

Registrations, module and kernel handles, device globals, and the server's tables. Server
ids restart per session. An unload has four outcomes: done, refused before anything
happened, failed in the backend after the server dropped the kernels, and session lost.
`corexRemoteRuntimeShutdown` unloads one registration per step. Images are named after the
handle of their upload, and a kernel's argument layout by the image it was read from.

### GraphMemory

Both sides' tables of graphs, reservations and executables, and the device that runs the
nodes of launched graphs one at a time in any order the edges allow. The actions are the
graph calls (with `validate_graph_memory`), launches, `cudaFree`, `cudaFreeAsync`, trim, synchronisation and session end. A blocking
barrier is a guard that the device is idle. `Ordered` is the program's duty under CUDA: it
orders what it submits after the submitted work on the same memory. `GRAPH_UPLOAD` has no
net effect unless a native free fails, and is left out. Clones, children, host tails and
`GRAPH_EXEC_UPDATE` are not combined with memory here. A launch is its request and the
activation of reservations; its frontier updates and event records are left out.

`validate_graph_memory` computes which nodes are ordered by Warshall's loops over the edge
matrix. `Reachable` states the result: `t` is reached from `f` if it is in every set of nodes
that has the successors of `f` and of its own members. In this form it can be reasoned about
without induction. `Warshall` in `MCGraphMemory` has the loops, and the assumption
`WarshallComputesPaths`, which TLC evaluates in the run `graph_memory`, compares the two on
every graph of three nodes and every acyclic graph of four, more than the run's three.

### GraphCapture

Graph and node tables of both sides, with graphs borrowed from child nodes, and the capture
as client, server and driver each see it. `CaptureSubmit` has three outcomes: tracked;
captured natively and then lost because the query after it failed; refused. `stray` are the
graphs with such a lost node. `UpdateCaptureDependencies` may fail after the native update
(`skewed`). The rollback of a failed adoption is assumed to succeed. Node ids stand for
native nodes as well. `missed` is a history variable: an operation of the owner that was
refused, or one of any thread that cannot be captured. A submission of another thread gets
`cudaErrorStreamCaptureWrongThread` and does not invalidate the capture; it is not counted as
missed.

### DeviceMemory, PointerSpec

The client's arena with its cursor, its allocation slots and pool handles; the server's
allocation and pool tables; the device's storage, pools and one queue of work per stream. A
call is one RPC under the mutex, hence one step that contains the client's checks, the
server's handler (`HandleAlloc`, `HandlePoolDestroy`, ...) and the client's commit.
`LostReply` is a handler that ran and whose reply did not arrive. `Disconnect` and
`NoticeLoss` break an idle connection. The phases of `cleanup_session` and the context reset
are one action each, interleaved with the device. `cleanup_session` logs an error of the
driver and goes on: `SyncFails` is a synchronisation that returns while work is running, the
frees of some allocations may be refused, and so may the selection and the attributes of the
default pool and the destruction of custom pools. History variables remember what matters
later: `unsynced` (the context was not waited for), `unrestored` (attributes not written back)
and `undestroyed` (custom pools left). `orphans` are the server's entries of pitched allocations that did not fit the arena. `Ordered` is the
program's duty to order a stream-ordered free after uses on other streams. Storage is not
reused while its release is queued, which is the driver's promise.

`PointerSpec` says in three actions what all this is for: a pointer denotes one piece of
storage, nobody else's, until it is freed or its session ends, and an address, the one past
the end included, is issued once. `PointersMean` is that specification under a refinement
mapping: a pointer denotes the storage of the server's entry with the id of its slot.

### HostRegistry

The table of registrations as byte ranges, the kernel's locked and mapped pages, and pending
copies. `release_host_locked` is a step up to the loop, one step per turn, and a last one; a
failing `munlock` or `munmap` ends it with the entry in place (`half`). No other call comes
in between because the mutex is held.

### Wire, ApiSchema, Messages, Extents, Samples, Calls

`Wire` has the encoders and decoders of fields: big-endian numbers, counted names, bytes and
words, kernel arguments, and data whose length follows from other fields. `ApiSchema` has the
records of the generated header, `Messages` for every opcode the layout its `remote_*`
function writes and reads and, separately, the one its `handle_*` function reads and writes,
with the statuses it may refuse with. Only field names are shared. `Extents` has the two
sides' bounds checks with arithmetic modulo the word size. `Samples` chooses the arguments
and answers: values that differ by position, so that swapped fields are noticed, at both
ends of their ranges, and regions on both sides of the limits of the checks: last rows that
just fit, single rows with pitches up to the end of the word, and regions of exactly and of
one more than `UINT32_MAX` bytes, in an allocation that is large enough. Of these the client
sends those that its own checks let through (`checked_2d_extent`, `checked_3d_region`,
`Sends`).

`Calls` runs these messages over connections as sequences of bytes. The client connects, says
HELLO, sends requests and waits; the server accepts one connection at a time, reads a header,
then a payload, and answers. Connections are cut with part of the bytes delivered, either
side fails to allocate, a payload is too long, and the server may be an older one. That older
server is taken to be this one without HELLO and without the calls that need an announced
capability. A handler's effect is abstracted to the status and values it answers with; the
other modules have the effects. Calls during a capture are in `GraphCapture`.

A byte has 14 values in the run instead of 256, so that eight bytes stay inside TLC's
integers; `Radix` is a parameter and nothing else depends on it.

## 3. Runs

| Run | Instance | Shows | Distinct states |
| --- | --- | --- | --- |
| `order` | 2 streams + default, 1 event, 2 items; no failures (`OrderNext`) | `SyncMakesVisible`, `DrainKeepsOrder` | 261 k |
| `full` | 1 stream + default, 1 event, 1 allocation, 1 session, all actions | `CausalCover`, `TablesAgree`, `NoOrphanTransfer`, `QueryNeverBlocks` | 619 k |
| `live` | 1 stream + default, 2 allocations, 2 sessions, fair | `RightData`, `CallReturns` | 481 k |
| `gate` | 3 threads, fair | exclusion, exactly-once, no overtaking, wakeups | 16 k |
| `registration` | 2 registrations, modules, kernels and sessions | no leaked module, no stale handle, right kernel, right layout, owned globals | 532 k |
| `graph_memory` | 2 graphs, 2 executables, 2 reservations, 3 objects, 2 streams, 2 launches in flight | use only with storage, mapping outlives use, one mapping, tables agree, nothing leaked | 587 k |
| `capture` | 2 threads, 1 stream, 3 graphs, 3 nodes | three-party agreement, frontiers, tracked graphs, complete captures | 812 k |
| `host` | 3 registrations on 5 pages of 2 bytes, fair | locks follow registrations, storage held, the loop ends | 226 k |
| `memory` | 2 slots, 2 storages, 1 custom pool, 2 streams, 2 sessions, fair | tables agree, `PointersMean` (refinement), work has storage, pools agree, clean next session, cleanup ends | 247 k |
| `calls` | every modelled call, 2 connections, 3 requests, both server versions | arguments arrive, replies match, stream in step, nobody stuck | 302 k |
| `nonblocking`, `sync_ops` | as `full` and `order` | violations, section 5 | |

Why the bounds suffice to be interesting. Two work items are a copy and one operation
ordered after it on another stream, the shortest causal path; longer paths compose of such
steps and the theorems cover them for every length (`order` with three items has 7.3 M states
and passes as well). `sync_ops` needs three. Two sessions let ids be reused. Three graph
nodes hold allocation, use and free, or a child node, a copied node and its origin. Two
executables compete for a mapping; two reservations make a parameter update meaningful.
Three registrations are one to release and one on either side of a gap, and pages of two
bytes let two of them meet inside a page. In `memory` the arena holds two allocations or one
pitched one, and a second pitched one does not fit; two pieces of work are a use and a free,
on one stream or on both. Three requests are HELLO, a call, and a call after it or a HELLO on
a second connection; data of 200 bytes reaches `MAX_PAYLOAD` and exceeds it with its header.
`MaxTransfers <= MaxHidden` is the code's own relation (128 entries on the server, 2048 on
the client); without it `cudaMemcpy2DAsync` could orphan a transfer. In `calls` the data of a
region of `UINT32_MAX` bytes is not sent back to the host (`Tried`); the request that asks for
it differs from a smaller one in its numbers only.

Symmetry is used in `order` (streams and events), `capture` (threads) and `graph_memory`
(streams), for safety properties only. Deadlock is checked except in `registration` (handle
tables are never reused, so a program that has used them up and lost its last session
stops), `memory` (the server stops for good when it gets no new context, and the arena is
never reused) and `calls` (the requests are used up). What deadlock checking would find in
the last of these, a call that waits for ever, is `NobodyStuck`.

Fairness. `live` assumes that the device completes work it may complete and that a thread
inside a call goes on with it: the mutex is held, the device is not paused, and a lost
server makes the RPC fail. `gate` assumes that threads inside the runtime and the worker
keep running and that host functions return. `host` assumes that a release goes on, and not
that it fails. `memory` assumes that the server takes its next step and the device its next
piece of work; a failing synchronisation has no fairness. No thread is assumed to make calls,
and nothing is assumed of spurious wakeups or failures. `calls` has no fairness: its messages make the enabledness of a step too costly
to evaluate. `NobodyStuck` is the invariant instead; every step it finds consumes bytes or
ends a session, of which there are finitely many, so a waiting call returns.
`calls` and `memory` assume that the end of a connection is noticed: a peer that vanishes
silently leaves the server in `recv`, since it sets neither timeouts nor keepalive, and no
other client is served meanwhile. `calls` also has no server that stops because the context
could not be reset; that is in `memory`.

Each property of a passing run has a mutant in `PROJECT.json`: a definition marked `Fault:`
in the modules, which replaces a definition of the code by a plausible mistake and makes TLC
report the property violated. The type invariants `TypeOK` are proved where a module has
proofs that use them; elsewhere they document the variables and no run lists them.

## 4. Proofs

`HiddenTransfersProofs` proves, for any sets of streams, events and allocations and any
bounds that satisfy `SlotAssumption` and `BoundAssumption`:

* `TypeCorrect`, `Visibility` (`SyncMakesVisible`), `FrontiersCover` (`CausalCover`),
  `DataIntegrity` (`RightData`), `Agreement` (`TablesAgree`);
* `DrainsInOrder` (`DrainKeepsOrder`), `NoOrphans` (`NoOrphanTransfer`), `QueriesReturn`
  (`QueryNeverBlocks`).

`SyncMakesVisible` is not inductive: it speaks of the moment after a call, while its reason
lies in every step before. The inductive invariant `IInv` adds:
`CausalCover` (every outstanding transfer is covered by the frontier of whatever the device
orders after it); `SeqBound` (no frontier and no transfer is ahead of its stream's counter,
so a fresh sequence number is covered by nobody by accident); `Accounted` (a device-to-host
copy that is ordered before something is visible or still outstanding); `TablesPaired` (ids
are unique, below their counter, and agree on both sides, with equal cardinalities, which is
where `MaxTransfers <= MaxHidden` is used); `UnrecordedEmpty` (an event that was never
recorded orders nothing); and `CallbackCovered` (the frontier handed to the worker covers
what the device orders before the host function). The main step is that `LegacyOrdered`
merges at least what `DevicePreds` adds; then an empty set of covered transfers means that
nothing ordered before is outstanding.

The three further theorems rest on a second invariant, `DrainInv`, proved with the first as
a hypothesis. `Closed` says that a frontier which covers a transfer covers every outstanding
transfer the device orders before it, as a vector clock does; merging keeps it because each
component of a merged frontier is attained by one of the merged ones. `Past` says that what
the device orders before an outstanding copy was submitted earlier and is visible or still
outstanding; `Placed` that an outstanding transfer is before the next work of its own stream.
A drain by frontier takes the oldest transfer it covers, so by `Past` nothing before it is
left. The proof has one lemma per group of actions: first maxima and merged frontiers, then
type correctness, then that submissions, drains and session failures keep the ordering and
table part, then the rest of the invariants and the theorems.

`CallbackGateProofs` proves for any set of threads `TypeCorrect`, `IdleDuringHost`,
`ExactlyOnce` and the action property `NoOvertaking`. The invariant ties mutex ownership to
program counters, and says that a worker past its wait keeps the gate closed with exactly one
function owed.

`HostRegistryProofs` proves for any page size, address space and number of entries
`TypeCorrect`, `LocksAreRight` (`LocksFollowEntries`) and `StorageIsHeld` (`StorageHeld`).
Neither is inductive alone. `OwnedAlone` adds that an owned mapping shares no page with
another entry, which is what the rounded span in the overlap test of `cudaHostRegister` is
for; `EndsInside` that every entry ends within the address space; and `LoopInvariant`
that while a release runs, what is still locked of its pages lies at or after the cursor or
belongs to another entry. A turn over covered pages moves the cursor inside one other entry;
a turn over a gap unlocks pages before the next beginning, which nobody else covers.

`DeviceMemoryProofs` proves, for any arena, alignment, guard, sizes,
tables and bounds that satisfy `ArenaAssumption`:

* `StorageOutlivesWork` (`WorkHasStorage`), from `ServerInv`: `Tables` (ids and storage are
  unique and held), `Queued` (a queued free is the last word on its storage: no entry names
  it and no work on it is behind it or on another queue) and `Phases` (what `cleanup_session`
  has done by each phase). Without `Queued` a free executed by the device could take the
  storage of later work. `Queued` holds until the driver fails to synchronise the context of a
  session that has ended; from then to the reset only `Abandoned` does.
* `TablesStayTogether` (`TablesAgree`), from `IInv`, which adds `Arena` (every issued range,
  one past its end included, is below the cursor) and `Link` (each slot has its entry, each
  entry its slot unless it is an orphan).
* `PointersKeepMeaning` (`PointersMean`): the refinement. Initial states map to `PInit`; an
  allocation maps to `Allocate` because the guard puts the new range apart from all earlier
  ones; a free maps to `Free`; a lost session maps to `EndSession`; the rest stutters.
* `CurrentPoolIsRight` (`PoolsAgree`) and `SessionsAreIsolated` (`NextSessionPristine`), from
  `Pools` and `HandlesLive`: the selected pool is always in the table or the device's own, the
  saved attribute is the original one unless a restoration failed, and a native pool is in
  the table or one the driver refused to destroy.

The proof of each invariant classifies the steps first (what a step does to the tables or to
the addresses, `Kinds`) and then shows that every kind keeps it.

`RegistrationProofs` proves, for any stubs, names, shadows and table sizes that satisfy the
module's assumptions, `TypeCorrect`, `ModulesNeverLeak` (`NoLeakedModule`),
`HandlesNeverChased` (`NoChasedHandle`), `LaunchesAreRight` (`LaunchesRightKernel`),
`LayoutsAreOwn` (`AbiOfOwnImage`) and `GlobalsAreOwned` (`SymbolsOwned`). The five are
inductive only together, and with three additions: `ModulesOk` (a live handle has a module id
of its own, below the session's counter, so that a fresh id is nobody's), `RegsOk` (a handle
belongs to one registration, so that an unload leaves the others alone) and `KernelsOk` (a
live kernel of a stub names the registration through which it was bound). The steps have few
effects on the tables (an upload, a new kernel handle, an unload, a failed unload, the loss of
everything with the session); each is a lemma and the actions apply them.

`GraphCaptureProofs` proves, for any threads, streams and bounds, `TypeCorrect`,
`CaptureInAgreement` (`CaptureAgrees`), `FrontierInAgreement` (`FrontierAgrees`),
`GraphsTracked` (`TrackedGraphs`) and the action property `CompleteCaptures`
(`CaptureIsComplete`). `TablesOk` speaks of the four tables as values: ids are below the
counters, every node is in a graph of the table, and `Owners` says that a borrowed graph
belongs to a child node of a graph that is not borrowed, which is why destroying a graph with
its children leaves no dangling entry. It is kept by entering a graph, entering a node and
dropping a closed set of both, and every action composes these. `CaptureOk` adds what the
capture record promises: the captured graph is known, not borrowed and without children; both
frontiers name nodes of it; and as long as the capture is valid no operation was refused and
the native frontier has only nodes the client knows.

`GraphMemoryProofs` proves, for any number of streams, graphs, nodes, executables and
reservations, `TablesInAgreement` (`MemoryTablesAgree`) and `MappedOnce` (`OneMapping`). The
server retires reservations at more calls than the client (a trim, a synchronisation, a
refused instantiation), so equality of the tables is not inductive. `Kept` is the reason it
holds: every reservation is active, or its graph or a live executable may still replay it, and
those calls take none of the three away, so they retire nothing. `Mirror` says that the
client's executables are the server's without the retired ones; `MapsOk` that the allocation
nodes of one reservation and the executables that map it belong to one graph, from which
`OneMapping` follows, since the server refuses a second executable of a graph with memory.

`GraphStorageProofs` proves, for the same constants, `UsesAreBacked` (`UseIsBacked`),
`StorageIsMapped` (`MappedWhileBacked`) and `IdleStorageIsActive` (`ActiveIsBacked`), from
`IInv` and two further invariants:

* `Tables`: ids are below the session's counters; edges join nodes of one graph; a reservation
  has one allocation node; a reservation is paired exactly when its graph, and every executable
  that creates it, has a free node for it. The last holds although executables are snapshots,
  because `memory_frozen` stops the pairing once an executable exists.
* `Storage`, which has three parts. `QueueOk`: of every submitted item, the nodes left that
  name one reservation are ordered by paths through what is left (allocation, uses, free), and
  items that share a reservation wait for one another. `Runs`: for each reservation, whether
  it has storage now, and what the items left do to it in submission order, ends in its
  `graph_active` flag. `MapOk`: an active reservation has an executable that maps it; one that
  is not active but still named in the queue has one that carries the mark (last launch or
  pending free) of the stream of the last such item, which is what `Held` consults.

`ActiveIsBacked` alone says nothing about a busy device, and `UseIsBacked` looks only at the
nodes that are ready; `Runs` links the two. The main step is that a ready node is the first
that is left to touch its reservation: earlier items of the queue that name it would make it
wait, and a node of its own item that has to run before it has a path to it, so that the node
has a predecessor left (the nodes that have one are a closed set). Hence what `Runs` says of
the first item is what the device finds. Paths among the nodes left survive the removal of
a node without predecessors. On the side of the tables, a launch appends an item that starts
where the queue ends (`validate_graph_memory` and the check that nothing it creates is
active), and a retirement keeps every executable that `MapOk` needs.

Every inductive invariant was checked by TLC on the instance of its run before it was proved.

Only model-checked:

* `CallReturns`, `CallbackRetires`, `GateWakes`, `ReleaseReturns` and `CleanupEnds`: liveness
  under fairness is outside what the prover handles.
* Everything in `Calls` (`RequestArrives`, `ReplyMatches`, `StreamInSync`, `NobodyStuck`): its
  encoders and decoders work through sequences of any length, and what such a recursion
  computes needs an induction over data, which the prover does not have.
* That Warshall's loops compute `Reachable`, for the same reason.

## 5. Where code and documents disagree

* `nonblocking`: `docs/STREAM_EVENT_EXTENSIONS.md:9` says that the frontier of a nonblocking
  stream is not merged with the legacy default stream. `apply_legacy_default_ordering` merges
  every live stream into the default one. The effect is conservative: it waits for more.
* `sync_ops`: `docs/ARCHITECTURE.md:82` says that frontiers preserve causal order across
  hidden transfers. This fails for programs that mix synchronous memory calls with
  asynchronous copies on several streams: a synchronisation may return before a copy that
  the device ordered before it is in the host buffer. `cudaMemset2DAsync` has the same effect,
  where `docs/MEMORY_LAYOUT_MODEL.md:31` says that the 2D asynchronous entry points reuse the
  same frontier.

Known and excluded from a property rather than shown by a run:

* A graph with a stray node that was supplied to a second capture stays on the server after
  the client has forgotten it (`TrackedGraphs` exempts `stray`).
* `cudaFree` drains the copies of its own allocation and ignores the frontiers, so a copy can
  become host-visible before a causally earlier one. `DrainKeepsOrder` speaks of the drains by
  frontier.
* A pitched allocation that does not fit the arena stays on the server until the session ends
  (`TablesAgree` exempts `orphans`).
* The server refuses, with `ST_BAD_REQUEST`, some regions that the client's checks let through
  (`ServerIsStricter`, which `RequestArrives` names as the only ones): the destination of a
  two-dimensional copy of a single row whose pitch plus width exceeds `UINT64_MAX`
  (`server/runtime_server.c:900`), a three-dimensional copy on the device or to the host of
  more than `UINT32_MAX` bytes (`:997`), and an asynchronous two-dimensional copy to the host
  of as many (`:1074`).
* A synchronisation that fails in `cleanup_session` is only logged, and storage may then be
  freed under work that still runs, until the context is reset (`WorkHasStorage` exempts
  `unsynced`). A custom pool whose destruction fails there outlives its session
  (`NextSessionPristine` exempts `undestroyed`).
* A reply to a transfer wait that has an unexpected length is an error after the server has
  retired the transfer (`ReplyMatches` names it).

## 6. Not modelled

* The content of images and metadata (`corex_fatbin_runtime.c`, `corex_metadata.c`): parsers
  of bytes without state.
* `corex_launch_config.c`: thread-local. `corex_device_api.c`: reads properties. The queries
  that reach the server are messages of `Messages`.
* `corex_backend.c`: one call of the driver per function. The driver appears as external
  actions with its failures.
* The payload records of graph requests inside `OP_GRAPH`, and `handle_legacy_launch`, which
  refuses every request.
* `GRAPH_UPLOAD`: without a failing native free it has no net effect, and what the driver
  holds after a failing one is not known from the code.
* In `Calls`: a connect that fails, socket options, and wrappers that return before they call
  `rpc`. The last report the status of the call before them; no state changes.
* Values of stream attributes, limits and cache configurations: the driver keeps them, the
  runtime passes them on (their messages are modelled).
* What a graph launch does to the client's frontiers and events.
* Memory nodes combined with clones, children, host tails and `GRAPH_EXEC_UPDATE`.

## 7. Plan

1. Graph launches in `HiddenTransfers`, with the frontier of an executable and its event
   nodes; `GraphMemory` with clones and `GRAPH_EXEC_UPDATE`; host tails.
2. An abstract stream specification ("a synchronisation returns after the copies before it
   are visible") that `HiddenTransfers` implements through a refinement mapping.
3. An abstract session, implemented by `Calls`, whose failure step the other modules use.
