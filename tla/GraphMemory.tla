---------------------------- MODULE GraphMemory ----------------------------
(***************************************************************************)
(* Memory that graphs allocate for themselves: allocation and free nodes,  *)
(* executables that own the mapping, and the rules by which both sides     *)
(* retire them (src/src/corex_graph_runtime.inc on the client,             *)
(* src/server/corex_graph_runtime.inc on the server).                      *)
(*                                                                         *)
(* Every call is one RPC under the RuntimeContext mutex, so a call is one  *)
(* step; the device runs concurrently and executes the nodes of a launched *)
(* graph one by one, in any order its edges allow.  A call the code        *)
(* rejects changes nothing and has no step here.  Ordinary allocations     *)
(* never meet these rules (graph_id = 0) and are left out.                 *)
(***************************************************************************)
EXTENDS Integers, Sequences

CONSTANTS Streams,      \* live streams, the default stream included
          MaxGraphs, MaxNodes, MaxExecs, MaxAllocs,  \* ids of one session
          MaxObjects,   \* bound on reservations and executables together
          MaxInflight   \* bound on submitted work the device has not finished

ASSUME BoundAssumption ==
    {MaxGraphs, MaxNodes, MaxExecs, MaxAllocs, MaxObjects, MaxInflight}
        \subseteq Nat

VARIABLES cGraph,    \* client: live graph -> memory_frozen
          cAlloc,    \* client: live reservation -> [graph, active, paired]
          cExec,     \* client: live executable -> its own allocations
          sGraph,    \* server: used graph -> memory_frozen
          nodes,     \* server: used node -> [graph, kind, alloc]
          edges,     \* dependencies of the native graphs, pairs of nodes
          sAlloc,    \* server: used reservation -> [graph, active, paired]
          sExec,     \* server: used executable -> its entry
          next,      \* ids the session has given out
          inflight,  \* submitted device work, in submission order
          backing    \* reservations that have storage on the device

client == <<cGraph, cAlloc, cExec>>
graphs == <<sGraph, nodes, edges>>
device == <<inflight, backing>>
vars == <<client, graphs, sAlloc, sExec, next, device>>

\* A function without some of its arguments, and with one more.
Without(f, S) == [x \in DOMAIN f \ S |-> f[x]]
With(f, x, v) == [y \in DOMAIN f \cup {x} |-> IF y = x THEN v ELSE f[y]]

Init ==
    /\ cGraph = <<>> /\ cAlloc = <<>> /\ cExec = <<>>
    /\ sGraph = <<>> /\ nodes = <<>> /\ edges = {}
    /\ sAlloc = <<>> /\ sExec = <<>>
    /\ next = [graph |-> 0, node |-> 0, exec |-> 0, alloc |-> 0]
    /\ inflight = <<>> /\ backing = {}

-----------------------------------------------------------------------------
(* Queries on the tables                                                   *)

NodesOf(g) == {n \in DOMAIN nodes : nodes[n].graph = g}

\* graph_has_memory
GraphHasMemory(g) == \E n \in NodesOf(g) : nodes[n].kind \in {"alloc", "free"}

\* The reservations that the allocation nodes of a snapshot create.
Creates(ns) == {ns[n].alloc : n \in {m \in DOMAIN ns : ns[m].kind = "alloc"}}

\* The reservations that the nodes of a snapshot name.
Names(ns) == {ns[n].alloc : n \in DOMAIN ns}

\* The streams for which corex_backend_stream_query answers NOT_READY.
Busy(q) == {q[i].stream : i \in DOMAIN q}

\* The paths that validate_graph_memory computes: <<f, t>> such that t is in
\* every set that has the successors of f and the successors of its members.
Reachable(ns, es) ==
    LET Closed(S) == \A p \in es : p[1] \in S => p[2] \in S
    IN  {q \in (DOMAIN ns) \X (DOMAIN ns) :
            \A S \in SUBSET DOMAIN ns :
                Closed(S) /\ (\A p \in es : p[1] = q[1] => p[2] \in S) => q[2] \in S}

\* validate_graph_memory: a node uses a reservation of its own graph between
\* the allocation node and the free node, and another graph's reservation
\* only while that one is active.
ValidGraphMemory(ns, es, allocs) ==
    LET R == Reachable(ns, es)
        At(kind, a) == {n \in DOMAIN ns : ns[n].kind = kind /\ ns[n].alloc = a}
        Valid(i, a) ==
            /\ a \in DOMAIN allocs
            /\ IF At("alloc", a) = {}
               THEN allocs[a].active /\ ~allocs[a].paired
               ELSE /\ \A n \in At("alloc", a) : <<n, i>> \in R
                    /\ \A n \in At("free", a) \ {i} : <<i, n>> \in R
    IN  \A i \in {n \in DOMAIN ns : ns[n].kind # "alloc"} : Valid(i, ns[i].alloc)

-----------------------------------------------------------------------------
(* Retirement                                                              *)

\* Fault: an active reservation does not hold the executable that maps it.
HeldNotByActive(e, allocs, busy) ==
    (e.last \cup {e.pending[a] : a \in DOMAIN e.pending}) \cap busy # {}

\* Whether a retired executable must keep its native entry: one of its
\* reservations is active, or its last launch or a free is still running.
Held(e, allocs, busy) ==
    \/ \E a \in Creates(e.nodes) \cap DOMAIN allocs : allocs[a].active
    \/ (e.last \cup {e.pending[a] : a \in DOMAIN e.pending}) \cap busy # {}

\* The first loop of retire_graph_memory.
ExecsLeft(execs, allocs, busy) ==
    [e \in {x \in DOMAIN execs :
               execs[x].retired => Held(execs[x], allocs, busy)} |-> execs[e]]

\* The second loop of retire_graph_memory: a reservation stays while it is
\* active, or its graph or an executable that is not retired may replay it.
AllocsLeft(execs, allocs, gs) ==
    [a \in {x \in DOMAIN allocs :
               \/ allocs[x].active
               \/ allocs[x].graph \in gs
               \/ \E e \in DOMAIN execs :
                     ~execs[e].retired /\ x \in Creates(execs[e].nodes)}
       |-> allocs[a]]

\* retire_graph_memory on the given tables; gpu_done means nothing is busy.
RetireGraphMemory(execs, allocs, gs, busy) ==
    /\ sExec' = ExecsLeft(execs, allocs, busy)
    /\ sAlloc' = AllocsLeft(ExecsLeft(execs, allocs, busy), allocs, gs)

\* Fault: executables are not consulted.
RetireClientByGraph(execs, allocs, gs) ==
    [a \in {x \in DOMAIN allocs : allocs[x].active \/ allocs[x].graph \in gs}
       |-> allocs[a]]

\* retire_client_graph_allocations
RetireClientGraphAllocations(execs, allocs, gs) ==
    [a \in {x \in DOMAIN allocs :
               \/ allocs[x].active
               \/ allocs[x].graph \in gs
               \/ \E e \in DOMAIN execs : x \in execs[e]} |-> allocs[a]]

-----------------------------------------------------------------------------
(* Graph definition                                                        *)

\* graph_create_locked / GRAPH_CREATE
GraphCreate ==
    /\ next.graph < MaxGraphs
    /\ next' = [next EXCEPT !.graph = @ + 1]
    /\ cGraph' = With(cGraph, next.graph + 1, FALSE)
    /\ sGraph' = With(sGraph, next.graph + 1, FALSE)
    /\ UNCHANGED <<cAlloc, cExec, nodes, edges, sAlloc, sExec, device>>

\* The new node of a successful GRAPH_ADD_*, after nodes deps of its graph.
NewNode(g, kind, a, deps) ==
    /\ next.node < MaxNodes
    /\ deps \subseteq NodesOf(g)
    /\ nodes' = With(nodes, next.node + 1,
                     [graph |-> g, kind |-> kind, alloc |-> a])
    /\ edges' = edges \cup (deps \X {next.node + 1})

\* graph_add_memory_locked with parameters / GRAPH_ADD_MEM_ALLOC
AddMemAllocNode(g, deps) ==
    /\ ~cGraph[g] /\ ~sGraph[g]
    /\ next.alloc < MaxAllocs /\ next.alloc + next.exec < MaxObjects
    /\ LET a == next.alloc + 1
           fresh == [graph |-> g, active |-> FALSE, paired |-> FALSE]
       IN  /\ NewNode(g, "alloc", a, deps)
           /\ next' = [next EXCEPT !.node = @ + 1, !.alloc = @ + 1]
           /\ cAlloc' = With(cAlloc, a, fresh)
           /\ sAlloc' = With(sAlloc, a, fresh)
    /\ UNCHANGED <<cGraph, cExec, sGraph, sExec, device>>

\* graph_add_memory_locked with a pointer / GRAPH_ADD_MEM_FREE
AddMemFreeNode(g, a, deps) ==
    /\ ~cGraph[g] /\ ~sGraph[g]
    /\ \A t \in {cAlloc, sAlloc} :
          t[a].graph = g /\ ~t[a].paired /\ ~t[a].active
    /\ NewNode(g, "free", a, deps)
    /\ next' = [next EXCEPT !.node = @ + 1]
    /\ cAlloc' = [cAlloc EXCEPT ![a].paired = TRUE]
    /\ sAlloc' = [sAlloc EXCEPT ![a].paired = TRUE]
    /\ UNCHANGED <<cGraph, cExec, sGraph, sExec, device>>

\* graph_params_locked: the client resolves the pointer to a live identity.
GraphParams(a) == a \in DOMAIN cAlloc

\* decode_graph_params: the server has a record for the identity.
DecodeGraphParams(a) == a \in DOMAIN sAlloc

\* graph_add_node_locked / GRAPH_ADD_NODE for a kernel, copy or fill that
\* names reservation a: definition only needs the identity.
AddUseNode(g, a, deps) ==
    /\ GraphParams(a) /\ DecodeGraphParams(a)
    /\ NewNode(g, "use", a, deps)
    /\ next' = [next EXCEPT !.node = @ + 1]
    /\ UNCHANGED <<client, sGraph, sAlloc, sExec, device>>

\* validate_graph_edge_change: the edge is new and closes no cycle.
ValidGraphEdgeChange(f, t) ==
    /\ <<f, t>> \notin edges
    /\ <<t, f>> \notin Reachable(nodes, edges)

\* graph_dependencies_locked / GRAPH_ADD_DEPENDENCIES, one edge.
AddDependency(g, f, t) ==
    /\ f # t /\ {f, t} \subseteq NodesOf(g)
    /\ ValidGraphEdgeChange(f, t)
    /\ edges' = edges \cup {<<f, t>>}
    /\ UNCHANGED <<client, sGraph, nodes, sAlloc, sExec, next, device>>

\* The snapshot of a graph: parameters and edges (snapshot_graph_edges).
Snapshot(g) == [n \in NodesOf(g) |-> [kind |-> nodes[n].kind,
                                      alloc |-> nodes[n].alloc]]
EdgesOf(g) == {p \in edges : p[1] \in NodesOf(g)}

\* graph_set_node_locked / GRAPH_SET_NODE: the node of the graph gets a as
\* its parameter if the graph stays valid.
SetNode(n, a) ==
    LET g == nodes[n].graph
        changed == [Snapshot(g) EXCEPT ![n].alloc = a]
    IN  /\ nodes[n].kind = "use"
        /\ GraphParams(a) /\ DecodeGraphParams(a)
        /\ ValidGraphMemory(changed, EdgesOf(g), sAlloc)
        /\ nodes' = [nodes EXCEPT ![n].alloc = a]
        /\ UNCHANGED <<client, sGraph, edges, sAlloc, sExec, next, device>>

\* graph_destroy_locked / GRAPH_DESTROY
GraphDestroy(g) ==
    /\ cGraph' = Without(cGraph, {g})
    /\ sGraph' = Without(sGraph, {g})
    /\ nodes' = Without(nodes, NodesOf(g))
    /\ edges' = edges \ EdgesOf(g)
    /\ cAlloc' = RetireClientGraphAllocations(cExec, cAlloc, DOMAIN cGraph')
    /\ RetireGraphMemory(sExec, sAlloc, DOMAIN sGraph', Busy(inflight))
    /\ UNCHANGED <<cExec, next, device>>

-----------------------------------------------------------------------------
(* Executables                                                             *)

\* Fault: retired executables of the graph are not looked at.
InstantiatedLive(g, execs) ==
    \E e \in DOMAIN execs : execs[e].graph = g /\ ~execs[e].retired

\* An executable of graph g, retired or not, has its native entry.
Instantiated(g, execs) == \E e \in DOMAIN execs : execs[e].graph = g

\* GRAPH_INSTANTIATE: one native executable of a graph with memory, and only
\* of a valid snapshot.
Instantiable(g, execs, allocs) ==
    /\ ~(GraphHasMemory(g) /\ Instantiated(g, execs))
    /\ ValidGraphMemory(Snapshot(g), EdgesOf(g), allocs)

\* graph_instantiate_locked.  The server retires first, also when it then
\* rejects the request.
Instantiate(g) ==
    LET e == next.exec + 1
        execs == ExecsLeft(sExec, sAlloc, Busy(inflight))
        allocs == AllocsLeft(execs, sAlloc, DOMAIN sGraph)
        entry == [graph |-> g, nodes |-> Snapshot(g), edges |-> EdgesOf(g),
                  retired |-> FALSE, last |-> {}, pending |-> <<>>]
        accepted == Instantiable(g, execs, allocs)
    IN  /\ next.exec < MaxExecs /\ next.alloc + next.exec < MaxObjects
        /\ sAlloc' = allocs
        /\ \/ /\ accepted
              /\ next' = [next EXCEPT !.exec = e]
              /\ sExec' = With(execs, e, entry)
              /\ sGraph' = [sGraph EXCEPT ![g] = @ \/ GraphHasMemory(g)]
              /\ cExec' = With(cExec, e, Creates(entry.nodes))
              /\ cGraph' = [cGraph EXCEPT ![g] = @ \/ Creates(entry.nodes) # {}]
           \/ /\ ~accepted
              /\ sExec' = execs
              /\ UNCHANGED <<next, sGraph, cExec, cGraph>>
        /\ UNCHANGED <<cAlloc, nodes, edges, device>>

\* graph_set_node_locked with an executable / GRAPH_EXEC_SET_NODE
ExecSetNode(e, n, a) ==
    LET changed == [sExec[e].nodes EXCEPT ![n].alloc = a]
    IN  /\ n \in DOMAIN nodes
        /\ sExec[e].nodes[n].kind = "use"
        /\ GraphParams(a) /\ DecodeGraphParams(a)
        /\ ValidGraphMemory(changed, sExec[e].edges, sAlloc)
        /\ sExec' = [sExec EXCEPT ![e].nodes = changed]
        /\ UNCHANGED <<client, graphs, sAlloc, next, device>>

\* GRAPH_EXEC_DESTROY: an executable that creates memory is only marked
\* retired, every other one is released at once.
ExecRetired(e) ==
    IF Creates(sExec[e].nodes) # {}
    THEN [sExec EXCEPT ![e].retired = TRUE]
    ELSE Without(sExec, {e})

\* graph_exec_destroy_locked
ExecDestroy(e) ==
    /\ cExec' = Without(cExec, {e})
    /\ cAlloc' = RetireClientGraphAllocations(cExec', cAlloc, DOMAIN cGraph)
    /\ RetireGraphMemory(ExecRetired(e), sAlloc, DOMAIN sGraph, Busy(inflight))
    /\ UNCHANGED <<cGraph, graphs, next, device>>

\* The program orders what it submits to stream s after the submitted work
\* that names a reservation of S, as CUDA requires of it: same stream, or the
\* launches of one executable, which CoreX serialises itself.
Ordered(S, s, e) ==
    \A i \in DOMAIN inflight :
        inflight[i].names \cap S # {} =>
            inflight[i].stream = s \/ (e # 0 /\ inflight[i].exec = e)

\* Work for the device: the nodes still to run and the edges among them.
Item(s, e, ns, es) == [stream |-> s, exec |-> e, names |-> Names(ns),
                       left |-> ns, edges |-> es]

Submit(item) ==
    /\ Len(inflight) < MaxInflight
    /\ inflight' = IF item.left = <<>> THEN inflight ELSE Append(inflight, item)

\* Fault: the owners are not validated again at launch.
LaunchableUnchecked(e) ==
    \A a \in Creates(sExec[e].nodes) : ~sAlloc[a].active

\* GRAPH_LAUNCH: every owner is checked again, and a reservation that is
\* still active must not be allocated a second time.
Launchable(e) ==
    /\ \A a \in Names(sExec[e].nodes) : DecodeGraphParams(a)
    /\ ValidGraphMemory(sExec[e].nodes, sExec[e].edges, sAlloc)
    /\ \A a \in Creates(sExec[e].nodes) : ~sAlloc[a].active

\* Fault: a reservation the graph itself frees stays active too.
ActivatedAll(allocs, S) ==
    [a \in DOMAIN allocs |-> IF a \in S THEN [allocs[a] EXCEPT !.active = TRUE]
                             ELSE allocs[a]]

\* A launch leaves the reservations it creates active unless it frees them.
Activated(allocs, S) ==
    [a \in DOMAIN allocs |-> IF a \in S
                             THEN [allocs[a] EXCEPT !.active = ~allocs[a].paired]
                             ELSE allocs[a]]

\* graph_launch_locked / GRAPH_LAUNCH
Launch(e, s) ==
    LET x == sExec[e] IN
    /\ Launchable(e)
    /\ Ordered(Names(x.nodes), s, e)
    /\ Submit(Item(s, e, x.nodes, x.edges))
    /\ sAlloc' = Activated(sAlloc, Creates(x.nodes))
    /\ cAlloc' = Activated(cAlloc, cExec[e])
    /\ sExec' = [sExec EXCEPT ![e].last = {s}, ![e].pending = <<>>]
    /\ UNCHANGED <<cGraph, cExec, graphs, next, backing>>

-----------------------------------------------------------------------------
(* Ordinary calls on graph memory                                          *)

\* An asynchronous operation on stream s that names an active reservation
\* (resolve_remote_ptr_mode, find_allocation).
UseAsync(a, s) ==
    /\ cAlloc[a].active /\ sAlloc[a].active
    /\ Ordered({a}, s, 0)
    /\ Submit(Item(s, 0, <<[kind |-> "use", alloc |-> a]>>, {}))
    /\ UNCHANGED <<client, graphs, sAlloc, sExec, next, backing>>

\* The marking loop of graph_allocation_freed.
FreedIn(a, pend) ==
    [e \in DOMAIN sExec |->
        IF a \in Creates(sExec[e].nodes)
        THEN [sExec[e] EXCEPT !.pending =
                 IF pend = {} THEN Without(@, {a})
                 ELSE With(@, a, CHOOSE s \in pend : TRUE)]
        ELSE sExec[e]]

\* graph_allocation_freed, and what the client does when the free succeeded.
AllocationFreed(a, pend) ==
    LET allocs == [sAlloc EXCEPT ![a].active = FALSE] IN
    /\ RetireGraphMemory(FreedIn(a, pend), allocs, DOMAIN sGraph,
                         Busy(inflight'))
    /\ cAlloc' = RetireClientGraphAllocations(
                    cExec, [cAlloc EXCEPT ![a].active = FALSE], DOMAIN cGraph)
    /\ UNCHANGED <<cGraph, cExec, graphs, next>>

\* cudaFree_locked / handle_free, which waits for the whole context.
Free(a) ==
    /\ cAlloc[a].active /\ sAlloc[a].active
    /\ inflight = <<>>
    /\ backing' = backing \ {a}
    /\ UNCHANGED inflight
    /\ AllocationFreed(a, {})

\* free_async_locked / handle_free_async
FreeAsync(a, s) ==
    /\ cAlloc[a].active /\ sAlloc[a].active
    /\ Ordered({a}, s, 0)
    /\ Len(inflight) < MaxInflight
    /\ inflight' = Append(inflight,
                          Item(s, 0, <<[kind |-> "free", alloc |-> a]>>, {}))
    /\ AllocationFreed(a, {s})
    /\ UNCHANGED backing

\* cudaDeviceGraphMemTrim / handle_graph_mem_trim
Trim ==
    /\ RetireGraphMemory(sExec, sAlloc, DOMAIN sGraph, Busy(inflight))
    /\ UNCHANGED <<client, graphs, next, device>>

\* cudaDeviceSynchronize / handle_sync, once the context is idle.
DeviceSynchronize ==
    /\ inflight = <<>>
    /\ RetireGraphMemory(sExec, sAlloc, DOMAIN sGraph, {})
    /\ UNCHANGED <<client, graphs, next, device>>

\* The session ends: mark_session_failed_locked with invalidate_client_graphs
\* on the client; cleanup_graphs on the server waits for the context, frees
\* the active reservations, then releases executables and graphs.
SessionEnds ==
    /\ inflight = <<>>
    /\ next.graph > 0
    /\ backing' = backing \ {a \in DOMAIN sAlloc : sAlloc[a].active}
    /\ cGraph' = <<>> /\ cAlloc' = <<>> /\ cExec' = <<>>
    /\ sGraph' = <<>> /\ nodes' = <<>> /\ edges' = {}
    /\ sAlloc' = <<>> /\ sExec' = <<>>
    /\ next' = [graph |-> 0, node |-> 0, exec |-> 0, alloc |-> 0]
    /\ UNCHANGED inflight

-----------------------------------------------------------------------------
(* The device                                                              *)

\* Streams run in order, and so do the launches of one executable.
Runnable(i) ==
    \A j \in 1..(i - 1) : /\ inflight[j].stream # inflight[i].stream
                          /\ inflight[i].exec # 0 =>
                                inflight[j].exec # inflight[i].exec

\* Node n of item i has no predecessor left.
Ready(i, n) ==
    /\ Runnable(i)
    /\ \A m \in DOMAIN inflight[i].left : <<m, n>> \notin inflight[i].edges

\* The device executes one ready node.
RunNode(i, n) ==
    LET a == inflight[i].left[n].alloc
        left == Without(inflight[i].left, {n})
    IN  /\ Ready(i, n)
        /\ backing' = CASE inflight[i].left[n].kind = "alloc" -> backing \cup {a}
                        [] inflight[i].left[n].kind = "free"  -> backing \ {a}
                        [] OTHER -> backing
        /\ inflight' = IF left # <<>> THEN [inflight EXCEPT ![i].left = left]
                       ELSE SubSeq(inflight, 1, i - 1)
                                \o SubSeq(inflight, i + 1, Len(inflight))
        /\ UNCHANGED <<client, graphs, sAlloc, sExec, next>>

-----------------------------------------------------------------------------

Define ==
    \/ GraphCreate
    \/ \E g \in DOMAIN cGraph :
          \/ \E deps \in SUBSET NodesOf(g) :
                \/ AddMemAllocNode(g, deps)
                \/ \E a \in DOMAIN cAlloc : AddMemFreeNode(g, a, deps)
                \/ \E a \in DOMAIN cAlloc : AddUseNode(g, a, deps)
          \/ \E f, t \in NodesOf(g) : AddDependency(g, f, t)
          \/ GraphDestroy(g)
    \/ \E n \in DOMAIN nodes, a \in DOMAIN cAlloc : SetNode(n, a)

Execute ==
    \/ \E g \in DOMAIN cGraph : Instantiate(g)
    \/ \E e \in DOMAIN cExec :
          \/ \E s \in Streams : Launch(e, s)
          \/ \E n \in DOMAIN sExec[e].nodes, a \in DOMAIN cAlloc :
                ExecSetNode(e, n, a)
          \/ ExecDestroy(e)

Memory ==
    \/ \E a \in DOMAIN cAlloc :
          \/ Free(a)
          \/ \E s \in Streams : UseAsync(a, s)
          \/ \E s \in Streams : FreeAsync(a, s)
    \/ Trim
    \/ DeviceSynchronize
    \/ SessionEnds

Device == \E i \in DOMAIN inflight : \E n \in DOMAIN inflight[i].left : RunNode(i, n)

Next == Define \/ Execute \/ Memory \/ Device

Spec == Init /\ [][Next]_vars

-----------------------------------------------------------------------------
(* Properties                                                              *)

Partial(S, T) == UNION {[D -> T] : D \in SUBSET S}
Reservation == [graph : 1..MaxGraphs, active : BOOLEAN, paired : BOOLEAN]
Node == [kind : {"alloc", "free", "use"}, alloc : 1..MaxAllocs]

\* The tables hold what the code's records hold, and the executables and
\* reservations of the two sides name ids that the session has given out.
TypeOK ==
    /\ cGraph \in Partial(1..next.graph, BOOLEAN)
    /\ sGraph \in Partial(1..next.graph, BOOLEAN)
    /\ cAlloc \in Partial(1..next.alloc, Reservation)
    /\ sAlloc \in Partial(1..next.alloc, Reservation)
    /\ cExec \in Partial(1..next.exec, SUBSET (1..next.alloc))
    /\ DOMAIN nodes \subseteq 1..next.node
    /\ \A n \in DOMAIN nodes : nodes[n].graph \in DOMAIN sGraph
    /\ edges \subseteq (DOMAIN nodes) \X (DOMAIN nodes)
    /\ DOMAIN sExec \subseteq 1..next.exec
    /\ \A e \in DOMAIN sExec :
          /\ \A n \in DOMAIN sExec[e].nodes : sExec[e].nodes[n] \in Node
          /\ sExec[e].last \subseteq Streams
          /\ DOMAIN sExec[e].pending \subseteq Creates(sExec[e].nodes)
    /\ backing \subseteq 1..MaxAllocs
    /\ Len(inflight) <= MaxInflight

\* No node and no stream operation touches a reservation that has no storage
\* when the device reaches it, no storage is allocated twice or freed twice:
\* what validate_graph_memory and the graph_active flag accept is safe in
\* every execution order the edges allow.
UseIsBacked ==
    \A i \in DOMAIN inflight : \A n \in DOMAIN inflight[i].left :
        Ready(i, n) =>
            (inflight[i].left[n].alloc \in backing
               <=> inflight[i].left[n].kind # "alloc")

\* Storage outlives neither side's bookkeeping: while the device may still
\* touch a reservation, the native executable that maps it has not been
\* destroyed (retire_graph_memory), since CoreX unmaps it with the executable.
MappedWhileBacked ==
    \A a \in backing :
        \E e \in DOMAIN sExec : a \in Creates(sExec[e].nodes)

\* One native executable at most maps a reservation (GRAPH_INSTANTIATE), the
\* retired ones included.
OneMapping ==
    \A e, f \in DOMAIN sExec :
        e # f => Creates(sExec[e].nodes) \cap Creates(sExec[f].nodes) = {}

\* Client and server retire the same reservations at the same calls and agree
\* on which are active, so no live client pointer names a cleared record and
\* no server record is out of the client's reach.
MemoryTablesAgree == cAlloc = sAlloc

\* When the device is idle, exactly the active reservations have storage:
\* none is leaked when both sides have forgotten it, none is reported active
\* without storage.
ActiveIsBacked ==
    inflight = <<>> => backing = {a \in DOMAIN sAlloc : sAlloc[a].active}

=============================================================================
