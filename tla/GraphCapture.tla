---------------------------- MODULE GraphCapture ----------------------------
(***************************************************************************)
(* Graph objects and stream capture: the registries that client and server *)
(* keep of graphs, nodes and borrowed child graphs, and the one capture a  *)
(* session may have (src/src/corex_graph_runtime.inc and                   *)
(* corex_capture_runtime.inc on the client,                                *)
(* src/server/corex_graph_runtime.inc on the server).                      *)
(*                                                                         *)
(* A call holds the RuntimeContext mutex and is one RPC, hence one step;   *)
(* cudaMalloc under capture is two RPCs and two steps.  Calls that both    *)
(* sides refuse without a change have no step.  A graph has untracked      *)
(* native nodes when the native call of GRAPH_CAPTURE_ADD succeeded and    *)
(* the capture query after it failed.                                      *)
(***************************************************************************)
EXTENDS Integers, FiniteSets

CONSTANTS Threads,     \* client threads
          Streams,     \* explicit streams
          Nobody,      \* no stream, no thread
          MaxGraphs,   \* graph ids of one session
          MaxNodes     \* node ids of one session

ASSUME NobodyAssumption == Nobody \notin Threads \cup Streams

VARIABLES cGraph,   \* client: live graph -> node that owns it, 0 if none
          cNode,    \* client: live node -> [graph, child]
          cap,      \* client: CLIENT_GRAPHS.capture
          relaxed,  \* client: threads whose interaction mode is Relaxed
          call,     \* the thread between the two RPCs of a cudaMalloc, if any
          sGraph,   \* server: used graph -> node that owns it, 0 if none
          sNode,    \* server: used node -> [graph, child]
          sCap,     \* server: capture_graph, capture_stream, supplied
          allow,    \* server: capture_allow_alloc
          nCap,     \* native: graph, stream and frontier of the capture
          stray,    \* native: graphs with a node the server does not track
          next,     \* ids the session has given out
          missed,   \* history: an operation was refused in this capture
          skewed    \* history: the last frontier update failed half way

client == <<cGraph, cNode, cap>>
server == <<sGraph, sNode, sCap, allow>>
native == <<nCap, stray>>
history == <<missed, skewed>>
vars == <<client, relaxed, call, server, native, next, history>>

NoCapture == [status |-> "None", stream |-> Nobody, graph |-> 0, deps |-> {},
              supplied |-> FALSE, owner |-> Nobody]
NoServerCapture == [graph |-> 0, stream |-> Nobody, supplied |-> FALSE]
NoNativeCapture == [graph |-> 0, stream |-> Nobody, deps |-> {}]

\* The frontier entry of a native node that no id stands for.
Untracked == 0

Without(f, S) == [x \in DOMAIN f \ S |-> f[x]]
With(f, S, v) == [x \in DOMAIN f \cup S |-> IF x \in S THEN v ELSE f[x]]

Init ==
    /\ cGraph = <<>> /\ cNode = <<>> /\ cap = NoCapture
    /\ sGraph = <<>> /\ sNode = <<>> /\ sCap = NoServerCapture /\ allow = FALSE
    /\ nCap = NoNativeCapture /\ stray = {}
    /\ next = [graph |-> 0, node |-> 0]
    /\ call = {} /\ relaxed = {} /\ missed = FALSE /\ skewed = FALSE

NodesOf(tab, gs) == {n \in DOMAIN tab : tab[n].graph \in gs}

\* No call in progress, and capture_active_locked is false.
Unlocked == call = {}
Plain == Unlocked /\ cap.status = "None"

-----------------------------------------------------------------------------
(* Graphs, clones and children                                             *)

\* graph_create_locked / GRAPH_CREATE
GraphCreate ==
    /\ Plain
    /\ next.graph < MaxGraphs
    /\ next' = [next EXCEPT !.graph = @ + 1]
    /\ cGraph' = With(cGraph, {next.graph + 1}, 0)
    /\ sGraph' = With(sGraph, {next.graph + 1}, 0)
    /\ UNCHANGED <<cNode, cap, relaxed, call, sNode, sCap, allow, native, history>>

\* Fault: graphs borrowed from the nodes stay live on the client.
KeptClientChild(owners) == {}

\* forget_client_child: the graphs borrowed from the given nodes.
ForgetClientChild(owners) == {g \in DOMAIN cGraph : cGraph[g] \in owners}

\* release_borrowed_child
ReleaseBorrowedChild(owners) == {g \in DOMAIN sGraph : sGraph[g] \in owners}

\* The client drops graphs cg and nodes cn, the server graphs sg and nodes sn;
\* the nodes of a dropped graph go with it.
Drop(cg, cn, sg, sn) ==
    /\ cGraph' = Without(cGraph, cg)
    /\ cNode' = Without(cNode, cn \cup NodesOf(cNode, cg))
    /\ sGraph' = Without(sGraph, sg)
    /\ sNode' = Without(sNode, sn \cup NodesOf(sNode, sg))
    /\ stray' = stray \ sg

\* graph_destroy_locked / GRAPH_DESTROY
GraphDestroy(g) ==
    /\ Plain
    /\ cGraph[g] = 0
    /\ Drop({g} \cup ForgetClientChild(NodesOf(cNode, {g})), {},
            {g} \cup ReleaseBorrowedChild(NodesOf(sNode, {g})), {})
    /\ UNCHANGED <<cap, relaxed, call, sCap, allow, nCap, next, history>>

\* graph_destroy_node_locked / GRAPH_DESTROY_NODE
DestroyNode(n) ==
    /\ Plain
    /\ sGraph[sNode[n].graph] = 0
    /\ Drop(ForgetClientChild({n}), {n}, ReleaseBorrowedChild({n}), {n})
    /\ UNCHANGED <<cap, relaxed, call, sCap, allow, nCap, next, history>>

\* graph_add_node_locked / GRAPH_ADD_NODE; during a capture only into the
\* captured graph.
AddNode(g) ==
    /\ Unlocked
    /\ cap.status # "None" => g = cap.graph
    /\ cGraph[g] = 0
    /\ next.node < MaxNodes
    /\ next' = [next EXCEPT !.node = @ + 1]
    /\ cNode' = With(cNode, {next.node + 1}, [graph |-> g, child |-> FALSE])
    /\ sNode' = With(sNode, {next.node + 1}, [graph |-> g, child |-> FALSE])
    /\ UNCHANGED <<cGraph, cap, relaxed, call, sGraph, sCap, allow, native, history>>

\* The ids that GRAPH_CLONE and GRAPH_ADD_CHILD give to the copies of the
\* nodes of graph g, after id `from`.
Copies(g, from) == (from + 1)..(from + Cardinality(NodesOf(sNode, {g})))

Leaves(g) == \A n \in NodesOf(sNode, {g}) : ~sNode[n].child

\* graph_clone_locked / GRAPH_CLONE.  When graph_adopt_clone_locked fails the
\* client destroys the new graph again and only the ids are gone.
Clone(g) ==
    LET copy == next.graph + 1
        copies == Copies(g, next.node)
        entry == [graph |-> copy, child |-> FALSE]
    IN  /\ Plain
        /\ Leaves(g)
        /\ copy <= MaxGraphs /\ copies \subseteq 1..MaxNodes
        /\ next' = [graph |-> copy, node |-> next.node + Cardinality(copies)]
        /\ \/ /\ cGraph' = With(cGraph, {copy}, 0)
              /\ sGraph' = With(sGraph, {copy}, 0)
              /\ cNode' = With(cNode, copies, entry)
              /\ sNode' = With(sNode, copies, entry)
              /\ stray' = stray \cup {x \in {copy} : g \in stray}
           \/ UNCHANGED <<cGraph, sGraph, cNode, sNode, stray>>
        /\ UNCHANGED <<cap, relaxed, call, sCap, allow, nCap, history>>

\* graph_add_child_locked / GRAPH_ADD_CHILD: a node of graph p that owns a
\* copy of graph g.  When the client cannot adopt the copy it forgets the
\* child and destroys the node again.
AddChild(p, g) ==
    LET node == next.node + 1
        copy == next.graph + 1
        copies == Copies(g, node)
        Entered(tab) == With(With(tab, {node}, [graph |-> p, child |-> TRUE]),
                             copies, [graph |-> copy, child |-> FALSE])
    IN  /\ Plain
        /\ p # g /\ cGraph[p] = 0 /\ Leaves(g)
        /\ copy <= MaxGraphs /\ copies \cup {node} \subseteq 1..MaxNodes
        /\ next' = [graph |-> copy, node |-> node + Cardinality(copies)]
        /\ \/ /\ cGraph' = With(cGraph, {copy}, node)
              /\ sGraph' = With(sGraph, {copy}, node)
              /\ cNode' = Entered(cNode)
              /\ sNode' = Entered(sNode)
              /\ stray' = stray \cup {x \in {copy} : g \in stray}
           \/ UNCHANGED <<cGraph, sGraph, cNode, sNode, stray>>
        /\ UNCHANGED <<cap, relaxed, call, sCap, allow, nCap, history>>

-----------------------------------------------------------------------------
(* Capture                                                                 *)

Captured(t, s, g, deps, supplied) ==
    /\ cap' = [status |-> "Active", stream |-> s, graph |-> g, deps |-> deps,
               supplied |-> supplied, owner |-> t]
    /\ sCap' = [graph |-> g, stream |-> s, supplied |-> supplied]
    /\ nCap' = [graph |-> g, stream |-> s, deps |-> deps]
    /\ missed' = FALSE /\ skewed' = FALSE

\* capture_begin_locked / GRAPH_CAPTURE_BEGIN; when the native begin or the
\* query after it fails nothing is left.
BeginCapture(t, s) ==
    /\ Plain
    /\ next.graph < MaxGraphs
    /\ next' = [next EXCEPT !.graph = @ + 1]
    /\ cGraph' = With(cGraph, {next.graph + 1}, 0)
    /\ sGraph' = With(sGraph, {next.graph + 1}, 0)
    /\ Captured(t, s, next.graph + 1, {}, FALSE)
    /\ UNCHANGED <<cNode, relaxed, call, sNode, allow, stray>>

\* capture_begin_to_graph_locked / GRAPH_CAPTURE_BEGIN_TO_GRAPH
BeginCaptureToGraph(t, s, g, deps) ==
    /\ Plain
    /\ sGraph[g] = 0 /\ Leaves(g)
    /\ deps \subseteq NodesOf(cNode, {g})
    /\ Captured(t, s, g, deps, TRUE)
    /\ UNCHANGED <<cGraph, cNode, relaxed, call, sGraph, sNode, allow, stray, next>>

\* Fault: a refused operation leaves the capture as it was.
StillActive(c) == c

\* capture.status = cudaStreamCaptureStatusInvalidated
Invalidated(c) == [c EXCEPT !.status = "Invalidated"]

\* capture_reject_locked, reached from capture_guard_graph_api, from the guard
\* at the head of rpc and from the calls that cannot be captured, by any
\* thread; the request is not sent.
Reject ==
    /\ Unlocked
    /\ cap.status = "Active"
    /\ cap' = Invalidated(cap)
    /\ missed' = TRUE
    /\ UNCHANGED <<cGraph, cNode, relaxed, call, server, native, next, skewed>>

\* Fault: the new node joins the frontier instead of replacing it.
FrontierJoined(deps, n) == deps \cup {n}

\* The client's frontier after a captured operation.
FrontierAfter(deps, n) == {n}

\* GRAPH_CAPTURE_ADD for node n of graph g: the native call and the capture
\* query after it succeed, only the former does, or neither.
CaptureAdd(n, g, outcome) ==
    CASE outcome = "tracked" ->
            /\ sNode' = With(sNode, {n}, [graph |-> g, child |-> FALSE])
            /\ nCap' = [nCap EXCEPT !.deps = {n}]
            /\ UNCHANGED stray
      [] outcome = "untracked" ->
            /\ nCap' = [nCap EXCEPT !.deps = {Untracked}]
            /\ stray' = stray \cup {g}
            /\ UNCHANGED sNode
      [] OTHER -> UNCHANGED <<sNode, nCap, stray>>

\* capture_submit_locked by the owner on its stream; every failure, the ones
\* found before the request is sent included, invalidates the capture.
\* Other threads are turned away; another stream is Reject.
CaptureSubmit(t, outcome) ==
    LET n == next.node + 1 IN
    /\ Unlocked
    /\ cap.status = "Active" /\ cap.owner = t
    /\ n <= MaxNodes
    /\ CaptureAdd(n, cap.graph, outcome)
    /\ IF outcome = "tracked"
       THEN /\ next' = [next EXCEPT !.node = n]
            /\ cNode' = With(cNode, {n}, [graph |-> cap.graph, child |-> FALSE])
            /\ cap' = [cap EXCEPT !.deps = FrontierAfter(@, n)]
            /\ skewed' = FALSE /\ UNCHANGED missed
       ELSE /\ cap' = Invalidated(cap)
            /\ missed' = TRUE /\ UNCHANGED <<next, cNode, skewed>>
    /\ UNCHANGED <<cGraph, relaxed, call, sGraph, sCap, allow>>

\* The native frontier after GRAPH_CAPTURE_DEPENDENCIES.
UpdatedFrontier(deps, replace) == IF replace THEN deps ELSE nCap.deps \cup deps

\* capture_dependencies_locked.  The server's query that follows the native
\* update may fail, and the client then keeps what it had.
UpdateCaptureDependencies(t, deps, replace) ==
    LET new == UpdatedFrontier(deps, replace)
    IN  /\ Unlocked
        /\ cap.status = "Active" /\ cap.owner = t
        /\ deps \subseteq NodesOf(cNode, {cap.graph})
        /\ nCap' = [nCap EXCEPT !.deps = new]
        /\ \/ /\ cap' = [cap EXCEPT !.deps = new]
              /\ skewed' = FALSE
           \/ /\ skewed' = TRUE
              /\ UNCHANGED cap
        /\ UNCHANGED <<cGraph, cNode, relaxed, call, server, stray, next, missed>>

\* Fault: a failed END leaves the client's capture standing.
KeptOnError(failed) == IF failed THEN cap ELSE NoCapture

\* memset of CLIENT_GRAPHS.capture, whatever the reply was.
CaptureAfterEnd(failed) == NoCapture

\* GRAPH_CAPTURE_END and GRAPH_CAPTURE_ABORT.  ok: the native EndCapture and
\* the node count succeed; otherwise the native graph is discarded.
EndFailed(aborted, ok) == ~ok \/ (~aborted /\ sCap.graph \in stray)
ServerKeepsGraph(aborted, ok) ==
    ok /\ (sCap.supplied \/ (~aborted /\ sCap.graph \notin stray))

\* capture_end_locked: ABORT when the capture was invalidated, else END.
EndCapture(t, ok) ==
    LET g == cap.graph
        aborted == cap.status = "Invalidated"
        failed == EndFailed(aborted, ok)
        clientKeeps == ~failed /\ (~aborted \/ cap.supplied)
    IN  /\ Unlocked
        /\ cap.status # "None" /\ cap.owner = t
        /\ Drop(IF clientKeeps THEN {} ELSE {g}, {},
                IF ServerKeepsGraph(aborted, ok) THEN {} ELSE {g}, {})
        /\ cap' = CaptureAfterEnd(failed)
        /\ sCap' = NoServerCapture
        /\ nCap' = NoNativeCapture
        /\ missed' = FALSE /\ skewed' = FALSE
        /\ UNCHANGED <<relaxed, call, allow, next>>

\* capture_exchange_locked
ExchangeCaptureMode(t) ==
    /\ Unlocked
    /\ relaxed' = IF t \in relaxed THEN relaxed \ {t} ELSE relaxed \cup {t}
    /\ UNCHANGED <<client, call, server, native, next, history>>

\* cudaMalloc in a capture, from another thread or a relaxed one: rpc first
\* asks for permission (capture_allow_allocation_locked).  From the owner in
\* another mode it is Reject.
AskToAllocate(t) ==
    /\ Unlocked
    /\ cap.status = "Active"
    /\ cap.owner # t \/ t \in relaxed
    /\ sCap.graph = cap.graph
    /\ allow' = TRUE
    /\ call' = {t}
    /\ UNCHANGED <<client, relaxed, sGraph, sNode, sCap, native, next, history>>

\* session->capture_allow_alloc = 0 at the head of every request.
PermissionAfterRequest == FALSE

\* The allocation request itself: serve_session lets it through once.
Allocate ==
    /\ call # {}
    /\ sCap.graph # 0 /\ allow
    /\ allow' = PermissionAfterRequest
    /\ call' = {}
    /\ UNCHANGED <<client, relaxed, sGraph, sNode, sCap, native, next, history>>

\* mark_session_failed_locked with invalidate_client_graphs; on the server
\* cleanup_graphs ends the capture and destroys every graph.
SessionLost ==
    /\ cGraph' = <<>> /\ cNode' = <<>> /\ cap' = NoCapture
    /\ sGraph' = <<>> /\ sNode' = <<>> /\ sCap' = NoServerCapture /\ allow' = FALSE
    /\ nCap' = NoNativeCapture /\ stray' = {}
    /\ next' = [graph |-> 0, node |-> 0]
    /\ call' = {} /\ missed' = FALSE /\ skewed' = FALSE
    /\ UNCHANGED relaxed

-----------------------------------------------------------------------------

GraphCall ==
    \/ GraphCreate
    \/ \E g \in DOMAIN cGraph : GraphDestroy(g) \/ AddNode(g) \/ Clone(g)
    \/ \E p, g \in DOMAIN cGraph : AddChild(p, g)
    \/ \E n \in DOMAIN cNode : DestroyNode(n)

CaptureCall(t) ==
    \/ \E s \in Streams : BeginCapture(t, s)
    \/ \E s \in Streams, g \in DOMAIN cGraph, deps \in SUBSET DOMAIN cNode :
          BeginCaptureToGraph(t, s, g, deps)
    \/ \E outcome \in {"tracked", "untracked", "refused"} : CaptureSubmit(t, outcome)
    \/ \E deps \in SUBSET DOMAIN cNode, replace \in BOOLEAN :
          UpdateCaptureDependencies(t, deps, replace)
    \/ \E ok \in BOOLEAN : EndCapture(t, ok)
    \/ ExchangeCaptureMode(t)
    \/ AskToAllocate(t)

Next ==
    \/ GraphCall
    \/ \E t \in Threads : CaptureCall(t)
    \/ Reject
    \/ Allocate
    \/ SessionLost

Spec == Init /\ [][Next]_vars

-----------------------------------------------------------------------------
(* Properties                                                              *)

GraphTables(gs, ns) ==
    /\ DOMAIN gs \subseteq 1..next.graph
    /\ DOMAIN ns \subseteq 1..next.node
    /\ \A g \in DOMAIN gs : gs[g] \in DOMAIN ns \cup {0}
    /\ \A n \in DOMAIN ns : ns[n].graph \in DOMAIN gs /\ ns[n].child \in BOOLEAN

\* On both sides every node belongs to a graph of the table and every
\* borrowed graph to a node of it; frontiers and captures name entries.
TypeOK ==
    /\ GraphTables(cGraph, cNode) /\ GraphTables(sGraph, sNode)
    /\ cap.status \in {"None", "Active", "Invalidated"}
    /\ cap.deps \subseteq NodesOf(cNode, {cap.graph})
    /\ nCap.deps \subseteq NodesOf(sNode, {nCap.graph}) \cup {Untracked}
    /\ relaxed \subseteq Threads /\ call \subseteq Threads
    /\ stray \subseteq DOMAIN sGraph

\* Client, server and driver agree on whether a capture is in progress and on
\* its graph, stream and ownership of the graph, whatever failed before; and
\* between calls no allocation permission is outstanding (serve_session).
CaptureAgrees ==
    /\ sCap = [graph |-> cap.graph, stream |-> cap.stream, supplied |-> cap.supplied]
    /\ nCap.graph = cap.graph /\ nCap.stream = cap.stream
    /\ call = {} => ~allow

\* The frontier that cudaStreamGetCaptureInfo reports is the native one, and
\* after an update that failed half way at the latest with the next operation
\* captured or update accepted.
FrontierAgrees == cap.status = "Active" /\ ~skewed => cap.deps = nCap.deps

\* A handle the client still accepts names the same object on the server, so
\* no call reaches a cleared or another entry; and the server keeps no entry
\* the client has lost, except a graph with a node neither side knows of.
TrackedGraphs ==
    /\ \A g \in DOMAIN cGraph : g \in DOMAIN sGraph /\ sGraph[g] = cGraph[g]
    /\ \A n \in DOMAIN cNode : n \in DOMAIN sNode /\ sNode[n] = cNode[n]
    /\ DOMAIN sGraph \ DOMAIN cGraph \subseteq stray
    /\ \A n \in DOMAIN sNode \ DOMAIN cNode : sNode[n].graph \in stray

\* A graph that EndCapture returns holds every operation the program issued
\* to the capture: had one been refused, the capture would be invalid.
CaptureIsComplete ==
    [][ cap.status = "Active" /\ cap' = NoCapture /\ cap.graph \in DOMAIN cGraph'
          => ~missed /\ cap.graph \notin stray ]_vars

=============================================================================
