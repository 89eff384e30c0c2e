--------------------------- MODULE HiddenTransfers ---------------------------
(***************************************************************************)
(* Asynchronous host/device copies of the remote runtime.                  *)
(*                                                                         *)
(* A cudaMemcpy*Async returns once the server has accepted it.  The client *)
(* keeps a hidden transfer; the bytes of a device-to-host copy reach the   *)
(* caller's buffer only when a later call of the client drains it.  Which  *)
(* transfers such a call must drain is decided by causal frontiers that    *)
(* the client maintains without asking the device.                         *)
(*                                                                         *)
(* Every runtime entry point holds the process-wide runtime mutex, so      *)
(* client calls never overlap: `call` is the one call in progress.  The    *)
(* device runs concurrently with it, and every RPC of a call may fail.     *)
(*                                                                         *)
(* The device is external.  Its stream order is what CUDA promises: work   *)
(* of one stream runs in order, the legacy default stream and the blocking *)
(* streams order each other, events order across streams.                  *)
(***************************************************************************)
EXTENDS Frontiers, FiniteSets, Sequences

CONSTANTS Events,        \* event handle slots, never reused
          Allocs,        \* allocation slots, never reused
          MaxHidden,     \* G6C_MAX_HIDDEN_TRANSFERS, client table
          MaxTransfers,  \* MAX_TRANSFERS, server table
          MaxGen,        \* bound: sessions explored
          MaxItems       \* bound: device work items issued

ASSUME BoundAssumption ==
    /\ MaxHidden \in Nat
    /\ MaxTransfers \in Nat
    /\ MaxTransfers <= MaxHidden
    /\ MaxGen \in Nat
    /\ MaxItems \in Nat

VARIABLES
    \* client: session and handle tables
    gen,          \* active session generation, 0 when there is none
    nextGen,      \* g_next_session_generation
    streamState,  \* per explicit stream slot
    nonblocking,  \* streams created with cudaStreamNonBlocking
    seq,          \* next_transfer_seq per slot
    frontier,     \* causal frontier per slot
    eventState,   \* per event slot
    recorded,     \* events with a recorded frontier
    evFrontier,   \* frontier snapshot per event
    allocState,   \* per allocation slot
    hidden,       \* live hidden transfers
    submitOrder,  \* g_transfer_submit_order
    call,         \* the multi-RPC call in progress
    ret,          \* the synchronisation the last call has reported done
    written,      \* host buffers written so far
    \* server: transfer table
    transfers,    \* live TransferEntry records
    nextTransfer, \* next TransferID of this session
    \* device (external)
    preds,        \* preds[i]: the work items ordered before item i
    d2h,          \* items that are device-to-host copies
    before,       \* per slot: items ordered before its next submission
    evBefore,     \* per event: items ordered before its last record
    done          \* items the device has completed

clientVars == <<gen, nextGen, streamState, nonblocking, seq, frontier,
                eventState, recorded, evFrontier, allocState, hidden,
                submitOrder, written>>
serverVars == <<transfers, nextTransfer>>
orderVars  == <<preds, d2h, before, evBefore>>
vars == <<clientVars, call, ret, serverVars, orderVars, done>>

HandleState == {"unused", "live", "dead"}
Items == 1 .. Len(preds)

NoCall == [op |-> "none", arg |-> DefaultSlot, stage |-> "none"]
NoRet  == [kind |-> "none", arg |-> DefaultSlot]

Active == gen # 0
LiveSlot(s) == s = DefaultSlot \/ (s \in Streams /\ streamState[s] = "live")
Entry == Active /\ call = NoCall

Init ==
    /\ gen = 0 /\ nextGen = 1
    /\ streamState = [s \in Streams |-> "unused"]
    /\ nonblocking = {}
    /\ seq = [s \in Slots |-> 0]
    /\ frontier = [s \in Slots |-> ZeroFrontier]
    /\ eventState = [e \in Events |-> "unused"]
    /\ recorded = {}
    /\ evFrontier = [e \in Events |-> ZeroFrontier]
    /\ allocState = [a \in Allocs |-> "unused"]
    /\ hidden = {} /\ submitOrder = 0
    /\ call = NoCall /\ ret = NoRet
    /\ written = {}
    /\ transfers = {} /\ nextTransfer = 1
    /\ preds = <<>> /\ d2h = {}
    /\ before = [s \in Slots |-> {}]
    /\ evBefore = [e \in Events |-> {}]
    /\ done = {}

------------------------------------------------------------------------------
(* Ordering rules shared by the submissions.                               *)

\* Fault: the legacy default stream is not ordered after the other streams.
LegacyOrderedNoJoin(s) ==
    IF s = DefaultSlot \/ s \in nonblocking
    THEN frontier
    ELSE [frontier EXCEPT ![s] = FrontierMerge(@, frontier[DefaultSlot])]

\* The frontiers after apply_legacy_default_ordering on slot s.
LegacyOrdered(s) ==
    IF s = DefaultSlot
    THEN [frontier EXCEPT ![DefaultSlot] =
              MergeOver({x \in Slots : LiveSlot(x)}, frontier)]
    ELSE IF s \in nonblocking
    THEN frontier
    ELSE [frontier EXCEPT ![s] = FrontierMerge(@, frontier[DefaultSlot])]

\* The items the device orders before the next submission on slot s.
DevicePreds(s) ==
    before[s] \cup
        (IF s = DefaultSlot
         THEN UNION {before[x] : x \in {y \in Streams \ nonblocking :
                                            streamState[y] = "live"}}
         ELSE IF s \in nonblocking THEN {} ELSE before[DefaultSlot])

\* The device accepts one more item on slot s.
Enqueue(s, isD2H) ==
    LET item == Len(preds) + 1 IN
    /\ item <= MaxItems
    /\ preds' = Append(preds, DevicePreds(s))
    /\ d2h' = IF isD2H THEN d2h \cup {item} ELSE d2h
    /\ before' = [before EXCEPT ![s] = DevicePreds(s) \cup {item}]
    /\ UNCHANGED evBefore

\* Bump of next_transfer_seq and of the stream's own frontier component.
Sequenced(s) ==
    /\ seq' = [seq EXCEPT ![s] = @ + 1]
    /\ frontier' = [LegacyOrdered(s) EXCEPT ![s][s] = seq[s] + 1]

------------------------------------------------------------------------------
(* Sessions.                                                               *)

\* ensure_runtime opens a session; any entry point does so on demand.
EnsureRuntime ==
    /\ ~Active /\ call = NoCall
    /\ nextGen <= MaxGen
    /\ gen' = nextGen /\ nextGen' = nextGen + 1
    /\ ret' = NoRet
    /\ UNCHANGED <<streamState, nonblocking, seq, frontier, eventState,
                   recorded, evFrontier, allocState, hidden, submitOrder,
                   written, call, serverVars, orderVars, done>>

\* connect_server fails: the entry point returns an initialization error.
ConnectFails ==
    /\ ~Active /\ call = NoCall
    /\ ret' = NoRet
    /\ UNCHANGED <<clientVars, call, serverVars, orderVars, done>>

\* Fault: the hidden transfers of the lost session stay in the table.
KeepHidden == submitOrder' = 0 /\ UNCHANGED hidden

\* The hidden-transfer part of mark_session_failed_locked.
DropHidden == submitOrder' = 0 /\ hidden' = {}

\* mark_session_failed_locked, after a transport error of the RPC a call
\* makes first or of any later one.  The server loses the connection too
\* and cleanup_session retires the session's work, transfers and TransferIDs.
SessionFails ==
    /\ gen' = 0
    /\ streamState' = [s \in Streams |->
           IF streamState[s] = "live" THEN "dead" ELSE streamState[s]]
    /\ eventState' = [e \in Events |->
           IF eventState[e] = "live" THEN "dead" ELSE eventState[e]]
    /\ allocState' = [a \in Allocs |->
           IF allocState[a] = "live" THEN "dead" ELSE allocState[a]]
    /\ recorded' = {}
    /\ frontier' = [s \in Slots |-> ZeroFrontier]
    /\ evFrontier' = [e \in Events |-> ZeroFrontier]
    /\ seq' = [seq EXCEPT ![DefaultSlot] = 0]
    /\ DropHidden
    /\ transfers' = {} /\ nextTransfer' = 1
    /\ before' = [s \in Slots |-> {}]
    /\ evBefore' = [e \in Events |-> {}]
    /\ done' = Items
    /\ UNCHANGED <<nextGen, nonblocking, written, preds, d2h>>

TransportFailure ==
    /\ Active
    /\ SessionFails
    /\ call' = NoCall /\ ret' = NoRet

------------------------------------------------------------------------------
(* Handle creation.                                                        *)

\* cudaStreamCreate, cudaStreamCreateWithFlags, ...WithPriority.
StreamCreate(s, isNonblocking) ==
    /\ Entry
    /\ streamState[s] = "unused"
    /\ streamState' = [streamState EXCEPT ![s] = "live"]
    /\ nonblocking' = IF isNonblocking THEN nonblocking \cup {s} ELSE nonblocking
    /\ ret' = NoRet
    /\ UNCHANGED <<gen, nextGen, seq, frontier, eventState, recorded,
                   evFrontier, allocState, hidden, submitOrder, written, call,
                   serverVars, orderVars, done>>

\* cudaEventCreate, cudaEventCreateWithFlags.
EventCreate(e) ==
    /\ Entry
    /\ eventState[e] = "unused"
    /\ eventState' = [eventState EXCEPT ![e] = "live"]
    /\ ret' = NoRet
    /\ UNCHANGED <<gen, nextGen, streamState, nonblocking, seq, frontier,
                   recorded, evFrontier, allocState, hidden, submitOrder,
                   written, call, serverVars, orderVars, done>>

\* cudaMalloc.
Malloc(a) ==
    /\ Entry
    /\ allocState[a] = "unused"
    /\ allocState' = [allocState EXCEPT ![a] = "live"]
    /\ ret' = NoRet
    /\ UNCHANGED <<gen, nextGen, streamState, nonblocking, seq, frontier,
                   eventState, recorded, evFrontier, hidden, submitOrder,
                   written, call, serverVars, orderVars, done>>

------------------------------------------------------------------------------
(* Stream-ordered submissions: one RPC each.                               *)

\* handle_{h2d,d2h}_async_submit: the server accepts the copy and answers
\* with a TransferID of this session.
ServerSubmit(s, isD2H) ==
    /\ Cardinality(transfers) < MaxTransfers
    /\ transfers' = transfers \cup
           {[id |-> nextTransfer, item |-> Len(preds) + 1]}
    /\ nextTransfer' = nextTransfer + 1
    /\ Enqueue(s, isD2H)

\* The client's record of the accepted transfer.
NewHidden(s, a) ==
    [id |-> nextTransfer, item |-> Len(preds) + 1, alloc |-> a, slot |-> s,
     seq |-> seq[s] + 1, order |-> submitOrder + 1]

\* cudaMemcpyAsync and cudaMemcpy3DAsync between host and device: the table
\* slot is found before the RPC.  A copy of several chunks is a run of these.
MemcpyAsync(s, isD2H, a) ==
    /\ Entry
    /\ LiveSlot(s)
    /\ allocState[a] = "live"
    /\ Cardinality(hidden) < MaxHidden
    /\ ServerSubmit(s, isD2H)
    /\ hidden' = hidden \cup {NewHidden(s, a)}
    /\ submitOrder' = submitOrder + 1
    /\ Sequenced(s)
    /\ ret' = NoRet
    /\ UNCHANGED <<gen, nextGen, streamState, nonblocking, eventState, recorded,
                   evFrontier, allocState, written, call, done>>

\* cudaMemcpy2DAsync between host and device: the table slot is looked for
\* after the server has accepted the copy; without one the call fails and
\* the client forgets the TransferID.
Memcpy2DAsync(s, isD2H, a) ==
    /\ Entry
    /\ LiveSlot(s)
    /\ allocState[a] = "live"
    /\ ServerSubmit(s, isD2H)
    /\ IF Cardinality(hidden) < MaxHidden
       THEN /\ hidden' = hidden \cup {NewHidden(s, a)}
            /\ submitOrder' = submitOrder + 1
            /\ Sequenced(s)
       ELSE /\ frontier' = LegacyOrdered(s)
            /\ UNCHANGED <<hidden, submitOrder, seq>>
    /\ ret' = NoRet
    /\ UNCHANGED <<gen, nextGen, streamState, nonblocking, eventState, recorded,
                   evFrontier, allocState, written, call, done>>

\* cudaMemsetAsync, cudaMemset3DAsync and asynchronous device-to-device copies.
\* cudaMemset2DAsync is different: see LegacySyncOps.
StreamOp(s) ==
    /\ Entry
    /\ LiveSlot(s)
    /\ Enqueue(s, FALSE)
    /\ Sequenced(s)
    /\ ret' = NoRet
    /\ UNCHANGED <<gen, nextGen, streamState, nonblocking, eventState, recorded,
                   evFrontier, allocState, hidden, submitOrder, written, call,
                   serverVars, done>>

\* cudaLaunchKernel: ordered like the others, but takes no sequence number.
LaunchKernel(s) ==
    /\ Entry
    /\ LiveSlot(s)
    /\ Enqueue(s, FALSE)
    /\ frontier' = LegacyOrdered(s)
    /\ ret' = NoRet
    /\ UNCHANGED <<gen, nextGen, streamState, nonblocking, seq, eventState,
                   recorded, evFrontier, allocState, hidden, submitOrder,
                   written, call, serverVars, done>>

\* cudaFreeAsync: the mapping dies at once and nothing is drained.
FreeAsync(s, a) ==
    /\ Entry
    /\ LiveSlot(s)
    /\ allocState[a] = "live"
    /\ allocState' = [allocState EXCEPT ![a] = "dead"]
    /\ Enqueue(s, FALSE)
    /\ Sequenced(s)
    /\ ret' = NoRet
    /\ UNCHANGED <<gen, nextGen, streamState, nonblocking, eventState, recorded,
                   evFrontier, hidden, submitOrder, written, call, serverVars,
                   done>>

\* Any of these calls that fails after it has ordered its stream: an invalid
\* pointer, a full table, or an error status from the server.
SubmitFails(s) ==
    /\ Entry
    /\ LiveSlot(s)
    /\ frontier' = LegacyOrdered(s)
    /\ ret' = NoRet
    /\ UNCHANGED <<gen, nextGen, streamState, nonblocking, seq, eventState,
                   recorded, evFrontier, allocState, hidden, submitOrder,
                   written, call, serverVars, orderVars, done>>

\* Fault: the snapshot is taken before the stream is ordered.
EarlySnapshot(s) == frontier[s]

\* The frontier that cudaEventRecord copies into the event.
Snapshot(s) == LegacyOrdered(s)[s]

\* cudaEventRecord: the event snapshots the stream's ordered frontier.
EventRecord(e, s) ==
    /\ Entry
    /\ eventState[e] = "live" /\ LiveSlot(s)
    /\ frontier' = LegacyOrdered(s)
    /\ evFrontier' = [evFrontier EXCEPT ![e] = Snapshot(s)]
    /\ recorded' = recorded \cup {e}
    /\ before' = [before EXCEPT ![s] = DevicePreds(s)]
    /\ evBefore' = [evBefore EXCEPT ![e] = DevicePreds(s)]
    /\ ret' = NoRet
    /\ UNCHANGED <<gen, nextGen, streamState, nonblocking, seq, eventState,
                   allocState, hidden, submitOrder, written, call, serverVars,
                   preds, d2h, done>>

\* The frontiers after cudaStreamWaitEvent of slot s on event e.
WaitMerged(s, e) ==
    IF e \in recorded
    THEN [LegacyOrdered(s) EXCEPT ![s] = FrontierMerge(@, evFrontier[e])]
    ELSE LegacyOrdered(s)

\* cudaStreamWaitEvent.
StreamWaitEvent(s, e) ==
    /\ Entry
    /\ eventState[e] = "live" /\ LiveSlot(s)
    /\ frontier' = WaitMerged(s, e)
    /\ before' = [before EXCEPT ![s] = DevicePreds(s) \cup evBefore[e]]
    /\ ret' = NoRet
    /\ UNCHANGED <<gen, nextGen, streamState, nonblocking, seq, eventState,
                   recorded, evFrontier, allocState, hidden, submitOrder,
                   written, call, serverVars, preds, d2h, evBefore, done>>

------------------------------------------------------------------------------
(* Calls that wait and drain: several RPCs under one hold of the mutex.    *)

Begin(op, arg, stage) ==
    /\ call' = [op |-> op, arg |-> arg, stage |-> stage]
    /\ ret' = NoRet
    /\ UNCHANGED <<gen, nextGen, streamState, nonblocking, seq, eventState,
                   recorded, evFrontier, allocState, hidden, submitOrder,
                   written, serverVars, orderVars, done>>

\* cudaStreamSynchronize; on the default stream it is a context barrier.
StreamSynchronize(s) ==
    /\ Entry /\ LiveSlot(s)
    /\ Begin(IF s = DefaultSlot THEN "allSync" ELSE "streamSync", s, "barrier")
    /\ UNCHANGED frontier

\* cudaDeviceSynchronize.
DeviceSynchronize ==
    /\ Entry
    /\ Begin("allSync", DefaultSlot, "barrier")
    /\ UNCHANGED frontier

\* cudaStreamQuery orders the stream first, as a submission would.
StreamQuery(s) ==
    /\ Entry /\ LiveSlot(s)
    /\ Begin("streamQuery", s, "barrier")
    /\ frontier' = LegacyOrdered(s)

\* cudaStreamDestroy.
StreamDestroy(s) ==
    /\ Entry /\ streamState[s] = "live"
    /\ Begin("streamDestroy", s, "barrier")
    /\ UNCHANGED frontier

\* cudaEventSynchronize.
EventSynchronize(e) ==
    /\ Entry /\ eventState[e] = "live"
    /\ Begin("eventSync", e, "barrier")
    /\ UNCHANGED frontier

\* cudaEventQuery.
EventQuery(e) ==
    /\ Entry /\ eventState[e] = "live"
    /\ Begin("eventQuery", e, "barrier")
    /\ UNCHANGED frontier

\* cudaEventDestroy drains only what a recorded event covers.
EventDestroy(e) ==
    /\ Entry /\ eventState[e] = "live"
    /\ Begin("eventDestroy", e, IF e \in recorded THEN "barrier" ELSE "finish")
    /\ UNCHANGED frontier

\* cudaLaunchHostFunc and cudaStreamAddCallback order the stream and hand
\* its frontier to the worker thread.  Until the worker is done no runtime
\* call gets past corex_runtime_context_lock, so the worker's wait and drain
\* are this call's.
HostCallback(s) ==
    /\ Entry /\ LiveSlot(s)
    /\ Begin("callback", s, "barrier")
    /\ frontier' = LegacyOrdered(s)

\* cudaFree drains the transfers of its allocation before the FREE request.
Free(a) ==
    /\ Entry /\ allocState[a] = "live"
    /\ Begin("free", a, "drain")
    /\ UNCHANGED frontier

StreamCalls == {"streamSync", "streamQuery", "streamDestroy", "callback"}
EventCalls  == {"eventSync", "eventQuery", "eventDestroy"}
QueryCalls  == {"streamQuery", "eventQuery"}

\* Transfers are selected by allocation or by frontier.
Drains == {"allocation", "frontier"}
DrainOf(c) == IF c.op = "free" THEN "allocation" ELSE "frontier"

\* The device work the server's stream, event or context barrier waits for.
BarrierItems(c) ==
    IF c.op \in StreamCalls THEN before[c.arg]
    ELSE IF c.op \in EventCalls THEN evBefore[c.arg]
    ELSE Items

\* The hidden transfers that oldest_matching_transfer selects among.
Matching(c) ==
    IF c.op \in StreamCalls THEN {t \in hidden : Covers(frontier[c.arg], t)}
    ELSE IF c.op \in EventCalls THEN {t \in hidden : Covers(evFrontier[c.arg], t)}
    ELSE IF c.op = "free" THEN {t \in hidden : t.alloc = c.arg}
    ELSE hidden

Return(r) ==
    /\ call' = NoCall
    /\ ret' = r

\* The synchronisation a successful return of call c reports; for a callback,
\* that the worker now runs the host function.
Reported(c) ==
    [kind |-> IF c.op = "callback" THEN "callback"
              ELSE IF c.op \in StreamCalls THEN "stream"
              ELSE IF c.op \in EventCalls THEN "event" ELSE "all",
     arg |-> c.arg]

\* handle_stream_sync, handle_event_sync or handle_sync answers.
Barrier ==
    /\ call.stage = "barrier" /\ call.op \notin QueryCalls
    /\ BarrierItems(call) \subseteq done
    /\ call' = [call EXCEPT !.stage = "drain"]
    /\ UNCHANGED <<clientVars, ret, serverVars, orderVars, done>>

\* handle_stream_query or handle_event_query answers READY or PENDING.
QueryAnswer ==
    /\ call.stage = "barrier" /\ call.op \in QueryCalls
    /\ IF BarrierItems(call) \subseteq done
       THEN call' = [call EXCEPT !.stage = "check"] /\ UNCHANGED ret
       ELSE Return(NoRet)
    /\ UNCHANGED <<clientVars, serverVars, orderVars, done>>

\* handle_transfer_query answers READY for the TransferID of t.
TransferReady(t) == \E x \in transfers : x.id = t.id /\ x.item \in done

\* Fault: the covered transfers are drained without being queried.
AssumedReady(c) == TRUE

\* The query pass of drain_frontier_if_ready.
AllReady(c) == \A t \in Matching(c) : TransferReady(t)

\* drain_frontier_if_ready: every covered transfer is queried first, and one
\* that is pending ends the call with cudaErrorNotReady.
CheckReady ==
    /\ call.stage = "check"
    /\ IF AllReady(call)
       THEN call' = [call EXCEPT !.stage = "drain"] /\ UNCHANGED ret
       ELSE Return(NoRet)
    /\ UNCHANGED <<clientVars, serverVars, orderVars, done>>

\* Fault: the newest match is consumed first.
NewestMatch(t) == \A u \in Matching(call) : t.order >= u.order

\* oldest_matching_transfer, for t \in Matching(call).
OldestMatch(t) == \A u \in Matching(call) : t.order <= u.order

\* Fault: the server does not retire the TransferID.
KeepTransfer(x) == UNCHANGED transfers

\* release_transfer.
ReleaseTransfer(x) == transfers' = transfers \ {x}

\* The memset of the table slot in consume_hidden_transfer.
ClearEntry(t) == hidden' = hidden \ {t}

\* consume_hidden_transfer on the oldest match: handle_transfer_wait waits
\* for the copy, answers with its bytes and retires the TransferID.
Consume ==
    /\ call.stage = "drain"
    /\ \E t \in Matching(call), x \in transfers :
        /\ OldestMatch(t)
        /\ x.id = t.id
        /\ x.item \in done
        /\ ClearEntry(t)
        /\ ReleaseTransfer(x)
        /\ written' = IF t.item \in d2h
                      THEN written \cup {[dst |-> t.item, data |-> x.item,
                                          by |-> DrainOf(call)]}
                      ELSE written
    /\ UNCHANGED <<gen, nextGen, streamState, nonblocking, seq, frontier,
                   eventState, recorded, evFrontier, allocState, submitOrder,
                   call, ret, nextTransfer, orderVars, done>>

\* Fault: a drain goes on until the table is empty, whatever it selects by.
TableEmpty == call.stage = "drain" /\ hidden = {}

\* oldest_matching_transfer finds nothing more.
Drained == call.stage = "drain" /\ Matching(call) = {}

\* A synchronisation or a query has drained everything and succeeds.
FinishSync ==
    /\ Drained
    /\ call.op \in {"streamSync", "streamQuery", "eventSync", "eventQuery",
                    "allSync", "callback"}
    /\ Return(Reported(call))
    /\ UNCHANGED <<clientVars, serverVars, orderVars, done>>

\* The server destroys the stream and the handle becomes a tombstone.
FinishStreamDestroy ==
    /\ Drained /\ call.op = "streamDestroy"
    /\ streamState' = [streamState EXCEPT ![call.arg] = "dead"]
    /\ frontier' = [frontier EXCEPT ![call.arg] = ZeroFrontier]
    /\ before' = [before EXCEPT ![call.arg] = {}]
    /\ Return(NoRet)
    /\ UNCHANGED <<gen, nextGen, nonblocking, seq, eventState, recorded,
                   evFrontier, allocState, hidden, submitOrder, written,
                   serverVars, preds, d2h, evBefore, done>>

\* handle_destroy_event waits for the whole context before it destroys.
FinishEventDestroy ==
    /\ call.op = "eventDestroy" /\ (Drained \/ call.stage = "finish")
    /\ Items \subseteq done
    /\ eventState' = [eventState EXCEPT ![call.arg] = "dead"]
    /\ recorded' = recorded \ {call.arg}
    /\ evFrontier' = [evFrontier EXCEPT ![call.arg] = ZeroFrontier]
    /\ evBefore' = [evBefore EXCEPT ![call.arg] = {}]
    /\ Return(NoRet)
    /\ UNCHANGED <<gen, nextGen, streamState, nonblocking, seq, frontier,
                   allocState, hidden, submitOrder, written, serverVars,
                   preds, d2h, before, done>>

\* handle_free waits for the whole context before it frees; only then does
\* the client drop its mapping.
FinishFree ==
    /\ Drained /\ call.op = "free"
    /\ Items \subseteq done
    /\ allocState' = [allocState EXCEPT ![call.arg] = "dead"]
    /\ Return(NoRet)
    /\ UNCHANGED <<gen, nextGen, streamState, nonblocking, seq, frontier,
                   eventState, recorded, evFrontier, hidden, submitOrder,
                   written, serverVars, orderVars, done>>

\* An RPC of the call returns an error status (ST_NOT_FOUND for a TransferID
\* the server does not know among them), or the client runs out of memory for
\* the reply: the call returns the error and changes nothing more.
CallFails ==
    /\ call # NoCall
    /\ Return(NoRet)
    /\ UNCHANGED <<clientVars, serverVars, orderVars, done>>

\* The device completes an item once everything ordered before it is done.
Complete(i) ==
    /\ i \notin done
    /\ preds[i] \subseteq done
    /\ done' = done \cup {i}
    /\ UNCHANGED <<clientVars, call, ret, serverVars, orderVars>>

------------------------------------------------------------------------------
CallStep ==
    \/ Barrier \/ QueryAnswer \/ CheckReady \/ Consume
    \/ FinishSync \/ FinishStreamDestroy \/ FinishEventDestroy \/ FinishFree

Submission ==
    \/ \E s \in Slots, isD2H \in BOOLEAN, a \in Allocs :
          MemcpyAsync(s, isD2H, a) \/ Memcpy2DAsync(s, isD2H, a)
    \/ \E s \in Slots : StreamOp(s) \/ LaunchKernel(s)
    \/ \E s \in Slots, a \in Allocs : FreeAsync(s, a)
    \/ \E s \in Slots, e \in Events : EventRecord(e, s) \/ StreamWaitEvent(s, e)

BlockingCall ==
    \/ \E s \in Slots : StreamSynchronize(s) \/ StreamQuery(s) \/ HostCallback(s)
    \/ DeviceSynchronize
    \/ \E s \in Streams : StreamDestroy(s)
    \/ \E e \in Events : EventSynchronize(e) \/ EventQuery(e) \/ EventDestroy(e)
    \/ \E a \in Allocs : Free(a)

Creation ==
    \/ \E s \in Streams, nb \in BOOLEAN : StreamCreate(s, nb)
    \/ \E e \in Events : EventCreate(e)
    \/ \E a \in Allocs : Malloc(a)

Device == \E i \in Items : Complete(i)

Failure ==
    \/ TransportFailure \/ CallFails
    \/ \E s \in Slots : SubmitFails(s)

Next ==
    \/ EnsureRuntime \/ ConnectFails
    \/ Creation \/ Submission \/ BlockingCall \/ CallStep
    \/ Failure
    \/ Device

Spec == Init /\ [][Next]_vars

\* The device keeps running, and a thread inside a call keeps running it.
FairSpec ==
    /\ Spec
    /\ WF_vars(Device)
    /\ WF_vars(CallStep)

------------------------------------------------------------------------------
(* Properties.                                                             *)

Stages == {"barrier", "check", "drain", "finish"}

Calls ==
    {NoCall} \cup [op : StreamCalls, arg : Slots, stage : Stages]
             \cup [op : EventCalls, arg : Events, stage : Stages]
             \cup [op : {"free"}, arg : Allocs, stage : Stages]
             \cup [op : {"allSync"}, arg : {DefaultSlot}, stage : Stages]

Rets ==
    {NoRet} \cup [kind : {"stream", "callback"}, arg : Slots]
            \cup [kind : {"event"}, arg : Events]
            \cup [kind : {"all"}, arg : {DefaultSlot}]

\* The client's tables, the call in progress, the server's transfer table and
\* the device's order hold values of their types; outstanding transfers and
\* written buffers refer to work that was submitted.
TypeOK ==
    /\ gen \in Nat /\ nextGen \in Nat \ {0}
    /\ streamState \in [Streams -> HandleState]
    /\ nonblocking \in SUBSET Streams
    /\ seq \in [Slots -> Nat]
    /\ frontier \in [Slots -> Frontier]
    /\ eventState \in [Events -> HandleState]
    /\ recorded \in SUBSET Events
    /\ evFrontier \in [Events -> Frontier]
    /\ allocState \in [Allocs -> HandleState]
    /\ hidden \in SUBSET [id : Nat, item : Items, alloc : Allocs, slot : Slots,
                          seq : Nat, order : Nat]
    /\ submitOrder \in Nat
    /\ call \in Calls
    /\ ret \in Rets
    /\ written \in SUBSET [dst : Items, data : Items, by : Drains]
    /\ transfers \in SUBSET [id : Nat, item : Items]
    /\ nextTransfer \in Nat
    /\ preds \in Seq(SUBSET Nat)
    /\ d2h \in SUBSET Items
    /\ before \in [Slots -> SUBSET Items]
    /\ evBefore \in [Events -> SUBSET Items]
    /\ done \in SUBSET Items

\* Whether the bytes of device-to-host copy i have reached the host buffer.
Visible(i) == \E w \in written : w.dst = i

\* When cudaStreamSynchronize, cudaEventSynchronize, cudaDeviceSynchronize or
\* a successful query has returned, or a host function is about to run, every
\* device-to-host copy that the device orders before the stream's tail, the
\* event, the barrier or the host function is in the host buffer: the
\* frontiers miss no causal predecessor.
SyncMakesVisible ==
    /\ ret.kind = "stream" => \A i \in before[ret.arg] \cap d2h : Visible(i)
    /\ ret.kind = "event" => \A i \in evBefore[ret.arg] \cap d2h : Visible(i)
    /\ ret.kind = "callback" =>
           \A i \in DevicePreds(ret.arg) \cap d2h : Visible(i)
    /\ ret.kind = "all" =>
           \A s \in Slots : \A i \in before[s] \cap d2h : Visible(i)

\* Every live hidden transfer is covered by the frontier of each stream and
\* event that the device orders after it.
CausalCover ==
    \A t \in hidden :
        /\ \A s \in Slots : t.item \in before[s] => Covers(frontier[s], t)
        /\ \A e \in Events : t.item \in evBefore[e] => Covers(evFrontier[e], t)

\* A host buffer only ever receives the bytes of the copy it was passed to,
\* although TransferIDs restart in every session.
RightData == \A w \in written : w.dst = w.data

\* Client and server agree on the outstanding transfers: no TransferID is
\* leaked on the server and none the client holds is unknown to the server.
TablesAgree ==
    {<<t.id, t.item>> : t \in hidden} = {<<x.id, x.item>> : x \in transfers}

\* A live transfer belongs to a live stream: destroying a stream or losing
\* the session leaves no transfer whose frontier slot nobody owns.
NoOrphanTransfer == \A t \in hidden : LiveSlot(t.slot)

\* A frontier drain writes host buffers in causal order: when it has written
\* one copy, no device-to-host copy ordered before that one is outstanding.
DrainKeepsOrder ==
    \A w \in written : w.by = "frontier" =>
        \A i \in preds[w.data] \cap d2h : Visible(i)

\* A query never blocks: once it starts to drain, every transfer it will
\* wait for has completed on the device.
QueryNeverBlocks ==
    call.op \in QueryCalls /\ call.stage = "drain" =>
        \A t \in Matching(call) : TransferReady(t)

\* A nonblocking stream is not merged with the legacy default stream: the
\* default frontier covers a transfer of a nonblocking stream only if the
\* device orders that transfer before the default stream.
NonblockingNotMerged ==
    \A t \in hidden :
        t.slot \in nonblocking /\ Covers(frontier[DefaultSlot], t)
            => t.item \in before[DefaultSlot]

\* Every runtime call returns, however its drain is interleaved with the
\* device and with failures.
CallReturns == (call # NoCall) ~> (call = NoCall)

==============================================================================
