---------------------------- MODULE DeviceMemory ----------------------------
(* Device memory and memory pools on both sides of the connection, and the   *)
(* life of a server session around them.                                     *)
(*                                                                           *)
(* Client: the fake address arena with its cursor, the allocation slots and  *)
(* the pool handles. Server: the allocation and pool tables, the phases of   *)
(* cleanup_session and the reset of the context. Device (external): storage, *)
(* pools, and one queue of work per stream, consumed in order.               *)
(*                                                                           *)
(* A call is one RPC under the mutex, hence one step: the client's checks,   *)
(* the server's handler (an operator Handle...) and the client's commit. The *)
(* reply may be lost after the handler ran (LostReply), the connection may   *)
(* break at any time. A call refused without a change on either side has no  *)
(* step. Allocations of modules and graphs are in their own modules.         *)
EXTENDS Integers, Sequences, FiniteSets

CONSTANTS
    ARENA_BYTES, ALIGNMENT, GUARD_BYTES,    \* G6A_VA_*
    Sizes,              \* sizes, widths and heights the program asks for
    Pitches,            \* pitches the driver answers with
    MaxSlots,           \* G6A_MAX_ALLOCS
    MAX_ALLOCS,         \* entries of the server's allocation table
    MAX_POOLS,          \* entries of the server's pool table
    MAX_POOL_HANDLES,   \* pool handles of the process, never reused
    Storage,            \* native pointers
    NativePools,        \* native pools that can be created
    DevicePool,         \* the native default pool of the device
    MaxGen,             \* bounds: sessions,
    MaxIds,             \*   ids a session hands out, to allocations and pools,
    MaxWork             \*   and work submitted to the device at one time

ASSUME ArenaAssumption ==
    /\ ARENA_BYTES \in Nat /\ ALIGNMENT \in Nat \ {0} /\ GUARD_BYTES \in Nat \ {0}
    /\ Sizes \subseteq Nat \ {0} /\ Pitches \subseteq Nat \ {0}
    /\ DevicePool \notin NativePools

VARIABLES
    slots, va_next, issued,         \* client: allocations; all ranges ever issued
    handles, handle_next,           \* client: live pool handles; handles used
    next_gen, conn,                 \* client: sessions; "none", "up" or "broken"
    phase,                          \* server: "listening", "serving", ...
    allocs, next_alloc_id,          \* server: allocation table
    pools, next_pool_id, default_id, current_id, saved,     \* server: pools
    ctx, storage, queue,            \* device: context exists, storage, work
    native, current, threshold,     \* device: custom pools, current pool, and
                                    \*   the attributes of the default pool
    orphans, unrestored, undestroyed, unsynced  \* history: entries without a
                                    \*   slot, attributes not restored, pools not
                                    \*   destroyed, and work not waited for

cvars == <<slots, va_next, issued, handles, handle_next, next_gen, conn>>
svars == <<phase, allocs, next_alloc_id, pools, next_pool_id, default_id,
           current_id, saved>>
dvars == <<ctx, storage, queue, native, current, threshold>>
hvars == <<orphans, unrestored, undestroyed, unsynced>>
memory == <<allocs, next_alloc_id, storage, queue>>
pooled == <<pools, next_pool_id, default_id, current_id, saved, native, current,
            threshold, unrestored, undestroyed>>
vars == <<cvars, svars, dvars, hvars>>

Queues == {"default", "stream"}
RangeOf(r) == [base |-> r.base, size |-> r.size]

Init ==
    /\ slots = {} /\ va_next = 0 /\ issued = {} /\ handles = {} /\ handle_next = 0
    /\ next_gen = 1 /\ conn = "none"
    /\ phase = "listening" /\ allocs = {} /\ next_alloc_id = 1
    /\ pools = {} /\ next_pool_id = 1 /\ default_id = 0 /\ current_id = 0
    /\ saved = "none"
    /\ ctx = TRUE /\ storage = {} /\ queue = [q \in Queues |-> <<>>]
    /\ native = {} /\ current = DevicePool /\ threshold = "original"
    /\ orphans = {} /\ unrestored = FALSE /\ undestroyed = {} /\ unsynced = FALSE
-----------------------------------------------------------------------------
(* The client's address arena.                                             *)

\* align_up_size and the span of prepare_linear_identity.
AlignUp(n) == ((n + ALIGNMENT - 1) \div ALIGNMENT) * ALIGNMENT

\* Fault: no guard between two spans.
UnguardedSpan(n) == AlignUp(n)

SpanOf(n) == AlignUp(n) + GUARD_BYTES

FitsArena(n) == SpanOf(n) <= ARENA_BYTES - va_next

\* find_free_slot
HasSlot == Cardinality(slots) < MaxSlots

\* commit_linear_identity, and the end of cudaMallocPitch_locked.
Commit(n, id) ==
    LET s == [base |-> va_next, size |-> n, id |-> id] IN
    /\ slots' = slots \cup {s}
    /\ issued' = issued \cup {RangeOf(s)}
    /\ va_next' = va_next + SpanOf(n)

\* resolve_remote_ptr_mode: the slots that match an address, and the offset
\* and allocation of an access of n bytes that is within bounds.
Matching(ptr) == {s \in slots : ptr \in s.base .. s.base + s.size}
Resolves(ptr, n, s) ==
    /\ s \in Matching(ptr) /\ n <= s.size - (ptr - s.base)
    /\ n > 0 => ptr # s.base + s.size
-----------------------------------------------------------------------------
(* Handlers of the server. Each one states its effect on the server's        *)
(* tables and on the device.                                                 *)

\* The bounds.
Room == Len(queue["default"]) + Len(queue["stream"]) < MaxWork
IdsLeft == next_alloc_id + next_pool_id < MaxIds + 2
\* The driver returns storage that is not in use; which one makes no difference.
FreshStorage == Storage \ storage
Pick == IF FreshStorage = {} THEN {} ELSE {CHOOSE m \in Storage : m \notin storage}
HasEntry == Cardinality(allocs) < MAX_ALLOCS
Entry(id) == CHOOSE a \in allocs : a.id = id
Uses(q) == {queue[q][i].mem : i \in {j \in DOMAIN queue[q] : queue[q][j].op = "use"}}
Enqueue(q, op, m) == queue' = [queue EXCEPT ![q] = Append(@, [op |-> op, mem |-> m])]

\* new_allocation_slot and the commit of handle_alloc, handle_alloc_pitched
\* and allocate_async.
NewAllocation(n, m) ==
    /\ ctx /\ HasEntry /\ m \in FreshStorage /\ IdsLeft
    /\ allocs' = allocs \cup {[id |-> next_alloc_id, size |-> n, mem |-> m]}
    /\ next_alloc_id' = next_alloc_id + 1
    /\ storage' = storage \cup {m}

\* handle_alloc
HandleAlloc(n, m) == NewAllocation(n, m) /\ UNCHANGED queue /\ UNCHANGED pooled

\* The driver refuses an allocation: the slot is cleared, its id is spent.
RefuseEntry ==
    /\ HasEntry /\ IdsLeft
    /\ next_alloc_id' = next_alloc_id + 1
    /\ UNCHANGED <<allocs, queue>>

HandleAllocRefused == RefuseEntry /\ UNCHANGED storage /\ UNCHANGED pooled

\* handle_alloc_pitched: if cuMemAllocPitch answers with a pitch that is too
\* small, the slot is cleared and the storage it returned stays behind.
HandlePitchRefused(m) ==
    /\ ctx /\ RefuseEntry /\ m \in FreshStorage
    /\ storage' = storage \cup {m}
    /\ UNCHANGED pooled

\* handle_free: lifetime_context_barrier waits for all submitted work.
HandleFree(a) ==
    /\ \A q \in Queues : queue[q] = <<>>
    /\ allocs' = allocs \ {a} /\ storage' = storage \ {a.mem}
    /\ UNCHANGED <<next_alloc_id, queue>> /\ UNCHANGED pooled

\* handle_free_async: the identity goes at once, the storage when the stream
\* gets there.
HandleFreeAsync(a, q) ==
    /\ Room
    /\ allocs' = allocs \ {a} /\ Enqueue(q, "free", a.mem)
    /\ UNCHANGED <<next_alloc_id, storage>> /\ UNCHANGED pooled

\* Any handler that submits work on an allocation.
HandleSubmit(a, q) ==
    /\ Room /\ Enqueue(q, "use", a.mem)
    /\ UNCHANGED <<allocs, next_alloc_id, storage>> /\ UNCHANGED pooled

Pool(id) == CHOOSE p \in pools : p.id = id
HasPool(id) == \E p \in pools : p.id = id

\* ensure_default_pool
EnsureDefaultPool ==
    IF default_id # 0 THEN UNCHANGED <<pools, next_pool_id, default_id, saved>>
    ELSE /\ Cardinality(pools) < MAX_POOLS /\ IdsLeft
         /\ pools' = pools \cup {[id |-> next_pool_id, pool |-> DevicePool]}
         /\ next_pool_id' = next_pool_id + 1
         /\ default_id' = next_pool_id
         /\ saved' = threshold
CurrentAfterEnsure == IF default_id # 0 THEN current_id ELSE next_pool_id

\* handle_device_default_pool, handle_device_get_pool
HandleDevicePool ==
    /\ ctx /\ EnsureDefaultPool /\ current_id' = CurrentAfterEnsure
    /\ UNCHANGED <<native, current, threshold, unrestored, undestroyed>> /\ UNCHANGED memory

\* handle_alloc_async and handle_alloc_from_pool_async
HandleAllocAsync(n, m, explicit) ==
    /\ NewAllocation(n, m) /\ UNCHANGED queue
    /\ IF explicit THEN UNCHANGED <<pools, next_pool_id, default_id, current_id, saved>>
                   ELSE EnsureDefaultPool /\ current_id' = CurrentAfterEnsure
    /\ UNCHANGED <<native, current, threshold, unrestored, undestroyed>>

\* allocate_async, refused by the driver after the default pool was entered.
HandleAllocAsyncRefused ==
    /\ ctx /\ RefuseEntry /\ UNCHANGED storage
    /\ EnsureDefaultPool /\ current_id' = CurrentAfterEnsure
    /\ UNCHANGED <<native, current, threshold, unrestored, undestroyed>>

\* handle_pool_create
HandlePoolCreate(n) ==
    /\ ctx /\ n \notin native /\ Cardinality(pools) < MAX_POOLS /\ IdsLeft
    /\ pools' = pools \cup {[id |-> next_pool_id, pool |-> n]}
    /\ next_pool_id' = next_pool_id + 1
    /\ native' = native \cup {n}
    /\ UNCHANGED <<default_id, current_id, saved, current, threshold, unrestored, undestroyed>>
    /\ UNCHANGED memory

\* handle_device_set_pool, where the driver may refuse after the default pool
\* was entered.
HandleSetPool(p) ==
    /\ ctx /\ EnsureDefaultPool
    /\ \/ current_id' = p.id /\ current' = p.pool
       \/ current_id' = CurrentAfterEnsure /\ UNCHANGED current
    /\ UNCHANGED <<native, threshold, unrestored, undestroyed>> /\ UNCHANGED memory

\* Fault: the device keeps a pool as its current one that is destroyed.
DestroyCurrent(p, done) ==
    /\ ctx /\ p.id # default_id
    /\ pools' = IF done THEN pools \ {p} ELSE pools
    /\ native' = IF done THEN native \ {p.pool} ELSE native
    /\ UNCHANGED <<current_id, current, next_pool_id, default_id, saved, threshold, unrestored, undestroyed>>
    /\ UNCHANGED memory

\* handle_pool_destroy: the device falls back to its default pool first; the
\* destruction may still fail.
HandlePoolDestroy(p, done) ==
    /\ ctx /\ p.id # default_id
    /\ IF current_id = p.id THEN current_id' = default_id /\ current' = Pool(default_id).pool
                            ELSE UNCHANGED <<current_id, current>>
    /\ pools' = IF done THEN pools \ {p} ELSE pools
    /\ native' = IF done THEN native \ {p.pool} ELSE native
    /\ UNCHANGED <<next_pool_id, default_id, saved, threshold, unrestored, undestroyed>>
    /\ UNCHANGED memory

\* handle_pool_set_attribute; only the default pool outlives the session.
HandleSetAttribute(p) ==
    /\ ctx
    /\ threshold' = IF p.pool = DevicePool THEN "changed" ELSE threshold
    /\ UNCHANGED <<pools, next_pool_id, default_id, current_id, saved, native, current, unrestored, undestroyed>>
    /\ UNCHANGED memory

\* handle_set_device_flags: the context is recreated only while the session
\* owns nothing; with a bad driver neither the new nor the old one comes back.
HandleSetDeviceFlags ==
    /\ ctx /\ allocs = {} /\ pools = {}
    /\ ctx' \in BOOLEAN
    /\ storage' = {} /\ queue' = [q \in Queues |-> <<>>]
    /\ current' = DevicePool
    /\ UNCHANGED <<allocs, next_alloc_id>>
    /\ UNCHANGED <<pools, next_pool_id, default_id, current_id, saved, native, threshold, unrestored, undestroyed>>
-----------------------------------------------------------------------------
(* Calls of the application.                                                 *)

Up == conn = "up" /\ phase = "serving"
session == <<next_gen, conn, phase, unsynced>>
addresses == <<slots, va_next, issued>>
handled == <<handles, handle_next>>

\* allocate_linear_locked for cudaMalloc: everything that can be refused
\* locally is checked before the RPC.
Malloc(n, m) ==
    /\ Up /\ HasSlot /\ FitsArena(n)
    /\ HandleAlloc(n, m) /\ Commit(n, next_alloc_id)
    /\ UNCHANGED <<session, handled, ctx, orphans>>

MallocRefused ==
    /\ Up /\ HasSlot
    /\ \/ HandleAllocRefused
       \/ HandleAllocAsyncRefused
       \/ \E m \in Pick : HandlePitchRefused(m)
    /\ UNCHANGED <<session, addresses, handled, ctx, orphans>>

\* malloc_async_locked and allocate_linear_locked for the stream-ordered
\* allocations.
MallocAsync(n, m, explicit) ==
    /\ Up /\ HasSlot /\ FitsArena(n)
    /\ explicit => handles # {}
    /\ HandleAllocAsync(n, m, explicit) /\ Commit(n, next_alloc_id)
    /\ UNCHANGED <<session, handled, ctx, orphans>>

\* Fault: the slot gets the size that was asked for, not the pitched one.
MallocLogical(width, height, pitch, m) ==
    /\ Up /\ HasSlot /\ pitch >= width
    /\ HandleAlloc(pitch * height, m)
    /\ FitsArena(width * height) /\ Commit(width * height, next_alloc_id)
    /\ UNCHANGED <<session, handled, ctx, orphans>>

\* cudaMallocPitch_locked and cudaMalloc3D_locked: the server chooses the
\* pitch, so whether the allocation fits the arena is known only after it
\* exists. If it does not, the call fails and the server keeps it.
MallocPitch(width, height, pitch, m) ==
    /\ Up /\ HasSlot /\ pitch >= width
    /\ HandleAlloc(pitch * height, m)
    /\ \/ /\ FitsArena(pitch * height) /\ Commit(pitch * height, next_alloc_id)
          /\ UNCHANGED orphans
       \/ /\ ~FitsArena(pitch * height)
          /\ orphans' = orphans \cup {next_alloc_id}
          /\ UNCHANGED addresses
    /\ UNCHANGED <<session, handled, ctx>>

\* find_allocation on the server, for the id of a slot.
Backed(s) == \E a \in allocs : a.id = s.id

\* cudaFree_locked; the slot goes only after the server has confirmed.
Free(s) ==
    /\ Up /\ Backed(s) /\ HandleFree(Entry(s.id))
    /\ slots' = slots \ {s}
    /\ UNCHANGED <<session, va_next, issued, handled, ctx, orphans>>

\* The program orders a stream-ordered free after the uses on other streams.
Ordered(a, q) == \A r \in Queues \ {q} : a.mem \notin Uses(r)

\* free_async_locked
FreeAsync(s, q) ==
    /\ Up /\ Backed(s) /\ Ordered(Entry(s.id), q)
    /\ HandleFreeAsync(Entry(s.id), q)
    /\ slots' = slots \ {s}
    /\ UNCHANGED <<session, va_next, issued, handled, ctx, orphans>>

\* A copy, fill or launch through a device pointer.
Submit(ptr, n, q) ==
    /\ Up
    /\ \E s \in slots : /\ Resolves(ptr, n, s) /\ Backed(s)
                        /\ HandleSubmit(Entry(s.id), q)
    /\ UNCHANGED <<session, addresses, handled, ctx, orphans>>

\* remember_pool: one handle per pool; the table is never reused.
Remember(id) ==
    IF id \in handles \/ handle_next = MAX_POOL_HANDLES THEN UNCHANGED handled
    ELSE handles' = handles \cup {id} /\ handle_next' = handle_next + 1

\* device_pool_locked for the default and for the current pool. The reply for
\* the current pool is an error if the device disagrees with the table.
GetDefaultPool ==
    /\ Up /\ HandleDevicePool /\ Remember(default_id')
    /\ UNCHANGED <<session, addresses, ctx, orphans>>
GetCurrentPool ==
    /\ Up /\ HandleDevicePool
    /\ \E p \in pools' : p.id = current_id' /\ p.pool = current
    /\ Remember(current_id')
    /\ UNCHANGED <<session, addresses, ctx, orphans>>

\* pool_create_locked
PoolCreate(n) ==
    /\ Up /\ handle_next < MAX_POOL_HANDLES
    /\ HandlePoolCreate(n) /\ Remember(next_pool_id)
    /\ UNCHANGED <<session, addresses, ctx, orphans>>

\* set_device_pool_locked, pool_attribute_locked, pool_destroy_locked
PoolCall(id) ==
    /\ Up /\ id \in handles /\ HasPool(id)
    /\ \/ (HandleSetPool(Pool(id)) \/ HandleSetAttribute(Pool(id))) /\ UNCHANGED handled
       \/ HandlePoolDestroy(Pool(id), TRUE) /\ handles' = handles \ {id}
                                            /\ UNCHANGED handle_next
       \/ HandlePoolDestroy(Pool(id), FALSE) /\ UNCHANGED handled
    /\ UNCHANGED <<session, addresses, ctx, orphans>>

SetDeviceFlags ==
    /\ Up /\ HandleSetDeviceFlags
    /\ UNCHANGED <<session, addresses, handled, orphans>>
-----------------------------------------------------------------------------
(* Sessions.                                                                 *)

\* ensure_runtime; the connection waits in the backlog until the server
\* accepts it.
EnsureRuntime ==
    /\ conn = "none" /\ phase = "listening" /\ next_gen <= MaxGen
    /\ next_gen' = next_gen + 1
    /\ conn' = "up" /\ phase' = "serving"
    /\ UNCHANGED <<unsynced, addresses, handled, memory, pooled, ctx, orphans>>

\* mark_session_failed_locked, and the end of corexRemoteRuntimeShutdown_locked.
\* The cursor of the arena and the handle table are kept.
ForgetSession ==
    /\ slots' = {} /\ orphans' = {} /\ handles' = {} /\ conn' = "none"
    /\ UNCHANGED <<va_next, issued, handle_next, next_gen>>

Handled ==
    \/ \E n \in Sizes, m \in Pick : HandleAlloc(n, m) /\ UNCHANGED ctx
    \/ \E n \in Sizes, m \in Pick : HandleAllocAsync(n, m, FALSE) /\ UNCHANGED ctx
    \/ \E a \in allocs : HandleFree(a) /\ UNCHANGED ctx
    \/ \E a \in allocs, q \in Queues :
          /\ HandleSubmit(a, q) \/ (Ordered(a, q) /\ HandleFreeAsync(a, q))
          /\ UNCHANGED ctx
    \/ \E n \in NativePools : HandlePoolCreate(n) /\ UNCHANGED ctx
    \/ \E p \in pools : /\ \/ HandleSetPool(p)
                           \/ HandleSetAttribute(p)
                           \/ \E done \in BOOLEAN : HandlePoolDestroy(p, done)
                        /\ UNCHANGED ctx
    \/ HandleSetDeviceFlags

\* rpc: a handler ran and its reply does not arrive, or the server closes.
LostReply ==
    /\ Up /\ Handled /\ ForgetSession /\ UNCHANGED <<phase, unsynced>>

\* The connection breaks while no call is on its way; the client finds out
\* with the next call.
Disconnect ==
    /\ Up /\ conn' = "broken"
    /\ UNCHANGED <<next_gen, phase, unsynced, addresses, handled, memory, pooled, ctx, orphans>>
NoticeLoss ==
    /\ conn = "broken" /\ ForgetSession
    /\ UNCHANGED <<phase, unsynced, memory, pooled, ctx>>

\* corexRemoteRuntimeShutdown_locked, OP_CLOSE and the end of serve_session.
Shutdown ==
    /\ Up /\ ForgetSession /\ phase' = "streams"
    /\ UNCHANGED <<unsynced, memory, pooled, ctx>>

\* Fault: only a closed connection ends the session.
EndWhenClosed ==
    /\ phase = "serving" /\ conn = "none" /\ phase' = "streams"
    /\ UNCHANGED <<cvars, unsynced, memory, pooled, ctx, orphans>>

\* serve_session: recv_all fails.
EndServing ==
    /\ phase = "serving" /\ conn # "up" /\ phase' = "streams"
    /\ UNCHANGED <<cvars, unsynced, memory, pooled, ctx, orphans>>
-----------------------------------------------------------------------------
(* cleanup_session and the end of the accept loop, and the device. An error  *)
(* of the driver is logged and the cleanup goes on.                          *)

\* Every explicit stream is synchronised, then destroyed.
SyncStreams ==
    /\ phase = "streams" /\ queue["stream"] = <<>> /\ phase' = "context"
    /\ UNCHANGED <<cvars, unsynced, memory, pooled, ctx, orphans>>

\* Fault: work on the default stream is not waited for.
SkipContext ==
    /\ phase = "context" /\ phase' = "release"
    /\ UNCHANGED <<cvars, unsynced, memory, pooled, ctx, orphans>>

\* The synchronisation of the context covers the default stream.
SyncContext ==
    /\ phase = "context" /\ phase' = "release"
    /\ ctx => \A q \in Queues : queue[q] = <<>>
    /\ UNCHANGED <<cvars, unsynced, memory, pooled, ctx, orphans>>

\* Either synchronisation fails: what was submitted may still be running.
SyncFails ==
    /\ ctx
    /\ \/ phase = "streams" /\ phase' = "context" /\ UNCHANGED unsynced
       \/ phase = "context" /\ phase' = "release" /\ unsynced' = TRUE
    /\ UNCHANGED <<cvars, memory, pooled, ctx, orphans>>

\* Every entry is freed and forgotten; the frees of some may be refused.
ReleaseAllocations ==
    /\ phase = "release" /\ phase' = "restore"
    /\ allocs' = {}
    /\ \E freed \in SUBSET {a.mem : a \in allocs} : storage' = storage \ freed
    /\ UNCHANGED <<cvars, unsynced, next_alloc_id, queue, pooled, ctx, orphans>>

\* Fault: a default pool that is selected is taken to be unchanged.
RestoreSelection ==
    /\ phase = "restore" /\ phase' = "destroy"
    /\ \/ default_id \in {0, current_id} /\ UNCHANGED <<current, threshold, unrestored>>
       \/ /\ default_id \notin {0, current_id}
          /\ current' = DevicePool /\ threshold' = saved /\ UNCHANGED unrestored
    /\ UNCHANGED <<cvars, unsynced, memory, pools, next_pool_id, default_id, current_id,
                   saved, native, undestroyed, ctx, orphans>>

\* The default pool is selected again and its attributes are written back, each
\* whether or not the other succeeds.
RestoreDefaultPool ==
    /\ phase = "restore" /\ phase' = "destroy"
    /\ \/ default_id = 0 /\ UNCHANGED <<current, threshold, unrestored>>
       \/ /\ default_id # 0
          /\ current' \in {current, DevicePool}
          /\ \/ threshold' = saved /\ UNCHANGED unrestored
             \/ unrestored' = TRUE /\ UNCHANGED threshold
    /\ UNCHANGED <<cvars, unsynced, memory, pools, next_pool_id, default_id, current_id,
                   saved, native, undestroyed, ctx, orphans>>

CustomPools == {p.pool : p \in pools} \ {DevicePool}

\* The custom pools are destroyed, unless the driver refuses, and the tables are
\* emptied.
DestroyPools ==
    /\ phase = "destroy" /\ phase' = "reset"
    /\ \E left \in SUBSET CustomPools : /\ native' = native \ (CustomPools \ left)
                                        /\ undestroyed' = undestroyed \cup left
    /\ pools' = {} /\ next_pool_id' = 1 /\ next_alloc_id' = 1
    /\ default_id' = 0 /\ current_id' = 0 /\ saved' = "none"
    /\ UNCHANGED <<cvars, unsynced, allocs, storage, queue, current, threshold,
                   unrestored, ctx, orphans>>

\* main: a fresh context, or the end of the server. The old context takes its
\* storage, its work and the selection of a pool with it.
ResetContext ==
    /\ phase = "reset"
    /\ \/ ctx /\ phase' = "listening" /\ UNCHANGED ctx
       \/ phase' = "stopped" /\ ctx' = FALSE
    /\ storage' = {} /\ queue' = [q \in Queues |-> <<>>] /\ unsynced' = FALSE
    /\ current' = DevicePool
    /\ UNCHANGED <<cvars, allocs, next_alloc_id, pools, next_pool_id, default_id,
                   current_id, saved, native, threshold, unrestored, undestroyed,
                   orphans>>

\* The device takes the first piece of work of a stream.
DeviceStep(q) ==
    /\ queue[q] # <<>>
    /\ queue' = [queue EXCEPT ![q] = Tail(@)]
    /\ storage' = IF Head(queue[q]).op = "free" THEN storage \ {Head(queue[q]).mem}
                                                ELSE storage
    /\ UNCHANGED <<cvars, phase, unsynced, allocs, next_alloc_id, pooled, ctx, orphans>>
-----------------------------------------------------------------------------
Call ==
    \/ \E n \in Sizes, m \in Pick : Malloc(n, m)
    \/ \E n \in Sizes, m \in Pick, explicit \in BOOLEAN : MallocAsync(n, m, explicit)
    \/ \E w, h \in Sizes, p \in Pitches, m \in Pick : MallocPitch(w, h, p, m)
    \/ MallocRefused
    \/ \E s \in slots : Free(s) \/ \E q \in Queues : FreeAsync(s, q)
    \/ \E ptr \in 0 .. ARENA_BYTES, n \in Sizes, q \in Queues : Submit(ptr, n, q)
    \/ GetDefaultPool \/ GetCurrentPool
    \/ \E n \in NativePools : PoolCreate(n)
    \/ \E id \in handles : PoolCall(id)
    \/ SetDeviceFlags

Server ==
    \/ EndServing \/ SyncStreams \/ SyncContext \/ ReleaseAllocations
    \/ RestoreDefaultPool \/ DestroyPools \/ ResetContext

Next ==
    \/ EnsureRuntime \/ Call \/ LostReply \/ Disconnect \/ NoticeLoss \/ Shutdown
    \/ Server \/ SyncFails \/ \E q \in Queues : DeviceStep(q)

Spec == Init /\ [][Next]_vars

\* The server runs whenever it can, the device finishes what it was given; that
\* a synchronisation fails is never needed for progress.
FairSpec == Spec /\ WF_vars(Server) /\ \A q \in Queues : WF_vars(DeviceStep(q))
-----------------------------------------------------------------------------
\* A pointer denotes the storage of the server's entry with the id of its slot.
Denotes ==
    [r \in {RangeOf(s) : s \in {t \in slots : conn = "up"}} |->
       Entry((CHOOSE s \in slots : RangeOf(s) = r).id).mem]
Promise == INSTANCE PointerSpec WITH Address <- 0 .. ARENA_BYTES,
    Size <- Sizes \cup {p * h : p \in Pitches, h \in Sizes}, denotes <- Denotes

\* The arena, the slots, the server's table and the end of sessions together
\* implement the promise of PointerSpec: a pointer keeps its storage until it
\* is freed, no two pointers share one, and no address is issued twice.
PointersMean == Promise!PSpec

\* While the connection is up the client's slots and the server's table hold
\* the same ids with the same sizes, but for what a pitched allocation that did
\* not fit the arena left on the server (cudaMallocPitch_locked).
TablesAgree ==
    conn = "up" =>
      {[id |-> s.id, size |-> s.size] : s \in slots} =
      {[id |-> a.id, size |-> a.size] : a \in {b \in allocs : b.id \notin orphans}}

\* No storage is released while submitted work uses it, and none twice: FREE
\* waits for the context, FREE_ASYNC is ordered, cleanup_session synchronises
\* the streams and then the context before it frees. Only when the driver
\* failed the synchronisation of the context may a cleanup, until the reset,
\* have freed storage of work that had not ended.
WorkHasStorage ==
    unsynced \/
    \A q \in Queues, i \in 1 .. MaxWork :
       i \in DOMAIN queue[q] => queue[q][i].mem \in storage

\* The pool the server believes to be current is the one of the device, and
\* never one that was destroyed (handle_pool_destroy, handle_device_set_pool).
PoolsAgree ==
    phase = "serving" =>
      /\ current \in native \cup {DevicePool}
      /\ current_id # 0 => HasPool(current_id) /\ Pool(current_id).pool = current
      /\ conn = "up" => \A id \in handles : HasPool(id)

\* What survives the context is as the session found it: "mutable attributes
\* are restored" unless the driver refused to write them; nothing the session
\* allocated, orphans included, is left, and of its custom pools only those
\* whose destruction the driver refused.
NextSessionPristine ==
    phase = "listening" =>
      /\ storage = {} /\ native \subseteq undestroyed /\ current = DevicePool
      /\ unrestored \/ threshold = "original"

\* A session that ended is cleaned up: the server listens again or has stopped.
CleanupEnds == conn # "up" ~> phase \in {"listening", "stopped"}
=============================================================================
