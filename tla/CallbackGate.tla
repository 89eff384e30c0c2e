---------------------------- MODULE CallbackGate -----------------------------
(***************************************************************************)
(* The process-wide runtime mutex and the host-callback worker.            *)
(*                                                                         *)
(* Every entry point takes the runtime mutex and then waits, on one        *)
(* condition variable shared with the worker, until no host function is    *)
(* queued (corex_runtime_context_lock).  cudaLaunchHostFunc and            *)
(* cudaStreamAddCallback queue one function and return; the worker waits   *)
(* for the stream with the mutex held, runs the function without it and    *)
(* takes it again to open the gate.  pthread_cond_wait may wake without a  *)
(* broadcast.  Host functions make no runtime calls, as CUDA demands.      *)
(***************************************************************************)
EXTENDS Integers

CONSTANTS Threads,   \* application threads
          Worker,    \* host_callback_worker's thread
          Nobody     \* the mutex is free

ASSUME ThreadAssumption == Worker \notin Threads /\ Nobody \notin Threads \cup {Worker}

VARIABLES
    owner,      \* holder of context->mutex
    pc,         \* per application thread
    wpc,        \* the worker: "absent" until callback_worker_started
    pending,    \* context->callback_pending
    slot,       \* context->{host_function, stream_callback, callback_data}
    local,      \* the worker's copies of them and the status
    last,       \* the last submission or host function, in execution order
    owed        \* functions submitted and neither run nor skipped yet

vars == <<owner, pc, wpc, pending, slot, local, last, owed>>

Kinds == {"host", "stream"}   \* cudaLaunchHostFunc, cudaStreamAddCallback
NoFunction == [kind |-> "none", by |-> Nobody]
Functions == [kind : Kinds, by : Threads]
Event(what, f) == [what |-> what, fn |-> f]

Init ==
    /\ owner = Nobody
    /\ pc = [t \in Threads |-> "out"]
    /\ wpc = "absent"
    /\ pending = FALSE
    /\ slot = NoFunction
    /\ local = [fn |-> NoFunction, ok |-> TRUE]
    /\ last = Event("none", NoFunction)
    /\ owed = 0

\* Fault: the wakeup is lost.
NoBroadcast == UNCHANGED pc

\* pthread_cond_broadcast of the worker, for the application threads.
Broadcast == pc' = [t \in Threads |-> IF pc[t] = "waiting" THEN "woken" ELSE pc[t]]

\* Fault: only a worker that has just been created sees the submission.
WakeNewWorker == wpc' = IF wpc = "absent" THEN "locking" ELSE wpc

\* prepare_host_callback_worker_locked, and the submitter's broadcast.
WakeWorker == wpc' = IF wpc \in {"absent", "waiting"} THEN "locking" ELSE wpc

------------------------------------------------------------------------------
(* Application threads.                                                    *)

Call(t) ==
    /\ pc[t] = "out"
    /\ pc' = [pc EXCEPT ![t] = "locking"]
    /\ UNCHANGED <<owner, wpc, pending, slot, local, last, owed>>

\* Fault: an entry point that wakes up does not look at the flag again.
GateOnce(t) == ~pending \/ pc[t] = "woken"

\* The condition of the while loop in corex_runtime_context_lock.
GateOpen(t) == ~pending

\* corex_runtime_context_lock returns.
Enter(t) ==
    /\ pc[t] \in {"locking", "woken"} /\ owner = Nobody
    /\ GateOpen(t)
    /\ owner' = t
    /\ pc' = [pc EXCEPT ![t] = "inside"]
    /\ UNCHANGED <<wpc, pending, slot, local, last, owed>>

\* It takes the mutex, finds a function queued and gives the mutex up again.
WaitAtGate(t) ==
    /\ pc[t] \in {"locking", "woken"} /\ owner = Nobody
    /\ ~GateOpen(t)
    /\ pc' = [pc EXCEPT ![t] = "waiting"]
    /\ UNCHANGED <<owner, wpc, pending, slot, local, last, owed>>

\* pthread_cond_wait returns without a broadcast.
SpuriousWakeup(t) ==
    /\ pc[t] = "waiting"
    /\ pc' = [pc EXCEPT ![t] = "woken"]
    /\ UNCHANGED <<owner, wpc, pending, slot, local, last, owed>>

\* The body of any other entry point, and corex_runtime_context_unlock.
RuntimeCall(t) ==
    /\ pc[t] = "inside"
    /\ owner' = Nobody
    /\ pc' = [pc EXCEPT ![t] = "out"]
    /\ last' = Event("call", [kind |-> "none", by |-> t])
    /\ UNCHANGED <<wpc, pending, slot, local, owed>>

\* submit_host_callback_locked, with the worker started on first use, and
\* corex_runtime_context_unlock.
SubmitHostCallback(t, kind) ==
    LET f == [kind |-> kind, by |-> t] IN
    /\ pc[t] = "inside"
    /\ slot' = f
    /\ pending' = TRUE
    /\ WakeWorker
    /\ owner' = Nobody
    /\ pc' = [u \in Threads |-> IF u = t THEN "out"
                                ELSE IF pc[u] = "waiting" THEN "woken" ELSE pc[u]]
    /\ last' = Event("submit", f)
    /\ owed' = owed + 1
    /\ UNCHANGED local

------------------------------------------------------------------------------
(* The worker.                                                             *)

\* Fault: a worker that wakes up takes the flag for granted.
WorkerLocksBlind ==
    /\ wpc = "locking" /\ owner = Nobody
    /\ owner' = Worker /\ wpc' = "sync"
    /\ UNCHANGED <<pc, pending, slot, local, last, owed>>

\* It takes the mutex and finds the flag set, or waits on the condition.
WorkerLocks ==
    /\ wpc = "locking" /\ owner = Nobody
    /\ IF pending THEN owner' = Worker /\ wpc' = "sync"
                  ELSE wpc' = "waiting" /\ UNCHANGED owner
    /\ UNCHANGED <<pc, pending, slot, local, last, owed>>

WorkerSpuriousWakeup ==
    /\ wpc = "waiting"
    /\ wpc' = "locking"
    /\ UNCHANGED <<owner, pc, pending, slot, local, last, owed>>

\* Fault: the gate opens before the function has run.
WorkerSyncOpensGate(ok) ==
    /\ wpc = "sync"
    /\ local' = [fn |-> slot, ok |-> ok]
    /\ owner' = Nobody
    /\ wpc' = "running"
    /\ pending' = FALSE
    /\ UNCHANGED <<pc, slot, last, owed>>

\* remote_stream_sync and the frontier drain succeed or fail; the function is
\* copied and the mutex released.
WorkerSync(ok) ==
    /\ wpc = "sync"
    /\ local' = [fn |-> slot, ok |-> ok]
    /\ owner' = Nobody
    /\ wpc' = "running"
    /\ UNCHANGED <<pc, pending, slot, last, owed>>

\* A stream callback always runs; a host function only if the stream is fine.
WorkerRun ==
    /\ wpc = "running"
    /\ last' = Event(IF local.fn.kind = "stream" \/ local.ok THEN "run" ELSE "skip",
                     local.fn)
    /\ owed' = owed - 1
    /\ wpc' = "relock"
    /\ UNCHANGED <<owner, pc, pending, slot, local>>

\* The gate opens, the fields are cleared and the loop waits again.
WorkerRetire ==
    /\ wpc = "relock" /\ owner = Nobody
    /\ pending' = FALSE
    /\ slot' = NoFunction
    /\ Broadcast
    /\ wpc' = "waiting"
    /\ UNCHANGED <<owner, local, last, owed>>

------------------------------------------------------------------------------
ThreadStep(t) ==
    \/ Enter(t) \/ WaitAtGate(t) \/ RuntimeCall(t)
    \/ \E kind \in Kinds : SubmitHostCallback(t, kind)

WorkerStep ==
    \/ WorkerLocks \/ WorkerRun \/ WorkerRetire
    \/ \E ok \in BOOLEAN : WorkerSync(ok)

Next ==
    \/ \E t \in Threads : Call(t) \/ ThreadStep(t) \/ SpuriousWakeup(t)
    \/ WorkerStep \/ WorkerSpuriousWakeup

Spec == Init /\ [][Next]_vars

\* Threads inside the runtime and the worker keep running, host functions
\* return, and the stream barrier answers.  No thread has to make calls.
FairSpec ==
    /\ Spec
    /\ WF_vars(WorkerStep)
    /\ \A t \in Threads : WF_vars(ThreadStep(t))

------------------------------------------------------------------------------
(* Properties.                                                             *)

\* Mutex owner, program counters, the gate and the queued function have their
\* types: whatever the worker runs or skips is a function some thread queued.
TypeOK ==
    /\ owner \in Threads \cup {Worker, Nobody}
    /\ pc \in [Threads -> {"out", "locking", "waiting", "woken", "inside"}]
    /\ wpc \in {"absent", "locking", "waiting", "sync", "running", "relock"}
    /\ pending \in BOOLEAN
    /\ slot \in Functions \cup {NoFunction}
    /\ local \in [fn : Functions \cup {NoFunction}, ok : BOOLEAN]
    /\ \/ last = Event("none", NoFunction)
       \/ \E t \in Threads : last = Event("call", [kind |-> "none", by |-> t])
       \/ last \in [what : {"submit", "run", "skip"}, fn : Functions]
    /\ owed \in Int

\* While user code runs on the worker no thread is inside the runtime, and
\* the worker itself does not hold the mutex.
RuntimeIdleDuringHost ==
    wpc = "running" => owner = Nobody /\ \A t \in Threads : pc[t] # "inside"

\* A queued function is neither lost nor run twice: the gate is open only
\* when every submitted function has been run or skipped exactly once.
OnePerSubmission ==
    /\ owed \in {0, 1}
    /\ owed = 1 => pending

\* Subsequent runtime calls cannot overtake a host function: what follows a
\* submission is that very function, on whatever thread the next call is.
NotOvertaken ==
    [][last' # last /\ last.what = "submit" =>
           last'.what \in {"run", "skip"} /\ last'.fn = last.fn]_vars

\* Every submitted function is eventually done with and the gate opens.
CallbackRetires == pending ~> ~pending

\* No thread is left asleep at the gate.
GateWakes == \A t \in Threads : pc[t] = "waiting" ~> pc[t] # "waiting"

==============================================================================
