-------------------------- MODULE CallbackGateProofs -------------------------
(***************************************************************************)
(* Proofs about CallbackGate, for any set of application threads.          *)
(***************************************************************************)
EXTENDS CallbackGate, TLAPS

\* The mutex is held exactly by the thread inside the runtime, or by the
\* worker while it waits for the stream.
OwnerAgrees ==
    /\ \A t \in Threads : owner = t <=> pc[t] = "inside"
    /\ owner = Worker <=> wpc = "sync"

\* A queued function closes the gate to everybody, and only the worker, once
\* awake, sees to it.
GateClosed ==
    /\ \A t \in Threads : pc[t] = "inside" => ~pending
    /\ wpc \in {"sync", "running", "relock"} => pending
    /\ pending => slot \in Functions
    /\ wpc = "running" => local.fn = slot

\* What is owed, and what the last event was meanwhile.
Owing ==
    /\ owed = IF pending /\ wpc # "relock" THEN 1 ELSE 0
    /\ owed = 1 => last = Event("submit", slot)
    /\ owed = 0 => last.what # "submit"

IInv == TypeOK /\ OwnerAgrees /\ GateClosed /\ Owing

\* The initial state satisfies the invariant.
LEMMA IInvInit == Init => IInv
<1> SUFFICES ASSUME Init PROVE IInv
  OBVIOUS
<1>1. TypeOK
  <2>1. local \in [fn : Functions \cup {NoFunction}, ok : BOOLEAN]
    BY Zenon DEF Init
  <2>2. /\ owner \in Threads \cup {Worker, Nobody}
        /\ pc \in [Threads -> {"out", "locking", "waiting", "woken", "inside"}]
        /\ wpc \in {"absent", "locking", "waiting", "sync", "running", "relock"}
        /\ slot \in Functions \cup {NoFunction} /\ owed \in Int
    BY DEF Init
  <2>3. pending \in BOOLEAN /\ last = Event("none", NoFunction)
    BY Zenon DEF Init
  <2> QED BY <2>1, <2>2, <2>3, Zenon DEF TypeOK
<1>2. OwnerAgrees
  BY ThreadAssumption DEF Init, OwnerAgrees
<1>3. GateClosed /\ Owing
  BY DEF Init, GateClosed, Owing, Event
<1> QED BY <1>1, <1>2, <1>3 DEF IInv

\* A step of an application thread keeps the invariant.
LEMMA ThreadKeeps ==
  ASSUME IInv, NEW t \in Threads, Call(t) \/ ThreadStep(t) \/ SpuriousWakeup(t)
  PROVE  IInv'
<1> USE ThreadAssumption DEF IInv
<1>1. CASE Call(t)
  <2>1. TypeOK' /\ OwnerAgrees'
    BY ZenonT(30), <1>1 DEF Call, TypeOK, OwnerAgrees
  <2>2. GateClosed' /\ Owing'
    BY <1>1 DEF Call, TypeOK, GateClosed, Owing
  <2> QED BY <2>1, <2>2
<1>2. CASE SpuriousWakeup(t)
  <2>1. TypeOK' /\ OwnerAgrees'
    BY <1>2 DEF SpuriousWakeup, TypeOK, OwnerAgrees
  <2>2. GateClosed' /\ Owing'
    BY <1>2 DEF SpuriousWakeup, TypeOK, GateClosed, Owing
  <2> QED BY <2>1, <2>2
<1>3. CASE Enter(t)
  BY <1>3 DEF Enter, GateOpen, TypeOK, OwnerAgrees, GateClosed, Owing
<1>4. CASE WaitAtGate(t)
  <2>1. TypeOK' /\ OwnerAgrees'
    BY <1>4 DEF WaitAtGate, TypeOK, OwnerAgrees
  <2>2. GateClosed' /\ Owing'
    BY <1>4 DEF WaitAtGate, TypeOK, GateClosed, Owing
  <2> QED BY <2>1, <2>2
<1>5. CASE RuntimeCall(t)
  <2>1. TypeOK'
    BY <1>5 DEF RuntimeCall, TypeOK
  <2>2. OwnerAgrees' /\ GateClosed'
    BY <1>5 DEF RuntimeCall, TypeOK, OwnerAgrees, GateClosed
  <2>3. Owing'
    BY <1>5 DEF RuntimeCall, TypeOK, GateClosed, Owing, Event
  <2> QED BY <2>1, <2>2, <2>3
<1>6. ASSUME NEW kind \in Kinds, SubmitHostCallback(t, kind)
      PROVE  IInv'
  <2> DEFINE f == [kind |-> kind, by |-> t]
  <2>1. f \in Functions
    BY DEF Functions
  <2>2. /\ pc[t] = "inside" /\ owner = t /\ ~pending /\ owed = 0
        /\ wpc \notin {"sync", "running", "relock"}
    BY <1>6 DEF SubmitHostCallback, OwnerAgrees, GateClosed, Owing
  <2>3. wpc' = "locking"
    BY <1>6, <2>2 DEF SubmitHostCallback, WakeWorker, TypeOK
  <2>4. /\ slot' = f /\ pending' = TRUE /\ owner' = Nobody
        /\ last' = Event("submit", f) /\ owed' = 1 /\ local' = local
    BY <1>6, <2>2 DEF SubmitHostCallback
  <2>5. \A u \in Threads : pc'[u] # "inside"
    BY <1>6, <2>2 DEF SubmitHostCallback, OwnerAgrees
  <2>6. pc' \in [Threads -> {"out", "locking", "waiting", "woken", "inside"}]
    BY <1>6 DEF SubmitHostCallback, TypeOK
  <2> HIDE DEF f
  <2>7. TypeOK'
    BY <2>1, <2>3, <2>4, <2>6 DEF TypeOK, Event
  <2>8. OwnerAgrees' /\ GateClosed'
    BY <2>1, <2>3, <2>4, <2>5 DEF OwnerAgrees, GateClosed
  <2>9. Owing'
    BY <2>3, <2>4 DEF Owing
  <2> QED BY <2>7, <2>8, <2>9
<1> QED BY <1>1, <1>2, <1>3, <1>4, <1>5, <1>6 DEF ThreadStep

\* A step of the worker keeps the invariant.
LEMMA WorkerKeeps ==
  ASSUME IInv, WorkerStep \/ WorkerSpuriousWakeup
  PROVE  IInv'
<1> USE ThreadAssumption DEF IInv
<1>1. CASE WorkerLocks
  BY <1>1 DEF WorkerLocks, TypeOK, OwnerAgrees, GateClosed, Owing
<1>2. CASE WorkerSpuriousWakeup
  BY <1>2 DEF WorkerSpuriousWakeup, TypeOK, OwnerAgrees, GateClosed, Owing
<1>3. ASSUME NEW ok \in BOOLEAN, WorkerSync(ok) PROVE IInv'
  <2>1. TypeOK'
    BY <1>3 DEF WorkerSync, TypeOK
  <2>2. OwnerAgrees' /\ GateClosed' /\ Owing'
    BY <1>3 DEF WorkerSync, TypeOK, OwnerAgrees, GateClosed, Owing
  <2> QED BY <2>1, <2>2
<1>4. CASE WorkerRun
  <2>1. /\ local.fn \in Functions /\ owed = 1 /\ owed' = 0 /\ wpc' = "relock"
        /\ pending /\ UNCHANGED <<owner, pc, pending, slot, local>>
    BY <1>4 DEF WorkerRun, GateClosed, Owing
  <2>2. last'.what \in {"run", "skip"} /\ last' \in [what : {"run", "skip"}, fn : Functions]
    BY <1>4, <2>1 DEF WorkerRun, Event
  <2>3. TypeOK'
    BY <2>1, <2>2 DEF TypeOK
  <2>4. OwnerAgrees' /\ GateClosed' /\ Owing'
    BY <1>4, <2>1, <2>2 DEF WorkerRun, OwnerAgrees, GateClosed, Owing
  <2> QED BY <2>3, <2>4
<1>5. CASE WorkerRetire
  <2>1. /\ wpc = "relock" /\ wpc' = "waiting" /\ pending' = FALSE
        /\ slot' = NoFunction /\ UNCHANGED <<owner, local, last, owed>>
        /\ pc' = [t \in Threads |-> IF pc[t] = "waiting" THEN "woken" ELSE pc[t]]
    BY <1>5 DEF WorkerRetire, Broadcast
  <2>2. TypeOK'
    BY <2>1 DEF TypeOK
  <2>3. OwnerAgrees' /\ GateClosed' /\ Owing'
    BY <2>1 DEF TypeOK, OwnerAgrees, GateClosed, Owing
  <2> QED BY <2>2, <2>3
<1> QED BY <1>1, <1>2, <1>3, <1>4, <1>5 DEF WorkerStep

\* Every step keeps the invariant.
LEMMA IInvNext == IInv /\ [Next]_vars => IInv'
<1>1. ASSUME IInv, UNCHANGED vars PROVE IInv'
  BY <1>1 DEF vars, IInv, TypeOK, OwnerAgrees, GateClosed, Owing
<1> QED BY <1>1, ThreadKeeps, WorkerKeeps DEF Next

\* The inductive invariant holds of every reachable state.
THEOREM Invariance == Spec => []IInv
<1>1. Init => IInv
  BY IInvInit
<1>2. IInv /\ [Next]_vars => IInv'
  BY IInvNext
<1> QED BY <1>1, <1>2, PTL DEF Spec

\* The mutex, the gate and the worker's fields always have their types.
THEOREM TypeCorrect == Spec => []TypeOK
  BY Invariance, PTL DEF IInv

\* No thread is inside the runtime while user code runs on the worker.
THEOREM IdleDuringHost == Spec => []RuntimeIdleDuringHost
<1>1. IInv => RuntimeIdleDuringHost
  <2> SUFFICES ASSUME IInv, wpc = "running"
               PROVE  owner = Nobody /\ \A t \in Threads : pc[t] # "inside"
    BY DEF RuntimeIdleDuringHost
  <2>1. \A t \in Threads : pc[t] # "inside"
    BY DEF IInv, GateClosed
  <2> QED BY <2>1 DEF IInv, TypeOK, OwnerAgrees
<1> QED BY <1>1, Invariance, PTL

\* No queued host function is lost or run twice.
THEOREM ExactlyOnce == Spec => []OnePerSubmission
<1>1. IInv => OnePerSubmission
  BY DEF IInv, Owing, OnePerSubmission
<1> QED BY <1>1, Invariance, PTL

\* No runtime call of any thread overtakes a queued host function.
THEOREM NoOvertaking == Spec => NotOvertaken
<1>1. ASSUME IInv, [Next]_vars, last' # last, last.what = "submit"
      PROVE  last'.what \in {"run", "skip"} /\ last'.fn = last.fn
  <2>1. owed = 1 /\ pending /\ last = Event("submit", slot)
    BY <1>1 DEF IInv, Owing
  <2>2. \A t \in Threads : pc[t] # "inside"
    BY <1>1, <2>1 DEF IInv, GateClosed
  <2>3. WorkerRun
    BY <1>1, <2>2 DEF Next, ThreadStep, WorkerStep, Call, Enter, WaitAtGate,
                      RuntimeCall, SubmitHostCallback, SpuriousWakeup, WorkerLocks,
                      WorkerSpuriousWakeup, WorkerSync, WorkerRetire, vars
  <2> QED BY <1>1, <2>1, <2>3 DEF WorkerRun, Event, IInv, GateClosed
<1>2. IInv /\ [Next]_vars => [last' # last /\ last.what = "submit" =>
           last'.what \in {"run", "skip"} /\ last'.fn = last.fn]_vars
  BY <1>1
<1> QED BY <1>2, Invariance, PTL DEF Spec, NotOvertaken

==============================================================================
