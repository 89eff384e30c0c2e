------------------------- MODULE DeviceMemoryProofs -------------------------
(* Proofs about DeviceMemory, for every value of the constants. First the    *)
(* server's allocation table, the device's queues and the phases of          *)
(* cleanup_session: a queued free is the last word on its storage, so the    *)
(* device never takes storage from work or from a table entry                *)
(* (DeviceKeepsServer). Then the client's arena and slots, the agreement of  *)
(* both sides, the refinement of PointerSpec, and the pools: every step is   *)
(* classified by what it does to slots and entries, and the invariant and    *)
(* the refinement need one case for each class.                              *)
EXTENDS DeviceMemory, TLAPS

-----------------------------------------------------------------------------
(* The inductive invariant.                                                *)

\* The sizes an allocation may have: what is asked for, or pitch times height.
Lengths == Sizes \cup {p * h : p \in Pitches, h \in Sizes}
\* An entry of a device queue.
Work == [op : {"use", "free"}, mem : Storage]

\* The allocation table: ids are below the counter, storage is held, and no id and
\* no storage occurs twice.
Tables ==
    /\ next_alloc_id \in Nat
    /\ allocs \subseteq [id : Nat, size : Nat, mem : Storage]
    /\ \A a \in allocs : a.id < next_alloc_id /\ a.mem \in storage
    /\ \A a, b \in allocs : a.id = b.id \/ a.mem = b.mem => a = b

\* A queued free is the last word on its storage: no table entry names it, and
\* all work on it is at or before that place of that queue.
FreeIsLast(q, i) ==
    /\ \A a \in allocs : a.mem # queue[q][i].mem
    /\ \A r \in Queues : \A j \in DOMAIN queue[r] :
          queue[r][j].mem = queue[q][i].mem => r = q /\ j <= i

\* Queued work has its storage, and queued frees are final.
Queued ==
    /\ queue \in [Queues -> Seq(Work)]
    /\ \A q \in Queues : \A i \in DOMAIN queue[q] :
          /\ queue[q][i].mem \in storage
          /\ queue[q][i].op = "free" => FreeIsLast(q, i)

\* Work that the failed synchronisation of the context left behind, after the
\* allocations were freed; the reset ends it.
Abandoned ==
    /\ unsynced /\ phase \in {"restore", "destroy", "reset"}
    /\ queue \in [Queues -> Seq(Work)]

\* What cleanup_session has done by each phase, and a lost context owns nothing.
Phases ==
    /\ phase \in {"restore", "destroy", "reset", "listening", "stopped"} => allocs = {}
    /\ (phase = "release" /\ ~unsynced) \/ ~ctx => \A q \in Queues : queue[q] = <<>>
    /\ ~ctx => allocs = {}

\* The span that prepare_linear_identity reserves is larger than the allocation:
\* align_up_size rounds up and the guard follows.
LEMMA SpanGuards ==
    ASSUME NEW n \in Nat
    PROVE  SpanOf(n) \in Nat /\ n < SpanOf(n)
<1>1. /\ ALIGNMENT \in Nat /\ ALIGNMENT > 0
      /\ GUARD_BYTES \in Nat /\ GUARD_BYTES > 0
  BY ArenaAssumption
<1>2. ASSUME NEW x \in Nat, NEW d \in Nat, d > 0
      PROVE (x \div d) \in Nat /\ (x \div d) * d \in Nat /\ x < (x \div d) * d + d
  <2>1. x \div d \in Nat /\ x = d * (x \div d) + (x % d) /\ x % d \in 0 .. d - 1
    BY <1>2
  <2> DEFINE y == x \div d
  <2> HIDE DEF y
  <2>2. y \in Nat /\ d * y = y * d /\ y * d \in Nat
    BY <2>1, <1>2 DEF y
  <2> QED BY <2>1, <2>2, <1>2 DEF y
<1>3. n + ALIGNMENT - 1 \in Nat
  BY <1>1
<1>4. AlignUp(n) \in Nat /\ n <= AlignUp(n)
  <2> DEFINE z == ((n + ALIGNMENT - 1) \div ALIGNMENT) * ALIGNMENT
  <2>1. z \in Nat /\ n + ALIGNMENT - 1 < z + ALIGNMENT
    BY Zenon, <1>1, <1>2, <1>3
  <2> HIDE DEF z
  <2>2. n <= z
    BY <2>1, <1>1
  <2> QED BY Zenon, <2>1, <2>2 DEF AlignUp, z
<1> QED BY <1>1, <1>4 DEF SpanOf

\* Allocation sizes are positive (handle_alloc refuses 0).
LEMMA LengthsAreNat == Lengths \subseteq Nat \ {0}
<1>1. Sizes \subseteq Nat \ {0} /\ Pitches \subseteq Nat \ {0}
  BY Zenon, ArenaAssumption
<1>2. \A p, h \in Nat \ {0} : p * h \in Nat \ {0}
  OBVIOUS
<1> SUFFICES ASSUME NEW n \in Lengths PROVE n \in Nat \ {0}
  OBVIOUS
<1>3. CASE n \in Sizes
  BY Zenon, <1>1, <1>3
<1>4. CASE \E p \in Pitches, h \in Sizes : n = p * h
  BY <1>1, <1>2, <1>4, Zenon
<1> QED BY <1>3, <1>4 DEF Lengths

\* The driver hands out storage that is not in use.
LEMMA Picked ==
    ASSUME NEW m \in Pick
    PROVE  m \in Storage /\ m \notin storage
<1>1. FreshStorage # {}
  BY Zenon DEF Pick
<1>2. \E x \in Storage : x \notin storage
  BY Zenon, <1>1 DEF FreshStorage
<1>3. m = CHOOSE x \in Storage : x \notin storage
  BY Zenon, <1>1 DEF Pick
<1> QED BY Zenon, <1>2, <1>3

-----------------------------------------------------------------------------
(* Server steps, one lemma for each kind.                                  *)

\* A submission appends to one queue and leaves the rest of it in place.
LEMMA Enqueued ==
    ASSUME queue \in [Queues -> Seq(Work)], NEW q \in Queues, NEW w \in Work,
           queue' = [queue EXCEPT ![q] = Append(@, w)]
    PROVE  /\ queue' \in [Queues -> Seq(Work)]
           /\ \A j \in DOMAIN queue[q] : j <= Len(queue[q])
           /\ \A r \in Queues : \A j \in DOMAIN queue'[r] :
                 \/ j \in DOMAIN queue[r] /\ queue'[r][j] = queue[r][j]
                 \/ r = q /\ j = Len(queue[q]) + 1 /\ queue'[r][j] = w
<1>1. queue[q] \in Seq(Work) /\ queue'[q] = Append(queue[q], w)
  OBVIOUS
<1>2. queue' \in [Queues -> Seq(Work)]
  BY <1>1
<1>3. \A j \in DOMAIN queue[q] : j <= Len(queue[q])
  BY <1>1
<1>4. ASSUME NEW r \in Queues, NEW j \in DOMAIN queue'[r]
      PROVE  \/ j \in DOMAIN queue[r] /\ queue'[r][j] = queue[r][j]
             \/ r = q /\ j = Len(queue[q]) + 1 /\ queue'[r][j] = w
  <2>1. CASE r = q
    BY <1>1, <1>4, <2>1
  <2>2. CASE r # q
    BY Zenon, <1>4, <2>2
  <2> QED BY Zenon, <2>1, <2>2
<1> QED BY Zenon, <1>2, <1>3, <1>4

\* The device takes the head of one queue; the rest of that queue moves up.
LEMMA Dequeued ==
    ASSUME queue \in [Queues -> Seq(Work)], NEW q \in Queues, queue[q] # <<>>,
           queue' = [queue EXCEPT ![q] = Tail(@)]
    PROVE  /\ queue' \in [Queues -> Seq(Work)]
           /\ 1 \in DOMAIN queue[q] /\ queue[q][1] = Head(queue[q])
           /\ \A j \in DOMAIN queue'[q] : /\ j \in Nat /\ j >= 1
                                          /\ j + 1 \in DOMAIN queue[q]
                                          /\ queue'[q][j] = queue[q][j + 1]
           /\ \A r \in Queues \ {q} : queue'[r] = queue[r]
<1>1. queue[q] \in Seq(Work) /\ queue'[q] = Tail(queue[q])
  OBVIOUS
<1>2. queue' \in [Queues -> Seq(Work)]
  BY <1>1
<1>3. 1 \in DOMAIN queue[q] /\ queue[q][1] = Head(queue[q])
  BY <1>1
<1>4. \A j \in DOMAIN queue'[q] : /\ j \in Nat /\ j >= 1
                                  /\ j + 1 \in DOMAIN queue[q]
                                  /\ queue'[q][j] = queue[q][j + 1]
  BY <1>1
<1> QED BY Zenon, <1>2, <1>3, <1>4

\* A successful allocation of any kind (handle_alloc, handle_alloc_pitched,
\* allocate_async) keeps the table and the queues in order.
LEMMA AllocKeepsServer ==
    ASSUME Tables, Queued, Phases, NEW n \in Nat, NEW m \in Pick, phase = "serving",
           NewAllocation(n, m), UNCHANGED <<queue, ctx, phase>>
    PROVE  Tables' /\ Queued' /\ Phases'
<1> DEFINE a == [id |-> next_alloc_id, size |-> n, mem |-> m]
<1>1. m \in Storage /\ m \notin storage
  BY Zenon, Picked
<1>2. /\ allocs' = allocs \cup {a} /\ next_alloc_id' = next_alloc_id + 1
      /\ storage' = storage \cup {m} /\ ctx
  BY Zenon DEF NewAllocation
<1>3. a \in [id : Nat, size : Nat, mem : Storage] /\ a.id = next_alloc_id /\ a.mem = m
  BY Zenon, <1>1 DEF Tables
<1> HIDE DEF a
<1>4. Tables'
  BY <1>1, <1>2, <1>3 DEF Tables
<1>5. Queued'
  <2>1. queue' \in [Queues -> Seq(Work)]
    BY Zenon DEF Queued
  <2>2. ASSUME NEW q \in Queues, NEW i \in DOMAIN queue[q]
        PROVE  queue[q][i].mem \in storage'
    BY Zenon, <1>2, <2>2 DEF Queued
  <2>3. ASSUME NEW q \in Queues, NEW i \in DOMAIN queue[q], queue[q][i].op = "free"
        PROVE  FreeIsLast(q, i)'
    <3>1. FreeIsLast(q, i) /\ queue[q][i].mem # m
      BY Zenon, <1>1, <2>3 DEF Queued
    <3> QED BY Zenon, <3>1, <1>2, <1>3 DEF FreeIsLast
  <2> QED BY Zenon, <2>1, <2>2, <2>3 DEF Queued
<1>6. Phases'
  BY Zenon, <1>2 DEF Phases
<1> QED BY Zenon, <1>4, <1>5, <1>6

\* So does a refused one, which spends an id and may leave storage behind.
LEMMA RefusalKeepsServer ==
    ASSUME Tables, Queued, Phases, phase = "serving", next_alloc_id' = next_alloc_id + 1,
           storage \subseteq storage', UNCHANGED <<allocs, queue, ctx, phase>>
    PROVE  Tables' /\ Queued' /\ Phases'
<1>1. Tables'
  BY DEF Tables
<1>2. Queued'
  BY Zenon DEF Queued, FreeIsLast
<1>3. Phases'
  BY Zenon DEF Phases
<1> QED BY Zenon, <1>1, <1>2, <1>3

\* handle_free: behind its barrier the queues are empty.
LEMMA FreeKeepsServer ==
    ASSUME Tables, Queued, Phases, NEW a \in allocs, HandleFree(a), UNCHANGED <<ctx, phase>>
    PROVE  Tables' /\ Queued' /\ Phases'
<1>1. /\ \A q \in Queues : queue[q] = <<>>
      /\ allocs' = allocs \ {a} /\ storage' = storage \ {a.mem}
      /\ next_alloc_id' = next_alloc_id /\ queue' = queue
  BY Zenon DEF HandleFree
<1>2. Tables'
  BY Zenon, <1>1 DEF Tables
<1>3. Queued'
  BY <1>1 DEF Queued
<1>4. Phases'
  BY Zenon, <1>1 DEF Phases
<1> QED BY Zenon, <1>2, <1>3, <1>4

\* handle_free_async: the program has ordered the free after the uses on other
\* streams, and its own stream runs them first.
LEMMA FreeAsyncKeepsServer ==
    ASSUME Tables, Queued, Phases, NEW a \in allocs, NEW q \in Queues, Ordered(a, q),
           HandleFreeAsync(a, q), phase = "serving", UNCHANGED <<ctx, phase>>
    PROVE  Tables' /\ Queued' /\ Phases'
<1> DEFINE w == [op |-> "free", mem |-> a.mem]
<1>1. /\ allocs' = allocs \ {a} /\ next_alloc_id' = next_alloc_id /\ storage' = storage
      /\ queue' = [queue EXCEPT ![q] = Append(@, w)]
  BY Zenon DEF HandleFreeAsync, Enqueue
<1>2. w \in Work /\ w.mem = a.mem /\ w.op = "free" /\ a.mem \in storage
  BY Zenon DEF Tables, Work
<1> HIDE DEF w
<1>3. /\ queue' \in [Queues -> Seq(Work)]
      /\ \A j \in DOMAIN queue[q] : j <= Len(queue[q])
      /\ \A r \in Queues : \A j \in DOMAIN queue'[r] :
            \/ j \in DOMAIN queue[r] /\ queue'[r][j] = queue[r][j]
            \/ r = q /\ j = Len(queue[q]) + 1 /\ queue'[r][j] = w
  BY Zenon, <1>1, <1>2, Enqueued DEF Queued
<1>4. Tables'
  BY Zenon, <1>1 DEF Tables
<1>5. ASSUME NEW r \in Queues, NEW j \in DOMAIN queue[r], queue[r][j].mem = a.mem
      PROVE  r = q /\ j <= Len(queue[q])
  <2>1. queue[r][j].op # "free"
    BY <1>5 DEF Queued, FreeIsLast
  <2>2. queue[r][j] \in Work
    BY <1>5 DEF Queued
  <2>3. queue[r][j].op = "use"
    BY Zenon, <2>1, <2>2 DEF Work
  <2>4. a.mem \in Uses(r)
    BY Zenon, <1>5, <2>3 DEF Uses
  <2>5. r = q
    BY Zenon, <2>4 DEF Ordered
  <2> QED BY Zenon, <1>3, <2>5
<1>6. ASSUME NEW r \in Queues, NEW i \in DOMAIN queue'[r]
      PROVE  queue'[r][i].mem \in storage' /\ (queue'[r][i].op = "free" => FreeIsLast(r, i)')
  <2>1. CASE i \in DOMAIN queue[r] /\ queue'[r][i] = queue[r][i]
    <3>1. queue'[r][i].mem \in storage'
      BY Zenon, <1>1, <2>1 DEF Queued
    <3>2. ASSUME queue'[r][i].op = "free" PROVE FreeIsLast(r, i)'
      <4>1. FreeIsLast(r, i)
        BY Zenon, <2>1, <3>2 DEF Queued
      <4>2. a.mem # queue'[r][i].mem
        BY Zenon, <4>1, <2>1 DEF FreeIsLast
      <4> QED BY <4>1, <4>2, <1>1, <1>2, <1>3, <2>1 DEF FreeIsLast
    <3> QED BY Zenon, <3>1, <3>2
  <2>2. CASE r = q /\ i = Len(queue[q]) + 1 /\ queue'[r][i] = w
    <3>1. \A b \in allocs' : b.mem # queue'[r][i].mem
      BY <1>1, <1>2, <2>2 DEF Tables
    <3>2. ASSUME NEW s \in Queues, NEW j \in DOMAIN queue'[s],
                 queue'[s][j].mem = queue'[r][i].mem
          PROVE  s = r /\ j <= i
      <4>1. CASE j \in DOMAIN queue[s] /\ queue'[s][j] = queue[s][j]
        <5>1. s = q /\ j <= Len(queue[q]) /\ j \in DOMAIN queue[q]
          BY Zenon, <1>2, <1>5, <2>2, <3>2, <4>1
        <5>2. queue[q] \in Seq(Work)
          BY Zenon DEF Queued
        <5> QED BY <5>1, <5>2, <2>2
      <4>2. CASE s = q /\ j = Len(queue[q]) + 1
        <5>1. queue[q] \in Seq(Work)
          BY Zenon DEF Queued
        <5> QED BY <4>2, <2>2, <5>1
      <4> QED BY Zenon, <1>3, <3>2, <4>1, <4>2
    <3> QED BY <1>1, <1>2, <2>2, <3>1, <3>2 DEF FreeIsLast
  <2> QED BY Zenon, <1>3, <1>6, <2>1, <2>2
<1>7. Queued'
  BY Zenon, <1>3, <1>6 DEF Queued
<1>8. Phases'
  BY Zenon, <1>1 DEF Phases
<1> QED BY Zenon, <1>4, <1>7, <1>8

\* Work is submitted only on storage that a table entry holds, hence on none that
\* a queued free will release.
LEMMA SubmitKeepsServer ==
    ASSUME Tables, Queued, Phases, NEW a \in allocs, NEW q \in Queues,
           HandleSubmit(a, q), phase = "serving", UNCHANGED <<ctx, phase>>
    PROVE  Tables' /\ Queued' /\ Phases'
<1> DEFINE w == [op |-> "use", mem |-> a.mem]
<1>1. /\ allocs' = allocs /\ next_alloc_id' = next_alloc_id /\ storage' = storage
      /\ queue' = [queue EXCEPT ![q] = Append(@, w)]
  BY Zenon DEF HandleSubmit, Enqueue
<1>2. w \in Work /\ w.mem = a.mem /\ w.op # "free" /\ a.mem \in storage
  BY Zenon DEF Tables, Work
<1> HIDE DEF w
<1>3. /\ queue' \in [Queues -> Seq(Work)]
      /\ \A r \in Queues : \A j \in DOMAIN queue'[r] :
            \/ j \in DOMAIN queue[r] /\ queue'[r][j] = queue[r][j]
            \/ r = q /\ j = Len(queue[q]) + 1 /\ queue'[r][j] = w
  BY Zenon, <1>1, <1>2, Enqueued DEF Queued
<1>4. ASSUME NEW r \in Queues, NEW i \in DOMAIN queue'[r]
      PROVE  queue'[r][i].mem \in storage' /\ (queue'[r][i].op = "free" => FreeIsLast(r, i)')
  <2>1. CASE i \in DOMAIN queue[r] /\ queue'[r][i] = queue[r][i]
    <3>1. queue'[r][i].mem \in storage'
      BY Zenon, <1>1, <2>1 DEF Queued
    <3>2. ASSUME queue'[r][i].op = "free" PROVE FreeIsLast(r, i)'
      <4>1. FreeIsLast(r, i) /\ a.mem # queue'[r][i].mem
        BY <2>1, <3>2 DEF Queued, FreeIsLast
      <4> QED BY <4>1, <1>1, <1>2, <1>3, <2>1 DEF FreeIsLast
    <3> QED BY Zenon, <3>1, <3>2
  <2>2. CASE queue'[r][i] = w
    BY <1>1, <1>2, <2>2
  <2> QED BY Zenon, <1>3, <1>4, <2>1, <2>2
<1>5. Queued'
  BY Zenon, <1>3, <1>4 DEF Queued
<1>6. Tables' /\ Phases'
  BY Zenon, <1>1 DEF Tables, Phases
<1> QED BY Zenon, <1>5, <1>6

\* handle_set_device_flags recreates a context that owns nothing.
LEMMA FlagsKeepServer ==
    ASSUME Tables, Queued, Phases, HandleSetDeviceFlags, UNCHANGED phase
    PROVE  Tables' /\ Queued' /\ Phases'
<1>1. /\ allocs = {} /\ allocs' = {} /\ next_alloc_id' = next_alloc_id
      /\ queue' = [q \in Queues |-> <<>>]
  BY Zenon DEF HandleSetDeviceFlags
<1>2. <<>> \in Seq(Work) /\ DOMAIN <<>> = {}
  OBVIOUS
<1>3. queue' \in [Queues -> Seq(Work)] /\ \A q \in Queues : DOMAIN queue'[q] = {}
  BY Zenon, <1>1, <1>2
<1>4. Tables' /\ Phases'
  BY Zenon, <1>1 DEF Tables, Phases
<1>5. Queued'
  BY Zenon, <1>3 DEF Queued
<1> QED BY Zenon, <1>4, <1>5

\* cleanup_session frees the allocations when the queues are empty, or when the
\* synchronisation of the context has failed.
LEMMA ReleaseKeepsServer ==
    ASSUME Tables, Queued, Phases, ReleaseAllocations
    PROVE  Tables' /\ (Queued' \/ Abandoned') /\ Phases'
<1>1. /\ phase = "release" /\ phase' = "restore" /\ allocs' = {} /\ queue' = queue
      /\ next_alloc_id' = next_alloc_id /\ ctx' = ctx /\ unsynced' = unsynced
  BY Zenon DEF ReleaseAllocations
<1>2. Tables' /\ Phases'
  BY Zenon, <1>1 DEF Tables, Phases
<1>3. CASE unsynced
  BY Zenon, <1>1, <1>2, <1>3 DEF Queued, Abandoned
<1>4. CASE ~unsynced
  <2>1. \A q \in Queues : queue[q] = <<>>
    BY Zenon, <1>1, <1>4 DEF Phases
  <2>2. Queued'
    BY <1>1, <2>1 DEF Queued
  <2> QED BY Zenon, <1>2, <2>2
<1> QED BY Zenon, <1>3, <1>4

\* main resets the context after the tables have been emptied.
LEMMA ResetKeepsServer ==
    ASSUME Tables, Phases, ResetContext
    PROVE  Tables' /\ Queued' /\ Phases'
<1>1. /\ phase = "reset" /\ phase' \in {"listening", "stopped"} /\ allocs' = allocs
      /\ next_alloc_id' = next_alloc_id /\ queue' = [q \in Queues |-> <<>>]
  BY Zenon DEF ResetContext
<1>2. allocs = {}
  BY Zenon, <1>1 DEF Phases
<1>3. <<>> \in Seq(Work) /\ DOMAIN <<>> = {}
  OBVIOUS
<1>4. queue' \in [Queues -> Seq(Work)] /\ \A q \in Queues : DOMAIN queue'[q] = {}
  BY Zenon, <1>1, <1>3
<1>5. Tables' /\ Phases'
  BY Zenon, <1>1, <1>2 DEF Tables, Phases
<1>6. Queued'
  BY Zenon, <1>4 DEF Queued
<1> QED BY Zenon, <1>5, <1>6

\* The device consumes the head of a queue; if it is a free, no later work and no
\* table entry names that storage.
LEMMA DeviceKeepsServer ==
    ASSUME Tables, Queued, Phases, NEW q \in Queues, DeviceStep(q)
    PROVE  Tables' /\ Queued' /\ Phases'
<1> DEFINE h == queue[q][1]
<1>1. /\ queue[q] # <<>> /\ queue' = [queue EXCEPT ![q] = Tail(@)]
      /\ allocs' = allocs /\ next_alloc_id' = next_alloc_id /\ ctx' = ctx /\ phase' = phase
      /\ unsynced' = unsynced
      /\ storage' = IF Head(queue[q]).op = "free" THEN storage \ {Head(queue[q]).mem}
                                                  ELSE storage
  BY Zenon DEF DeviceStep
<1>2. /\ queue' \in [Queues -> Seq(Work)]
      /\ 1 \in DOMAIN queue[q] /\ h = Head(queue[q])
      /\ \A j \in DOMAIN queue'[q] : /\ j \in Nat /\ j >= 1
                                     /\ j + 1 \in DOMAIN queue[q]
                                     /\ queue'[q][j] = queue[q][j + 1]
      /\ \A r \in Queues \ {q} : queue'[r] = queue[r]
  BY Zenon, <1>1, Dequeued DEF Queued
<1>3. h.op = "free" => FreeIsLast(q, 1)
  BY Zenon, <1>2 DEF Queued
<1>4. Tables'
  <2>1. \A a \in allocs : a.mem \in storage'
    BY Zenon, <1>1, <1>2, <1>3 DEF Tables, FreeIsLast
  <2> QED BY Zenon, <2>1, <1>1 DEF Tables
<1>5. ASSUME NEW r \in Queues, NEW i \in DOMAIN queue'[r]
      PROVE  \E k \in DOMAIN queue[r] : /\ queue'[r][i] = queue[r][k]
                                        /\ k = IF r = q THEN i + 1 ELSE i
  BY Zenon, <1>2, <1>5
<1>6. ASSUME NEW r \in Queues, NEW i \in DOMAIN queue'[r]
      PROVE  queue'[r][i].mem \in storage' /\ (queue'[r][i].op = "free" => FreeIsLast(r, i)')
  <2>1. PICK k \in DOMAIN queue[r] : queue'[r][i] = queue[r][k] /\ k = IF r = q THEN i + 1 ELSE i
    BY Zenon, <1>5, <1>6
  <2>2. queue[r][k].mem \in storage
    BY Zenon DEF Queued
  <2>3. h.op = "free" => queue[r][k].mem # h.mem
    BY SMTT(30), <1>2, <1>3, <1>6, <2>1 DEF FreeIsLast
  <2>4. queue'[r][i].mem \in storage'
    BY Zenon, <1>1, <1>2, <2>1, <2>2, <2>3
  <2>5. ASSUME queue'[r][i].op = "free" PROVE FreeIsLast(r, i)'
    <3>1. FreeIsLast(r, k)
      BY Zenon, <2>1, <2>5 DEF Queued
    <3>2. ASSUME NEW s \in Queues, NEW j \in DOMAIN queue'[s],
                 queue'[s][j].mem = queue'[r][i].mem
          PROVE  s = r /\ j <= i
      <4>1. PICK l \in DOMAIN queue[s] : queue'[s][j] = queue[s][l] /\ l = IF s = q THEN j + 1 ELSE j
        BY Zenon, <1>5, <3>2
      <4>2. s = r /\ l <= k
        BY Zenon, <2>1, <3>1, <3>2, <4>1 DEF FreeIsLast
      <4>3. CASE r = q
        BY <1>2, <1>6, <2>1, <3>2, <4>1, <4>2, <4>3
      <4>4. CASE r # q
        BY Zenon, <2>1, <4>1, <4>2, <4>4
      <4> QED BY Zenon, <4>3, <4>4
    <3>3. \A a \in allocs' : a.mem # queue'[r][i].mem
      BY Zenon, <1>1, <2>1, <3>1 DEF FreeIsLast
    <3> QED BY Zenon, <3>2, <3>3 DEF FreeIsLast
  <2> QED BY Zenon, <2>4, <2>5
<1>7. Queued'
  BY Zenon, <1>2, <1>6 DEF Queued
<1>8. Phases'
  <2>1. ASSUME (phase = "release" /\ ~unsynced) \/ ~ctx PROVE FALSE
    BY Zenon, <1>1, <2>1 DEF Phases
  <2> QED BY Zenon, <1>1, <2>1 DEF Phases
<1> QED BY Zenon, <1>4, <1>7, <1>8

\* A step that leaves table, storage and queues alone keeps what is said of them.
LEMMA SameMemoryKeepsServer ==
    ASSUME Tables, Queued, UNCHANGED memory
    PROVE  Tables' /\ Queued'
<1>1. UNCHANGED <<allocs, next_alloc_id, storage, queue>>
  BY Zenon DEF memory
<1>2. Tables'
  BY Zenon, <1>1 DEF Tables
<1>3. Queued'
  BY <1>1 DEF Queued, FreeIsLast
<1> QED BY Zenon, <1>2, <1>3

\* Every handler whose reply may get lost keeps the server in order.
LEMMA HandlersKeepServer ==
    ASSUME Tables, Queued, Phases, phase = "serving", UNCHANGED phase, Handled
    PROVE  Tables' /\ Queued' /\ Phases'
<1>1. ASSUME NEW n \in Sizes, NEW m \in Pick, HandleAlloc(n, m) \/ HandleAllocAsync(n, m, FALSE),
             UNCHANGED ctx
      PROVE  Tables' /\ Queued' /\ Phases'
  <2>1. n \in Nat
    BY Zenon, ArenaAssumption
  <2>2. NewAllocation(n, m) /\ UNCHANGED queue
    BY Zenon, <1>1 DEF HandleAlloc, HandleAllocAsync
  <2> QED BY Zenon, <1>1, <2>1, <2>2, AllocKeepsServer
<1>2. ASSUME NEW a \in allocs, HandleFree(a), UNCHANGED ctx
      PROVE  Tables' /\ Queued' /\ Phases'
  BY Zenon, <1>2, FreeKeepsServer
<1>3. ASSUME NEW a \in allocs, NEW q \in Queues, UNCHANGED ctx,
             HandleSubmit(a, q) \/ (Ordered(a, q) /\ HandleFreeAsync(a, q))
      PROVE  Tables' /\ Queued' /\ Phases'
  BY Zenon, <1>3, SubmitKeepsServer, FreeAsyncKeepsServer
<1>4. ASSUME UNCHANGED memory, UNCHANGED ctx
      PROVE  Tables' /\ Queued' /\ Phases'
  <2>1. Phases'
    BY Zenon, <1>4 DEF Phases, memory
  <2> QED BY Zenon, <1>4, <2>1, SameMemoryKeepsServer
<1>5. ASSUME NEW n \in NativePools, HandlePoolCreate(n), UNCHANGED ctx
      PROVE  Tables' /\ Queued' /\ Phases'
  BY Zenon, <1>4, <1>5 DEF HandlePoolCreate
<1>6. ASSUME NEW p \in pools, UNCHANGED ctx,
             \/ HandleSetPool(p) \/ HandleSetAttribute(p)
             \/ \E done \in BOOLEAN : HandlePoolDestroy(p, done)
      PROVE  Tables' /\ Queued' /\ Phases'
  BY Zenon, <1>4, <1>6 DEF HandleSetPool, HandleSetAttribute, HandlePoolDestroy
<1>7. CASE HandleSetDeviceFlags
  BY Zenon, <1>7, FlagsKeepServer
<1> QED BY Zenon, <1>1, <1>2, <1>3, <1>5, <1>6, <1>7 DEF Handled

\* A call is made while the server serves the session.
LEMMA CallsAreServed == Call => phase = "serving"
  BY ZenonT(30) DEF Call, Up, Malloc, MallocAsync, MallocPitch, MallocRefused, Free, FreeAsync,
               Submit, GetDefaultPool, GetCurrentPool, PoolCreate, PoolCall, SetDeviceFlags

\* Every call of the application keeps the server in order.
LEMMA CallsKeepServer ==
    ASSUME Tables, Queued, Phases, Call
    PROVE  Tables' /\ Queued' /\ Phases'
<1>0. phase = "serving" /\ UNCHANGED phase
  <2>1. Call => phase = "serving"
    BY Zenon, CallsAreServed
  <2>2. Call => UNCHANGED phase
    BY Zenon DEF Call, Malloc, MallocAsync, MallocPitch, MallocRefused, Free, FreeAsync, Submit,
           GetDefaultPool, GetCurrentPool, PoolCreate, PoolCall, SetDeviceFlags, session
  <2> QED BY Zenon, <2>1, <2>2
<1>1. ASSUME NEW n \in Lengths, NEW m \in Pick, NewAllocation(n, m), UNCHANGED <<queue, ctx>>
      PROVE  Tables' /\ Queued' /\ Phases'
  BY Zenon, <1>0, <1>1, LengthsAreNat, AllocKeepsServer
<1>2. ASSUME NEW n \in Sizes, NEW m \in Pick, Malloc(n, m)
      PROVE  Tables' /\ Queued' /\ Phases'
  <2>1. n \in Lengths
    BY DEF Lengths
  <2>2. NewAllocation(n, m) /\ UNCHANGED <<queue, ctx>>
    BY Zenon, <1>2 DEF Malloc, HandleAlloc
  <2> HIDE DEF Lengths
  <2> QED BY Zenon, <2>1, <2>2, <1>1
<1>3. ASSUME NEW n \in Sizes, NEW m \in Pick, NEW explicit \in BOOLEAN, MallocAsync(n, m, explicit)
      PROVE  Tables' /\ Queued' /\ Phases'
  <2>1. n \in Lengths
    BY DEF Lengths
  <2>2. NewAllocation(n, m) /\ UNCHANGED <<queue, ctx>>
    BY Zenon, <1>3 DEF MallocAsync, HandleAllocAsync
  <2> HIDE DEF Lengths
  <2> QED BY Zenon, <2>1, <2>2, <1>1
<1>4. ASSUME NEW w \in Sizes, NEW h \in Sizes, NEW p \in Pitches, NEW m \in Pick,
             MallocPitch(w, h, p, m)
      PROVE  Tables' /\ Queued' /\ Phases'
  <2>1. p * h \in Lengths
    BY DEF Lengths
  <2>2. NewAllocation(p * h, m) /\ UNCHANGED <<queue, ctx>>
    BY Zenon, <1>4 DEF MallocPitch, HandleAlloc
  <2> HIDE DEF Lengths
  <2> QED BY Zenon, <2>1, <2>2, <1>1
<1>5. ASSUME MallocRefused
      PROVE  Tables' /\ Queued' /\ Phases'
  <2>1. RefuseEntry /\ UNCHANGED ctx
    BY Zenon, <1>5 DEF MallocRefused, HandleAllocRefused, HandleAllocAsyncRefused, HandlePitchRefused
  <2>2. storage \subseteq storage'
    BY Zenon, <1>5 DEF MallocRefused, HandleAllocRefused, HandleAllocAsyncRefused, HandlePitchRefused
  <2> QED BY Zenon, <1>0, <2>1, <2>2, RefusalKeepsServer DEF RefuseEntry
<1>6. ASSUME NEW s \in slots, Backed(s) PROVE Entry(s.id) \in allocs
  BY Zenon, <1>6 DEF Backed, Entry
<1>7. ASSUME NEW s \in slots, Free(s)
      PROVE  Tables' /\ Queued' /\ Phases'
  BY Zenon, <1>0, <1>6, <1>7, FreeKeepsServer DEF Free
<1>8. ASSUME NEW s \in slots, NEW q \in Queues, FreeAsync(s, q)
      PROVE  Tables' /\ Queued' /\ Phases'
  BY Zenon, <1>0, <1>6, <1>8, FreeAsyncKeepsServer DEF FreeAsync
<1>9. ASSUME NEW ptr, NEW n, NEW q \in Queues, Submit(ptr, n, q)
      PROVE  Tables' /\ Queued' /\ Phases'
  <2>1. PICK s \in slots : Backed(s) /\ HandleSubmit(Entry(s.id), q)
    BY Zenon, <1>9 DEF Submit
  <2>2. UNCHANGED ctx
    BY Zenon, <1>9 DEF Submit
  <2> QED BY Zenon, <1>0, <1>6, <2>1, <2>2, SubmitKeepsServer
<1>10. ASSUME UNCHANGED memory, UNCHANGED ctx
       PROVE  Tables' /\ Queued' /\ Phases'
  <2>1. Phases'
    BY Zenon, <1>0, <1>10 DEF Phases, memory
  <2> QED BY Zenon, <1>10, <2>1, SameMemoryKeepsServer
<1>11. CASE GetDefaultPool \/ GetCurrentPool
  BY Zenon, <1>10, <1>11 DEF GetDefaultPool, GetCurrentPool, HandleDevicePool
<1>12. ASSUME NEW n \in NativePools, PoolCreate(n)
       PROVE  Tables' /\ Queued' /\ Phases'
  BY Zenon, <1>10, <1>12 DEF PoolCreate, HandlePoolCreate
<1>13. ASSUME NEW id \in handles, PoolCall(id)
       PROVE  Tables' /\ Queued' /\ Phases'
  <2>1. UNCHANGED memory /\ UNCHANGED ctx
    BY Zenon, <1>13 DEF PoolCall, HandleSetPool, HandleSetAttribute, HandlePoolDestroy
  <2> QED BY Zenon, <2>1, <1>10
<1>14. CASE SetDeviceFlags
  BY Zenon, <1>0, <1>14, FlagsKeepServer DEF SetDeviceFlags
<1> QED BY Zenon, <1>2, <1>3, <1>4, <1>5, <1>7, <1>8, <1>9, <1>11, <1>12, <1>13, <1>14 DEF Call

-----------------------------------------------------------------------------
(* The invariant holds.                                                    *)

\* The inductive invariant of the server and the device.
ServerInv == Tables /\ (Queued \/ Abandoned) /\ Phases

\* The server starts with empty tables and queues.
LEMMA ServerInitially == Init => ServerInv
<1> SUFFICES ASSUME Init PROVE ServerInv
  OBVIOUS
<1>1. <<>> \in Seq(Work) /\ DOMAIN <<>> = {}
  OBVIOUS
<1>2. /\ allocs = {} /\ next_alloc_id = 1 /\ queue = [q \in Queues |-> <<>>] /\ ctx = TRUE
      /\ phase = "listening"
  BY Zenon DEF Init
<1>3. queue \in [Queues -> Seq(Work)] /\ \A q \in Queues : DOMAIN queue[q] = {}
  BY Zenon, <1>1, <1>2
<1>4. Tables /\ Phases
  BY Zenon, <1>2 DEF Tables, Phases
<1>5. Queued
  BY Zenon, <1>3 DEF Queued
<1> QED BY Zenon, <1>4, <1>5 DEF ServerInv

\* Abandoned work runs on while the cleanup goes on, until the reset ends it.
LEMMA AbandonedUntilReset ==
    ASSUME Tables, Abandoned, Phases, [Next]_vars
    PROVE  Tables' /\ (Queued' \/ Abandoned') /\ Phases'
<1>1. /\ allocs = {} /\ phase \in {"restore", "destroy", "reset"} /\ unsynced
      /\ queue \in [Queues -> Seq(Work)]
  BY Zenon DEF Abandoned, Phases
<1>2. ASSUME UNCHANGED <<allocs, queue, ctx, unsynced>>, next_alloc_id' \in Nat,
             phase' \in {"restore", "destroy", "reset"}
      PROVE  Tables' /\ Abandoned' /\ Phases'
  BY Zenon, <1>1, <1>2 DEF Tables, Abandoned, Phases
<1>3. CASE UNCHANGED vars \/ NoticeLoss
  <2>1. UNCHANGED <<allocs, queue, ctx, unsynced, next_alloc_id, phase>>
    BY Zenon, <1>3 DEF NoticeLoss, memory, vars, svars, dvars, hvars
  <2> QED BY Zenon, <1>1, <1>2, <2>1 DEF Tables
<1>4. CASE RestoreDefaultPool
  BY Zenon, <1>2, <1>4 DEF RestoreDefaultPool, memory, Tables
<1>5. CASE DestroyPools
  <2>1. 1 \in Nat
    OBVIOUS
  <2> QED BY Zenon, <1>2, <1>5, <2>1 DEF DestroyPools
<1>6. CASE ResetContext
  BY Zenon, <1>6, ResetKeepsServer
<1>7. ASSUME NEW q \in Queues, DeviceStep(q) PROVE Tables' /\ Abandoned' /\ Phases'
  <2>1. /\ queue[q] # <<>> /\ queue' = [queue EXCEPT ![q] = Tail(@)]
        /\ UNCHANGED <<allocs, next_alloc_id, ctx, phase, unsynced>>
    BY Zenon, <1>7 DEF DeviceStep
  <2>2. queue' \in [Queues -> Seq(Work)]
    BY Zenon, <1>1, <2>1, Dequeued
  <2>3. ctx
    BY Zenon, <2>1 DEF Phases
  <2> QED BY Zenon, <1>1, <2>1, <2>2, <2>3 DEF Tables, Abandoned, Phases
<1>8. phase \notin {"listening", "serving", "streams", "context", "release"}
  BY Zenon, <1>1
<1>9. ~EnsureRuntime /\ ~Call /\ ~LostReply /\ ~Disconnect /\ ~Shutdown
  BY Zenon, <1>8, CallsAreServed DEF EnsureRuntime, LostReply, Disconnect, Shutdown, Up
<1>10. ~EndServing /\ ~SyncStreams /\ ~SyncContext /\ ~SyncFails /\ ~ReleaseAllocations
  BY Zenon, <1>8 DEF EndServing, SyncStreams, SyncContext, SyncFails, ReleaseAllocations
<1> QED BY Zenon, <1>3, <1>4, <1>5, <1>6, <1>7, <1>9, <1>10 DEF Next, Server

\* Every step of the client, the server and the device keeps the server invariant.
LEMMA ServerInductive == ServerInv /\ [Next]_vars => ServerInv'
<1> SUFFICES ASSUME Tables, Queued, Phases, [Next]_vars
             PROVE  Tables' /\ (Queued' \/ Abandoned') /\ Phases'
  BY Zenon, AbandonedUntilReset DEF ServerInv
<1>1. ASSUME UNCHANGED memory, Phases' PROVE Tables' /\ Queued' /\ Phases'
  BY Zenon, <1>1, SameMemoryKeepsServer
<1>2. CASE UNCHANGED vars
  BY Zenon, <1>1, <1>2 DEF vars, svars, dvars, hvars, memory, Phases
<1>3. CASE EnsureRuntime
  BY Zenon, <1>1, <1>3 DEF EnsureRuntime, memory, Phases
<1>4. CASE Call
  BY Zenon, <1>4, CallsKeepServer
<1>5. CASE LostReply
  BY Zenon, <1>5, HandlersKeepServer DEF LostReply, Up
<1>6. CASE Disconnect \/ NoticeLoss
  <2>1. UNCHANGED <<memory, phase, ctx, unsynced>>
    BY Zenon, <1>6 DEF Disconnect, NoticeLoss
  <2> QED BY Zenon, <1>1, <2>1 DEF Phases, memory
<1>7. CASE Shutdown \/ EndServing
  <2>1. UNCHANGED <<memory, ctx>> /\ phase' = "streams"
    BY Zenon, <1>7 DEF Shutdown, EndServing
  <2> QED BY Zenon, <1>1, <2>1 DEF Phases, memory
<1>8. CASE SyncStreams
  BY Zenon, <1>1, <1>8 DEF SyncStreams, Phases, memory
<1>9. CASE SyncContext \/ SyncFails
  BY Zenon, <1>1, <1>9 DEF SyncContext, SyncFails, Phases, memory
<1>10. CASE ReleaseAllocations
  BY Zenon, <1>10, ReleaseKeepsServer
<1>11. CASE RestoreDefaultPool
  BY Zenon, <1>1, <1>11 DEF RestoreDefaultPool, Phases, memory
<1>12. CASE DestroyPools
  <2>1. /\ phase = "destroy" /\ phase' = "reset" /\ next_alloc_id' = 1
        /\ UNCHANGED <<allocs, storage, queue, ctx>>
    BY Zenon, <1>12 DEF DestroyPools
  <2>2. allocs = {}
    BY Zenon, <2>1 DEF Phases
  <2>3. Tables' /\ Phases'
    BY Zenon, <2>1, <2>2 DEF Tables, Phases
  <2>4. Queued'
    BY Zenon, <2>1 DEF Queued, FreeIsLast
  <2> QED BY Zenon, <2>3, <2>4
<1>13. CASE ResetContext
  BY Zenon, <1>13, ResetKeepsServer
<1>14. ASSUME NEW q \in Queues, DeviceStep(q) PROVE Tables' /\ Queued' /\ Phases'
  BY Zenon, <1>14, DeviceKeepsServer
<1> QED BY Zenon, <1>2, <1>3, <1>4, <1>5, <1>6, <1>7, <1>8, <1>9, <1>10, <1>11, <1>12, <1>13, <1>14
        DEF Next, Server

\* The tables, the queues and the phases of the server are always in order.
THEOREM ServerSound == Spec => []ServerInv
<1> QED BY ServerInitially, ServerInductive, PTL DEF Spec

\* No storage is released while submitted work uses it, and none twice, for any
\* number of allocations, sessions and queued operations: the barrier of FREE, the
\* order of FREE_ASYNC and the two synchronisations of cleanup_session suffice,
\* unless the driver fails the one of the context.
THEOREM StorageOutlivesWork == Spec => []WorkHasStorage
<1>1. ServerInv => WorkHasStorage
  BY Zenon DEF ServerInv, Queued, Abandoned, WorkHasStorage
<1> QED BY <1>1, ServerSound, PTL

-----------------------------------------------------------------------------
(* The client and its agreement with the server.                           *)

\* The address arena: every range ever issued, one past its end included, lies
\* below the cursor, and every slot has an issued range of its own.
Arena ==
    /\ va_next \in 0 .. ARENA_BYTES
    /\ slots \subseteq [base : Nat, size : Nat, id : Nat]
    /\ issued \subseteq [base : Nat, size : Nat]
    /\ \A r \in issued : r.base + r.size < va_next
    /\ \A s \in slots : RangeOf(s) \in issued
    /\ \A s, t \in slots : s.base = t.base => s = t

\* Client and server name the same allocations while the connection is up: each
\* slot has an entry of its size, each entry has a slot or is an orphan.
Link ==
    /\ conn = "none" => slots = {} /\ orphans = {}
    /\ conn = "up" =>
          /\ phase = "serving"
          /\ \A i \in orphans : i \in Nat /\ i < next_alloc_id
          /\ \A s \in slots : /\ s.id \notin orphans
                              /\ \E a \in allocs : a.id = s.id /\ a.size = s.size
          /\ \A s, t \in slots : s.id = t.id => s = t
          /\ \A a \in allocs : a.id \in orphans \/ \E s \in slots : s.id = a.id

\* commit_linear_identity issues a range beyond all earlier ones.
LEMMA CommitKeepsArena ==
    ASSUME Arena, NEW n \in Nat, NEW id \in Nat, FitsArena(n), Commit(n, id)
    PROVE  /\ Arena'
           /\ LET s == [base |-> va_next, size |-> n, id |-> id] IN
              /\ slots' = slots \cup {s} /\ issued' = issued \cup {RangeOf(s)}
              /\ \A r \in issued : r.base + r.size < va_next
              /\ va_next \in 0 .. ARENA_BYTES
              /\ \A t \in slots : t.base # va_next
<1> DEFINE s == [base |-> va_next, size |-> n, id |-> id]
<1>1. SpanOf(n) \in Nat /\ n < SpanOf(n)
  BY Zenon, SpanGuards
<1>2. /\ slots' = slots \cup {s} /\ issued' = issued \cup {RangeOf(s)}
      /\ va_next' = va_next + SpanOf(n)
  BY Zenon DEF Commit
<1>3. va_next \in Nat /\ va_next <= ARENA_BYTES /\ ARENA_BYTES \in Nat
  BY ArenaAssumption DEF Arena
<1>4. va_next' \in 0 .. ARENA_BYTES /\ va_next + n < va_next' /\ va_next <= va_next'
  BY <1>1, <1>2, <1>3 DEF FitsArena
<1>5. /\ s \in [base : Nat, size : Nat, id : Nat] /\ s.base = va_next
      /\ RangeOf(s) \in [base : Nat, size : Nat]
      /\ RangeOf(s).base + RangeOf(s).size < va_next'
  BY Zenon, <1>3, <1>4 DEF RangeOf
<1>6. \A t \in slots : /\ RangeOf(t) \in issued /\ t.base \in Nat /\ t.size \in Nat
                       /\ RangeOf(t).base = t.base /\ RangeOf(t).size = t.size
  BY Zenon DEF Arena, RangeOf
<1>7. \A t \in slots : t.base < va_next
  BY <1>3, <1>6 DEF Arena
<1> HIDE DEF s
<1>8. \A r \in issued' : r.base + r.size < va_next'
  <2> SUFFICES ASSUME NEW r \in issued' PROVE r.base + r.size < va_next'
    OBVIOUS
  <2>1. CASE r \in issued
    <3>1. r.base \in Nat /\ r.size \in Nat /\ r.base + r.size < va_next
      BY Zenon, <2>1 DEF Arena
    <3> QED BY <3>1, <1>3, <1>4
  <2>2. CASE r = RangeOf(s)
    BY Zenon, <1>5, <2>2
  <2> QED BY Zenon, <2>1, <2>2, <1>2
<1>9. \A t, u \in slots' : t.base = u.base => t = u
  BY <1>2, <1>3, <1>5, <1>6, <1>7 DEF Arena
<1>10. /\ slots' \subseteq [base : Nat, size : Nat, id : Nat]
       /\ issued' \subseteq [base : Nat, size : Nat]
       /\ \A t \in slots' : RangeOf(t) \in issued'
  BY Zenon, <1>2, <1>5, <1>6 DEF Arena
<1>11. Arena'
  BY Zenon, <1>4, <1>8, <1>9, <1>10 DEF Arena
<1>12. \A t \in slots : t.base # va_next
  BY <1>3, <1>6, <1>7
<1> QED BY Zenon, <1>2, <1>11, <1>12 DEF Arena, s

\* An allocation adds an entry and a slot with the same fresh id.
LEMMA AllocKeepsLink ==
    ASSUME Tables, Link, conn = "up", UNCHANGED <<conn, phase, orphans>>,
           NEW n \in Nat, NEW m, NewAllocation(n, m),
           NEW b, slots' = slots \cup {[base |-> b, size |-> n, id |-> next_alloc_id]}
    PROVE  Link'
<1> DEFINE s == [base |-> b, size |-> n, id |-> next_alloc_id]
           a == [id |-> next_alloc_id, size |-> n, mem |-> m]
<1>1. slots' = slots \cup {s} /\ s.id = next_alloc_id /\ s.size = n
  OBVIOUS
<1>2. /\ allocs' = allocs \cup {a} /\ a.id = next_alloc_id /\ a.size = n
      /\ next_alloc_id' = next_alloc_id + 1
  BY Zenon DEF NewAllocation
<1> HIDE DEF s, a
<1>3. next_alloc_id \in Nat /\ \A c \in allocs : c.id \in Nat /\ c.id < next_alloc_id
  BY Zenon DEF Tables
<1>4. \A t \in slots : t.id # next_alloc_id
  BY <1>3 DEF Link
<1>5. next_alloc_id \notin orphans
  BY <1>3 DEF Link
<1>6. \A i \in orphans' : i \in Nat /\ i < next_alloc_id'
  BY <1>2, <1>3 DEF Link
<1>7. \A t \in slots' : /\ t.id \notin orphans'
                        /\ \E c \in allocs' : c.id = t.id /\ c.size = t.size
  BY Zenon, <1>1, <1>2, <1>5 DEF Link
<1>8. \A t, u \in slots' : t.id = u.id => t = u
  BY Zenon, <1>1, <1>4 DEF Link
<1>9. \A c \in allocs' : c.id \in orphans' \/ \E t \in slots' : t.id = c.id
  BY Zenon, <1>1, <1>2 DEF Link
<1> QED BY Zenon, <1>6, <1>7, <1>8, <1>9 DEF Link

\* A pitched allocation that does not fit the arena adds an entry only.
LEMMA OrphanKeepsLink ==
    ASSUME Tables, Link, conn = "up", UNCHANGED <<conn, phase, slots>>,
           NEW n \in Nat, NEW m, NewAllocation(n, m),
           orphans' = orphans \cup {next_alloc_id}
    PROVE  Link'
<1> DEFINE a == [id |-> next_alloc_id, size |-> n, mem |-> m]
<1>1. /\ allocs' = allocs \cup {a} /\ a.id = next_alloc_id
      /\ next_alloc_id' = next_alloc_id + 1
  BY Zenon DEF NewAllocation
<1> HIDE DEF a
<1>2. next_alloc_id \in Nat /\ \A c \in allocs : c.id \in Nat /\ c.id < next_alloc_id
  BY Zenon DEF Tables
<1>3. \A t \in slots : t.id # next_alloc_id
  BY <1>2 DEF Link
<1> QED BY <1>1, <1>2, <1>3 DEF Link

\* A free removes a slot and the one entry with its id.
LEMMA FreeKeepsLink ==
    ASSUME Tables, Link, conn = "up", UNCHANGED <<conn, phase, orphans, next_alloc_id>>,
           NEW s \in slots, Backed(s), allocs' = allocs \ {Entry(s.id)},
           slots' = slots \ {s}
    PROVE  Link'
<1>1. Entry(s.id) \in allocs /\ Entry(s.id).id = s.id
  BY Zenon DEF Backed, Entry
<1> DEFINE a == Entry(s.id)
<1> HIDE DEF a
<1>2. a \in allocs /\ a.id = s.id /\ allocs' = allocs \ {a}
  BY Zenon, <1>1 DEF a
<1>3. \A c \in allocs : c.id = s.id => c = a
  BY Zenon, <1>2 DEF Tables
<1>4. \A t \in slots' : \E c \in allocs' : c.id = t.id /\ c.size = t.size
  BY <1>2 DEF Link
<1>5. \A c \in allocs' : c.id \in orphans \/ \E t \in slots' : t.id = c.id
  BY Zenon, <1>2, <1>3 DEF Link
<1> QED BY Zenon, <1>4, <1>5 DEF Link

-----------------------------------------------------------------------------
(* Kinds of steps.                                                         *)

\* The kinds of steps, as far as slots, addresses and table entries go.
\* An allocation that both sides enter.
Creates(n, m) ==
    /\ conn = "up" /\ UNCHANGED <<conn, phase, orphans>>
    /\ NewAllocation(n, m) /\ FitsArena(n) /\ Commit(n, next_alloc_id)

\* One that only the server enters.
Strands(n, m) ==
    /\ conn = "up" /\ UNCHANGED <<conn, phase, addresses>>
    /\ NewAllocation(n, m) /\ orphans' = orphans \cup {next_alloc_id}

\* No entry changes; an id may be spent.
Spends ==
    /\ next_alloc_id' \in {next_alloc_id, next_alloc_id + 1}
    /\ UNCHANGED <<conn, phase, addresses, orphans, allocs>>

\* A free on both sides.
Frees(s) ==
    /\ conn = "up" /\ UNCHANGED <<conn, phase, orphans, next_alloc_id>>
    /\ Backed(s) /\ allocs' = allocs \ {Entry(s.id)}
    /\ slots' = slots \ {s} /\ UNCHANGED <<va_next, issued>>

\* A session begins,
Begins ==
    /\ conn = "none" /\ phase = "listening" /\ conn' = "up" /\ phase' = "serving"
    /\ UNCHANGED <<addresses, orphans, allocs, next_alloc_id>>

\* the client loses or gives it up,
Ends ==
    /\ \/ conn' = "none" /\ slots' = {} /\ orphans' = {}
       \/ conn' = "broken" /\ UNCHANGED slots
    /\ UNCHANGED <<va_next, issued>>

\* and the server winds it up.
Cleans == conn # "up" /\ UNCHANGED <<conn, addresses, orphans>>

\* All kinds of steps.
Kinds ==
    \/ \E n \in Lengths, m \in Pick : Creates(n, m) \/ Strands(n, m)
    \/ \E s \in slots : Frees(s)
    \/ Spends \/ Begins \/ Ends \/ Cleans

\* Every call of the application is a step of one of the kinds.
LEMMA CallKinds == Call => Kinds
<1> SUFFICES ASSUME Call PROVE Kinds
  OBVIOUS
<1>1. ASSUME NEW n \in Sizes, NEW m \in Pick, Malloc(n, m)
      PROVE  Kinds
  <2>1. Creates(n, m) /\ n \in Lengths
    BY <1>1 DEF Malloc, Creates, HandleAlloc, Up, session, Lengths
  <2> QED BY Zenon, <2>1 DEF Kinds
<1>2. ASSUME NEW n \in Sizes, NEW m \in Pick, NEW explicit \in BOOLEAN, MallocAsync(n, m, explicit)
      PROVE  Kinds
  <2>1. Creates(n, m) /\ n \in Lengths
    BY <1>2 DEF MallocAsync, Creates, HandleAllocAsync, Up, session, Lengths
  <2> QED BY Zenon, <2>1 DEF Kinds
<1>3. ASSUME NEW w \in Sizes, NEW h \in Sizes, NEW p \in Pitches, NEW m \in Pick,
             MallocPitch(w, h, p, m)
      PROVE  Kinds
  <2>1. p * h \in Lengths
    BY DEF Lengths
  <2>2. Creates(p * h, m) \/ Strands(p * h, m)
    BY Zenon, <1>3 DEF MallocPitch, Creates, Strands, HandleAlloc, Up, session
  <2> QED BY Zenon, <2>1, <2>2 DEF Kinds
<1>4. CASE MallocRefused
  <2>1. Spends
    BY Zenon, <1>4 DEF MallocRefused, HandleAllocRefused, HandleAllocAsyncRefused, HandlePitchRefused,
                RefuseEntry, Spends, session
  <2> QED BY Zenon, <2>1 DEF Kinds
<1>5. ASSUME NEW s \in slots, NEW q, Free(s) \/ FreeAsync(s, q)
      PROVE  Kinds
  <2>1. Frees(s)
    BY Zenon, <1>5 DEF Free, FreeAsync, HandleFree, HandleFreeAsync, Frees, Up, session
  <2> QED BY Zenon, <2>1 DEF Kinds
<1>6. ASSUME UNCHANGED <<allocs, next_alloc_id>>, UNCHANGED <<session, addresses, orphans>>
      PROVE  Kinds
  BY Zenon, <1>6 DEF Kinds, Spends, session
<1>7. ASSUME NEW ptr, NEW n, NEW q, Submit(ptr, n, q)
      PROVE  Kinds
  BY Zenon, <1>6, <1>7 DEF Submit, HandleSubmit
<1>8. CASE GetDefaultPool \/ GetCurrentPool
  BY Zenon, <1>6, <1>8 DEF GetDefaultPool, GetCurrentPool, HandleDevicePool, memory
<1>9. ASSUME NEW n \in NativePools, PoolCreate(n)
      PROVE  Kinds
  BY Zenon, <1>6, <1>9 DEF PoolCreate, HandlePoolCreate, memory
<1>10. ASSUME NEW id \in handles, PoolCall(id)
       PROVE  Kinds
  <2>1. UNCHANGED memory
    BY Zenon, <1>10 DEF PoolCall, HandleSetPool, HandleSetAttribute, HandlePoolDestroy
  <2>2. UNCHANGED <<session, addresses, orphans>>
    BY Zenon, <1>10 DEF PoolCall
  <2> QED BY Zenon, <1>6, <2>1, <2>2 DEF memory
<1>11. CASE SetDeviceFlags
  BY Zenon, <1>6, <1>11 DEF SetDeviceFlags, HandleSetDeviceFlags
<1> QED BY Zenon, <1>1, <1>2, <1>3, <1>4, <1>5, <1>7, <1>8, <1>9, <1>10, <1>11 DEF Call

\* So is every other step.
LEMMA StepKinds == Link /\ [Next]_vars => Kinds
<1> SUFFICES ASSUME Link, [Next]_vars PROVE Kinds
  OBVIOUS
<1>1. CASE UNCHANGED vars
  BY Zenon, <1>1 DEF vars, cvars, svars, hvars, Kinds, Spends, addresses
<1>2. CASE EnsureRuntime
  BY Zenon, <1>2 DEF EnsureRuntime, memory, Kinds, Begins
<1>3. CASE Call
  BY Zenon, <1>3, CallKinds
<1>4. CASE LostReply \/ NoticeLoss \/ Shutdown
  BY Zenon, <1>4 DEF LostReply, NoticeLoss, Shutdown, ForgetSession, Kinds, Ends
<1>5. CASE Disconnect
  BY Zenon, <1>5 DEF Disconnect, addresses, Kinds, Ends
<1>6. ASSUME UNCHANGED cvars, UNCHANGED orphans, conn # "up" PROVE Kinds
  BY Zenon, <1>6 DEF cvars, addresses, Kinds, Cleans
<1>7. CASE EndServing
  BY Zenon, <1>6, <1>7 DEF EndServing
<1>8. CASE SyncStreams \/ SyncContext \/ SyncFails \/ ReleaseAllocations
           \/ RestoreDefaultPool \/ DestroyPools \/ ResetContext
  <2>1. UNCHANGED cvars /\ UNCHANGED orphans /\ phase # "serving"
    BY Zenon, <1>8 DEF SyncStreams, SyncContext, SyncFails, ReleaseAllocations,
                RestoreDefaultPool, DestroyPools, ResetContext
  <2> QED BY Zenon, <1>6, <2>1 DEF Link
<1>9. ASSUME NEW q \in Queues, DeviceStep(q) PROVE Kinds
  BY Zenon, <1>9 DEF DeviceStep, cvars, addresses, Kinds, Spends
<1> QED BY Zenon, <1>1, <1>2, <1>3, <1>4, <1>5, <1>7, <1>8, <1>9 DEF Next, Server

\* The inductive invariant of both sides together.
IInv == ServerInv /\ Arena /\ Link

\* The client starts without addresses and without a connection.
LEMMA ClientInitially == Init => Arena /\ Link
  BY ArenaAssumption DEF Init, Arena, Link

\* Every kind of step keeps the arena and the agreement of the tables.
LEMMA ClientInductive == IInv /\ Kinds => Arena' /\ Link'
<1> SUFFICES ASSUME Tables, Phases, Arena, Link, Kinds PROVE Arena' /\ Link'
  BY Zenon DEF IInv, ServerInv
<1>1. ASSUME UNCHANGED <<va_next, issued>>, slots' \subseteq slots PROVE Arena'
  BY Zenon, <1>1 DEF Arena
<1>2. ASSUME NEW n \in Lengths, NEW m \in Pick, Creates(n, m)
      PROVE  Arena' /\ Link'
  <2>1. n \in Nat /\ next_alloc_id \in Nat
    BY Zenon, LengthsAreNat DEF Tables
  <2>2. Arena' /\ slots' = slots \cup {[base |-> va_next, size |-> n, id |-> next_alloc_id]}
    BY Zenon, <1>2, <2>1, CommitKeepsArena DEF Creates
  <2>3. Link'
    BY Zenon, <1>2, <2>1, <2>2, AllocKeepsLink DEF Creates
  <2> QED BY Zenon, <2>2, <2>3
<1>3. ASSUME NEW n \in Lengths, NEW m \in Pick, Strands(n, m)
      PROVE  Arena' /\ Link'
  <2>1. n \in Nat
    BY Zenon, LengthsAreNat
  <2>2. UNCHANGED <<slots, va_next, issued>>
    BY Zenon, <1>3 DEF Strands, addresses
  <2>3. Link'
    BY Zenon, <1>3, <2>1, <2>2, OrphanKeepsLink DEF Strands
  <2> QED BY Zenon, <1>1, <2>2, <2>3
<1>4. ASSUME NEW s \in slots, Frees(s)
      PROVE  Arena' /\ Link'
  <2>1. Link'
    BY Zenon, <1>4, FreeKeepsLink DEF Frees
  <2>2. Arena'
    BY Zenon, <1>1, <1>4 DEF Frees
  <2> QED BY Zenon, <2>1, <2>2
<1>5. CASE Spends
  <2>1. UNCHANGED <<slots, va_next, issued>>
    BY Zenon, <1>5 DEF Spends, addresses
  <2>2. \A i \in orphans : conn = "up" => i \in Nat /\ i < next_alloc_id'
    BY <1>5 DEF Spends, Link, Tables
  <2>3. Link'
    BY Zenon, <1>5, <2>1, <2>2 DEF Spends, Link
  <2> QED BY Zenon, <1>1, <2>1, <2>3
<1>6. CASE Begins
  <2>1. UNCHANGED <<slots, va_next, issued>>
    BY Zenon, <1>6 DEF Begins, addresses
  <2>2. slots = {} /\ orphans = {} /\ allocs = {}
    BY Zenon, <1>6 DEF Begins, Link, Phases
  <2>3. Link'
    BY Zenon, <1>6, <2>1, <2>2 DEF Begins, Link
  <2> QED BY Zenon, <1>1, <2>1, <2>3
<1>7. CASE Ends
  <2>1. Arena'
    BY Zenon, <1>1, <1>7 DEF Ends
  <2>2. Link'
    BY Zenon, <1>7 DEF Ends, Link
  <2> QED BY Zenon, <2>1, <2>2
<1>8. CASE Cleans
  <2>1. UNCHANGED <<slots, va_next, issued>>
    BY Zenon, <1>8 DEF Cleans, addresses
  <2>2. Link'
    BY Zenon, <1>8, <2>1 DEF Cleans, Link
  <2> QED BY Zenon, <1>1, <2>1, <2>2
<1> QED BY Zenon, <1>2, <1>3, <1>4, <1>5, <1>6, <1>7, <1>8 DEF Kinds

\* The arena, the slots and the tables of both sides are always in order.
THEOREM InvariantHolds == Spec => []IInv
<1>1. Init => IInv
  BY Zenon, ServerInitially, ClientInitially DEF IInv
<1>2. IInv /\ [Next]_vars => IInv'
  BY Zenon, ServerInductive, StepKinds, ClientInductive DEF IInv
<1> QED BY <1>1, <1>2, PTL DEF Spec

\* While the connection is up, slots and table hold the same ids with the same
\* sizes but for the orphans of cudaMallocPitch, for any arena, alignment, table
\* sizes and sequence of calls and failures.
THEOREM TablesStayTogether == Spec => []TablesAgree
<1>1. IInv => TablesAgree
  <2> SUFFICES ASSUME Tables, Arena, Link, conn = "up"
      PROVE  {[id |-> s.id, size |-> s.size] : s \in slots} =
             {[id |-> a.id, size |-> a.size] : a \in {b \in allocs : b.id \notin orphans}}
    BY Zenon DEF IInv, ServerInv, TablesAgree
  <2>1. ASSUME NEW s \in slots
        PROVE  \E a \in {b \in allocs : b.id \notin orphans} :
                  [id |-> s.id, size |-> s.size] = [id |-> a.id, size |-> a.size]
    BY Zenon DEF Link
  <2>2. ASSUME NEW a \in {b \in allocs : b.id \notin orphans}
        PROVE  \E s \in slots :
                  [id |-> s.id, size |-> s.size] = [id |-> a.id, size |-> a.size]
    <3>1. PICK s \in slots : s.id = a.id
      BY Zenon DEF Link
    <3>2. PICK c \in allocs : c.id = s.id /\ c.size = s.size
      BY Zenon DEF Link
    <3>3. c = a
      BY Zenon, <3>1, <3>2 DEF Tables
    <3> QED BY Zenon, <3>1, <3>2, <3>3
  <2>3. ASSUME NEW x \in {[id |-> s.id, size |-> s.size] : s \in slots}
        PROVE  x \in {[id |-> a.id, size |-> a.size] : a \in {b \in allocs : b.id \notin orphans}}
    <3>1. PICK s \in slots : x = [id |-> s.id, size |-> s.size]
      BY Zenon
    <3> QED BY <2>1, <3>1, Zenon
  <2>4. ASSUME NEW x \in {[id |-> a.id, size |-> a.size] : a \in {b \in allocs : b.id \notin orphans}}
        PROVE  x \in {[id |-> s.id, size |-> s.size] : s \in slots}
    <3>1. PICK a \in {b \in allocs : b.id \notin orphans} : x = [id |-> a.id, size |-> a.size]
      BY Zenon
    <3> QED BY <2>2, <3>1, Zenon
  <2> QED BY <2>3, <2>4, Zenon
<1> QED BY <1>1, InvariantHolds, PTL

-----------------------------------------------------------------------------
(* The refinement of PointerSpec.                                          *)

\* Denotes as a function of the tables, to speak of it before and after a step.
Meaning(sl, al, c) ==
    [r \in {RangeOf(s) : s \in {t \in sl : c = "up"}} |->
       (CHOOSE a \in al : a.id = (CHOOSE s \in sl : RangeOf(s) = r).id).mem]

\* It is Denotes in this state and in the next one.
LEMMA DenotesIsMeaning ==
    /\ Denotes = Meaning(slots, allocs, conn)
    /\ Denotes' = Meaning(slots', allocs', conn')
  BY Zenon DEF Denotes, Meaning, Entry

\* No two slots have one range, no two entries one id.
Distinct(sl, al) ==
    /\ \A s, t \in sl : RangeOf(s) = RangeOf(t) => s = t
    /\ \A a, b \in al : a.id = b.id => a = b

\* Function f gives the range of each slot the storage of the entry with its id.
Maps(f, sl, al) ==
    /\ f = [r \in {RangeOf(s) : s \in sl} |-> f[r]]
    /\ \A s \in sl, a \in al : a.id = s.id => f[RangeOf(s)] = a.mem

\* With distinct ranges and ids, a pointer denotes the storage of its entry.
LEMMA MeaningOf ==
    ASSUME NEW sl, NEW al, Distinct(sl, al)
    PROVE  Maps(Meaning(sl, al, "up"), sl, al)
<1>0. /\ \A s, t \in sl : RangeOf(s) = RangeOf(t) => s = t
      /\ \A a, b \in al : a.id = b.id => a = b
  BY Zenon DEF Distinct
<1>1. {t \in sl : "up" = "up"} = sl
  OBVIOUS
<1>2. Meaning(sl, al, "up") =
        [r \in {RangeOf(s) : s \in sl} |->
           (CHOOSE a \in al : a.id = (CHOOSE s \in sl : RangeOf(s) = r).id).mem]
  BY Zenon, <1>1 DEF Meaning
<1>3. ASSUME NEW s \in sl, NEW a \in al, a.id = s.id
      PROVE  Meaning(sl, al, "up")[RangeOf(s)] = a.mem
  <2>1. (CHOOSE t \in sl : RangeOf(t) = RangeOf(s)) = s
    BY <1>0, Zenon
  <2>2. (CHOOSE b \in al : b.id = s.id) = a
    BY <1>0, <1>3, Zenon
  <2>3. RangeOf(s) \in {RangeOf(t) : t \in sl}
    BY Zenon
  <2>4. Meaning(sl, al, "up")[RangeOf(s)] =
          (CHOOSE b \in al : b.id = (CHOOSE t \in sl : RangeOf(t) = RangeOf(s)).id).mem
    BY <1>2, <2>3, Zenon
  <2> QED BY <2>1, <2>2, <2>4, Zenon
<1>4. Meaning(sl, al, "up") =
        [r \in {RangeOf(s) : s \in sl} |-> Meaning(sl, al, "up")[r]]
  BY <1>2, Zenon
<1> QED BY Zenon, <1>3, <1>4 DEF Maps

\* Without a connection, or without slots, no pointer denotes anything.
LEMMA MeansNothing ==
    ASSUME NEW sl, NEW al, NEW c, c # "up" \/ sl = {}
    PROVE  Meaning(sl, al, c) = [p \in {} |-> {}]
<1>1. {RangeOf(s) : s \in {t \in sl : c = "up"}} = {}
  OBVIOUS
<1> QED BY Zenon, <1>1 DEF Meaning

\* In a connected session each slot denotes the storage of its entry.
LEMMA Meant ==
    ASSUME IInv, conn = "up"
    PROVE  Maps(Denotes, slots, allocs) /\ \A s \in slots : \E a \in allocs : a.id = s.id
<1>1. \A s, t \in slots : RangeOf(s) = RangeOf(t) => s = t
  BY Zenon DEF IInv, Arena, RangeOf
<1>2. \A a, b \in allocs : a.id = b.id => a = b
  BY Zenon DEF IInv, ServerInv, Tables
<1>3. Denotes = Meaning(slots, allocs, "up")
  BY Zenon, DenotesIsMeaning
<1>4. \A s \in slots : \E a \in allocs : a.id = s.id
  BY Zenon DEF IInv, Link
<1>5. Distinct(slots, allocs)
  BY Zenon, <1>1, <1>2 DEF Distinct
<1> QED BY Zenon, <1>3, <1>4, <1>5, MeaningOf

\* The same for the next state.
LEMMA MeantNext ==
    ASSUME IInv', conn' = "up"
    PROVE  Maps(Denotes', slots', allocs')
<1>1. \A s, t \in slots' : RangeOf(s) = RangeOf(t) => s = t
  BY Zenon DEF IInv, Arena, RangeOf
<1>2. \A a, b \in allocs' : a.id = b.id => a = b
  BY Zenon DEF IInv, ServerInv, Tables
<1>3. Denotes' = Meaning(slots', allocs', "up")
  BY Zenon, DenotesIsMeaning
<1>4. Distinct(slots', allocs')
  BY Zenon, <1>1, <1>2 DEF Distinct
<1> QED BY Zenon, <1>3, <1>4, MeaningOf

\* An allocation on both sides is an Allocate step of PointerSpec: its range is
\* apart from all issued ones and its storage is nobody else's.
LEMMA CreateAllocates ==
    ASSUME IInv, IInv', NEW n \in Lengths, NEW m \in Pick, Creates(n, m)
    PROVE  \E r \in Promise!Range, x \in Storage : Promise!Allocate(r, x)
<1> DEFINE s == [base |-> va_next, size |-> n, id |-> next_alloc_id]
           a == [id |-> next_alloc_id, size |-> n, mem |-> m]
           r == RangeOf(s)
<1>1. n \in Nat /\ next_alloc_id \in Nat /\ m \in Storage /\ m \notin storage
  BY Zenon, LengthsAreNat, Picked DEF IInv, ServerInv, Tables
<1>2. /\ slots' = slots \cup {s} /\ issued' = issued \cup {r}
      /\ \A i \in issued : i.base + i.size < va_next
      /\ va_next \in 0 .. ARENA_BYTES
      /\ \A t \in slots : t.base # va_next
  <2>1. Arena /\ FitsArena(n) /\ Commit(n, next_alloc_id)
    BY Zenon DEF Creates, IInv
  <2> QED BY Zenon, <1>1, <2>1, CommitKeepsArena
<1>3. allocs' = allocs \cup {a} /\ a.id = s.id /\ a.mem = m
  BY Zenon DEF Creates, NewAllocation
<1>4. r.base = va_next /\ r \in Promise!Range
  BY <1>2 DEF RangeOf, Promise!Range, Lengths
<1>5. \A t \in slots : RangeOf(t) # r
  BY Zenon, <1>2 DEF RangeOf
<1>6. conn = "up" /\ conn' = "up"
  BY Zenon DEF Creates
<1>7. /\ Denotes = [p \in {RangeOf(t) : t \in slots} |-> Denotes[p]]
      /\ \A t \in slots, c \in allocs : c.id = t.id => Denotes[RangeOf(t)] = c.mem
      /\ \A t \in slots : \E c \in allocs : c.id = t.id
  BY Zenon, <1>6, Meant DEF Maps
<1>8. /\ Denotes' = [p \in {RangeOf(t) : t \in slots'} |-> Denotes'[p]]
      /\ \A t \in slots', c \in allocs' : c.id = t.id => Denotes'[RangeOf(t)] = c.mem
  BY Zenon, <1>6, MeantNext DEF Maps
<1> HIDE DEF s, a, r
<1>9. Denotes'[r] = m
  BY Zenon, <1>2, <1>3, <1>8 DEF r
<1>10. \A t \in slots : Denotes'[RangeOf(t)] = Denotes[RangeOf(t)]
  BY <1>2, <1>3, <1>7, <1>8
<1>11. DOMAIN Denotes = {RangeOf(t) : t \in slots}
  BY <1>7, Zenon
<1>12. {RangeOf(t) : t \in slots'} = {RangeOf(t) : t \in slots} \cup {r}
  BY Zenon, <1>2 DEF r
<1>13. Denotes' = [p \in DOMAIN Denotes \cup {r} |-> IF p = r THEN m ELSE Denotes[p]]
  <2>1. \A p \in {RangeOf(t) : t \in slots'} :
           Denotes'[p] = IF p = r THEN m ELSE Denotes[p]
    BY Zenon, <1>5, <1>9, <1>10, <1>12
  <2>2. Denotes' = [p \in {RangeOf(t) : t \in slots'} |-> IF p = r THEN m ELSE Denotes[p]]
    BY Zenon, <1>8, <2>1
  <2> QED BY Zenon, <1>11, <1>12, <2>2
<1>14. \A i \in issued : Promise!Apart(i, r)
  BY Zenon, <1>2, <1>4 DEF Promise!Apart
<1>15. m \notin Promise!Storages
  <2>1. \A t \in slots : Denotes[RangeOf(t)] \in storage
    BY Zenon, <1>7 DEF IInv, ServerInv, Tables
  <2> QED BY Zenon, <1>1, <1>11, <2>1 DEF Promise!Storages
<1>16. Promise!Allocate(r, m)
  BY Zenon, <1>2, <1>13, <1>14, <1>15 DEF Promise!Allocate
<1> QED BY Zenon, <1>1, <1>4, <1>16

\* If the slots stay and no entry goes, every pointer keeps its storage.
LEMMA KeptMeaning ==
    ASSUME IInv, IInv', conn = "up", conn' = "up", slots' = slots, allocs \subseteq allocs'
    PROVE  Denotes' = Denotes
<1>1. /\ Denotes = [p \in {RangeOf(t) : t \in slots} |-> Denotes[p]]
      /\ \A t \in slots, c \in allocs : c.id = t.id => Denotes[RangeOf(t)] = c.mem
      /\ \A t \in slots : \E c \in allocs : c.id = t.id
  BY Zenon, Meant DEF Maps
<1>2. /\ Denotes' = [p \in {RangeOf(t) : t \in slots} |-> Denotes'[p]]
      /\ \A t \in slots, c \in allocs' : c.id = t.id => Denotes'[RangeOf(t)] = c.mem
  BY Zenon, MeantNext DEF Maps
<1>3. \A t \in slots : Denotes'[RangeOf(t)] = Denotes[RangeOf(t)]
  BY <1>1, <1>2
<1>4. \A p \in {RangeOf(t) : t \in slots} : Denotes'[p] = Denotes[p]
  BY Zenon, <1>3
<1> QED BY Zenon, <1>1, <1>2, <1>4

\* A free on both sides is a Free step of PointerSpec.
LEMMA FreeFrees ==
    ASSUME IInv, IInv', NEW s \in slots, Frees(s)
    PROVE  RangeOf(s) \in DOMAIN Denotes /\ Promise!Free(RangeOf(s))
<1> DEFINE a == Entry(s.id)
           r == RangeOf(s)
           F == [p \in DOMAIN Denotes \ {r} |-> Denotes[p]]
<1>1. conn = "up" /\ conn' = "up" /\ slots' = slots \ {s} /\ issued' = issued
      /\ allocs' = allocs \ {a}
  BY Zenon DEF Frees
<1>2. a \in allocs /\ a.id = s.id
  BY Zenon DEF Frees, Backed, Entry
<1> HIDE DEF a
<1>3. /\ Denotes = [p \in {RangeOf(t) : t \in slots} |-> Denotes[p]]
      /\ \A t \in slots, c \in allocs : c.id = t.id => Denotes[RangeOf(t)] = c.mem
      /\ \A t \in slots : \E c \in allocs : c.id = t.id
  BY Zenon, <1>1, Meant DEF Maps
<1>4. /\ Denotes' = [p \in {RangeOf(t) : t \in slots'} |-> Denotes'[p]]
      /\ \A t \in slots', c \in allocs' : c.id = t.id => Denotes'[RangeOf(t)] = c.mem
  BY Zenon, <1>1, MeantNext DEF Maps
<1>5. \A t \in slots : RangeOf(t) = r => t = s
  BY Zenon DEF IInv, Arena, RangeOf
<1>6. \A t \in slots' : t.id # s.id
  BY Zenon, <1>1 DEF IInv, Link
<1>7. \A t \in slots' : Denotes'[RangeOf(t)] = Denotes[RangeOf(t)]
  <2> SUFFICES ASSUME NEW t \in slots' PROVE Denotes'[RangeOf(t)] = Denotes[RangeOf(t)]
    OBVIOUS
  <2>1. t \in slots
    BY Zenon, <1>1
  <2>2. PICK c \in allocs : c.id = t.id
    BY Zenon, <1>3, <2>1
  <2>3. c \in allocs'
    BY Zenon, <1>1, <1>2, <1>6, <2>2
  <2> QED BY <1>3, <1>4, <2>1, <2>2, <2>3
<1> HIDE DEF r
<1>8. DOMAIN Denotes = {RangeOf(t) : t \in slots}
  BY <1>3, Zenon
<1>9. {RangeOf(t) : t \in slots'} = DOMAIN Denotes \ {r}
  <2>1. \A t \in slots' : RangeOf(t) \in DOMAIN Denotes \ {r}
    BY Zenon, <1>1, <1>5, <1>8
  <2>2. \A p \in DOMAIN Denotes \ {r} : \E t \in slots' : p = RangeOf(t)
    BY Zenon, <1>1, <1>8 DEF r
  <2> QED BY <2>1, <2>2, Zenon
<1>10. \A p \in {RangeOf(t) : t \in slots'} : Denotes'[p] = Denotes[p]
  BY Zenon, <1>7
<1>11. Denotes' = F
  BY Zenon, <1>4, <1>9, <1>10
<1>12. r \in DOMAIN Denotes
  BY Zenon, <1>8 DEF r
<1> QED BY Zenon, <1>1, <1>11, <1>12 DEF Promise!Free, r

\* Every kind of step is a step of PointerSpec or leaves its variables unchanged.
LEMMA StepRefines ==
    ASSUME IInv, IInv', Kinds
    PROVE  Promise!PNext \/ UNCHANGED Promise!pvars
<1>1. ASSUME NEW n \in Lengths, NEW m \in Pick, Creates(n, m)
      PROVE  Promise!PNext
  BY Zenon, <1>1, CreateAllocates DEF Promise!PNext
<1>2. ASSUME NEW n \in Lengths, NEW m \in Pick, Strands(n, m)
      PROVE  UNCHANGED Promise!pvars
  <2>1. slots' = slots /\ issued' = issued /\ allocs \subseteq allocs' /\ conn = "up" /\ conn' = "up"
    BY Zenon, <1>2 DEF Strands, addresses, NewAllocation
  <2> QED BY Zenon, <2>1, KeptMeaning DEF Promise!pvars
<1>3. ASSUME NEW s \in slots, Frees(s)
      PROVE  Promise!PNext
  BY Zenon, <1>3, FreeFrees DEF Promise!PNext
<1>4. ASSUME conn # "up" \/ slots = {}, conn' # "up" \/ slots' = {}, issued' = issued
      PROVE  UNCHANGED Promise!pvars
  BY Zenon, <1>4, DenotesIsMeaning, MeansNothing DEF Promise!pvars
<1>5. CASE Spends
  <2>1. slots' = slots /\ issued' = issued /\ allocs \subseteq allocs' /\ conn' = conn
    BY Zenon, <1>5 DEF Spends, addresses
  <2>2. CASE conn = "up"
    BY Zenon, <2>1, <2>2, KeptMeaning DEF Promise!pvars
  <2>3. CASE conn # "up"
    BY Zenon, <1>4, <2>1, <2>3
  <2> QED BY Zenon, <2>2, <2>3
<1>6. CASE Begins
  <2>1. conn # "up" /\ slots' = {} /\ issued' = issued
    BY Zenon, <1>6 DEF Begins, addresses, IInv, Link
  <2> QED BY Zenon, <1>4, <2>1
<1>7. CASE Ends
  <2>1. conn' # "up" /\ issued' = issued
    BY Zenon, <1>7 DEF Ends
  <2>2. Denotes' = [p \in {} |-> {}]
    BY Zenon, <2>1, DenotesIsMeaning, MeansNothing
  <2> QED BY Zenon, <2>1, <2>2 DEF Promise!PNext, Promise!EndSession
<1>8. CASE Cleans
  <2>1. conn # "up" /\ conn' # "up" /\ issued' = issued
    BY Zenon, <1>8 DEF Cleans, addresses
  <2> QED BY Zenon, <1>4, <2>1
<1> QED BY Zenon, <1>1, <1>2, <1>3, <1>5, <1>6, <1>7, <1>8 DEF Kinds

\* The detailed specification implements PointerSpec, for any arena, table sizes
\* and failures: a pointer keeps its storage, unshared, until it is freed or its
\* session ends, and no address is issued twice, not even across sessions.
THEOREM PointersKeepMeaning == Spec => PointersMean
<1>1. Init => Promise!PInit
  <2> SUFFICES ASSUME Init PROVE Promise!PInit
    OBVIOUS
  <2>1. issued = {} /\ slots = {}
    BY Zenon DEF Init
  <2>2. Denotes = [p \in {} |-> {}]
    BY Zenon, <2>1, DenotesIsMeaning, MeansNothing
  <2> QED BY Zenon, <2>1, <2>2 DEF Promise!PInit
<1>2. IInv /\ IInv' /\ [Next]_vars => [Promise!PNext]_Promise!pvars
  BY Zenon, StepKinds, StepRefines DEF IInv
<1> QED BY <1>1, <1>2, InvariantHolds, PTL DEF Spec, PointersMean, Promise!PSpec

-----------------------------------------------------------------------------
(* Memory pools.                                                           *)

\* Pools: ids are unique and below the counter, the default pool is the one entry
\* for the pool of the device, and a current pool is known once the default one is.
PoolTable ==
    /\ next_pool_id \in Nat \ {0} /\ native \subseteq NativePools
    /\ \A p \in pools : p.id \in Nat \ {0} /\ p.id < next_pool_id
    /\ \A p, r \in pools : p.id = r.id \/ p.pool = r.pool => p = r
    /\ \A p \in pools : p.pool \in native \cup {DevicePool}
    /\ \A n \in native : n \in undestroyed \/ \E p \in pools : p.pool = n
    /\ \A p \in pools : p.pool = DevicePool <=> p.id = default_id
    /\ default_id = 0 \/ \E p \in pools : p.id = default_id
    /\ default_id = 0 <=> current_id = 0

\* While a session is served, the table's current pool is the device's.
Selected ==
    phase = "serving" =>
       /\ default_id = 0 => current = DevicePool
       /\ default_id # 0 => \E p \in pools : p.id = current_id /\ p.pool = current

\* The attributes of the device's pool are the original ones, or the session has
\* the original ones saved, or writing them back has failed.
Restored ==
    /\ default_id # 0 => unrestored \/ saved = "original"
    /\ \/ unrestored \/ threshold = "original"
       \/ default_id # 0 /\ phase \notin {"destroy", "reset", "listening", "stopped"}
    /\ phase \in {"reset", "listening", "stopped"} =>
          pools = {} /\ default_id = 0
    /\ phase = "listening" => storage = {} /\ current = DevicePool

\* Pool handles of the client name pools of the server.
HandlesLive ==
    /\ conn = "none" => handles = {}
    /\ conn = "up" => phase = "serving" /\ \A id \in handles : HasPool(id)

\* The inductive invariant of the pools, but for the handles.
Pools == PoolTable /\ Selected /\ Restored

\* ensure_default_pool, alone or before a pool is selected.
LEMMA EnsureKeepsPools ==
    ASSUME Pools, phase = "serving", EnsureDefaultPool,
           UNCHANGED <<phase, native, threshold, unrestored, undestroyed>>,
           \/ current_id' = CurrentAfterEnsure /\ current' = current
           \/ \E p \in pools : current_id' = p.id /\ current' = p.pool
    PROVE  Pools' /\ pools \subseteq pools' /\ \E p \in pools' : p.id = default_id'
<1>1. CASE default_id # 0
  <2>1. UNCHANGED <<pools, next_pool_id, default_id, saved>>
    BY Zenon, <1>1 DEF EnsureDefaultPool
  <2>2. CurrentAfterEnsure = current_id
    BY Zenon, <1>1 DEF CurrentAfterEnsure
  <2>3. current_id' # 0 /\ \E p \in pools : p.id = current_id' /\ p.pool = current'
    BY Zenon, <1>1, <2>2 DEF Pools, PoolTable, Selected
  <2>4. PoolTable'
    BY Zenon, <1>1, <2>1, <2>3 DEF Pools, PoolTable
  <2>5. Selected'
    BY Zenon, <1>1, <2>1, <2>3 DEF Pools, Selected
  <2>6. Restored'
    BY Zenon, <1>1, <2>1 DEF Pools, Restored
  <2> QED BY Zenon, <1>1, <2>1, <2>4, <2>5, <2>6 DEF Pools, PoolTable
<1>2. CASE default_id = 0
  <2> DEFINE d == [id |-> next_pool_id, pool |-> DevicePool]
  <2>1. /\ pools' = pools \cup {d} /\ next_pool_id' = next_pool_id + 1
        /\ default_id' = next_pool_id /\ saved' = threshold
    BY Zenon, <1>2 DEF EnsureDefaultPool
  <2>2. d.id = next_pool_id /\ d.pool = DevicePool /\ next_pool_id \in Nat \ {0}
    BY Zenon DEF Pools, PoolTable
  <2> HIDE DEF d
  <2>3. CurrentAfterEnsure = next_pool_id /\ current = DevicePool
    BY Zenon, <1>2 DEF CurrentAfterEnsure, Pools, Selected
  <2>4. current_id' # 0 /\ \E p \in pools' : p.id = current_id' /\ p.pool = current'
    BY Zenon, <2>1, <2>2, <2>3 DEF Pools, PoolTable
  <2>5. ASSUME NEW p \in pools
        PROVE  /\ p.pool # DevicePool /\ p.pool \in native
               /\ p.id # next_pool_id /\ p.id \in Nat \ {0} /\ p.id < next_pool_id
    <3>1. /\ p.id \in Nat \ {0} /\ p.id < next_pool_id
          /\ p.pool \in native \cup {DevicePool} /\ (p.pool = DevicePool <=> p.id = default_id)
      BY Zenon DEF Pools, PoolTable
    <3>2. p.id # next_pool_id /\ p.id # default_id
      BY SMTT(30), <1>2, <2>2, <3>1
    <3> QED BY Zenon, <3>1, <3>2
  <2>6. PoolTable'
    <3>0. native \subseteq NativePools
      BY Zenon DEF Pools, PoolTable
    <3>1. next_pool_id' \in Nat \ {0} /\ native' \subseteq NativePools
      BY <2>1, <2>2, <3>0
    <3>2. ASSUME NEW p \in pools' PROVE p.id \in Nat \ {0} /\ p.id < next_pool_id'
      BY <2>1, <2>2, <2>5
    <3>3. ASSUME NEW p \in pools', NEW r \in pools', p.id = r.id \/ p.pool = r.pool
          PROVE  p = r
      <4>1. \A a, b \in pools : a.id = b.id \/ a.pool = b.pool => a = b
        BY Zenon DEF Pools, PoolTable
      <4>2. (p \in pools \/ p = d) /\ (r \in pools \/ r = d)
        BY Zenon, <2>1
      <4> QED BY Zenon, <2>2, <2>5, <3>3, <4>1, <4>2
    <3>4. ASSUME NEW p \in pools'
          PROVE  /\ p.pool \in native' \cup {DevicePool}
                 /\ p.pool = DevicePool <=> p.id = default_id'
      BY Zenon, <2>1, <2>2, <2>5
    <3>5. d \in pools' /\ d.id = default_id' /\ default_id' # 0
      BY Zenon, <2>1, <2>2
    <3>6. \A n \in native' : n \in undestroyed' \/ \E p \in pools' : p.pool = n
      BY Zenon, <2>1 DEF Pools, PoolTable
    <3> QED BY Zenon, <2>4, <3>1, <3>2, <3>3, <3>4, <3>5, <3>6 DEF PoolTable
  <2>7. Selected'
    BY Zenon, <2>1, <2>2, <2>4 DEF Selected
  <2>8. Restored'
    BY Zenon, <1>2, <2>1, <2>2 DEF Pools, Restored
  <2> QED BY Zenon, <2>1, <2>2, <2>6, <2>7, <2>8 DEF Pools
<1> QED BY Zenon, <1>1, <1>2

\* handle_pool_create adds a pool under a fresh id.
LEMMA CreateKeepsPools ==
    ASSUME Pools, phase = "serving", UNCHANGED phase, NEW n \in NativePools, HandlePoolCreate(n)
    PROVE  Pools' /\ pools \subseteq pools' /\ \E p \in pools' : p.id = next_pool_id
<1> DEFINE d == [id |-> next_pool_id, pool |-> n]
<1>1. /\ n \notin native /\ pools' = pools \cup {d} /\ next_pool_id' = next_pool_id + 1
      /\ native' = native \cup {n}
      /\ UNCHANGED <<default_id, current_id, saved, current, threshold, unrestored, undestroyed>>
  BY Zenon DEF HandlePoolCreate
<1>2. d.id = next_pool_id /\ d.pool = n /\ next_pool_id \in Nat \ {0} /\ n # DevicePool
  BY Zenon, ArenaAssumption DEF Pools, PoolTable
<1> HIDE DEF d
<1>3. ASSUME NEW p \in pools
      PROVE  p.pool # n /\ p.id # next_pool_id /\ p.id \in Nat \ {0} /\ p.id < next_pool_id
  <2>1. p.id \in Nat \ {0} /\ p.id < next_pool_id /\ p.pool \in native \cup {DevicePool}
    BY Zenon DEF Pools, PoolTable
  <2> QED BY <1>1, <1>2, <2>1
<1>4. next_pool_id # default_id
  <2>1. default_id = 0 \/ \E p \in pools : p.id = default_id
    BY Zenon DEF Pools, PoolTable
  <2> QED BY Zenon, <1>2, <1>3, <2>1
<1>5. PoolTable'
  <2>0. native \subseteq NativePools
    BY Zenon DEF Pools, PoolTable
  <2>1. next_pool_id' \in Nat \ {0} /\ native' \subseteq NativePools
    BY <1>1, <1>2, <2>0
  <2>2. ASSUME NEW p \in pools' PROVE p.id \in Nat \ {0} /\ p.id < next_pool_id'
    BY <1>1, <1>2, <1>3
  <2>3. ASSUME NEW p \in pools', NEW r \in pools', p.id = r.id \/ p.pool = r.pool
        PROVE  p = r
    <3>1. \A a, b \in pools : a.id = b.id \/ a.pool = b.pool => a = b
      BY Zenon DEF Pools, PoolTable
    <3>2. (p \in pools \/ p = d) /\ (r \in pools \/ r = d)
      BY Zenon, <1>1
    <3> QED BY Zenon, <1>2, <1>3, <2>3, <3>1, <3>2
  <2>4. ASSUME NEW p \in pools' PROVE p.pool \in native' \cup {DevicePool}
    <3>1. \A a \in pools : a.pool \in native \cup {DevicePool}
      BY Zenon DEF Pools, PoolTable
    <3> QED BY Zenon, <1>1, <1>2, <3>1
  <2>5. ASSUME NEW p \in pools' PROVE p.pool = DevicePool <=> p.id = default_id'
    <3>1. \A a \in pools : a.pool = DevicePool <=> a.id = default_id
      BY Zenon DEF Pools, PoolTable
    <3> QED BY Zenon, <1>1, <1>2, <1>4, <3>1
  <2>6. /\ default_id' = 0 \/ \E p \in pools' : p.id = default_id'
        /\ default_id' = 0 <=> current_id' = 0
    <3>1. /\ default_id = 0 \/ \E p \in pools : p.id = default_id
          /\ default_id = 0 <=> current_id = 0
      BY Zenon DEF Pools, PoolTable
    <3> QED BY Zenon, <1>1, <3>1
  <2>7. ASSUME NEW m \in native' PROVE m \in undestroyed' \/ \E p \in pools' : p.pool = m
    <3>1. \A k \in native : k \in undestroyed \/ \E p \in pools : p.pool = k
      BY Zenon DEF Pools, PoolTable
    <3> QED BY Zenon, <1>1, <1>2, <2>7, <3>1
  <2> QED BY Zenon, <2>1, <2>2, <2>3, <2>4, <2>5, <2>6, <2>7 DEF PoolTable
<1>6. Selected' /\ Restored'
  BY Zenon, <1>1 DEF Pools, Selected, Restored
<1> QED BY Zenon, <1>1, <1>2, <1>5, <1>6 DEF Pools

\* handle_pool_destroy selects the default pool before the current one goes.
LEMMA DestroyKeepsPools ==
    ASSUME Pools, phase = "serving", UNCHANGED phase, NEW p \in pools, NEW done \in BOOLEAN,
           HandlePoolDestroy(p, done)
    PROVE  Pools' /\ pools \ {p} \subseteq pools' /\ (~done => pools' = pools)
<1>1. /\ p.id # default_id
      /\ IF current_id = p.id
         THEN current_id' = default_id /\ current' = Pool(default_id).pool
         ELSE UNCHANGED <<current_id, current>>
      /\ pools' = (IF done THEN pools \ {p} ELSE pools)
      /\ native' = (IF done THEN native \ {p.pool} ELSE native)
      /\ UNCHANGED <<next_pool_id, default_id, saved, threshold, unrestored, undestroyed>>
  BY Zenon DEF HandlePoolDestroy
<1>2. p.pool # DevicePool /\ \A r \in pools : r # p => r.pool # p.pool /\ r.id # p.id
  BY Zenon, <1>1 DEF Pools, PoolTable
<1>3. ASSUME default_id # 0
      PROVE  /\ \E r \in pools' : r.id = default_id
             /\ Pool(default_id).pool = DevicePool /\ \E r \in pools' : r.id = default_id /\ r.pool = DevicePool
  <2>1. PICK r \in pools : r.id = default_id
    BY Zenon, <1>3 DEF Pools, PoolTable
  <2>2. r.pool = DevicePool /\ r # p
    BY Zenon, <1>1, <2>1 DEF Pools, PoolTable
  <2>3. Pool(default_id) \in pools /\ Pool(default_id).id = default_id
    BY Zenon, <2>1 DEF Pool
  <2>4. Pool(default_id) = r
    BY Zenon, <2>1, <2>3 DEF Pools, PoolTable
  <2> QED BY Zenon, <1>1, <2>1, <2>2, <2>4
<1>4. current_id' = 0 <=> default_id = 0
  <2>1. (default_id = 0 <=> current_id = 0) /\ p.id # 0
    BY Zenon DEF Pools, PoolTable
  <2> QED BY Zenon, <1>1, <2>1
<1>5. PoolTable'
  <2>1. /\ next_pool_id \in Nat \ {0} /\ native \subseteq NativePools
        /\ \A r \in pools : r.id \in Nat \ {0} /\ r.id < next_pool_id
        /\ \A q, r \in pools : q.id = r.id \/ q.pool = r.pool => q = r
        /\ \A r \in pools : r.pool = DevicePool <=> r.id = default_id
    BY Zenon DEF Pools, PoolTable
  <2>2. \A r \in pools : r.pool \in native \cup {DevicePool}
    BY Zenon DEF Pools, PoolTable
  <2>3. \A r \in pools' : r \in pools /\ (done => r # p)
    BY Zenon, <1>1
  <2>4. \A r \in pools' : r.pool \in native' \cup {DevicePool}
    BY Zenon, <1>1, <1>2, <2>2, <2>3
  <2>5. default_id = 0 \/ \E r \in pools' : r.id = default_id
    BY Zenon, <1>3
  <2>6. native' \subseteq NativePools
    BY Zenon, <1>1, <2>1
  <2>7. default_id' = default_id /\ next_pool_id' = next_pool_id
    BY Zenon, <1>1
  <2>8. ASSUME NEW n \in native' PROVE n \in undestroyed' \/ \E r \in pools' : r.pool = n
    <3>1. n \in native /\ (done => n # p.pool)
      BY Zenon, <1>1, <2>8
    <3>2. n \in undestroyed \/ \E r \in pools : r.pool = n
      BY Zenon, <3>1 DEF Pools, PoolTable
    <3> QED BY Zenon, <1>1, <3>1, <3>2
  <2> QED BY Zenon, <1>4, <2>1, <2>3, <2>4, <2>5, <2>6, <2>7, <2>8 DEF PoolTable
<1>6. Selected'
  <2>1. ASSUME default_id # 0
        PROVE  \E r \in pools' : r.id = current_id' /\ r.pool = current'
    BY Zenon, <1>1, <1>3, <2>1 DEF Pools, Selected
  <2>2. ASSUME default_id = 0 PROVE current' = DevicePool
    BY Zenon, <1>1, <2>2 DEF Pools, Selected, PoolTable
  <2> QED BY Zenon, <1>1, <2>1, <2>2 DEF Selected
<1>7. Restored'
  BY Zenon, <1>1 DEF Pools, Restored
<1> QED BY Zenon, <1>1, <1>5, <1>6, <1>7 DEF Pools

\* handle_pool_set_attribute reaches the device's pool only through the default
\* entry, whose attributes ensure_default_pool has saved.
LEMMA AttributeKeepsPools ==
    ASSUME Pools, phase = "serving", UNCHANGED phase, NEW p \in pools, HandleSetAttribute(p)
    PROVE  Pools' /\ pools' = pools
<1>1. /\ threshold' = (IF p.pool = DevicePool THEN "changed" ELSE threshold)
      /\ UNCHANGED <<pools, next_pool_id, default_id, current_id, saved, native, current, unrestored, undestroyed>>
  BY Zenon DEF HandleSetAttribute
<1>2. p.pool = DevicePool => default_id # 0
  BY Zenon DEF Pools, PoolTable
<1> QED BY Zenon, <1>1, <1>2 DEF Pools, PoolTable, Selected, Restored

\* handle_set_device_flags recreates the context only while no pool is known.
LEMMA FlagsKeepPools ==
    ASSUME Pools, phase = "serving", UNCHANGED phase, HandleSetDeviceFlags
    PROVE  Pools' /\ pools' = pools
<1>1. /\ pools = {} /\ current' = DevicePool
      /\ UNCHANGED <<pools, next_pool_id, default_id, current_id, saved, native, threshold, unrestored, undestroyed>>
  BY Zenon DEF HandleSetDeviceFlags
<1>2. default_id = 0
  BY Zenon, <1>1 DEF Pools, PoolTable
<1> QED BY Zenon, <1>1, <1>2 DEF Pools, PoolTable, Selected, Restored

\* A step that leaves the pools alone keeps what is said of them.
LEMMA SamePoolsKeepPools ==
    ASSUME Pools, UNCHANGED pooled, UNCHANGED phase, phase = "listening" => UNCHANGED storage
    PROVE  Pools' /\ pools' = pools
<1>1. UNCHANGED <<pools, next_pool_id, default_id, current_id, saved, native, current,
                  threshold, unrestored, undestroyed>>
  BY Zenon DEF pooled
<1> QED BY Zenon, <1>1 DEF Pools, PoolTable, Selected, Restored

\* Every handler whose reply may get lost keeps the pools in order.
LEMMA HandlersKeepPools ==
    ASSUME Pools, phase = "serving", UNCHANGED phase, Handled
    PROVE  Pools'
<1>1. ASSUME UNCHANGED pooled PROVE Pools'
  BY Zenon, <1>1, SamePoolsKeepPools
<1>2. ASSUME NEW n \in Sizes, NEW m \in Pick, HandleAlloc(n, m)
      PROVE  Pools'
  BY Zenon, <1>1, <1>2 DEF HandleAlloc
<1>3. ASSUME NEW n \in Sizes, NEW m \in Pick, HandleAllocAsync(n, m, FALSE)
      PROVE  Pools'
  <2>1. /\ EnsureDefaultPool /\ current_id' = CurrentAfterEnsure
        /\ UNCHANGED <<native, current, threshold, unrestored, undestroyed>>
    BY Zenon, <1>3 DEF HandleAllocAsync
  <2> QED BY Zenon, <2>1, EnsureKeepsPools
<1>4. ASSUME NEW a \in allocs, HandleFree(a)
      PROVE  Pools'
  BY Zenon, <1>1, <1>4 DEF HandleFree
<1>5. ASSUME NEW a \in allocs, NEW q \in Queues, HandleSubmit(a, q) \/ HandleFreeAsync(a, q)
      PROVE  Pools'
  BY Zenon, <1>1, <1>5 DEF HandleSubmit, HandleFreeAsync
<1>6. ASSUME NEW n \in NativePools, HandlePoolCreate(n)
      PROVE  Pools'
  BY Zenon, <1>6, CreateKeepsPools
<1>7. ASSUME NEW p \in pools, HandleSetPool(p)
      PROVE  Pools'
  BY Zenon, <1>7, EnsureKeepsPools DEF HandleSetPool
<1>8. ASSUME NEW p \in pools, HandleSetAttribute(p)
      PROVE  Pools'
  BY Zenon, <1>8, AttributeKeepsPools
<1>9. ASSUME NEW p \in pools, NEW done \in BOOLEAN, HandlePoolDestroy(p, done)
      PROVE  Pools'
  BY Zenon, <1>9, DestroyKeepsPools
<1>10. CASE HandleSetDeviceFlags
  BY Zenon, <1>10, FlagsKeepPools
<1> QED BY Zenon, <1>2, <1>3, <1>4, <1>5, <1>6, <1>7, <1>8, <1>9, <1>10 DEF Handled

\* Every call of the application keeps pools and handles in order.
LEMMA CallsKeepPools ==
    ASSUME Pools, HandlesLive, Call
    PROVE  Pools' /\ HandlesLive'
<1>0. Up /\ UNCHANGED <<phase, conn>>
  <2>1. Call => Up
    BY ZenonT(30)
       DEF Call, Malloc, MallocAsync, MallocPitch, MallocRefused, Free, FreeAsync, Submit,
           GetDefaultPool, GetCurrentPool, PoolCreate, PoolCall, SetDeviceFlags
  <2>2. Call => UNCHANGED <<phase, conn>>
    BY Zenon DEF Call, Malloc, MallocAsync, MallocPitch, MallocRefused, Free, FreeAsync, Submit,
           GetDefaultPool, GetCurrentPool, PoolCreate, PoolCall, SetDeviceFlags, session
  <2> QED BY Zenon, <2>1, <2>2
<1>1. phase = "serving" /\ conn = "up" /\ \A id \in handles : HasPool(id)
  BY Zenon, <1>0 DEF Up, HandlesLive
<1>2. ASSUME \A id \in handles' : HasPool(id)' PROVE HandlesLive'
  BY Zenon, <1>0, <1>1, <1>2 DEF HandlesLive
<1>3. ASSUME UNCHANGED handled, pools \subseteq pools' PROVE HandlesLive'
  <2>1. \A id \in handles' : HasPool(id)'
    BY Zenon, <1>1, <1>3 DEF handled, HasPool
  <2> QED BY Zenon, <1>2, <2>1
<1>4. ASSUME NEW id, Remember(id), pools \subseteq pools', \E p \in pools' : p.id = id
      PROVE  HandlesLive'
  <2>1. handles' \subseteq handles \cup {id}
    BY Zenon, <1>4 DEF Remember, handled
  <2>2. \A i \in handles' : HasPool(i)'
    BY Zenon, <1>1, <1>4, <2>1 DEF HasPool
  <2> QED BY Zenon, <1>2, <2>2
<1>5. ASSUME UNCHANGED pooled, UNCHANGED handled PROVE Pools' /\ HandlesLive'
  BY Zenon, <1>0, <1>1, <1>3, <1>5, SamePoolsKeepPools
<1>6. ASSUME NEW n \in Sizes, NEW m \in Pick, Malloc(n, m)
      PROVE  Pools' /\ HandlesLive'
  BY Zenon, <1>5, <1>6 DEF Malloc, HandleAlloc
<1>7. ASSUME EnsureDefaultPool, current_id' = CurrentAfterEnsure,
             UNCHANGED <<native, current, threshold, unrestored, undestroyed>>
      PROVE  Pools' /\ pools \subseteq pools' /\ \E p \in pools' : p.id = default_id'
  BY Zenon, <1>0, <1>1, <1>7, EnsureKeepsPools
<1>8. ASSUME NEW n \in Sizes, NEW m \in Pick, NEW explicit \in BOOLEAN, MallocAsync(n, m, explicit)
      PROVE  Pools' /\ HandlesLive'
  <2>1. /\ UNCHANGED handled /\ UNCHANGED <<native, current, threshold, unrestored, undestroyed>>
        /\ IF explicit THEN UNCHANGED <<pools, next_pool_id, default_id, current_id, saved>>
                       ELSE EnsureDefaultPool /\ current_id' = CurrentAfterEnsure
    BY Zenon, <1>8 DEF MallocAsync, HandleAllocAsync
  <2>2. CASE explicit
    <3>1. UNCHANGED pooled
      BY Zenon, <2>1, <2>2 DEF pooled
    <3> QED BY Zenon, <1>5, <2>1, <3>1
  <2>3. CASE ~explicit
    BY Zenon, <1>3, <1>7, <2>1, <2>3
  <2> QED BY Zenon, <2>2, <2>3
<1>9. ASSUME NEW w, NEW h, NEW p, NEW m, MallocPitch(w, h, p, m)
      PROVE  Pools' /\ HandlesLive'
  BY Zenon, <1>5, <1>9 DEF MallocPitch, HandleAlloc
<1>10. CASE MallocRefused
  <2>1. UNCHANGED handled
    BY Zenon, <1>10 DEF MallocRefused
  <2>2. CASE UNCHANGED pooled
    BY Zenon, <1>5, <2>1, <2>2
  <2>3. CASE HandleAllocAsyncRefused
    BY Zenon, <1>3, <1>7, <2>1, <2>3 DEF HandleAllocAsyncRefused
  <2> QED BY Zenon, <1>10, <2>2, <2>3 DEF MallocRefused, HandleAllocRefused, HandlePitchRefused
<1>11. ASSUME NEW s, NEW q, Free(s) \/ FreeAsync(s, q)
       PROVE  Pools' /\ HandlesLive'
  BY Zenon, <1>5, <1>11 DEF Free, FreeAsync, HandleFree, HandleFreeAsync
<1>12. ASSUME NEW ptr, NEW n, NEW q, Submit(ptr, n, q)
       PROVE  Pools' /\ HandlesLive'
  BY Zenon, <1>5, <1>12 DEF Submit, HandleSubmit
<1>13. CASE GetDefaultPool
  BY Zenon, <1>4, <1>7, <1>13 DEF GetDefaultPool, HandleDevicePool
<1>14. CASE GetCurrentPool
  <2>1. \E p \in pools' : p.id = current_id'
    BY Zenon, <1>14 DEF GetCurrentPool
  <2> QED BY Zenon, <1>4, <1>7, <1>14, <2>1 DEF GetCurrentPool, HandleDevicePool
<1>15. ASSUME NEW n \in NativePools, PoolCreate(n)
       PROVE  Pools' /\ HandlesLive'
  <2>1. Pools' /\ pools \subseteq pools' /\ \E p \in pools' : p.id = next_pool_id
    BY Zenon, <1>0, <1>1, <1>15, CreateKeepsPools DEF PoolCreate
  <2> QED BY Zenon, <1>4, <1>15, <2>1 DEF PoolCreate
<1>16. ASSUME NEW id \in handles, PoolCall(id)
       PROVE  Pools' /\ HandlesLive'
  <2> DEFINE p == Pool(id)
  <2>1. p \in pools /\ p.id = id
    BY Zenon, <1>16 DEF PoolCall, HasPool, Pool
  <2> HIDE DEF p
  <2>2. CASE HandleSetPool(p) /\ UNCHANGED handled
    BY Zenon, <1>0, <1>1, <1>3, <2>1, <2>2, EnsureKeepsPools DEF HandleSetPool
  <2>3. CASE HandleSetAttribute(p) /\ UNCHANGED handled
    BY Zenon, <1>0, <1>1, <1>3, <2>1, <2>3, AttributeKeepsPools
  <2>4. CASE HandlePoolDestroy(p, TRUE) /\ handles' = handles \ {id}
    <3>1. Pools' /\ pools \ {p} \subseteq pools'
      BY Zenon, <1>0, <1>1, <2>1, <2>4, DestroyKeepsPools
    <3>2. \A i \in handles' : HasPool(i)'
      BY Zenon, <1>1, <2>1, <2>4, <3>1 DEF HasPool
    <3> QED BY Zenon, <1>2, <3>1, <3>2
  <2>5. CASE HandlePoolDestroy(p, FALSE) /\ UNCHANGED handled
    <3>1. Pools' /\ pools' = pools
      BY Zenon, <1>0, <1>1, <2>1, <2>5, DestroyKeepsPools
    <3> QED BY Zenon, <1>3, <2>5, <3>1
  <2> QED BY Zenon, <1>16, <2>2, <2>3, <2>4, <2>5 DEF PoolCall, p
<1>17. CASE SetDeviceFlags
  BY Zenon, <1>0, <1>1, <1>3, <1>17, FlagsKeepPools DEF SetDeviceFlags
<1> QED BY Zenon, <1>6, <1>8, <1>9, <1>10, <1>11, <1>12, <1>13, <1>14, <1>15, <1>16, <1>17 DEF Call

\* Every step of the system keeps pools and handles in order.
LEMMA PoolsInductive == Pools /\ HandlesLive /\ [Next]_vars => Pools' /\ HandlesLive'
<1> SUFFICES ASSUME Pools, HandlesLive, [Next]_vars PROVE Pools' /\ HandlesLive'
  OBVIOUS
<1>1. ASSUME UNCHANGED pooled, UNCHANGED phase, UNCHANGED storage PROVE Pools' /\ pools' = pools
  BY Zenon, <1>1, SamePoolsKeepPools
<1>2. CASE UNCHANGED vars
  <2>1. UNCHANGED <<pooled, phase, storage, handles, conn>>
    BY Zenon, <1>2 DEF vars, cvars, svars, dvars, hvars, pooled
  <2> QED BY Zenon, <1>1, <2>1 DEF HandlesLive, HasPool
<1>3. CASE EnsureRuntime
  <2>1. /\ phase = "listening" /\ phase' = "serving" /\ conn = "none"
        /\ UNCHANGED <<pooled, handles>>
    BY Zenon, <1>3 DEF EnsureRuntime, handled
  <2> QED BY Zenon, <2>1 DEF pooled, Pools, PoolTable, Selected, Restored, HandlesLive
<1>4. CASE Call
  BY Zenon, <1>4, CallsKeepPools
<1>5. ASSUME handles' = {}, conn' = "none" PROVE HandlesLive'
  BY Zenon, <1>5 DEF HandlesLive
<1>6. CASE LostReply
  BY Zenon, <1>5, <1>6, HandlersKeepPools DEF LostReply, Up, ForgetSession
<1>7. CASE Disconnect
  <2>1. UNCHANGED <<pooled, phase, storage>> /\ conn' = "broken"
    BY Zenon, <1>7 DEF Disconnect, memory
  <2> QED BY Zenon, <1>1, <2>1 DEF HandlesLive
<1>8. CASE NoticeLoss
  BY Zenon, <1>1, <1>5, <1>8 DEF NoticeLoss, ForgetSession, memory
<1>9. ASSUME UNCHANGED pooled, phase \in {"serving", "streams", "context", "release"},
             phase' \in {"streams", "context", "release", "restore"}
      PROVE  Pools'
  BY Zenon, <1>9 DEF pooled, Pools, PoolTable, Selected, Restored
<1>10. CASE Shutdown
  BY Zenon, <1>5, <1>9, <1>10 DEF Shutdown, ForgetSession, Up
<1>11. ASSUME UNCHANGED cvars, conn # "up" PROVE HandlesLive'
  BY Zenon, <1>11 DEF cvars, HandlesLive
<1>12. CASE EndServing
  BY Zenon, <1>9, <1>11, <1>12 DEF EndServing
<1>13. CASE SyncStreams \/ SyncContext \/ SyncFails \/ ReleaseAllocations
  <2>1. /\ UNCHANGED pooled /\ UNCHANGED cvars
        /\ phase \in {"streams", "context", "release"}
        /\ phase' \in {"context", "release", "restore"}
    BY Zenon, <1>13 DEF SyncStreams, SyncContext, SyncFails, ReleaseAllocations
  <2>2. conn # "up"
    BY Zenon, <2>1 DEF HandlesLive
  <2> QED BY Zenon, <1>9, <1>11, <2>1, <2>2
<1>14. CASE RestoreDefaultPool
  <2>1. phase = "restore" /\ phase' = "destroy" /\ UNCHANGED cvars
    BY Zenon, <1>14 DEF RestoreDefaultPool
  <2>2. conn # "up"
    BY Zenon, <2>1 DEF HandlesLive
  <2>3. PoolTable'
    BY Zenon, <1>14 DEF RestoreDefaultPool, Pools, PoolTable
  <2>4. Selected'
    BY Zenon, <2>1 DEF Selected
  <2>5. Restored'
    BY Zenon, <1>14 DEF RestoreDefaultPool, Pools, Restored
  <2> QED BY Zenon, <1>11, <2>1, <2>2, <2>3, <2>4, <2>5 DEF Pools
<1>15. CASE DestroyPools
  <2>1. phase = "destroy" /\ phase' = "reset" /\ UNCHANGED cvars
    BY Zenon, <1>15 DEF DestroyPools
  <2>2. conn # "up"
    BY Zenon, <2>1 DEF HandlesLive
  <2>3. PoolTable'
    <3>1. PICK left \in SUBSET CustomPools : /\ native' = native \ (CustomPools \ left)
                                             /\ undestroyed' = undestroyed \cup left
      BY Zenon, <1>15 DEF DestroyPools
    <3>2. native \subseteq NativePools /\ DevicePool \notin native
      BY Zenon, ArenaAssumption DEF Pools, PoolTable
    <3>3. ASSUME NEW n \in native' PROVE n \in undestroyed'
      <4>1. n \in undestroyed \/ \E p \in pools : p.pool = n
        BY Zenon, <3>1, <3>3 DEF Pools, PoolTable
      <4>2. n \in undestroyed \/ n \in CustomPools
        BY Zenon, <3>1, <3>2, <3>3, <4>1 DEF CustomPools
      <4> QED BY Zenon, <3>1, <3>3, <4>2
    <3>4. native' \subseteq NativePools
      BY Zenon, <3>1, <3>2
    <3>5. 1 \in Nat \ {0}
      OBVIOUS
    <3> QED BY Zenon, <1>15, <3>3, <3>4, <3>5 DEF DestroyPools, PoolTable
  <2>4. Selected'
    BY Zenon, <2>1 DEF Selected
  <2>5. Restored'
    BY Zenon, <1>15 DEF DestroyPools, Pools, Restored
  <2> QED BY Zenon, <1>11, <2>1, <2>2, <2>3, <2>4, <2>5 DEF Pools
<1>16. CASE ResetContext
  <2>1. phase = "reset" /\ phase' \in {"listening", "stopped"} /\ UNCHANGED cvars
    BY Zenon, <1>16 DEF ResetContext
  <2>2. conn # "up"
    BY Zenon, <2>1 DEF HandlesLive
  <2>3. PoolTable'
    BY Zenon, <1>16 DEF ResetContext, Pools, PoolTable
  <2>4. Selected'
    BY Zenon, <2>1 DEF Selected
  <2>5. Restored'
    BY Zenon, <1>16 DEF ResetContext, Pools, Restored
  <2> QED BY Zenon, <1>11, <2>1, <2>2, <2>3, <2>4, <2>5 DEF Pools
<1>17. ASSUME NEW q \in Queues, DeviceStep(q) PROVE Pools' /\ HandlesLive'
  <2>1. UNCHANGED <<pooled, phase, handles, conn>> /\ storage' \subseteq storage
    BY Zenon, <1>17 DEF DeviceStep, cvars
  <2>2. phase = "listening" => UNCHANGED storage
    BY Zenon, <2>1 DEF Pools, Restored
  <2>3. Pools' /\ pools' = pools
    BY Zenon, <2>1, <2>2, SamePoolsKeepPools
  <2> QED BY Zenon, <2>1, <2>3 DEF HandlesLive, HasPool
<1> QED BY Zenon, <1>2, <1>3, <1>4, <1>6, <1>7, <1>8, <1>10, <1>12, <1>13, <1>14, <1>15, <1>16, <1>17
        DEF Next, Server

\* There are no pools before the first session.
LEMMA PoolsInitially == Init => Pools /\ HandlesLive
<1> SUFFICES ASSUME Init PROVE Pools /\ HandlesLive
  OBVIOUS
<1>1. PoolTable
  BY DEF Init, PoolTable
<1>2. Selected
  BY Zenon DEF Init, Selected
<1>3. Restored
  BY Zenon DEF Init, Restored
<1>4. HandlesLive
  BY Zenon DEF Init, HandlesLive
<1> QED BY Zenon, <1>1, <1>2, <1>3, <1>4 DEF Pools

\* Pools and handles are always in order.
THEOREM PoolsSound == Spec => [](Pools /\ HandlesLive)
  BY PoolsInitially, PoolsInductive, PTL DEF Spec

\* The pool the server believes to be current is the device's and exists, for any
\* number of pools and any order of selections, destructions and failures.
THEOREM CurrentPoolIsRight == Spec => []PoolsAgree
<1>1. Pools /\ HandlesLive => PoolsAgree
  <2> SUFFICES ASSUME Pools, HandlesLive, phase = "serving"
      PROVE  /\ current \in native \cup {DevicePool}
             /\ current_id # 0 => HasPool(current_id) /\ Pool(current_id).pool = current
             /\ conn = "up" => \A id \in handles : HasPool(id)
    BY Zenon DEF PoolsAgree
  <2>1. current_id # 0 => \E p \in pools : p.id = current_id /\ p.pool = current
    BY Zenon DEF Pools, PoolTable, Selected
  <2>2. current_id = 0 => current = DevicePool
    BY Zenon DEF Pools, PoolTable, Selected
  <2>3. current \in native \cup {DevicePool}
    BY Zenon, <2>1, <2>2 DEF Pools, PoolTable
  <2>4. ASSUME current_id # 0
        PROVE  HasPool(current_id) /\ Pool(current_id).pool = current
    <3>1. PICK p \in pools : p.id = current_id /\ p.pool = current
      BY Zenon, <2>1, <2>4
    <3>2. Pool(current_id) \in pools /\ Pool(current_id).id = current_id
      BY Zenon, <3>1 DEF Pool
    <3>3. Pool(current_id) = p
      BY Zenon, <3>1, <3>2 DEF Pools, PoolTable
    <3> QED BY Zenon, <3>1, <3>3 DEF HasPool
  <2> QED BY Zenon, <2>3, <2>4 DEF HandlesLive
<1> QED BY <1>1, PoolsSound, PTL

\* The server listens again only when nothing of the ended sessions is left but
\* what the driver refused to undo: no storage, no custom pool other than those
\* whose destruction it refused, the default selection and, unless it refused to
\* write them back, the original attributes.
THEOREM SessionsAreIsolated == Spec => []NextSessionPristine
<1>1. Pools => NextSessionPristine
  BY Zenon DEF Pools, PoolTable, Restored, NextSessionPristine
<1> QED BY <1>1, PoolsSound, PTL
=============================================================================
