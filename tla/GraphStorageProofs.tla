------------------------- MODULE GraphStorageProofs -------------------------
(***************************************************************************)
(* Proofs about the storage behind graph reservations: no node touches a   *)
(* reservation without storage in any order the device may run the nodes,  *)
(* storage has an executable that maps it, and when the device is idle the *)
(* active reservations are the ones that have storage.                     *)
(***************************************************************************)
EXTENDS GraphMemoryProofs

-----------------------------------------------------------------------------
(* The storage of the device                                               *)

\* The queue is in order, it takes what has storage to what is active, and
\* all of it is mapped.
StorageOk(q, bk, execs, act) ==
    QueueOk(q) /\ (\A a : Runs(q, bk, act, a)) /\ MapOk(q, execs, act)

Storage == StorageOk(inflight, backing, sExec, ActiveIn(sAlloc))

\* An idle device.
LEMMA StorageIdle ==
    ASSUME NEW bk, NEW execs, NEW act
    PROVE  StorageOk(<<>>, bk, execs, act)
              <=> /\ \A a : a \in bk <=> a \in act
                  /\ \A a \in act : \E e \in DOMAIN execs : a \in Creates(execs[e].nodes)
<1>1. IsSeq(<<>>) /\ DOMAIN <<>> = {}
  BY DEF IsSeq
<1>2. QueueOk(<<>>)
  BY Zenon, <1>1 DEF QueueOk
<1>3. MapOk(<<>>, execs, act)
         <=> \A a \in act : \E e \in DOMAIN execs : a \in Creates(execs[e].nodes)
  BY Zenon, <1>1 DEF MapOk
<1>4. (\A a : Runs(<<>>, bk, act, a)) <=> (\A a : a \in bk <=> a \in act)
  BY Zenon, RunsEmpty
<1> QED
  BY Zenon, <1>2, <1>3, <1>4 DEF StorageOk

\* A call that submits nothing and leaves the same reservations active.
LEMMA StorageKept ==
    ASSUME NEW q, NEW bk, NEW execs, NEW act, StorageOk(q, bk, execs, act), NEW execs2, NEW act2,
           \A a : a \in act2 <=> a \in act,
           \A e \in DOMAIN execs : \A a \in Creates(execs[e].nodes) :
              /\ e \in DOMAIN execs2 /\ a \in Creates(execs2[e].nodes)
              /\ MarksOf(execs[e], a) \subseteq MarksOf(execs2[e], a)
    PROVE  StorageOk(q, bk, execs2, act2)
<1>1. MapOk(q, execs2, act)
  BY Zenon, MapKept DEF StorageOk
<1>2. MapOk(q, execs2, act2)
  BY Zenon, <1>1 DEF MapOk
<1>3. \A a : Runs(q, bk, act2, a)
  BY Zenon DEF StorageOk, Runs
<1> QED
  BY Zenon, <1>2, <1>3 DEF StorageOk

\* retire_graph_memory destroys no executable that maps storage.
LEMMA StorageRetire ==
    ASSUME NEW q, NEW bk, NEW execs, NEW allocs, StorageOk(q, bk, execs, ActiveIn(allocs)),
           NEW gs, NEW busy, busy = Busy(q), RetireGraphMemory(execs, allocs, gs, busy)
    PROVE  StorageOk(q, bk, sExec', ActiveIn(sAlloc'))
<1>1. ActiveIn(sAlloc') = ActiveIn(allocs)
  BY Zenon, RetireView
<1>2. MapOk(q, ExecsLeft(execs, allocs, Busy(q)), ActiveIn(allocs))
  BY Zenon, MapRetire DEF StorageOk
<1>3. sExec' = ExecsLeft(execs, allocs, Busy(q))
  BY Zenon DEF RetireGraphMemory
<1> QED
  BY Zenon, <1>1, <1>2, <1>3 DEF StorageOk

\* New work finds and leaves the reservations as the calls have left them.
LEMMA StorageAppend ==
    ASSUME NEW q, NEW bk, NEW execs, NEW act, StorageOk(q, bk, execs, act),
           NEW x, NEW execs2, NEW act2, ItemOk(x),
           \A i \in DOMAIN q : \A a : a \in q[i].names /\ a \in x.names => Waits(q[i], x),
           \A a : StepOn(x, a, a \in act, a \in act2),
           \A e \in DOMAIN execs : \A a \in Creates(execs[e].nodes) :
              /\ e \in DOMAIN execs2 /\ a \in Creates(execs2[e].nodes)
              /\ a \notin x.names => MarksOf(execs[e], a) \subseteq MarksOf(execs2[e], a),
           \A a : a \notin x.names => (a \in act2 <=> a \in act),
           \A a \in x.names : \E e \in DOMAIN execs2 :
              /\ a \in Creates(execs2[e].nodes)
              /\ a \notin act2 => x.stream \in MarksOf(execs2[e], a)
    PROVE  StorageOk(Append(q, x), bk, execs2, act2)
<1>1. QueueOk(q) /\ IsSeq(q) /\ MapOk(q, execs, act)
  BY Zenon DEF StorageOk, QueueOk
<1>2. QueueOk(Append(q, x))
  BY Zenon, <1>1, QueueAppend
<1>3. ASSUME NEW a PROVE Runs(Append(q, x), bk, act2, a)
  <2>1. Runs(q, bk, act, a)
    BY Zenon DEF StorageOk
  <2>2. StepOn(x, a, a \in act, a \in act2)
    BY Zenon
  <2> QED
    BY Zenon, <1>1, <2>1, <2>2, RunsAppend
<1>4. MapOk(Append(q, x), execs2, act2)
  BY Zenon, <1>1, MapAppend
<1> QED
  BY Zenon, <1>2, <1>3, <1>4 DEF StorageOk

\* The work of a call that is not a launch: one node on one reservation.
Single(x, s, kind, a) == x = Item(s, 0, <<[kind |-> kind, alloc |-> a]>>, {})

\* The work of a call that uses or frees one reservation.
LEMMA SingleItem ==
    ASSUME NEW s, NEW kind, kind # "alloc", NEW a, NEW x, Single(x, s, kind, a)
    PROVE  /\ ItemOk(x) /\ x.left # <<>> /\ x.stream = s /\ x.exec = 0
           /\ \A b : b \in x.names <=> b = a
           /\ \A b : b \in Names(x.left) <=> b = a
           /\ \A b : b \notin Creates(x.left)
           /\ \A b : b \in Frees(x.left) <=> b = a /\ kind = "free"
<1>1. PICK l : l = <<[kind |-> kind, alloc |-> a]>>
  OBVIOUS
<1>2. x = [stream |-> s, exec |-> 0, names |-> Names(l), left |-> l, edges |-> {}]
  BY Zenon, <1>1 DEF Item, Single
<1>3. x.stream = s /\ x.exec = 0 /\ x.names = Names(l) /\ x.left = l /\ x.edges = {}
  BY <1>2
<1>4. DOMAIN l = {1} /\ l[1].kind = kind /\ l[1].alloc = a /\ l # <<>>
  BY <1>1
<1>5. \A b : b \in Names(l) <=> b = a
  BY Zenon, <1>4 DEF Names
<1>6. \A b : b \notin Creates(l)
  BY Zenon, <1>4 DEF Creates
<1>7. \A b : b \in Frees(l) <=> b = a /\ kind = "free"
  BY Zenon, <1>4 DEF Frees
<1>8. ItemOk(x)
  <2>1. x = [stream |-> x.stream, exec |-> x.exec, names |-> x.names,
             left |-> x.left, edges |-> x.edges]
    BY Zenon, <1>2
  <2>2. OneAlloc(l)
    BY Zenon, <1>4 DEF OneAlloc
  <2>3. \A m, k \in DOMAIN l : ~Before(l, m, k)
    BY Zenon, <1>4 DEF Before
  <2> QED
    BY Zenon, <1>3, <2>1, <2>2, <2>3 DEF ItemOk
<1> QED
  BY Zenon, <1>3, <1>4, <1>5, <1>6, <1>7, <1>8

-----------------------------------------------------------------------------
(* The device runs a node                                                  *)

\* One node of what is left has run.
LEMMA NodeRuns ==
    ASSUME NEW l, NEW n \in DOMAIN l, OneAlloc(l), \A m \in DOMAIN l : ~Before(l, m, n),
           NEW a, a = l[n].alloc, NEW l2, l2 = Without(l, {n})
    PROVE  /\ a \in Names(l)
           /\ \A b : b # a => /\ b \in Names(l2) <=> b \in Names(l)
                              /\ b \in Creates(l2) <=> b \in Creates(l)
                              /\ b \in Frees(l2) <=> b \in Frees(l)
           /\ a \notin Creates(l2)
           /\ a \in Creates(l) <=> l[n].kind = "alloc"
           /\ l[n].kind = "free" => a \notin Names(l2) /\ a \in Frees(l)
           /\ l[n].kind # "free" => (a \in Frees(l2) <=> a \in Frees(l))
<1>1. /\ \A m : m \in DOMAIN l2 <=> m \in DOMAIN l /\ m # n
      /\ \A m \in DOMAIN l2 : l2[m] = l[m]
  BY Zenon DEF Without
<1>2. \A b : b \in Names(l2) <=> \E m \in DOMAIN l : m # n /\ l[m].alloc = b
  <2>1. \A b : b \in Names(l2) <=> \E m \in DOMAIN l2 : l2[m].alloc = b
    BY Zenon DEF Names
  <2>2. ASSUME NEW b, NEW m \in DOMAIN l2, l2[m].alloc = b
        PROVE  \E k \in DOMAIN l : k # n /\ l[k].alloc = b
    BY Zenon, <1>1, <2>2
  <2>3. ASSUME NEW b, NEW m \in DOMAIN l, m # n, l[m].alloc = b
        PROVE  \E k \in DOMAIN l2 : l2[k].alloc = b
    BY Zenon, <1>1, <2>3
  <2> QED
    BY Zenon, <2>1, <2>2, <2>3
<1>3. \A b : b \in Names(l) <=> \E m \in DOMAIN l : l[m].alloc = b
  BY Zenon DEF Names
<1>4. \A b : b \in Creates(l2) <=> \E m \in DOMAIN l : m # n /\ l[m].kind = "alloc" /\ l[m].alloc = b
  BY <1>1 DEF Creates
<1>5. \A b : b \in Creates(l) <=> \E m \in DOMAIN l : l[m].kind = "alloc" /\ l[m].alloc = b
  BY Zenon DEF Creates
<1>6. \A b : b \in Frees(l2) <=> \E m \in DOMAIN l : m # n /\ l[m].kind = "free" /\ l[m].alloc = b
  BY <1>1 DEF Frees
<1>7. \A b : b \in Frees(l) <=> \E m \in DOMAIN l : l[m].kind = "free" /\ l[m].alloc = b
  BY Zenon DEF Frees
<1>8. ASSUME NEW b, b # a
      PROVE  /\ b \in Names(l2) <=> b \in Names(l)
             /\ b \in Creates(l2) <=> b \in Creates(l)
             /\ b \in Frees(l2) <=> b \in Frees(l)
  <2>1. \A m \in DOMAIN l : l[m].alloc = b => m # n
    BY Zenon, <1>8
  <2>2. b \in Names(l2) <=> b \in Names(l)
    BY Zenon, <1>2, <1>3, <2>1
  <2>3. b \in Creates(l2) <=> b \in Creates(l)
    BY Zenon, <1>4, <1>5, <2>1
  <2>4. b \in Frees(l2) <=> b \in Frees(l)
    BY Zenon, <1>6, <1>7, <2>1
  <2> QED
    BY Zenon, <2>2, <2>3, <2>4
<1>9. ASSUME NEW m \in DOMAIN l, m # n, l[m].alloc = a, l[m].kind = "alloc" PROVE FALSE
  <2>1. CASE l[n].kind = "alloc"
    BY Zenon, <1>9, <2>1 DEF OneAlloc
  <2>2. CASE l[n].kind # "alloc"
    BY Zenon, <1>9, <2>2 DEF Before
  <2> QED
    BY Zenon, <2>1, <2>2
<1>10. a \notin Creates(l2)
  BY Zenon, <1>4, <1>9
<1>11. a \in Creates(l) <=> l[n].kind = "alloc"
  <2>1. ASSUME l[n].kind = "alloc" PROVE a \in Creates(l)
    BY Zenon, <1>5, <2>1
  <2>2. ASSUME a \in Creates(l) PROVE l[n].kind = "alloc"
    <3>1. PICK m \in DOMAIN l : l[m].kind = "alloc" /\ l[m].alloc = a
      BY Zenon, <1>5, <2>2
    <3> QED
      BY Zenon, <1>9, <3>1
  <2> QED
    BY Zenon, <2>1, <2>2
<1>12. ASSUME l[n].kind = "free" PROVE a \notin Names(l2) /\ a \in Frees(l)
  <2>1. ASSUME NEW m \in DOMAIN l, m # n, l[m].alloc = a PROVE FALSE
    BY Zenon, <1>9, <1>12, <2>1 DEF Before
  <2> QED
    BY Zenon, <1>2, <1>7, <1>12, <2>1
<1>13. ASSUME l[n].kind # "free" PROVE a \in Frees(l2) <=> a \in Frees(l)
  BY Zenon, <1>6, <1>7, <1>13
<1> QED
  BY Zenon, <1>3, <1>8, <1>10, <1>11, <1>12, <1>13

\* What has storage after a node of kind k for reservation a has run.
Ran(bk, k, a) == CASE k = "alloc" -> bk \cup {a} [] k = "free" -> bk \ {a} [] OTHER -> bk

\* The node finds its reservation with storage unless it allocates it, and
\* what is left of the item goes on from there.
LEMMA NodeStep ==
    ASSUME NEW l, NEW n \in DOMAIN l, OneAlloc(l), \A m \in DOMAIN l : ~Before(l, m, n),
           NEW bk, l[n].alloc \in bk <=> l[n].alloc \notin Creates(l)
    PROVE  /\ \A y : y.left = Without(l, {n}) =>
                 StepOn(y, l[n].alloc, l[n].alloc \in Ran(bk, l[n].kind, l[n].alloc),
                        l[n].alloc \notin Frees(l))
           /\ \A b : b # l[n].alloc => (b \in Ran(bk, l[n].kind, l[n].alloc) <=> b \in bk)
<1>1. PICK a, bk2 : a = l[n].alloc /\ bk2 = Ran(bk, l[n].kind, l[n].alloc)
  OBVIOUS
<1>2. PICK l2 : l2 = Without(l, {n})
  OBVIOUS
<1>3. /\ a \notin Creates(l2)
      /\ a \in Creates(l) <=> l[n].kind = "alloc"
      /\ l[n].kind = "free" => a \notin Names(l2) /\ a \in Frees(l)
      /\ l[n].kind # "free" => (a \in Frees(l2) <=> a \in Frees(l))
  BY <1>1, <1>2, NodeRuns
<1>4. Frees(l2) \subseteq Names(l2)
  BY Zenon, NamesAll
<1>5. PICK k : k = l[n].kind
  OBVIOUS
<1>6. /\ k = "alloc" => bk2 = bk \cup {a}
      /\ k = "free" => bk2 = bk \ {a}
      /\ k # "alloc" /\ k # "free" => bk2 = bk
  BY <1>1, <1>5 DEF Ran
<1>7. \A b : b # a => (b \in bk2 <=> b \in bk)
  BY Zenon, <1>6
<1>8. a \in bk2 <=> k # "free"
  <2>1. k = "alloc" => k # "free"
    OBVIOUS
  <2> QED
    BY Zenon, <1>1, <1>3, <1>5, <1>6, <2>1
<1>9. ASSUME NEW y, y.left = Without(l, {n}) PROVE StepOn(y, a, a \in bk2, a \notin Frees(l))
  <2>1. y.left = l2
    BY Zenon, <1>2, <1>9
  <2>2. CASE k = "free"
    BY Zenon, <1>3, <1>5, <1>8, <2>1, <2>2 DEF StepOn
  <2>3. CASE k # "free"
    BY Zenon, <1>3, <1>4, <1>5, <1>8, <2>1, <2>3 DEF StepOn
  <2> QED
    BY Zenon, <2>2, <2>3
<1> QED
  BY Zenon, <1>1, <1>7, <1>9

\* What the device does not reach before item i, and what a ready node needs.
LEMMA ReadyFacts ==
    ASSUME Storage, NEW i \in DOMAIN inflight, NEW n \in DOMAIN inflight[i].left, Ready(i, n),
           NEW a, a = inflight[i].left[n].alloc
    PROVE  /\ \A j \in 1..(i - 1) : a \notin Names(inflight[j].left)
           /\ a \in inflight[i].names /\ a \in Names(inflight[i].left)
           /\ \A m \in DOMAIN inflight[i].left : ~Before(inflight[i].left, m, n)
           /\ OneAlloc(inflight[i].left) /\ ItemOk(inflight[i])
           /\ a \in backing <=> a \notin Creates(inflight[i].left)
<1>1. QueueOk(inflight) /\ IsSeq(inflight) /\ Runs(inflight, backing, ActiveIn(sAlloc), a)
  BY Zenon DEF Storage, StorageOk, QueueOk
<1>2. ItemOk(inflight[i]) /\ OneAlloc(inflight[i].left)
  BY Zenon, <1>1 DEF QueueOk, ItemOk
<1>3. a \in Names(inflight[i].left)
  BY Zenon DEF Names
<1>4. a \in inflight[i].names
  BY Zenon, <1>2, <1>3 DEF ItemOk
<1>5. \A j \in 1..(i - 1) : a \notin Names(inflight[j].left)
  BY Zenon, <1>1, <1>4, RunnableFirst DEF Ready
<1>6. \A m \in DOMAIN inflight[i].left : ~Before(inflight[i].left, m, n)
  BY Zenon, <1>1, ReadyNode
<1>7. a \in backing <=> a \notin Creates(inflight[i].left)
  <2>1. PICK act : act = ActiveIn(sAlloc)
    OBVIOUS
  <2>2. Runs(inflight, backing, act, a)
    BY Zenon, <1>1, <2>1
  <2> QED
    BY <1>1, <1>3, <1>5, <2>2, RunsFirst
<1> QED
  BY Zenon, <1>2, <1>3, <1>4, <1>5, <1>6, <1>7

\* The other reservations of the item.
LEMMA RunsOthers ==
    ASSUME NEW q, IsSeq(q), NEW bk, NEW act, NEW b, Runs(q, bk, act, b),
           NEW i \in DOMAIN q, NEW l, NEW r, Replaced(q, i, l, r), ItemOk(q[i]),
           b \in Names(l) <=> b \in Names(q[i].left),
           b \in Creates(l) <=> b \in Creates(q[i].left),
           b \in Frees(l) <=> b \in Frees(q[i].left),
           NEW bk2, b \in bk2 <=> b \in bk
    PROVE  Runs(r, bk2, act, b)
<1>1. DOMAIN q = 1..Len(q)
  BY Zenon, SeqView
<1>2. \A j \in 1..Len(q) :
         /\ b \in Names(r[j].left) <=> b \in Names(q[j].left)
         /\ b \in Creates(r[j].left) <=> b \in Creates(q[j].left)
         /\ b \in Frees(r[j].left) <=> b \in Frees(q[j].left)
  <2>1. ItemLeft(q[i], l).left = l
    BY Zenon, ItemFields
  <2>2. r[i].left = l
    BY Zenon, <2>1 DEF Replaced
  <2>3. \A j \in 1..Len(q) : j # i => r[j] = q[j]
    BY Zenon, <1>1 DEF Replaced
  <2> QED
    BY Zenon, <2>2, <2>3
<1>3. Len(r) = Len(q)
  BY Zenon DEF Replaced
<1> QED
  BY <1>2, <1>3, RunsSame

\* The storage that the queue with the node removed starts from.
LEMMA StorageReplaced ==
    ASSUME Storage, NEW i \in DOMAIN inflight, NEW n \in DOMAIN inflight[i].left, Ready(i, n)
    PROVE  \E r, bk2 :
              /\ bk2 = Ran(backing, inflight[i].left[n].kind, inflight[i].left[n].alloc)
              /\ r = QueueLeft(inflight, i, Without(inflight[i].left, {n}))
              /\ StorageOk(r, bk2, sExec, ActiveIn(sAlloc))
              /\ DOMAIN r = DOMAIN inflight /\ Len(r) = Len(inflight)
              /\ \A j \in DOMAIN inflight \ {i} : r[j] = inflight[j]
              /\ r[i].left = Without(inflight[i].left, {n}) /\ r[i].names = inflight[i].names
<1>1. PICK r, bk2 :
         /\ bk2 = Ran(backing, inflight[i].left[n].kind, inflight[i].left[n].alloc)
         /\ r = QueueLeft(inflight, i, Without(inflight[i].left, {n}))
  OBVIOUS
<1>2. PICK q, x, l, l2, act : /\ q = inflight /\ x = inflight[i] /\ l = inflight[i].left
                              /\ l2 = Without(l, {n}) /\ act = ActiveIn(sAlloc)
  OBVIOUS
<1>3. PICK a : a = l[n].alloc
  OBVIOUS
<1>4. /\ QueueOk(q) /\ IsSeq(q) /\ MapOk(q, sExec, act) /\ \A b : Runs(q, backing, act, b)
  BY Zenon, <1>2 DEF Storage, StorageOk, QueueOk
<1>5. /\ \A j \in 1..(i - 1) : a \notin Names(q[j].left)
      /\ a \in Names(l) /\ (\A m \in DOMAIN l : ~Before(l, m, n))
      /\ OneAlloc(l) /\ ItemOk(x) /\ (a \in backing <=> a \notin Creates(l))
  BY Zenon, <1>2, <1>3, ReadyFacts
<1>6. i \in DOMAIN q /\ x = q[i] /\ l = x.left /\ n \in DOMAIN l /\ r = QueueLeft(q, i, l2)
  BY Zenon, <1>1, <1>2
<1>7. /\ IsSeq(r) /\ Len(r) = Len(q) /\ DOMAIN r = DOMAIN q
      /\ r[i] = ItemLeft(q[i], l2)
      /\ \A j \in DOMAIN q \ {i} : r[j] = q[j]
  <2>1. IsSeq(q) /\ i \in DOMAIN q
    BY Zenon, <1>4, <1>6
  <2>2. Replaced(q, i, l2, QueueLeft(q, i, l2))
    BY Zenon, <2>1, ReplaceView
  <2>3. Replaced(q, i, l2, r)
    BY Zenon, <1>6, <2>2
  <2> QED
    BY Zenon, <2>3 DEF Replaced
<1>8. Replaced(q, i, l2, r)
  BY Zenon, <1>7 DEF Replaced
<1>9. /\ r[i].left = l2 /\ r[i].stream = x.stream /\ r[i].exec = x.exec /\ r[i].names = x.names
  <2>1. PICK y : y = r[i]
    OBVIOUS
  <2>2. ItemOk(x) /\ y = ItemLeft(x, l2)
    BY Zenon, <1>5, <1>6, <1>7, <2>1
  <2>3. y.left = l2 /\ y.stream = x.stream /\ y.exec = x.exec /\ y.names = x.names
    BY Zenon, <2>2, ItemFields
  <2> QED
    BY Zenon, <2>1, <2>3
<1>10. ItemOk(r[i])
  <2>1. \A m \in DOMAIN x.left : <<m, n>> \notin x.edges
    BY Zenon, <1>2 DEF Ready
  <2>2. PICK y : y = r[i]
    OBVIOUS
  <2>3. y = ItemLeft(x, Without(x.left, {n})) /\ n \in DOMAIN x.left
    BY Zenon, <1>2, <1>6, <1>7, <2>2
  <2>4. ItemOk(ItemLeft(x, Without(x.left, {n})))
    BY Zenon, <1>5, <2>1, <2>3, ItemShrinks
  <2> QED
    BY Zenon, <2>2, <2>3, <2>4
<1>11. QueueOk(r)
  BY Zenon, <1>4, <1>6, <1>7, <1>9, <1>10, QueueReplace
<1>12. /\ StepOn(r[i], a, a \in bk2, a \notin Frees(l))
       /\ \A b : b # a => (b \in bk2 <=> b \in backing)
  <2>1. bk2 = Ran(backing, l[n].kind, l[n].alloc)
    BY Zenon, <1>1, <1>2
  <2>3. PICK y : y = r[i]
    OBVIOUS
  <2>2. y.left = Without(l, {n})
    BY Zenon, <1>2, <1>9, <2>3
  <2>4. l[n].alloc \in backing <=> l[n].alloc \notin Creates(l)
    BY Zenon, <1>3, <1>5
  <2>5. /\ StepOn(y, l[n].alloc, l[n].alloc \in Ran(backing, l[n].kind, l[n].alloc),
                  l[n].alloc \notin Frees(l))
        /\ \A b : b # l[n].alloc => (b \in Ran(backing, l[n].kind, l[n].alloc) <=> b \in backing)
    <3>1. n \in DOMAIN l /\ OneAlloc(l) /\ \A m \in DOMAIN l : ~Before(l, m, n)
      BY Zenon, <1>5, <1>6
    <3> QED
      BY Zenon, <2>2, <2>4, <3>1, NodeStep
  <2> QED
    BY Zenon, <1>3, <2>1, <2>3, <2>5
<1>13. ASSUME NEW b PROVE Runs(r, bk2, act, b)
  <2>1. CASE b = a
    <3>1. Runs(q, backing, act, a)
      BY Zenon, <1>4
    <3>2. Runs(r, bk2, act, a)
      BY Zenon, <1>4, <1>5, <1>6, <1>7, <1>12, <3>1, RunsMove
    <3> QED
      BY Zenon, <2>1, <3>2
  <2>2. CASE b # a
    <3>1. /\ b \in Names(l2) <=> b \in Names(l)
          /\ b \in Creates(l2) <=> b \in Creates(l)
          /\ b \in Frees(l2) <=> b \in Frees(l)
      BY <1>2, <1>3, <1>5, <1>6, <2>2, NodeRuns
    <3>2. /\ b \in Names(l2) <=> b \in Names(q[i].left)
          /\ b \in Creates(l2) <=> b \in Creates(q[i].left)
          /\ b \in Frees(l2) <=> b \in Frees(q[i].left)
      BY Zenon, <1>6, <3>1
    <3>3. Runs(q, backing, act, b) /\ (b \in bk2 <=> b \in backing)
      BY Zenon, <1>4, <1>12, <2>2
    <3>4. IsSeq(q) /\ i \in DOMAIN q /\ ItemOk(q[i])
      BY Zenon, <1>4, <1>5, <1>6
    <3> QED
      BY Zenon, <1>8, <3>2, <3>3, <3>4, RunsOthers
  <2> QED
    BY Zenon, <2>1, <2>2
<1>14. MapOk(r, sExec, act)
  <2>1. \A j \in DOMAIN q : r[j].names = q[j].names /\ r[j].stream = q[j].stream
    BY Zenon, <1>6, <1>7, <1>9
  <2> QED
    BY Zenon, <1>4, <1>7, <2>1, MapReplace
<1>15. StorageOk(r, bk2, sExec, act)
  BY Zenon, <1>11, <1>13, <1>14 DEF StorageOk
<1>16. /\ StorageOk(r, bk2, sExec, ActiveIn(sAlloc))
       /\ DOMAIN r = DOMAIN inflight /\ Len(r) = Len(inflight)
       /\ \A j \in DOMAIN inflight \ {i} : r[j] = inflight[j]
       /\ r[i].left = Without(inflight[i].left, {n}) /\ r[i].names = inflight[i].names
  BY Zenon, <1>2, <1>6, <1>7, <1>9, <1>15
<1> QED
  BY Zenon, <1>1, <1>16

\* The positions of a queue without item i, in the queue.
LEMMA OtherPositions ==
    ASSUME NEW n \in Nat, NEW i \in 1..n, NEW k, k = n - 1, NEW j \in 1..k
    PROVE  IF j < i THEN j \in (1..n) \ {i} ELSE j + 1 \in (1..n) \ {i}
OBVIOUS

\* The device runs a node.
LEMMA StorageRunNode ==
    ASSUME Storage, NEW i \in DOMAIN inflight, NEW n \in DOMAIN inflight[i].left, RunNode(i, n)
    PROVE  Storage'
<1>1. PICK r, bk2 :
              /\ bk2 = Ran(backing, inflight[i].left[n].kind, inflight[i].left[n].alloc)
              /\ r = QueueLeft(inflight, i, Without(inflight[i].left, {n}))
              /\ StorageOk(r, bk2, sExec, ActiveIn(sAlloc))
              /\ DOMAIN r = DOMAIN inflight /\ Len(r) = Len(inflight)
              /\ \A j \in DOMAIN inflight \ {i} : r[j] = inflight[j]
              /\ r[i].left = Without(inflight[i].left, {n}) /\ r[i].names = inflight[i].names
  <2>1. Ready(i, n)
    BY Zenon DEF RunNode
  <2> QED
    BY Zenon, <2>1, StorageReplaced
<1>2. PICK q, l2, act : /\ q = inflight /\ l2 = Without(inflight[i].left, {n})
                        /\ act = ActiveIn(sAlloc)
  OBVIOUS
<1>3. /\ StorageOk(r, bk2, sExec, act) /\ DOMAIN r = DOMAIN q /\ Len(r) = Len(q)
      /\ \A j \in DOMAIN q \ {i} : r[j] = q[j]
      /\ r[i].left = l2 /\ r[i].names = q[i].names
  BY Zenon, <1>2, <1>1
<1>4. /\ backing' = bk2 /\ UNCHANGED <<sAlloc, sExec>>
      /\ inflight' = IF l2 # <<>> THEN r ELSE SubSeq(q, 1, i - 1) \o SubSeq(q, i + 1, Len(q))
  BY Zenon, <1>2, <1>1 DEF RunNode, Ran, QueueLeft
<1>5. CASE l2 # <<>>
  BY Zenon, <1>2, <1>3, <1>4, <1>5 DEF Storage
<1>6. CASE l2 = <<>>
  <2>1. QueueOk(q) /\ IsSeq(q) /\ i \in DOMAIN q
    BY Zenon, <1>2 DEF Storage, StorageOk, QueueOk
  <2>2. PICK s : /\ s = SubSeq(q, 1, i - 1) \o SubSeq(q, i + 1, Len(q))
                 /\ IsSeq(s) /\ DOMAIN s = 1..Len(s)
                 /\ Len(q) \in Nat /\ i \in 1..Len(q) /\ Len(s) = Len(q) - 1
                 /\ \A j \in 1..Len(s) : s[j] = IF j < i THEN q[j] ELSE q[j + 1]
    BY Zenon, <2>1, RemoveView
  <2>3. inflight' = s
    BY Zenon, <1>4, <1>6, <2>2
  <2>4. /\ QueueOk(r) /\ IsSeq(r) /\ i \in DOMAIN r /\ MapOk(r, sExec, act)
        /\ \A b : Runs(r, bk2, act, b)
    BY Zenon, <1>3, <2>1 DEF StorageOk, QueueOk
  <2>5. Len(s) = Len(r) - 1 /\ DOMAIN q = 1..Len(q)
    BY Zenon, <1>3, <2>1, <2>2, SeqView
  <2>6. \A j \in 1..Len(s) : s[j] = IF j < i THEN r[j] ELSE r[j + 1]
    <3>1. ASSUME NEW j \in 1..Len(s) PROVE s[j] = IF j < i THEN r[j] ELSE r[j + 1]
      <4>1. CASE j < i
        <5>1. j \in DOMAIN q \ {i}
          BY Zenon, <2>2, <2>5, <4>1, OtherPositions
        <5> QED
          BY Zenon, <1>3, <2>2, <4>1, <5>1
      <4>2. CASE ~(j < i)
        <5>1. j + 1 \in DOMAIN q \ {i}
          BY Zenon, <2>2, <2>5, <4>2, OtherPositions
        <5> QED
          BY Zenon, <1>3, <2>2, <4>2, <5>1
      <4> QED
        BY Zenon, <4>1, <4>2
    <3> QED
      BY Zenon, <3>1
  <2>7. \A b : b \notin Names(r[i].left)
    <3>1. DOMAIN l2 = {}
      BY <1>6
    <3> QED
      BY Zenon, <1>3, <3>1 DEF Names
  <2>8. QueueOk(s)
    BY Zenon, <2>2, <2>4, <2>5, <2>6, QueueRemove
  <2>9. ASSUME NEW b PROVE Runs(s, bk2, act, b)
    <3>1. Runs(r, bk2, act, b) /\ b \notin Names(r[i].left)
      BY Zenon, <2>4, <2>7
    <3> QED
      BY Zenon, <2>4, <2>5, <2>6, <3>1, RunsRemove
  <2>10. MapOk(s, sExec, act)
    <3>1. \A j \in 1..(i - 1) : \A b \in r[i].names : b \notin r[j].names
      <4>1. \A j \in 1..(i - 1) : /\ j \in DOMAIN inflight
                                  /\ \A a \in inflight[i].names : a \notin inflight[j].names
        BY Zenon, <1>2, <2>1, RunnableFirst DEF RunNode, Ready
      <4>2. \A j \in 1..(i - 1) : j # i
        BY <2>2
      <4> QED
        BY Zenon, <1>2, <1>3, <4>1, <4>2
    <3> QED
      BY Zenon, <2>2, <2>4, <2>5, <2>6, <3>1, MapRemove
  <2> QED
    BY Zenon, <1>2, <1>4, <2>3, <2>8, <2>9, <2>10 DEF Storage, StorageOk
<1> QED
  BY Zenon, <1>5, <1>6

\* What the validation at launch establishes about the nodes of a snapshot.
LEMMA ValidParts ==
    ASSUME NEW ns, NEW es, NEW al, ValidGraphMemory(ns, es, al),
           NEW i \in DOMAIN ns, ns[i].kind # "alloc", NEW a, a = ns[i].alloc
    PROVE  /\ a \in DOMAIN al
           /\ a \notin Creates(ns) => al[a].active /\ ~al[a].paired
           /\ \A n \in DOMAIN ns : ns[n].kind = "alloc" /\ ns[n].alloc = a
                 => <<n, i>> \in Reachable(ns, es)
           /\ a \in Creates(ns) => \A n \in DOMAIN ns : ns[n].kind = "free" /\ ns[n].alloc = a /\ n # i
                 => <<i, n>> \in Reachable(ns, es)
<1>1. PICK R : R = Reachable(ns, es)
  OBVIOUS
<1> DEFINE At(kind, b) == {n \in DOMAIN ns : ns[n].kind = kind /\ ns[n].alloc = b}
<1>2. /\ a \in DOMAIN al
      /\ IF At("alloc", a) = {}
         THEN al[a].active /\ ~al[a].paired
         ELSE /\ \A n \in At("alloc", a) : <<n, i>> \in R
              /\ \A n \in At("free", a) \ {i} : <<i, n>> \in R
  BY Zenon, <1>1 DEF ValidGraphMemory
<1>3. At("alloc", a) = {} <=> a \notin Creates(ns)
  BY Zenon DEF Creates
<1>4. a \notin Creates(ns) => al[a].active /\ ~al[a].paired
  BY Zenon, <1>2, <1>3
<1>5. ASSUME NEW n \in DOMAIN ns, ns[n].kind = "alloc", ns[n].alloc = a PROVE <<n, i>> \in R
  <2>1. n \in At("alloc", a)
    BY Zenon, <1>5
  <2> HIDE DEF At
  <2> QED BY Zenon, <1>2, <2>1
<1>6. ASSUME a \in Creates(ns), NEW n \in DOMAIN ns, ns[n].kind = "free", ns[n].alloc = a, n # i
      PROVE  <<i, n>> \in R
  <2>1. n \in At("free", a) \ {i}
    BY Zenon, <1>6
  <2> HIDE DEF At
  <2> QED BY Zenon, <1>2, <1>3, <1>6, <2>1
<1> QED
  BY Zenon, <1>1, <1>2, <1>4, <1>5, <1>6

\* A launch that passes the checks is an item of the queue and takes every
\* reservation it names from its activity to the activity the launch leaves.
LEMMA LaunchItem ==
    ASSUME NEW x, NEW al, NEW open, NEW ids, ExecOk(x, al, open, ids),
           ValidGraphMemory(x.nodes, x.edges, al), \A a \in Names(x.nodes) : a \in DOMAIN al,
           \A a \in Creates(x.nodes) : ~al[a].active, NEW s, NEW e
    PROVE  /\ ItemOk(Item(s, e, x.nodes, x.edges))
           /\ \A a \in Names(x.nodes) :
                 /\ a \in ActiveIn(al) <=> a \notin Creates(x.nodes)
                 /\ a \in Creates(x.nodes) => (al[a].paired <=> a \in Frees(x.nodes))
                 /\ a \notin Creates(x.nodes) => a \notin Frees(x.nodes)
<1>1. PICK l, es : l = x.nodes /\ es = x.edges
  OBVIOUS
<1>2. /\ OneAlloc(l)
      /\ \A p \in es : p = <<p[1], p[2]>> /\ p[1] \in DOMAIN l /\ p[2] \in DOMAIN l
      /\ \A a \in DOMAIN al :
            /\ a \in Frees(l) => al[a].paired
            /\ a \in Creates(l) /\ al[a].paired => a \in Frees(l)
  BY Zenon, <1>1 DEF ExecOk
<1>3. ValidGraphMemory(l, es, al) /\ (\A a \in Names(l) : a \in DOMAIN al)
      /\ \A a \in Creates(l) : ~al[a].active
  BY Zenon, <1>1
<1>4. ASSUME NEW i \in DOMAIN l, l[i].kind # "alloc"
      PROVE  /\ l[i].alloc \in DOMAIN al
             /\ l[i].alloc \notin Creates(l) => al[l[i].alloc].active /\ ~al[l[i].alloc].paired
             /\ \A n \in DOMAIN l : l[n].kind = "alloc" /\ l[n].alloc = l[i].alloc
                   => <<n, i>> \in Reachable(l, es)
             /\ l[i].alloc \in Creates(l) =>
                   \A n \in DOMAIN l : l[n].kind = "free" /\ l[n].alloc = l[i].alloc /\ n # i
                      => <<i, n>> \in Reachable(l, es)
  BY Zenon, <1>3, <1>4, ValidParts
<1>5. ASSUME NEW a \in Names(l), a \notin Creates(l)
      PROVE  a \in DOMAIN al /\ al[a].active /\ ~al[a].paired /\ a \notin Frees(l)
  <2>1. PICK i \in DOMAIN l : l[i].alloc = a
    BY Zenon, <1>5 DEF Names
  <2>2. l[i].kind # "alloc"
    BY Zenon, <1>5, <2>1 DEF Creates
  <2>3. a \in DOMAIN al /\ al[a].active /\ ~al[a].paired
    BY Zenon, <1>4, <1>5, <2>1, <2>2
  <2> QED
    BY Zenon, <1>2, <2>3
<1>6. ASSUME NEW a \in Names(l)
      PROVE  /\ a \in ActiveIn(al) <=> a \notin Creates(l)
             /\ a \in Creates(l) => (al[a].paired <=> a \in Frees(l))
             /\ a \notin Creates(l) => a \notin Frees(l)
  <2>1. a \in DOMAIN al
    BY Zenon, <1>3
  <2> QED
    BY Zenon, <1>2, <1>3, <1>5, <2>1 DEF ActiveIn
<1>7. ASSUME NEW m \in DOMAIN l, NEW k \in DOMAIN l, Before(l, m, k)
      PROVE  <<m, k>> \in Reachable(l, es)
  <2>1. m # k /\ l[m].alloc = l[k].alloc
    BY Zenon, <1>7 DEF Before
  <2>2. CASE l[m].kind = "alloc" /\ l[k].kind # "alloc"
    BY Zenon, <1>4, <2>1, <2>2
  <2>3. CASE l[m].kind # "alloc" /\ l[k].kind = "free"
    <3>1. l[m].alloc \in Frees(l) /\ l[m].alloc \in Names(l)
      BY Zenon, <2>1, <2>3 DEF Frees, Names
    <3>2. l[m].alloc \in Creates(l)
      BY Zenon, <1>5, <3>1
    <3>3. \A n \in DOMAIN l : l[n].kind = "free" /\ l[n].alloc = l[m].alloc /\ n # m
             => <<m, n>> \in Reachable(l, es)
      BY Zenon, <1>4, <2>3, <3>2
    <3> QED
      BY Zenon, <2>1, <2>3, <3>3
  <2> QED
    BY Zenon, <1>7, <2>2, <2>3 DEF Before
<1>8. PICK y : y = Item(s, e, l, es)
  OBVIOUS
<1>9. y = [stream |-> s, exec |-> e, names |-> Names(l), left |-> l, edges |-> es]
  BY Zenon, <1>8 DEF Item
<1>10. /\ y = [stream |-> y.stream, exec |-> y.exec, names |-> y.names,
               left |-> y.left, edges |-> y.edges]
       /\ y.names = Names(l) /\ y.left = l /\ y.edges = es
  BY <1>9
<1>11. ItemOk(y)
  BY Zenon, <1>2, <1>7, <1>10 DEF ItemOk
<1> QED
  BY Zenon, <1>1, <1>6, <1>8, <1>11

-----------------------------------------------------------------------------
(* A launch                                                                *)

\* The tables after a launch.
LEMMA LaunchParts ==
    ASSUME IInv, NEW e \in DOMAIN cExec, NEW s, Launch(e, s)
    PROVE  /\ e \in DOMAIN sExec /\ DOMAIN sExec' = DOMAIN sExec
           /\ \A f \in DOMAIN sExec :
                 /\ sExec'[f].graph = sExec[f].graph /\ sExec'[f].nodes = sExec[f].nodes
                 /\ sExec'[f].edges = sExec[f].edges
                 /\ f # e => sExec'[f] = sExec[f]
           /\ sExec'[e].last = {s}
           /\ DOMAIN sAlloc' = DOMAIN sAlloc
           /\ \A a \in DOMAIN sAlloc :
                 /\ sAlloc'[a].graph = sAlloc[a].graph
                 /\ sAlloc'[a].paired <=> sAlloc[a].paired
                 /\ a \in Creates(sExec[e].nodes) => (sAlloc'[a].active <=> ~sAlloc[a].paired)
                 /\ a \notin Creates(sExec[e].nodes) => (sAlloc'[a].active <=> sAlloc[a].active)
           /\ UNCHANGED <<sGraph, nodes, edges, next, backing>>
<1>1. /\ sAlloc' = Activated(sAlloc, Creates(sExec[e].nodes))
      /\ sExec' = [sExec EXCEPT ![e].last = {s}, ![e].pending = <<>>]
      /\ UNCHANGED <<sGraph, nodes, edges, next, backing>>
  BY Zenon DEF Launch, graphs
<1>2. e \in DOMAIN sExec /\ AllocTable(sAlloc) /\ ExecTable(sExec)
  BY Zenon, Parts DEF Mirror
<1>3. PICK x, S : x = sExec[e] /\ S = Creates(sExec[e].nodes)
  OBVIOUS
<1>4. Entry(x)
  BY Zenon, <1>2, <1>3 DEF ExecTable
<1>5. /\ DOMAIN sExec' = DOMAIN sExec /\ sExec'[e] = [x EXCEPT !.last = {s}, !.pending = <<>>]
      /\ \A f \in DOMAIN sExec : f # e => sExec'[f] = sExec[f]
  BY <1>1, <1>2, <1>3
<1>6. /\ sExec'[e].graph = x.graph /\ sExec'[e].nodes = x.nodes
      /\ sExec'[e].edges = x.edges /\ sExec'[e].last = {s}
  <2>1. PICK y, l, p : l = {s} /\ p = <<>> /\ y = [x EXCEPT !.last = l, !.pending = p]
    OBVIOUS
  <2>2. y.graph = x.graph /\ y.nodes = x.nodes /\ y.edges = x.edges /\ y.last = l
    BY <1>4, <2>1, EntryParts
  <2> QED
    BY Zenon, <1>5, <2>1, <2>2
<1>7. /\ DOMAIN sAlloc' = DOMAIN sAlloc
      /\ \A a \in DOMAIN sAlloc :
            /\ sAlloc'[a].graph = sAlloc[a].graph
            /\ sAlloc'[a].paired <=> sAlloc[a].paired
            /\ a \in S => (sAlloc'[a].active <=> ~sAlloc[a].paired)
            /\ a \notin S => (sAlloc'[a].active <=> sAlloc[a].active)
  BY Zenon, <1>1, <1>2, <1>3, ActivatedView
<1> QED
  BY Zenon, <1>1, <1>2, <1>3, <1>5, <1>6, <1>7

\* A launch changes activity and marks only.
LEMMA TablesLaunch ==
    ASSUME IInv, Tables, NEW e \in DOMAIN cExec, NEW s, Launch(e, s)
    PROVE  Tables'
<1>1. /\ \A a \in DOMAIN sAlloc' :
            /\ a \in DOMAIN sAlloc /\ sAlloc'[a].graph = sAlloc[a].graph
            /\ (sAlloc'[a].paired <=> sAlloc[a].paired)
      /\ \A f \in DOMAIN sExec' :
            /\ f \in DOMAIN sExec /\ sExec'[f].graph = sExec[f].graph
            /\ sExec'[f].nodes = sExec[f].nodes /\ sExec'[f].edges = sExec[f].edges
      /\ UNCHANGED <<sGraph, nodes, edges, next>>
  BY Zenon, LaunchParts
<1> QED
  BY Zenon, <1>1, TablesKept

\* The work of a launch.
LEMMA StorageLaunch ==
    ASSUME IInv, Tables, Storage, NEW e \in DOMAIN cExec, NEW s, Launch(e, s)
    PROVE  Storage'
<1>1. PICK x, act, act2 : x = sExec[e] /\ act = ActiveIn(sAlloc) /\ act2 = ActiveIn(sAlloc')
  OBVIOUS
<1>2. PICK l : l = x.nodes
  OBVIOUS
<1>3. PICK y : y = Item(s, e, l, x.edges)
  OBVIOUS
<1>4. /\ Launchable(e) /\ Ordered(Names(l), s, e) /\ Submit(y)
  BY Zenon, <1>1, <1>2, <1>3 DEF Launch
<1>5. /\ e \in DOMAIN sExec /\ DOMAIN sExec' = DOMAIN sExec
      /\ \A f \in DOMAIN sExec : sExec'[f].nodes = sExec[f].nodes /\ (f # e => sExec'[f] = sExec[f])
      /\ sExec'[e].last = {s} /\ sExec'[e].nodes = l /\ DOMAIN sAlloc' = DOMAIN sAlloc
      /\ UNCHANGED backing
  BY Zenon, <1>1, <1>2, LaunchParts
<1>6. \A a \in DOMAIN sAlloc :
         /\ a \in Creates(l) => (sAlloc'[a].active <=> ~sAlloc[a].paired)
         /\ a \notin Creates(l) => (sAlloc'[a].active <=> sAlloc[a].active)
  BY Zenon, <1>1, <1>2, LaunchParts
<1>7. ItemOk(y) /\ \A a \in Names(l) :
         /\ a \in DOMAIN sAlloc
         /\ a \in act <=> a \notin Creates(l)
         /\ a \in Creates(l) => (sAlloc[a].paired <=> a \in Frees(l))
         /\ a \notin Creates(l) => a \notin Frees(l)
  <2>1. PICK open, ids : open = Open(sGraph) /\ ids = next
    OBVIOUS
  <2>2. ExecOk(x, sAlloc, open, ids)
    BY Zenon, <1>1, <1>5, <2>1, TableParts
  <2>3. /\ ValidGraphMemory(x.nodes, x.edges, sAlloc) /\ (\A a \in Names(x.nodes) : a \in DOMAIN sAlloc)
        /\ \A a \in Creates(x.nodes) : ~sAlloc[a].active
    BY Zenon, <1>1, <1>4 DEF Launchable, DecodeGraphParams
  <2>4. /\ ItemOk(Item(s, e, x.nodes, x.edges))
        /\ \A a \in Names(x.nodes) :
              /\ a \in ActiveIn(sAlloc) <=> a \notin Creates(x.nodes)
              /\ a \in Creates(x.nodes) => (sAlloc[a].paired <=> a \in Frees(x.nodes))
              /\ a \notin Creates(x.nodes) => a \notin Frees(x.nodes)
    BY Zenon, <2>2, <2>3, LaunchItem
  <2> QED
    BY Zenon, <1>1, <1>2, <1>3, <2>3, <2>4
<1>8. Creates(l) \subseteq Names(l) /\ Frees(l) \subseteq Names(l)
  BY Zenon, NamesAll
<1>9. \A a : a \notin Creates(l) => (a \in act2 <=> a \in act)
  BY Zenon, <1>1, <1>5, <1>6 DEF ActiveIn
<1>10. \A a \in Names(l) : a \in act2 <=> a \notin Frees(l)
  <2>1. \A a \in Creates(l) : a \in act2 <=> a \notin Frees(l)
    BY Zenon, <1>1, <1>5, <1>6, <1>7, <1>8 DEF ActiveIn
  <2>2. \A a \in Names(l) : a \notin Creates(l) => (a \in act2 <=> a \notin Frees(l))
    BY Zenon, <1>7, <1>9
  <2> QED
    BY Zenon, <2>1, <2>2
<1>11. StorageOk(inflight, backing, sExec, act)
  BY Zenon, <1>1 DEF Storage
<1>12. /\ y.left = l /\ y.names = Names(l) /\ y.stream = s /\ y.exec = e
  BY <1>3 DEF Item
<1>13. CASE l = <<>>
  <2>1. inflight' = inflight
    BY Zenon, <1>4, <1>12, <1>13 DEF Submit
  <2>2. DOMAIN l = {}
    BY <1>13
  <2>3. \A a : a \notin Creates(l)
    BY Zenon, <2>2 DEF Creates
  <2>4. \A f \in DOMAIN sExec : \A a \in Creates(sExec[f].nodes) :
           /\ f \in DOMAIN sExec' /\ a \in Creates(sExec'[f].nodes)
           /\ MarksOf(sExec[f], a) \subseteq MarksOf(sExec'[f], a)
    <3>1. ASSUME NEW f \in DOMAIN sExec, NEW a \in Creates(sExec[f].nodes) PROVE sExec'[f] = sExec[f]
      BY Zenon, <1>1, <1>2, <1>5, <2>3, <3>1
    <3> QED
      BY Zenon, <1>5, <3>1
  <2>5. \A a : a \in act2 <=> a \in act
    BY Zenon, <1>9, <2>3
  <2>6. StorageOk(inflight, backing, sExec', act2)
    BY Zenon, <1>11, <2>4, <2>5, StorageKept
  <2> QED
    BY Zenon, <1>1, <1>5, <2>1, <2>6 DEF Storage
<1>14. CASE l # <<>>
  <2>1. inflight' = Append(inflight, y)
    BY Zenon, <1>4, <1>12, <1>14 DEF Submit
  <2>2. \A i \in DOMAIN inflight : \A a : a \in inflight[i].names /\ a \in y.names => Waits(inflight[i], y)
    BY Zenon, <1>4, <1>12 DEF Ordered, Waits
  <2>3. \A a : StepOn(y, a, a \in act, a \in act2)
    BY Zenon, <1>7, <1>8, <1>9, <1>10, <1>12 DEF StepOn
  <2>4. \A f \in DOMAIN sExec : \A a \in Creates(sExec[f].nodes) :
           /\ f \in DOMAIN sExec' /\ a \in Creates(sExec'[f].nodes)
           /\ a \notin y.names => MarksOf(sExec[f], a) \subseteq MarksOf(sExec'[f], a)
    <3>1. SUFFICES ASSUME NEW f \in DOMAIN sExec, NEW a \in Creates(sExec[f].nodes)
                   PROVE  /\ f \in DOMAIN sExec' /\ a \in Creates(sExec'[f].nodes)
                          /\ a \notin y.names => MarksOf(sExec[f], a) \subseteq MarksOf(sExec'[f], a)
      BY Zenon
    <3>2. f \in DOMAIN sExec' /\ a \in Creates(sExec'[f].nodes)
      BY Zenon, <1>5
    <3>3. a \notin y.names => sExec'[f] = sExec[f]
      BY Zenon, <1>1, <1>2, <1>5, <1>8, <1>12
    <3> QED
      BY Zenon, <3>2, <3>3
  <2>5. \A a : a \notin y.names => (a \in act2 <=> a \in act)
    BY Zenon, <1>8, <1>9, <1>12
  <2>6. ASSUME NEW a \in y.names
        PROVE  \E f \in DOMAIN sExec' : /\ a \in Creates(sExec'[f].nodes)
                                        /\ a \notin act2 => y.stream \in MarksOf(sExec'[f], a)
    <3>1. CASE a \in Creates(l)
      <4>1. s \in MarksOf(sExec'[e], a)
        BY Zenon, <1>5 DEF MarksOf
      <4> QED
        BY Zenon, <1>5, <1>12, <3>1, <4>1
    <3>2. CASE a \notin Creates(l)
      <4>1. a \in act /\ a \in act2
        BY Zenon, <1>7, <1>9, <1>12, <3>2
      <4>2. PICK f \in DOMAIN sExec : a \in Creates(sExec[f].nodes)
        BY Zenon, <1>11, <4>1 DEF StorageOk, MapOk
      <4> QED
        BY Zenon, <1>5, <4>1, <4>2
    <3> QED
      BY Zenon, <3>1, <3>2
  <2>7. StorageOk(Append(inflight, y), backing, sExec', act2)
    BY Zenon, <1>7, <1>11, <2>2, <2>3, <2>4, <2>5, <2>6, StorageAppend
  <2> QED
    BY Zenon, <1>1, <1>5, <2>1, <2>7 DEF Storage
<1> QED
  BY Zenon, <1>13, <1>14

-----------------------------------------------------------------------------
(* Calls on one reservation                                                *)

\* The tables that a free of a leaves to the retirement: a is not active any
\* more, and an executable that creates it has the mark of the stream.
FreedView(a, pend, execs, allocs) ==
    /\ DOMAIN execs = DOMAIN sExec
    /\ \A e \in DOMAIN sExec :
          /\ execs[e].nodes = sExec[e].nodes /\ execs[e].edges = sExec[e].edges
          /\ execs[e].graph = sExec[e].graph
          /\ \A b : b # a => MarksOf(sExec[e], b) \subseteq MarksOf(execs[e], b)
          /\ \A s : pend = {s} /\ a \in Creates(sExec[e].nodes) => s \in MarksOf(execs[e], a)
    /\ DOMAIN allocs = DOMAIN sAlloc
    /\ \A b \in DOMAIN sAlloc : /\ allocs[b].graph = sAlloc[b].graph
                                /\ allocs[b].paired <=> sAlloc[b].paired
    /\ \A b : b \in ActiveIn(allocs) <=> b \in ActiveIn(sAlloc) /\ b # a

\* A free is such a change of the tables and a retirement.
LEMMA FreedParts ==
    ASSUME IInv, NEW a \in DOMAIN cAlloc, NEW pend, AllocationFreed(a, pend)
    PROVE  \E execs, allocs, gs :
              /\ RetireGraphMemory(execs, allocs, gs, Busy(inflight'))
              /\ UNCHANGED <<sGraph, nodes, edges, next>>
              /\ FreedView(a, pend, execs, allocs)
<1>1. PICK execs, allocs, gs : /\ execs = FreedIn(a, pend) /\ gs = DOMAIN sGraph
                               /\ allocs = [sAlloc EXCEPT ![a].active = FALSE]
  OBVIOUS
<1>2. /\ RetireGraphMemory(execs, allocs, gs, Busy(inflight'))
      /\ UNCHANGED <<sGraph, nodes, edges, next>>
  BY Zenon, <1>1 DEF AllocationFreed, graphs
<1>3. ExecTable(sExec) /\ AllocTable(sAlloc) /\ a \in DOMAIN sAlloc
  BY Zenon, Parts
<1>4. /\ DOMAIN execs = DOMAIN sExec
      /\ \A e \in DOMAIN sExec :
            /\ execs[e].nodes = sExec[e].nodes /\ execs[e].edges = sExec[e].edges
            /\ execs[e].graph = sExec[e].graph
            /\ \A b : b # a => MarksOf(sExec[e], b) \subseteq MarksOf(execs[e], b)
            /\ \A s : pend = {s} /\ a \in Creates(sExec[e].nodes) => s \in MarksOf(execs[e], a)
  <2>1. ExecTable(sExec)
    BY Zenon, <1>3
  <2>2. LET ex == FreedIn(a, pend)
        IN  /\ DOMAIN ex = DOMAIN sExec
            /\ \A e \in DOMAIN sExec :
                  /\ ex[e].nodes = sExec[e].nodes /\ ex[e].edges = sExec[e].edges
                  /\ ex[e].graph = sExec[e].graph
                  /\ \A b : b # a => MarksOf(sExec[e], b) \subseteq MarksOf(ex[e], b)
                  /\ \A s : pend = {s} /\ a \in Creates(sExec[e].nodes) => s \in MarksOf(ex[e], a)
    BY <2>1, FreedInParts
  <2> QED
    BY Zenon, <1>1, <2>2
<1>5. /\ DOMAIN allocs = DOMAIN sAlloc
      /\ \A b \in DOMAIN sAlloc : /\ allocs[b].graph = sAlloc[b].graph
                                  /\ allocs[b].paired <=> sAlloc[b].paired
      /\ \A b : b \in ActiveIn(allocs) <=> b \in ActiveIn(sAlloc) /\ b # a
  BY Zenon, <1>1, <1>3, DeactivatedView
<1>6. FreedView(a, pend, execs, allocs)
  BY Zenon, <1>4, <1>5 DEF FreedView
<1> QED
  BY Zenon, <1>2, <1>6

\* So the tables stay well formed.
LEMMA TablesFreed ==
    ASSUME IInv, Tables, NEW a \in DOMAIN cAlloc, NEW pend, AllocationFreed(a, pend)
    PROVE  Tables'
<1>1. PICK execs, allocs, gs :
         /\ RetireGraphMemory(execs, allocs, gs, Busy(inflight'))
         /\ UNCHANGED <<sGraph, nodes, edges, next>>
         /\ FreedView(a, pend, execs, allocs)
  BY FreedParts
<1>2. PICK busy : busy = Busy(inflight')
  OBVIOUS
<1>3. RetireGraphMemory(execs, allocs, gs, busy)
  BY Zenon, <1>1, <1>2
<1>4. /\ \A b \in DOMAIN allocs : /\ b \in DOMAIN sAlloc /\ allocs[b].graph = sAlloc[b].graph
                                  /\ (allocs[b].paired <=> sAlloc[b].paired)
      /\ \A e \in DOMAIN execs :
            /\ e \in DOMAIN sExec /\ execs[e].graph = sExec[e].graph
            /\ execs[e].nodes = sExec[e].nodes /\ execs[e].edges = sExec[e].edges
  BY Zenon, <1>1 DEF FreedView
<1> QED
  BY Zenon, <1>1, <1>3, <1>4, TablesRetire

\* The wait for the whole context, and the free of one reservation.
LEMMA StorageFree ==
    ASSUME IInv, Storage, NEW a \in DOMAIN cAlloc, Free(a)
    PROVE  Storage'
<1>1. /\ inflight = <<>> /\ inflight' = inflight /\ backing' = backing \ {a}
      /\ AllocationFreed(a, {})
  BY Zenon DEF Free
<1>2. PICK execs, allocs, gs :
         /\ RetireGraphMemory(execs, allocs, gs, Busy(inflight'))
         /\ UNCHANGED <<sGraph, nodes, edges, next>>
         /\ FreedView(a, {}, execs, allocs)
  <2>1. AllocationFreed(a, {})
    BY Zenon, <1>1
  <2> QED
    BY <2>1, FreedParts
<1>3. PICK q, busy, act, act2 : /\ q = inflight' /\ busy = Busy(inflight')
                                /\ act = ActiveIn(sAlloc) /\ act2 = ActiveIn(allocs)
  OBVIOUS
<1>4. /\ \A b : b \in backing <=> b \in act
      /\ \A b \in act : \E e \in DOMAIN sExec : b \in Creates(sExec[e].nodes)
  <2>1. StorageOk(<<>>, backing, sExec, act)
    BY Zenon, <1>1, <1>3 DEF Storage
  <2>2. PICK bk : bk = backing
    OBVIOUS
  <2>3. StorageOk(<<>>, bk, sExec, act)
    BY Zenon, <2>1, <2>2
  <2>4. /\ \A b : b \in bk <=> b \in act
        /\ \A b \in act : \E e \in DOMAIN sExec : b \in Creates(sExec[e].nodes)
    BY <2>3, StorageIdle
  <2> QED
    BY Zenon, <2>2, <2>4
<1>5. /\ \A b : b \in backing' <=> b \in act2
      /\ \A b \in act2 : \E e \in DOMAIN execs : b \in Creates(execs[e].nodes)
  BY Zenon, <1>1, <1>2, <1>3, <1>4 DEF FreedView
<1>6. PICK bk2 : bk2 = backing'
  OBVIOUS
<1>7. StorageOk(<<>>, bk2, execs, act2)
  BY Zenon, <1>5, <1>6, StorageIdle
<1>8. StorageOk(q, bk2, execs, ActiveIn(allocs)) /\ busy = Busy(q)
      /\ RetireGraphMemory(execs, allocs, gs, busy)
  BY Zenon, <1>1, <1>2, <1>3, <1>7
<1>9. StorageOk(q, bk2, sExec', ActiveIn(sAlloc'))
  BY Zenon, <1>8, StorageRetire
<1> QED
  BY Zenon, <1>3, <1>6, <1>9 DEF Storage

\* A free that the stream orders.
LEMMA StorageFreeAsync ==
    ASSUME IInv, Storage, NEW a \in DOMAIN cAlloc, NEW s, FreeAsync(a, s)
    PROVE  Storage'
<1>1. PICK y, act : /\ y = Item(s, 0, <<[kind |-> "free", alloc |-> a]>>, {})
                    /\ act = ActiveIn(sAlloc)
  OBVIOUS
<1>2. /\ sAlloc[a].active /\ Ordered({a}, s, 0) /\ inflight' = Append(inflight, y)
      /\ AllocationFreed(a, {s}) /\ UNCHANGED backing
  BY Zenon, <1>1 DEF FreeAsync
<1>3. PICK execs, allocs, gs :
         /\ RetireGraphMemory(execs, allocs, gs, Busy(inflight'))
         /\ UNCHANGED <<sGraph, nodes, edges, next>>
         /\ FreedView(a, {s}, execs, allocs)
  <2>1. AllocationFreed(a, {s})
    BY Zenon, <1>2
  <2> QED
    BY <2>1, FreedParts
<1>4. PICK act2 : act2 = ActiveIn(allocs)
  OBVIOUS
<1>5. /\ ItemOk(y) /\ y.stream = s /\ y.exec = 0
      /\ \A b : b \in y.names <=> b = a
      /\ \A b : b \in Names(y.left) <=> b = a
      /\ \A b : b \notin Creates(y.left)
      /\ \A b : b \in Frees(y.left) <=> b = a
  <2>1. PICK kind : kind = "free"
    OBVIOUS
  <2>2. kind # "alloc" /\ Single(y, s, kind, a)
    BY <1>1, <2>1 DEF Single
  <2>3. /\ ItemOk(y) /\ y.left # <<>> /\ y.stream = s /\ y.exec = 0
        /\ \A b : b \in y.names <=> b = a
        /\ \A b : b \in Names(y.left) <=> b = a
        /\ \A b : b \notin Creates(y.left)
        /\ \A b : b \in Frees(y.left) <=> b = a /\ kind = "free"
    BY Zenon, <2>2, SingleItem
  <2> QED
    BY Zenon, <2>1, <2>3
<1>6. a \in act /\ a \notin act2 /\ \A b : b # a => (b \in act2 <=> b \in act)
  BY Zenon, <1>1, <1>2, <1>3, <1>4, Parts DEF ActiveIn, FreedView
<1>7. StorageOk(inflight, backing, sExec, act)
  BY Zenon, <1>1 DEF Storage
<1>8. \A i \in DOMAIN inflight : \A b : b \in inflight[i].names /\ b \in y.names => Waits(inflight[i], y)
  BY Zenon, <1>2, <1>5 DEF Ordered, Waits
<1>9. \A b : StepOn(y, b, b \in act, b \in act2)
  BY Zenon, <1>5, <1>6 DEF StepOn
<1>10. \A e \in DOMAIN sExec : \A b \in Creates(sExec[e].nodes) :
          /\ e \in DOMAIN execs /\ b \in Creates(execs[e].nodes)
          /\ b \notin y.names => MarksOf(sExec[e], b) \subseteq MarksOf(execs[e], b)
  BY Zenon, <1>3, <1>5 DEF FreedView
<1>11. \A b : b \notin y.names => (b \in act2 <=> b \in act)
  BY Zenon, <1>5, <1>6
<1>12. \A b \in y.names : \E e \in DOMAIN execs :
          b \in Creates(execs[e].nodes) /\ (b \notin act2 => y.stream \in MarksOf(execs[e], b))
  <2>1. PICK e \in DOMAIN sExec : a \in Creates(sExec[e].nodes)
    BY Zenon, <1>6, <1>7 DEF StorageOk, MapOk
  <2>2. e \in DOMAIN execs /\ a \in Creates(execs[e].nodes) /\ s \in MarksOf(execs[e], a)
    BY Zenon, <1>3, <2>1 DEF FreedView
  <2> QED
    BY Zenon, <1>5, <2>2
<1>13. StorageOk(Append(inflight, y), backing, execs, act2)
  BY Zenon, <1>5, <1>7, <1>8, <1>9, <1>10, <1>11, <1>12, StorageAppend
<1>14. PICK q, busy : q = inflight' /\ busy = Busy(inflight')
  OBVIOUS
<1>15. StorageOk(q, backing, execs, ActiveIn(allocs)) /\ busy = Busy(q)
      /\ RetireGraphMemory(execs, allocs, gs, busy)
  BY Zenon, <1>2, <1>3, <1>4, <1>13, <1>14
<1>16. StorageOk(q, backing, sExec', ActiveIn(sAlloc'))
  BY Zenon, <1>15, StorageRetire
<1> QED
  BY Zenon, <1>2, <1>14, <1>16 DEF Storage

\* An operation on an active reservation.
LEMMA StorageUseAsync ==
    ASSUME IInv, Storage, NEW a \in DOMAIN cAlloc, NEW s, UseAsync(a, s)
    PROVE  Storage'
<1>1. PICK y, act : /\ y = Item(s, 0, <<[kind |-> "use", alloc |-> a]>>, {})
                    /\ act = ActiveIn(sAlloc)
  OBVIOUS
<1>2. /\ sAlloc[a].active /\ Ordered({a}, s, 0) /\ Submit(y)
      /\ UNCHANGED <<sAlloc, sExec, backing>>
  BY Zenon, <1>1 DEF UseAsync
<1>3. /\ ItemOk(y) /\ y.left # <<>> /\ y.stream = s /\ y.exec = 0
      /\ \A b : b \in y.names <=> b = a
      /\ \A b : b \in Names(y.left) <=> b = a
      /\ \A b : b \notin Creates(y.left)
      /\ \A b : b \notin Frees(y.left)
  <2>1. PICK kind : kind = "use"
    OBVIOUS
  <2>2. kind # "alloc" /\ kind # "free" /\ Single(y, s, kind, a)
    BY <1>1, <2>1 DEF Single
  <2>3. /\ ItemOk(y) /\ y.left # <<>> /\ y.stream = s /\ y.exec = 0
        /\ \A b : b \in y.names <=> b = a
        /\ \A b : b \in Names(y.left) <=> b = a
        /\ \A b : b \notin Creates(y.left)
        /\ \A b : b \in Frees(y.left) <=> b = a /\ kind = "free"
    BY Zenon, <2>2, SingleItem
  <2> QED
    BY Zenon, <2>2, <2>3
<1>4. inflight' = Append(inflight, y)
  BY Zenon, <1>2, <1>3 DEF Submit
<1>5. a \in act
  BY Zenon, <1>1, <1>2, Parts DEF ActiveIn
<1>6. StorageOk(inflight, backing, sExec, act)
  BY Zenon, <1>1 DEF Storage
<1>7. \A i \in DOMAIN inflight : \A b : b \in inflight[i].names /\ b \in y.names => Waits(inflight[i], y)
  BY Zenon, <1>2, <1>3 DEF Ordered, Waits
<1>8. \A b : StepOn(y, b, b \in act, b \in act)
  BY Zenon, <1>3, <1>5 DEF StepOn
<1>9. \A b \in y.names : \E e \in DOMAIN sExec :
         b \in Creates(sExec[e].nodes) /\ (b \notin act => y.stream \in MarksOf(sExec[e], b))
  <2>1. PICK e \in DOMAIN sExec : a \in Creates(sExec[e].nodes)
    BY Zenon, <1>5, <1>6 DEF StorageOk, MapOk
  <2> QED
    BY Zenon, <1>3, <1>5, <2>1
<1>10. StorageOk(Append(inflight, y), backing, sExec, act)
  BY Zenon, <1>3, <1>6, <1>7, <1>8, <1>9, StorageAppend
<1> QED
  BY Zenon, <1>1, <1>2, <1>4, <1>10 DEF Storage

-----------------------------------------------------------------------------
(* Every step keeps the tables                                             *)

\* An executable is destroyed.
LEMMA TablesExecDestroy ==
    ASSUME IInv, Tables, NEW e \in DOMAIN cExec, ExecDestroy(e)
    PROVE  Tables'
<1>1. PICK execs, allocs, gs, busy : /\ execs = ExecRetired(e) /\ allocs = sAlloc
                                     /\ gs = DOMAIN sGraph /\ busy = Busy(inflight)
  OBVIOUS
<1>2. RetireGraphMemory(execs, allocs, gs, busy) /\ UNCHANGED <<sGraph, nodes, edges, next>>
  BY Zenon, <1>1 DEF ExecDestroy, graphs
<1>3. ExecTable(sExec) /\ e \in DOMAIN sExec
  BY Zenon, Parts DEF Mirror
<1>4. \A f \in DOMAIN execs :
         /\ f \in DOMAIN sExec /\ execs[f].graph = sExec[f].graph
         /\ execs[f].nodes = sExec[f].nodes /\ execs[f].edges = sExec[f].edges
  BY Zenon, <1>1, <1>3, ExecRetiredParts
<1>5. \A a \in DOMAIN allocs :
         /\ a \in DOMAIN sAlloc /\ allocs[a].graph = sAlloc[a].graph
         /\ (allocs[a].paired <=> sAlloc[a].paired)
  BY Zenon, <1>1
<1> QED
  BY Zenon, <1>2, <1>4, <1>5, TablesRetire

\* A retirement of the server's tables as they are.
LEMMA TablesTrim ==
    ASSUME Tables, UNCHANGED <<sGraph, nodes, edges, next>>, NEW gs, NEW busy,
           RetireGraphMemory(sExec, sAlloc, gs, busy)
    PROVE  Tables'
<1>1. PICK execs, allocs : execs = sExec /\ allocs = sAlloc
  OBVIOUS
<1>2. /\ RetireGraphMemory(execs, allocs, gs, busy)
      /\ \A e \in DOMAIN execs :
            /\ e \in DOMAIN sExec /\ execs[e].graph = sExec[e].graph
            /\ execs[e].nodes = sExec[e].nodes /\ execs[e].edges = sExec[e].edges
      /\ \A a \in DOMAIN allocs :
            /\ a \in DOMAIN sAlloc /\ allocs[a].graph = sAlloc[a].graph
            /\ (allocs[a].paired <=> sAlloc[a].paired)
  BY Zenon, <1>1
<1> QED
  BY Zenon, <1>2, TablesRetire

\* A step that leaves the tables alone.
LEMMA TablesSame ==
    ASSUME Tables, UNCHANGED <<sGraph, nodes, edges, sAlloc, sExec, next>>
    PROVE  Tables'
BY Zenon DEF Tables

\* Every step keeps the tables well formed.
LEMMA TablesNext == IInv /\ Tables /\ [Next]_vars => Tables'
<1> SUFFICES ASSUME IInv, Tables, [Next]_vars PROVE Tables'
  OBVIOUS
<1>1. CASE Define
  <2>1. CASE GraphCreate
    BY Zenon, <2>1, TablesGraphCreate
  <2>2. ASSUME NEW g \in DOMAIN cGraph, NEW deps \in SUBSET NodesOf(g), AddMemAllocNode(g, deps)
        PROVE  Tables'
    BY Zenon, <2>2, TablesAddMemAllocNode
  <2>3. ASSUME NEW g \in DOMAIN cGraph, NEW deps \in SUBSET NodesOf(g), NEW a \in DOMAIN cAlloc,
               AddMemFreeNode(g, a, deps)
        PROVE  Tables'
    BY Zenon, <2>3, TablesAddMemFreeNode
  <2>4. ASSUME NEW g \in DOMAIN cGraph, NEW deps \in SUBSET NodesOf(g), NEW a \in DOMAIN cAlloc,
               AddUseNode(g, a, deps)
        PROVE  Tables'
    BY Zenon, <2>4, TablesAddUseNode
  <2>5. ASSUME NEW g \in DOMAIN cGraph, NEW f \in NodesOf(g), NEW t \in NodesOf(g), AddDependency(g, f, t)
        PROVE  Tables'
    BY Zenon, <2>5, TablesAddDependency
  <2>6. ASSUME NEW g \in DOMAIN cGraph, GraphDestroy(g) PROVE Tables'
    BY Zenon, <2>6, TablesGraphDestroy
  <2>7. ASSUME NEW n \in DOMAIN nodes, NEW a \in DOMAIN cAlloc, SetNode(n, a) PROVE Tables'
    BY Zenon, <2>7, TablesSetNode
  <2> QED
    BY Zenon, <1>1, <2>1, <2>2, <2>3, <2>4, <2>5, <2>6, <2>7 DEF Define
<1>2. CASE Execute
  <2>1. ASSUME NEW g \in DOMAIN cGraph, Instantiate(g) PROVE Tables'
    BY Zenon, <2>1, TablesInstantiate
  <2>2. ASSUME NEW e \in DOMAIN cExec, NEW s \in Streams, Launch(e, s) PROVE Tables'
    BY Zenon, <2>2, TablesLaunch
  <2>3. ASSUME NEW e \in DOMAIN cExec, NEW n \in DOMAIN sExec[e].nodes, NEW a \in DOMAIN cAlloc,
               ExecSetNode(e, n, a)
        PROVE  Tables'
    BY Zenon, <2>3, TablesExecSetNode
  <2>4. ASSUME NEW e \in DOMAIN cExec, ExecDestroy(e) PROVE Tables'
    BY Zenon, <2>4, TablesExecDestroy
  <2> QED
    BY Zenon, <1>2, <2>1, <2>2, <2>3, <2>4 DEF Execute
<1>3. CASE Memory
  <2>1. ASSUME NEW a \in DOMAIN cAlloc, Free(a) PROVE Tables'
    <3>1. PICK pend : pend = {} /\ AllocationFreed(a, pend)
      BY Zenon, <2>1 DEF Free
    <3> QED
      BY Zenon, <3>1, TablesFreed
  <2>2. ASSUME NEW a \in DOMAIN cAlloc, NEW s \in Streams, UseAsync(a, s) PROVE Tables'
    BY Zenon, <2>2, TablesSame DEF UseAsync, graphs
  <2>3. ASSUME NEW a \in DOMAIN cAlloc, NEW s \in Streams, FreeAsync(a, s) PROVE Tables'
    <3>1. PICK pend : pend = {s} /\ AllocationFreed(a, pend)
      BY Zenon, <2>3 DEF FreeAsync
    <3> QED
      BY Zenon, <3>1, TablesFreed
  <2>4. CASE Trim
    BY Zenon, <2>4, TablesTrim DEF Trim, graphs
  <2>5. CASE DeviceSynchronize
    BY Zenon, <2>5, TablesTrim DEF DeviceSynchronize, graphs
  <2>6. CASE SessionEnds
    BY Zenon, <2>6, TablesSessionEnds
  <2> QED
    BY Zenon, <1>3, <2>1, <2>2, <2>3, <2>4, <2>5, <2>6 DEF Memory
<1>4. CASE Device
  <2>1. UNCHANGED <<sGraph, nodes, edges, sAlloc, sExec, next>>
    BY Zenon, <1>4 DEF Device, RunNode, graphs
  <2> QED
    BY Zenon, <2>1, TablesSame
<1>5. CASE UNCHANGED vars
  <2>1. UNCHANGED <<sGraph, nodes, edges, sAlloc, sExec, next>>
    BY Zenon, <1>5 DEF vars, graphs
  <2> QED
    BY Zenon, <2>1, TablesSame
<1> QED
  BY Zenon, <1>1, <1>2, <1>3, <1>4, <1>5 DEF Next

-----------------------------------------------------------------------------
(* Every step keeps the storage                                            *)

\* Nothing is on the device and nothing is active.
LEMMA StorageInit == Init => Storage
<1> SUFFICES ASSUME Init PROVE Storage
  OBVIOUS
<1>1. inflight = <<>> /\ backing = {} /\ sAlloc = <<>>
  BY Zenon DEF Init
<1>2. \A a : a \notin ActiveIn(sAlloc)
  BY <1>1 DEF ActiveIn
<1>3. PICK bk, act : bk = backing /\ act = ActiveIn(sAlloc)
  OBVIOUS
<1>4. /\ \A a : a \in bk <=> a \in act
      /\ \A a \in act : \E e \in DOMAIN sExec : a \in Creates(sExec[e].nodes)
  BY Zenon, <1>1, <1>2, <1>3
<1>5. StorageOk(<<>>, bk, sExec, act)
  BY Zenon, <1>4, StorageIdle
<1> QED
  BY Zenon, <1>1, <1>3, <1>5 DEF Storage

\* The session ends on an idle device.
LEMMA StorageSessionEnds ==
    ASSUME Storage, SessionEnds
    PROVE  Storage'
<1>1. /\ inflight = <<>> /\ inflight' = <<>> /\ backing' = backing \ ActiveIn(sAlloc)
      /\ sAlloc' = <<>>
  BY Zenon DEF SessionEnds, ActiveIn
<1>2. PICK bk, act : bk = backing /\ act = ActiveIn(sAlloc)
  OBVIOUS
<1>3. StorageOk(<<>>, bk, sExec, act)
  BY Zenon, <1>1, <1>2 DEF Storage
<1>4. \A a : a \in bk <=> a \in act
  BY <1>3, StorageIdle
<1>5. \A a : a \notin ActiveIn(sAlloc')
  BY <1>1 DEF ActiveIn
<1>6. PICK bk2, act2, execs2 : bk2 = backing' /\ act2 = ActiveIn(sAlloc') /\ execs2 = sExec'
  OBVIOUS
<1>7. /\ \A a : a \in bk2 <=> a \in act2
      /\ \A a \in act2 : \E e \in DOMAIN execs2 : a \in Creates(execs2[e].nodes)
  BY Zenon, <1>1, <1>2, <1>4, <1>5, <1>6
<1>8. StorageOk(<<>>, bk2, execs2, act2)
  BY Zenon, <1>7, StorageIdle
<1> QED
  BY Zenon, <1>1, <1>6, <1>8 DEF Storage

\* A step that leaves the executables and the device alone, and changes which
\* reservations there are but not which are active.
LEMMA StorageSame ==
    ASSUME Storage, UNCHANGED <<sExec, inflight, backing>>,
           \A a : a \in ActiveIn(sAlloc') <=> a \in ActiveIn(sAlloc)
    PROVE  Storage'
<1>1. ActiveIn(sAlloc') = ActiveIn(sAlloc)
  OBVIOUS
<1> QED
  BY Zenon, <1>1 DEF Storage

\* A new reservation is not active, and a pairing changes no activity.
LEMMA StorageDefine ==
    ASSUME IInv, Tables, Storage
    PROVE  /\ GraphCreate => Storage'
           /\ \A g, deps : AddMemAllocNode(g, deps) => Storage'
           /\ \A g, deps : \A a \in DOMAIN cAlloc : AddMemFreeNode(g, a, deps) => Storage'
           /\ \A g, a, deps : AddUseNode(g, a, deps) => Storage'
           /\ \A g, f, t : AddDependency(g, f, t) => Storage'
           /\ \A n, a : SetNode(n, a) => Storage'
<1>1. ASSUME UNCHANGED <<sExec, inflight, backing, sAlloc>> PROVE Storage'
  BY Zenon, <1>1 DEF Storage
<1>2. GraphCreate => Storage'
  BY Zenon, <1>1 DEF GraphCreate, device
<1>3. ASSUME NEW g, NEW deps, AddMemAllocNode(g, deps) PROVE Storage'
  <2>1. PICK a, fresh : /\ a = next.alloc + 1
                        /\ fresh = [graph |-> g, active |-> FALSE, paired |-> FALSE]
    OBVIOUS
  <2>2. sAlloc' = With(sAlloc, a, fresh) /\ UNCHANGED <<sExec, inflight, backing>>
    BY Zenon, <1>3, <2>1 DEF AddMemAllocNode, device
  <2>3. a \notin DOMAIN sAlloc
    <3>1. DOMAIN sAlloc \subseteq 1..next.alloc /\ next.alloc \in Nat
      BY Zenon, Parts, TableParts DEF IdsOk
    <3> QED
      BY <2>1, <3>1
  <2>4. ~fresh.active
    BY Zenon, <2>1
  <2>5. \A b : b \in ActiveIn(sAlloc') <=> b \in ActiveIn(sAlloc)
    BY Zenon, <2>2, <2>3, <2>4 DEF ActiveIn, With
  <2> QED
    BY Zenon, <2>2, <2>5, StorageSame
<1>4. ASSUME NEW g, NEW deps, NEW a \in DOMAIN cAlloc, AddMemFreeNode(g, a, deps) PROVE Storage'
  <2>1. sAlloc' = [sAlloc EXCEPT ![a].paired = TRUE] /\ UNCHANGED <<sExec, inflight, backing>>
    BY Zenon, <1>4 DEF AddMemFreeNode, device
  <2>2. AllocTable(sAlloc) /\ a \in DOMAIN sAlloc
    BY Zenon, Parts
  <2>3. DOMAIN sAlloc' = DOMAIN sAlloc /\ \A b \in DOMAIN sAlloc : sAlloc'[b].active <=> sAlloc[b].active
    <3>1. PICK r, r2 : r = sAlloc[a] /\ r2 = [sAlloc[a] EXCEPT !.paired = TRUE]
      OBVIOUS
    <3>2. r \in Reservations
      BY Zenon, <2>2, <3>1 DEF AllocTable
    <3>3. r2.active = r.active
      BY Zenon, <3>1, <3>2, ReservationPaired
    <3>4. /\ DOMAIN sAlloc' = DOMAIN sAlloc /\ sAlloc'[a] = r2
          /\ \A b \in DOMAIN sAlloc : b # a => sAlloc'[b] = sAlloc[b]
      BY Zenon, <2>1, <2>2, <3>1
    <3> QED
      BY Zenon, <3>1, <3>3, <3>4
  <2>4. \A b : b \in ActiveIn(sAlloc') <=> b \in ActiveIn(sAlloc)
    BY Zenon, <2>3 DEF ActiveIn
  <2> QED
    BY Zenon, <2>1, <2>4, StorageSame
<1>5. ASSUME NEW g, NEW a, NEW deps, AddUseNode(g, a, deps) PROVE Storage'
  BY Zenon, <1>1, <1>5 DEF AddUseNode, device
<1>6. ASSUME NEW g, NEW f, NEW t, AddDependency(g, f, t) PROVE Storage'
  BY Zenon, <1>1, <1>6 DEF AddDependency, device
<1>7. ASSUME NEW n, NEW a, SetNode(n, a) PROVE Storage'
  <2>1. UNCHANGED <<sExec, inflight, backing, sAlloc>>
    BY <1>7 DEF SetNode, device
  <2> QED
    BY Zenon, <1>1, <2>1
<1> QED
  BY Zenon, <1>2, <1>3, <1>4, <1>5, <1>6, <1>7

\* A retirement of the server's tables as they are, on whatever is busy.
LEMMA StorageTrim ==
    ASSUME Storage, UNCHANGED <<inflight, backing>>, NEW gs, NEW busy, busy = Busy(inflight),
           RetireGraphMemory(sExec, sAlloc, gs, busy)
    PROVE  Storage'
<1>1. StorageOk(inflight, backing, sExec, ActiveIn(sAlloc))
  BY Zenon DEF Storage
<1>2. StorageOk(inflight, backing, sExec', ActiveIn(sAlloc'))
  BY Zenon, <1>1, StorageRetire
<1> QED
  BY Zenon, <1>2 DEF Storage

\* A destroyed executable that creates memory keeps its entry and its marks
\* until the retirement has looked at them.
LEMMA StorageExecDestroy ==
    ASSUME IInv, Storage, NEW e \in DOMAIN cExec, ExecDestroy(e)
    PROVE  Storage'
<1>1. PICK execs, gs, busy, act : /\ execs = ExecRetired(e) /\ gs = DOMAIN sGraph
                                  /\ busy = Busy(inflight) /\ act = ActiveIn(sAlloc)
  OBVIOUS
<1>2. RetireGraphMemory(execs, sAlloc, gs, busy) /\ UNCHANGED <<inflight, backing>>
  BY Zenon, <1>1 DEF ExecDestroy, device
<1>3. ExecTable(sExec) /\ e \in DOMAIN sExec
  BY Zenon, Parts DEF Mirror
<1>4. \A f \in DOMAIN sExec : \A a \in Creates(sExec[f].nodes) :
         /\ f \in DOMAIN execs /\ a \in Creates(execs[f].nodes)
         /\ MarksOf(sExec[f], a) \subseteq MarksOf(execs[f], a)
  BY Zenon, <1>1, <1>3, ExecRetiredParts
<1>5. StorageOk(inflight, backing, sExec, act)
  BY Zenon, <1>1 DEF Storage
<1>6. StorageOk(inflight, backing, execs, act)
  BY Zenon, <1>4, <1>5, StorageKept
<1>7. StorageOk(inflight, backing, execs, ActiveIn(sAlloc))
  BY Zenon, <1>1, <1>6
<1>8. busy = Busy(inflight) /\ RetireGraphMemory(execs, sAlloc, gs, busy)
  BY Zenon, <1>1, <1>2
<1>9. StorageOk(inflight, backing, sExec', ActiveIn(sAlloc'))
  BY Zenon, <1>7, <1>8, StorageRetire
<1> QED
  BY Zenon, <1>2, <1>9 DEF Storage

\* The server retires first; a new executable maps what nothing maps yet.
LEMMA StorageInstantiate ==
    ASSUME IInv, Storage, NEW g \in DOMAIN cGraph, Instantiate(g)
    PROVE  Storage'
<1>1. PICK e, execs, entry, busy, gs :
        /\ e = next.exec + 1 /\ busy = Busy(inflight) /\ gs = DOMAIN sGraph
        /\ execs = ExecsLeft(sExec, sAlloc, busy)
        /\ entry = [graph |-> g, nodes |-> Snapshot(g), edges |-> EdgesOf(g),
                    retired |-> FALSE, last |-> {}, pending |-> <<>>]
  OBVIOUS
<1>2. AllocsLeft(execs, sAlloc, gs) = sAlloc /\ DOMAIN execs \subseteq 1..next.exec
  BY Zenon, <1>1, ServerAlone
<1>3. /\ sAlloc' = sAlloc /\ UNCHANGED <<inflight, backing>>
      /\ sExec' = With(execs, e, entry) \/ sExec' = execs
  BY Zenon, <1>1, <1>2 DEF Instantiate, device
<1>4. e \notin DOMAIN execs
  <2>1. next.exec \in Nat
    BY Zenon, Parts
  <2> QED
    BY <1>1, <1>2, <2>1
<1>5. PICK act : act = ActiveIn(sAlloc)
  OBVIOUS
<1>6. MapOk(inflight, sExec, act) /\ QueueOk(inflight) /\ \A a : Runs(inflight, backing, act, a)
  BY Zenon, <1>5 DEF Storage, StorageOk
<1>7. MapOk(inflight, execs, act)
  BY Zenon, <1>1, <1>5, <1>6, MapRetire
<1>8. StorageOk(inflight, backing, execs, act)
  BY Zenon, <1>6, <1>7 DEF StorageOk
<1>9. PICK execs2 : execs2 = sExec'
  OBVIOUS
<1>10. \A f \in DOMAIN execs : f \in DOMAIN execs2 /\ execs2[f] = execs[f]
  BY Zenon, <1>3, <1>4, <1>9 DEF With
<1>11. \A f \in DOMAIN execs : \A a \in Creates(execs[f].nodes) :
          /\ f \in DOMAIN execs2 /\ a \in Creates(execs2[f].nodes)
          /\ MarksOf(execs[f], a) \subseteq MarksOf(execs2[f], a)
  BY Zenon, <1>10
<1>12. StorageOk(inflight, backing, execs2, act)
  BY Zenon, <1>8, <1>11, StorageKept
<1> QED
  BY Zenon, <1>3, <1>5, <1>9, <1>12 DEF Storage

\* A changed parameter of an executable creates nothing and moves no mark.
LEMMA StorageExecSetNode ==
    ASSUME IInv, Storage, NEW e \in DOMAIN cExec, NEW n \in DOMAIN sExec[e].nodes,
           NEW a \in DOMAIN cAlloc, ExecSetNode(e, n, a)
    PROVE  Storage'
<1>1. PICK execs2, act : execs2 = sExec' /\ act = ActiveIn(sAlloc)
  OBVIOUS
<1>2. /\ e \in DOMAIN sExec /\ DOMAIN execs2 = DOMAIN sExec
      /\ \A f \in DOMAIN sExec : f # e => execs2[f] = sExec[f]
      /\ execs2[e].last = sExec[e].last /\ execs2[e].pending = sExec[e].pending
      /\ Creates(execs2[e].nodes) = Creates(sExec[e].nodes)
      /\ UNCHANGED <<sAlloc, inflight, backing>>
  BY Zenon, <1>1, ExecSetNodeParts
<1>3. \A b : MarksOf(execs2[e], b) = MarksOf(sExec[e], b)
  BY Zenon, <1>2 DEF MarksOf
<1>4. \A f \in DOMAIN sExec : \A b \in Creates(sExec[f].nodes) :
         /\ f \in DOMAIN execs2 /\ b \in Creates(execs2[f].nodes)
         /\ MarksOf(sExec[f], b) \subseteq MarksOf(execs2[f], b)
  BY Zenon, <1>2, <1>3
<1>5. StorageOk(inflight, backing, sExec, act)
  BY Zenon, <1>1 DEF Storage
<1>6. StorageOk(inflight, backing, execs2, act)
  BY Zenon, <1>4, <1>5, StorageKept
<1> QED
  BY Zenon, <1>1, <1>2, <1>6 DEF Storage

\* Every step keeps the account of the storage.
LEMMA StorageNext == IInv /\ Tables /\ Storage /\ [Next]_vars => Storage'
<1> SUFFICES ASSUME IInv, Tables, Storage, [Next]_vars PROVE Storage'
  OBVIOUS
<1>1. CASE Define
  <2>1. ASSUME NEW g \in DOMAIN cGraph, GraphDestroy(g) PROVE Storage'
    <3>1. PICK gs, busy : gs = DOMAIN sGraph' /\ busy = Busy(inflight)
      OBVIOUS
    <3>2. RetireGraphMemory(sExec, sAlloc, gs, busy) /\ UNCHANGED <<inflight, backing>>
      BY Zenon, <2>1, <3>1 DEF GraphDestroy, device
    <3> QED
      BY Zenon, <3>1, <3>2, StorageTrim
  <2> QED
    BY Zenon, <1>1, <2>1, StorageDefine DEF Define
<1>2. CASE Execute
  <2>1. ASSUME NEW g \in DOMAIN cGraph, Instantiate(g) PROVE Storage'
    BY Zenon, <2>1, StorageInstantiate
  <2>2. ASSUME NEW e \in DOMAIN cExec, NEW s \in Streams, Launch(e, s) PROVE Storage'
    BY Zenon, <2>2, StorageLaunch
  <2>3. ASSUME NEW e \in DOMAIN cExec, NEW n \in DOMAIN sExec[e].nodes, NEW a \in DOMAIN cAlloc,
               ExecSetNode(e, n, a)
        PROVE  Storage'
    BY Zenon, <2>3, StorageExecSetNode
  <2>4. ASSUME NEW e \in DOMAIN cExec, ExecDestroy(e) PROVE Storage'
    BY Zenon, <2>4, StorageExecDestroy
  <2> QED
    BY Zenon, <1>2, <2>1, <2>2, <2>3, <2>4 DEF Execute
<1>3. CASE Memory
  <2>1. ASSUME NEW a \in DOMAIN cAlloc, Free(a) PROVE Storage'
    BY Zenon, <2>1, StorageFree
  <2>2. ASSUME NEW a \in DOMAIN cAlloc, NEW s \in Streams, UseAsync(a, s) PROVE Storage'
    BY Zenon, <2>2, StorageUseAsync
  <2>3. ASSUME NEW a \in DOMAIN cAlloc, NEW s \in Streams, FreeAsync(a, s) PROVE Storage'
    BY Zenon, <2>3, StorageFreeAsync
  <2>4. CASE Trim
    <3>1. PICK gs, busy : gs = DOMAIN sGraph /\ busy = Busy(inflight)
      OBVIOUS
    <3>2. RetireGraphMemory(sExec, sAlloc, gs, busy) /\ UNCHANGED <<inflight, backing>>
      BY Zenon, <2>4, <3>1 DEF Trim, device
    <3> QED
      BY Zenon, <3>1, <3>2, StorageTrim
  <2>5. CASE DeviceSynchronize
    <3>1. PICK gs, busy : gs = DOMAIN sGraph /\ busy = {}
      OBVIOUS
    <3>2. /\ RetireGraphMemory(sExec, sAlloc, gs, busy) /\ UNCHANGED <<inflight, backing>>
          /\ inflight = <<>>
      BY Zenon, <2>5, <3>1 DEF DeviceSynchronize, device
    <3>3. busy = Busy(inflight)
      BY <3>1, <3>2 DEF Busy
    <3> QED
      BY Zenon, <3>2, <3>3, StorageTrim
  <2>6. CASE SessionEnds
    BY Zenon, <2>6, StorageSessionEnds
  <2> QED
    BY Zenon, <1>3, <2>1, <2>2, <2>3, <2>4, <2>5, <2>6 DEF Memory
<1>4. CASE Device
  BY Zenon, <1>4, StorageRunNode DEF Device
<1>5. CASE UNCHANGED vars
  BY Zenon, <1>5 DEF Storage, vars, device
<1> QED
  BY Zenon, <1>1, <1>2, <1>3, <1>4, <1>5 DEF Next

-----------------------------------------------------------------------------
(* Theorems                                                                *)

\* The tables of the server are well formed and the account of the storage
\* holds in every reachable state.
THEOREM StorageInvariance == Spec => [](IInv /\ Tables /\ Storage)
<1>1. Init => IInv /\ Tables /\ Storage
  BY Zenon, InvInit, TablesInit, StorageInit
<1>2. IInv /\ Tables /\ Storage /\ [Next]_vars => (IInv /\ Tables /\ Storage)'
  BY Zenon, InvNext, TablesNext, StorageNext
<1> QED
  BY <1>1, <1>2, PTL DEF Spec

\* Whatever node or operation the device is ready to run finds its
\* reservation backed, and an allocation node finds it without storage: what
\* validate_graph_memory and the graph_active flag accept is safe in every
\* order that the edges and the streams allow.
THEOREM UsesAreBacked == Spec => []UseIsBacked
<1>1. Storage => UseIsBacked
  <2> SUFFICES ASSUME Storage, NEW i \in DOMAIN inflight, NEW n \in DOMAIN inflight[i].left, Ready(i, n)
               PROVE  inflight[i].left[n].alloc \in backing <=> inflight[i].left[n].kind # "alloc"
    BY Zenon DEF UseIsBacked
  <2>1. PICK l, a, l2 : l = inflight[i].left /\ a = l[n].alloc /\ l2 = Without(l, {n})
    OBVIOUS
  <2>2. /\ OneAlloc(l) /\ \A m \in DOMAIN l : ~Before(l, m, n)
        /\ a \in backing <=> a \notin Creates(l)
    BY Zenon, <2>1, ReadyFacts
  <2>3. a \in Creates(l) <=> l[n].kind = "alloc"
    <3>1. n \in DOMAIN l /\ a = l[n].alloc /\ l2 = Without(l, {n})
      BY Zenon, <2>1
    <3>2. OneAlloc(l) /\ \A m \in DOMAIN l : ~Before(l, m, n)
      BY Zenon, <2>2
    <3> QED
      BY <3>1, <3>2, NodeRuns
  <2> QED
    BY Zenon, <2>1, <2>2, <2>3
<1> QED
  BY <1>1, StorageInvariance, PTL

\* The native executable that maps a reservation is not destroyed while the
\* reservation has storage (retire_graph_memory, Held).
THEOREM StorageIsMapped == Spec => []MappedWhileBacked
<1>1. Storage => MappedWhileBacked
  <2> SUFFICES ASSUME Storage, NEW a \in backing
               PROVE  \E e \in DOMAIN sExec : a \in Creates(sExec[e].nodes)
    BY Zenon DEF MappedWhileBacked
  <2>1. PICK act : act = ActiveIn(sAlloc)
    OBVIOUS
  <2>2. QueueOk(inflight) /\ Runs(inflight, backing, act, a) /\ MapOk(inflight, sExec, act)
    BY Zenon, <2>1 DEF Storage, StorageOk
  <2>3. CASE a \in act
    BY Zenon, <2>2, <2>3 DEF MapOk
  <2>4. CASE a \notin act
    <3>1. \E i \in DOMAIN inflight : a \in Names(inflight[i].left)
      BY Zenon, <2>2, <2>4, RunsTouched DEF QueueOk
    <3>2. PICK i \in DOMAIN inflight : a \in Names(inflight[i].left)
      BY Zenon, <3>1
    <3>3. a \in inflight[i].names
      BY Zenon, <2>2, <3>2 DEF QueueOk, ItemOk
    <3> QED
      BY Zenon, <2>2, <2>4, <3>2, <3>3 DEF MapOk
  <2> QED
    BY Zenon, <2>3, <2>4
<1> QED
  BY <1>1, StorageInvariance, PTL

\* On an idle device exactly the active reservations have storage: launches,
\* frees, retirements and the end of a session leak none and lose none.
THEOREM IdleStorageIsActive == Spec => []ActiveIsBacked
<1>1. Storage => ActiveIsBacked
  <2> SUFFICES ASSUME Storage, inflight = <<>>
               PROVE  backing = ActiveIn(sAlloc)
    BY Zenon DEF ActiveIsBacked, ActiveIn
  <2>1. PICK bk, act : bk = backing /\ act = ActiveIn(sAlloc)
    OBVIOUS
  <2>2. StorageOk(<<>>, bk, sExec, act)
    BY Zenon, <2>1 DEF Storage
  <2>3. \A a : a \in bk <=> a \in act
    BY <2>2, StorageIdle
  <2> QED
    BY Zenon, <2>1, <2>3
<1> QED
  BY <1>1, StorageInvariance, PTL

=============================================================================
