------------------------- MODULE GraphMemoryProofs -------------------------
(***************************************************************************)
(* Proofs about GraphMemory, for any number of streams, graphs, nodes,     *)
(* executables and reservations: client and server keep the same table of  *)
(* reservations although each applies its own retirement rule at its own   *)
(* calls, and no reservation is mapped by two native executables.          *)
(*                                                                         *)
(* The server retires at more calls than the client does (Trim,            *)
(* DeviceSynchronize, a rejected Instantiate).  The tables agree all the   *)
(* same because every reservation is kept for a reason that those calls    *)
(* cannot take away (Kept), so that they retire nothing.                   *)
(*                                                                         *)
(* After these theorems, the facts behind GraphStorageProofs: how the      *)
(* queue of the device runs (Runs, QueueOk), which executables map what it *)
(* will still touch (MapOk), and that the tables behind a launch stay well *)
(* formed in every call that changes them (Tables).                        *)
(***************************************************************************)
EXTENDS GraphMemory, TLAPS

NodeKinds == {"alloc", "free", "use"}
NodeRecords == [graph : Nat, kind : NodeKinds, alloc : Nat]
Reservations == [graph : Nat, active : BOOLEAN, paired : BOOLEAN]
Ids == [graph : Nat, node : Nat, exec : Nat, alloc : Nat]

\* The nodes of a snapshot, and the entry of an executable.
NodeMap(ns) == ns \in [DOMAIN ns -> [kind : NodeKinds, alloc : Nat]]

Entry(x) ==
    /\ x \in [graph : Nat, nodes : {x.nodes}, edges : {x.edges}, retired : BOOLEAN,
              last : {x.last}, pending : {x.pending}]
    /\ NodeMap(x.nodes)

NodeTable(ns) == ns \in [DOMAIN ns -> NodeRecords]
AllocTable(as) == DOMAIN as \subseteq Nat /\ as \in [DOMAIN as -> Reservations]
ExecTable(es) == es = [e \in DOMAIN es |-> es[e]] /\ \A e \in DOMAIN es : Entry(es[e])

Typed == /\ next \in Ids /\ DOMAIN sGraph \subseteq Nat
         /\ NodeTable(nodes) /\ AllocTable(sAlloc) /\ ExecTable(sExec)
         /\ DOMAIN sExec \subseteq 1..next.exec

\* The client has the executables of the server that are not retired, with the
\* reservations their allocation nodes create.
Mirror(mine, execs) ==
    /\ DOMAIN mine = {e \in DOMAIN execs : ~execs[e].retired}
    /\ \A e \in DOMAIN mine : mine[e] = Creates(execs[e].nodes)

\* Every reservation is active, or its graph or a live executable may replay it.
Kept(allocs, gs, mine) ==
    \A a \in DOMAIN allocs : \/ allocs[a].active
                             \/ allocs[a].graph \in gs
                             \/ \E e \in DOMAIN mine : a \in mine[e]

\* Reservations have been given out, the allocation nodes of a reservation and
\* the executables that map it are of one graph, and one executable maps it.
MapsOk(execs, ns, given) ==
    /\ \A e \in DOMAIN execs : Creates(execs[e].nodes) \subseteq 1..given
    /\ \A n \in DOMAIN ns : ns[n].kind = "alloc" => ns[n].alloc \in 1..given
    /\ \A e \in DOMAIN execs : \A n \in DOMAIN ns :
          ns[n].kind = "alloc" /\ ns[n].alloc \in Creates(execs[e].nodes)
             => ns[n].graph = execs[e].graph
    /\ \A m, n \in DOMAIN ns :
          /\ ns[m].kind = "alloc" /\ ns[n].kind = "alloc"
          /\ ns[m].alloc = ns[n].alloc
          => ns[m].graph = ns[n].graph
    /\ \A e, f \in DOMAIN execs : \A a :
          a \in Creates(execs[e].nodes) /\ a \in Creates(execs[f].nodes) => e = f

IInv == /\ Typed /\ DOMAIN cGraph = DOMAIN sGraph
        /\ MemoryTablesAgree
        /\ Mirror(cExec, sExec)
        /\ Kept(sAlloc, DOMAIN sGraph, cExec)
        /\ MapsOk(sExec, nodes, next.alloc)

-----------------------------------------------------------------------------
(* Tables                                                                  *)

\* The domain and the values of a function with one more argument.
LEMMA WithView ==
    ASSUME NEW f, NEW x, NEW v
    PROVE  /\ DOMAIN With(f, x, v) = DOMAIN f \cup {x} /\ With(f, x, v)[x] = v
           /\ \A y \in DOMAIN f : y # x => With(f, x, v)[y] = f[y]
BY Zenon DEF With

\* The parts of an entry after the changes the server makes to one.
LEMMA EntryPending ==
    ASSUME NEW x, Entry(x), NEW p
    PROVE  /\ Entry([x EXCEPT !.pending = p])
           /\ [x EXCEPT !.pending = p].nodes = x.nodes
           /\ [x EXCEPT !.pending = p].graph = x.graph
           /\ [x EXCEPT !.pending = p].retired = x.retired
BY Zenon DEF Entry

\* The same for the mark of a retired executable.
LEMMA EntryRetired ==
    ASSUME NEW x, Entry(x)
    PROVE  /\ Entry([x EXCEPT !.retired = TRUE])
           /\ [x EXCEPT !.retired = TRUE].nodes = x.nodes
           /\ [x EXCEPT !.retired = TRUE].graph = x.graph
           /\ [x EXCEPT !.retired = TRUE].retired = TRUE
BY Zenon DEF Entry

\* The parts of an entry whose nodes are replaced.
LEMMA EntryNodes ==
    ASSUME NEW x, Entry(x), NEW ns, NodeMap(ns)
    PROVE  /\ Entry([x EXCEPT !.nodes = ns]) /\ [x EXCEPT !.nodes = ns].nodes = ns
           /\ [x EXCEPT !.nodes = ns].graph = x.graph
           /\ [x EXCEPT !.nodes = ns].retired = x.retired
BY DEF Entry

\* Only allocation nodes create, so another reservation in another node
\* creates the same.
LEMMA CreatesSame ==
    ASSUME NEW ns, NodeMap(ns), NEW n \in DOMAIN ns, ns[n].kind # "alloc", NEW a \in Nat
    PROVE  /\ NodeMap([ns EXCEPT ![n].alloc = a])
           /\ Creates([ns EXCEPT ![n].alloc = a]) = Creates(ns)
<1> DEFINE c == [ns EXCEPT ![n].alloc = a]
<1>1. \A m \in DOMAIN ns : ns[m] \in [kind : NodeKinds, alloc : Nat]
  BY Zenon DEF NodeMap
<1>2. /\ DOMAIN c = DOMAIN ns /\ c[n] = [ns[n] EXCEPT !.alloc = a]
      /\ \A m \in DOMAIN ns : m # n => c[m] = ns[m]
  BY Zenon DEF NodeMap
<1>3. c[n] \in [kind : NodeKinds, alloc : Nat] /\ c[n].kind = ns[n].kind
  BY <1>1, <1>2
<1>4. NodeMap(c)
  BY <1>1, <1>2, <1>3 DEF NodeMap
<1> HIDE DEF c
<1>5. {m \in DOMAIN c : c[m].kind = "alloc"} = {m \in DOMAIN ns : ns[m].kind = "alloc"}
  BY <1>2, <1>3
<1>6. \A m \in DOMAIN ns : ns[m].kind = "alloc" => c[m] = ns[m]
  BY Zenon, <1>2
<1>7. Creates(c) = Creates(ns)
  BY <1>5, <1>6 DEF Creates
<1> QED
  BY <1>4, <1>7 DEF c

-----------------------------------------------------------------------------
(* Retirement                                                              *)

\* The executables that the first loop leaves.
LEMMA ExecsLeftView ==
    ASSUME NEW execs, NEW allocs, NEW busy, ExecTable(execs)
    PROVE  LET left == ExecsLeft(execs, allocs, busy)
           IN  /\ DOMAIN left \subseteq DOMAIN execs
               /\ \A e \in DOMAIN left : left[e] = execs[e]
               /\ \A e \in DOMAIN execs : ~execs[e].retired => e \in DOMAIN left
               /\ ExecTable(left)
<1> DEFINE left == ExecsLeft(execs, allocs, busy)
<1>1. DOMAIN left = {x \in DOMAIN execs : execs[x].retired => Held(execs[x], allocs, busy)}
  BY Zenon DEF ExecsLeft
<1>2. \A e \in DOMAIN left : left[e] = execs[e]
  BY Zenon DEF ExecsLeft
<1>3. left = [e \in DOMAIN left |-> left[e]]
  BY DEF ExecsLeft
<1> HIDE DEF left
<1>4. ExecTable(left)
  BY <1>1, <1>2, <1>3 DEF ExecTable
<1> QED
  BY <1>1, <1>2, <1>4 DEF left

\* The first loop drops nothing the client knows of.
LEMMA MirrorLeft ==
    ASSUME NEW execs, NEW left, NEW mine, Mirror(mine, execs),
           DOMAIN left \subseteq DOMAIN execs,
           \A e \in DOMAIN left : left[e] = execs[e],
           \A e \in DOMAIN execs : ~execs[e].retired => e \in DOMAIN left
    PROVE  Mirror(mine, left)
<1>1. DOMAIN mine = {e \in DOMAIN left : ~left[e].retired}
  BY Zenon DEF Mirror
<1>2. \A e \in DOMAIN mine : mine[e] = Creates(left[e].nodes)
  BY <1>1 DEF Mirror
<1> QED
  BY <1>1, <1>2 DEF Mirror

\* The two sides' rules retire the same reservations.
LEMMA RulesAgree ==
    ASSUME NEW left, NEW mine, Mirror(mine, left), NEW allocs, NEW gs
    PROVE  AllocsLeft(left, allocs, gs) = RetireClientGraphAllocations(mine, allocs, gs)
<1>1. \A x : (\E e \in DOMAIN left : ~left[e].retired /\ x \in Creates(left[e].nodes))
             <=> (\E e \in DOMAIN mine : x \in mine[e])
  BY DEF Mirror
<1> QED
  BY Zenon, <1>1 DEF AllocsLeft, RetireClientGraphAllocations

\* What the client's rule leaves.
LEMMA ClientRuleView ==
    ASSUME NEW mine, NEW allocs, NEW gs, AllocTable(allocs)
    PROVE  LET left == RetireClientGraphAllocations(mine, allocs, gs)
           IN  AllocTable(left) /\ Kept(left, gs, mine)
<1> DEFINE left == RetireClientGraphAllocations(mine, allocs, gs)
<1>1. DOMAIN left = {x \in DOMAIN allocs : \/ allocs[x].active
                                           \/ allocs[x].graph \in gs
                                           \/ \E e \in DOMAIN mine : x \in mine[e]}
  BY Zenon DEF RetireClientGraphAllocations
<1>2. \A a \in DOMAIN left : left[a] = allocs[a]
  BY Zenon DEF RetireClientGraphAllocations
<1>3. left = [a \in DOMAIN left |-> left[a]]
  BY DEF RetireClientGraphAllocations
<1> HIDE DEF left
<1>4. AllocTable(left)
  BY <1>1, <1>2, <1>3 DEF AllocTable
<1>5. Kept(left, gs, mine)
  BY <1>1, <1>2 DEF Kept
<1> QED
  BY Zenon, <1>4, <1>5 DEF left

\* The rule retires nothing if every reservation has a reason to stay.
LEMMA NothingRetired ==
    ASSUME NEW mine, NEW allocs, NEW gs, AllocTable(allocs), Kept(allocs, gs, mine)
    PROVE  RetireClientGraphAllocations(mine, allocs, gs) = allocs
<1>1. {x \in DOMAIN allocs : \/ allocs[x].active
                             \/ allocs[x].graph \in gs
                             \/ \E e \in DOMAIN mine : x \in mine[e]} = DOMAIN allocs
  BY Zenon DEF Kept
<1>2. allocs = [a \in DOMAIN allocs |-> allocs[a]]
  BY Zenon DEF AllocTable
<1> QED
  BY Zenon, <1>1, <1>2 DEF RetireClientGraphAllocations

\* A reservation is mapped as before by executables that are left and by
\* allocation nodes that are left.
LEMMA MapsKept ==
    ASSUME NEW execs, NEW ns, NEW given \in Nat, MapsOk(execs, ns, given),
           NEW execs2, NEW ns2, NEW given2 \in Nat, given <= given2,
           \A e \in DOMAIN execs2 :
              /\ e \in DOMAIN execs /\ execs2[e].graph = execs[e].graph
              /\ Creates(execs2[e].nodes) = Creates(execs[e].nodes),
           \A n \in DOMAIN ns2 : ns2[n].kind = "alloc" =>
              /\ n \in DOMAIN ns /\ ns[n].kind = "alloc"
              /\ ns2[n].graph = ns[n].graph /\ ns2[n].alloc = ns[n].alloc
    PROVE  MapsOk(execs2, ns2, given2)
<1>1. 1..given \subseteq 1..given2
  OBVIOUS
<1>2. /\ \A e \in DOMAIN execs2 : Creates(execs2[e].nodes) \subseteq 1..given2
      /\ \A n \in DOMAIN ns2 : ns2[n].kind = "alloc" => ns2[n].alloc \in 1..given2
  <2>1. /\ \A e \in DOMAIN execs : Creates(execs[e].nodes) \subseteq 1..given
        /\ \A n \in DOMAIN ns : ns[n].kind = "alloc" => ns[n].alloc \in 1..given
    BY Zenon DEF MapsOk
  <2> QED
    BY Zenon, <1>1, <2>1
<1>3. ASSUME NEW e \in DOMAIN execs2, NEW n \in DOMAIN ns2,
             ns2[n].kind = "alloc", ns2[n].alloc \in Creates(execs2[e].nodes)
      PROVE  ns2[n].graph = execs2[e].graph
  <2>1. /\ e \in DOMAIN execs /\ n \in DOMAIN ns /\ ns[n].kind = "alloc"
        /\ ns[n].alloc \in Creates(execs[e].nodes)
    BY Zenon, <1>3
  <2>2. ns[n].graph = execs[e].graph
    BY Zenon, <2>1 DEF MapsOk
  <2> QED
    BY Zenon, <1>3, <2>2
<1>4. ASSUME NEW m \in DOMAIN ns2, NEW n \in DOMAIN ns2,
             ns2[m].kind = "alloc", ns2[n].kind = "alloc", ns2[m].alloc = ns2[n].alloc
      PROVE  ns2[m].graph = ns2[n].graph
  <2>1. /\ m \in DOMAIN ns /\ n \in DOMAIN ns /\ ns[m].kind = "alloc" /\ ns[n].kind = "alloc"
        /\ ns[m].alloc = ns[n].alloc
    BY Zenon, <1>4
  <2>2. ns[m].graph = ns[n].graph
    BY Zenon, <2>1 DEF MapsOk
  <2> QED
    BY Zenon, <1>4, <2>2
<1>5. ASSUME NEW e \in DOMAIN execs2, NEW f \in DOMAIN execs2, NEW a,
             a \in Creates(execs2[e].nodes), a \in Creates(execs2[f].nodes)
      PROVE  e = f
  BY Zenon, <1>5 DEF MapsOk
<1> QED
  BY Zenon, <1>2, <1>3, <1>4, <1>5 DEF MapsOk

\* retire_graph_memory leaves the reservations that the client's rule would,
\* and executables the client may know of.
LEMMA ServerRetires ==
    ASSUME NEW execs, NEW allocs, NEW gs, NEW busy, NEW mine,
           ExecTable(execs), AllocTable(allocs), Mirror(mine, execs),
           RetireGraphMemory(execs, allocs, gs, busy)
    PROVE  /\ sAlloc' = RetireClientGraphAllocations(mine, allocs, gs)
           /\ AllocTable(sAlloc') /\ Kept(sAlloc', gs, mine)
           /\ ExecTable(sExec') /\ Mirror(mine, sExec')
           /\ \A e \in DOMAIN sExec' : e \in DOMAIN execs /\ sExec'[e] = execs[e]
<1>1. PICK left : left = ExecsLeft(execs, allocs, busy)
  OBVIOUS
<1>2. /\ DOMAIN left \subseteq DOMAIN execs
      /\ \A e \in DOMAIN left : left[e] = execs[e]
      /\ \A e \in DOMAIN execs : ~execs[e].retired => e \in DOMAIN left
      /\ ExecTable(left)
  BY <1>1, ExecsLeftView
<1>3. Mirror(mine, left)
  BY Zenon, <1>2, MirrorLeft
<1>4. sExec' = left /\ sAlloc' = AllocsLeft(left, allocs, gs)
  BY Zenon, <1>1 DEF RetireGraphMemory
<1>5. sAlloc' = RetireClientGraphAllocations(mine, allocs, gs)
  <2>1. AllocsLeft(left, allocs, gs) = RetireClientGraphAllocations(mine, allocs, gs)
    BY <1>3, RulesAgree
  <2> QED
    BY Zenon, <1>4, <2>1
<1>6. AllocTable(sAlloc') /\ Kept(sAlloc', gs, mine)
  BY Zenon, <1>5, ClientRuleView
<1> QED
  BY Zenon, <1>2, <1>3, <1>4, <1>5, <1>6

-----------------------------------------------------------------------------
(* Changes of single entries                                               *)

\* The parts of the invariant after a step.
LEMMA Assemble ==
    ASSUME next' \in Ids, DOMAIN sGraph' \subseteq Nat, DOMAIN sExec' \subseteq 1..next'.exec,
           NodeTable(nodes'), AllocTable(sAlloc'), ExecTable(sExec'),
           DOMAIN cGraph' = DOMAIN sGraph', cAlloc' = sAlloc',
           Mirror(cExec', sExec'), Kept(sAlloc', DOMAIN sGraph', cExec'),
           MapsOk(sExec', nodes', next'.alloc)
    PROVE  IInv'
BY Zenon DEF IInv, Typed, MemoryTablesAgree

\* The parts of the invariant before a step.
LEMMA Parts ==
    ASSUME IInv
    PROVE  /\ next \in Ids /\ next.alloc \in Nat /\ next.exec \in Nat
           /\ DOMAIN sGraph \subseteq Nat /\ DOMAIN sExec \subseteq 1..next.exec
           /\ NodeTable(nodes) /\ AllocTable(sAlloc) /\ ExecTable(sExec)
           /\ DOMAIN cGraph = DOMAIN sGraph /\ cAlloc = sAlloc
           /\ Mirror(cExec, sExec) /\ Kept(sAlloc, DOMAIN sGraph, cExec)
           /\ MapsOk(sExec, nodes, next.alloc)
<1>1. next \in Ids
  BY DEF IInv, Typed
<1>2. next.alloc \in Nat /\ next.exec \in Nat
  BY Zenon, <1>1 DEF Ids
<1> QED
  BY Zenon, <1>1, <1>2 DEF IInv, Typed, MemoryTablesAgree

\* Nothing of the tables changes.
LEMMA SameTables ==
    ASSUME IInv, UNCHANGED <<client, sGraph, nodes, sAlloc, sExec, next>>
    PROVE  IInv'
<1>1. UNCHANGED <<cGraph, cAlloc, cExec, sGraph, nodes, sAlloc, sExec, next>>
  BY Zenon DEF client
<1> QED
  BY Zenon, <1>1, Parts, Assemble

\* A table with one more node.
LEMMA NodeAdded ==
    ASSUME NEW ns, NodeTable(ns), NEW n, NEW v \in NodeRecords
    PROVE  NodeTable(With(ns, n, v))
BY Zenon DEF NodeTable, With

\* A node that creates nothing leaves the mappings alone.
LEMMA MapsOtherNode ==
    ASSUME NEW execs, NEW ns, NEW given \in Nat, MapsOk(execs, ns, given),
           NEW n, NEW v, v.kind # "alloc"
    PROVE  MapsOk(execs, With(ns, n, v), given)
<1>1. PICK ns2 : ns2 = With(ns, n, v)
  OBVIOUS
<1>2. /\ DOMAIN ns2 = DOMAIN ns \cup {n} /\ ns2[n] = v
      /\ \A m \in DOMAIN ns : m # n => ns2[m] = ns[m]
  BY <1>1 DEF With
<1>3. \A m \in DOMAIN ns2 : ns2[m].kind = "alloc" => m \in DOMAIN ns /\ ns2[m] = ns[m]
  BY Zenon, <1>2
<1>4. given <= given
  OBVIOUS
<1>5. MapsOk(execs, ns2, given)
  BY <1>3, <1>4, MapsKept
<1> QED
  BY <1>1, <1>5

\* An allocation node for a new reservation.
LEMMA MapsNewNode ==
    ASSUME NEW execs, NEW ns, NEW given \in Nat, MapsOk(execs, ns, given),
           NEW n, NEW v, v.kind = "alloc", v.alloc = given + 1
    PROVE  MapsOk(execs, With(ns, n, v), given + 1)
<1>1. PICK ns2 : ns2 = With(ns, n, v)
  OBVIOUS
<1>2. /\ DOMAIN ns2 = DOMAIN ns \cup {n} /\ ns2[n] = v
      /\ \A m \in DOMAIN ns : m # n => ns2[m] = ns[m]
  BY Zenon, <1>1 DEF With
<1>3. \A m \in DOMAIN ns2 : m # n => m \in DOMAIN ns /\ ns2[m] = ns[m]
  BY Zenon, <1>2
<1>4. /\ 1..given \subseteq 1..(given + 1)
      /\ given + 1 \in 1..(given + 1) /\ given + 1 \notin 1..given
  OBVIOUS
<1>5. /\ \A e \in DOMAIN execs : Creates(execs[e].nodes) \subseteq 1..given
      /\ \A m \in DOMAIN ns : ns[m].kind = "alloc" => ns[m].alloc \in 1..given
  BY Zenon DEF MapsOk
<1>6. /\ \A e \in DOMAIN execs : Creates(execs[e].nodes) \subseteq 1..(given + 1)
      /\ \A m \in DOMAIN ns2 : ns2[m].kind = "alloc" => ns2[m].alloc \in 1..(given + 1)
  <2>1. \A e \in DOMAIN execs : Creates(execs[e].nodes) \subseteq 1..(given + 1)
    BY Zenon, <1>4, <1>5
  <2>2. ASSUME NEW m \in DOMAIN ns2, ns2[m].kind = "alloc"
        PROVE  ns2[m].alloc \in 1..(given + 1)
    <3>1. CASE m = n
      BY Zenon, <3>1, <1>2, <1>4
    <3>2. CASE m # n
      BY Zenon, <3>2, <2>2, <1>3, <1>4, <1>5
    <3> QED
      BY Zenon, <3>1, <3>2
  <2> QED
    BY Zenon, <2>1, <2>2
<1>7. ASSUME NEW e \in DOMAIN execs, NEW m \in DOMAIN ns2,
             ns2[m].kind = "alloc", ns2[m].alloc \in Creates(execs[e].nodes)
      PROVE  ns2[m].graph = execs[e].graph
  <2>1. m # n
    BY Zenon, <1>2, <1>4, <1>5, <1>7
  <2>2. m \in DOMAIN ns /\ ns2[m] = ns[m]
    BY Zenon, <1>3, <2>1
  <2> QED
    BY Zenon, <1>7, <2>2 DEF MapsOk
<1>8. ASSUME NEW m \in DOMAIN ns2, NEW k \in DOMAIN ns2,
             ns2[m].kind = "alloc", ns2[k].kind = "alloc", ns2[m].alloc = ns2[k].alloc
      PROVE  ns2[m].graph = ns2[k].graph
  <2>1. CASE m = n
    <3>1. k = n
      <4>1. SUFFICES ASSUME k # n PROVE FALSE
        BY Zenon
      <4>2. ns2[k].alloc \in 1..given
        BY Zenon, <4>1, <1>3, <1>5, <1>8
      <4>3. ns2[k].alloc = given + 1
        BY Zenon, <2>1, <1>2, <1>8
      <4> QED
        BY Zenon, <4>2, <4>3, <1>4
    <3> QED
      BY Zenon, <2>1, <3>1
  <2>2. CASE m # n
    <3>0. ns2[m].alloc \in 1..given
      BY Zenon, <2>2, <1>3, <1>5, <1>8
    <3>1. k # n
      <4>1. ASSUME k = n PROVE FALSE
        <5>1. ns2[m].alloc = given + 1
          BY Zenon, <4>1, <1>2, <1>8
        <5> QED
          BY Zenon, <5>1, <3>0, <1>4
      <4> QED
        BY Zenon, <4>1
    <3>2. m \in DOMAIN ns /\ k \in DOMAIN ns /\ ns2[m] = ns[m] /\ ns2[k] = ns[k]
      BY Zenon, <1>3, <2>2, <3>1
    <3> QED
      BY Zenon, <1>8, <3>2 DEF MapsOk
  <2> QED
    BY Zenon, <2>1, <2>2
<1>9. \A e, f \in DOMAIN execs : \A a :
          a \in Creates(execs[e].nodes) /\ a \in Creates(execs[f].nodes) => e = f
  BY Zenon DEF MapsOk
<1>10. MapsOk(execs, ns2, given + 1)
  BY Zenon, <1>6, <1>7, <1>8, <1>9 DEF MapsOk
<1> QED
  BY Zenon, <1>1, <1>10

\* An executable of graph g that maps what the allocation nodes of g create,
\* when no other executable of g is left.
LEMMA MapsNewExec ==
    ASSUME NEW execs, NEW ns, NEW given, MapsOk(execs, ns, given),
           NEW e, NEW v, NEW S, Creates(v.nodes) = S,
           \A a \in S : \E n \in DOMAIN ns :
              ns[n].kind = "alloc" /\ ns[n].graph = v.graph /\ ns[n].alloc = a,
           S # {} => \A f \in DOMAIN execs : execs[f].graph # v.graph
    PROVE  MapsOk(With(execs, e, v), ns, given)
<1>1. PICK execs2 : execs2 = With(execs, e, v)
  OBVIOUS
<1>2. /\ DOMAIN execs2 = DOMAIN execs \cup {e} /\ execs2[e] = v
      /\ \A f \in DOMAIN execs : f # e => execs2[f] = execs[f]
  BY <1>1 DEF With
<1>3. \A f \in DOMAIN execs2 : f # e => f \in DOMAIN execs /\ execs2[f] = execs[f]
  BY Zenon, <1>2
<1>o. /\ \A n \in DOMAIN ns : ns[n].kind = "alloc" => ns[n].alloc \in 1..given
      /\ \A m, n \in DOMAIN ns :
            /\ ns[m].kind = "alloc" /\ ns[n].kind = "alloc"
            /\ ns[m].alloc = ns[n].alloc
            => ns[m].graph = ns[n].graph
  BY Zenon DEF MapsOk
<1>4. \A a \in S : a \in 1..given
  BY <1>o
<1>5. \A a \in S : \A n \in DOMAIN ns : ns[n].kind = "alloc" /\ ns[n].alloc = a =>
         ns[n].graph = v.graph
  <2> SUFFICES ASSUME NEW a \in S, NEW n \in DOMAIN ns, ns[n].kind = "alloc", ns[n].alloc = a
               PROVE  ns[n].graph = v.graph
    BY Zenon
  <2>1. PICK m \in DOMAIN ns : ns[m].kind = "alloc" /\ ns[m].graph = v.graph /\ ns[m].alloc = a
    BY Zenon
  <2>2. ns[m].graph = ns[n].graph
    BY <1>o, <2>1
  <2> QED
    BY Zenon, <2>1, <2>2
<1>6. \A a \in S : \A f \in DOMAIN execs : a \notin Creates(execs[f].nodes)
  <2> SUFFICES ASSUME NEW a \in S, NEW f \in DOMAIN execs, a \in Creates(execs[f].nodes)
               PROVE  FALSE
    BY Zenon
  <2>1. PICK n \in DOMAIN ns : ns[n].kind = "alloc" /\ ns[n].graph = v.graph /\ ns[n].alloc = a
    BY Zenon
  <2>2. ns[n].graph = execs[f].graph
    BY Zenon, <2>1 DEF MapsOk
  <2> QED
    BY Zenon, <2>1, <2>2
<1>7. ASSUME NEW f \in DOMAIN execs2 PROVE Creates(execs2[f].nodes) \subseteq 1..given
  <2>1. CASE f = e
    BY Zenon, <2>1, <1>2, <1>4
  <2>2. CASE f # e
    BY Zenon, <2>2, <1>3 DEF MapsOk
  <2> QED
    BY Zenon, <2>1, <2>2
<1>8. ASSUME NEW f \in DOMAIN execs2, NEW n \in DOMAIN ns,
             ns[n].kind = "alloc", ns[n].alloc \in Creates(execs2[f].nodes)
      PROVE  ns[n].graph = execs2[f].graph
  <2>1. CASE f = e
    BY Zenon, <2>1, <1>2, <1>5, <1>8
  <2>2. CASE f # e
    <3>1. f \in DOMAIN execs /\ execs2[f] = execs[f]
      BY Zenon, <2>2, <1>3
    <3>2. ns[n].alloc \in Creates(execs[f].nodes)
      BY Zenon, <3>1, <1>8
    <3>3. ns[n].graph = execs[f].graph
      BY Zenon, <3>1, <3>2, <1>8 DEF MapsOk
    <3> QED
      BY Zenon, <3>1, <3>3
  <2> QED
    BY Zenon, <2>1, <2>2
<1>9. ASSUME NEW f \in DOMAIN execs2, NEW g \in DOMAIN execs2, NEW a,
             a \in Creates(execs2[f].nodes), a \in Creates(execs2[g].nodes)
      PROVE  f = g
  <2>1. CASE f = e
    BY Zenon, <2>1, <1>2, <1>3, <1>6, <1>9
  <2>2. CASE g = e
    BY Zenon, <2>2, <1>2, <1>3, <1>6, <1>9
  <2>3. CASE f # e /\ g # e
    <3>1. /\ f \in DOMAIN execs /\ execs2[f] = execs[f]
          /\ g \in DOMAIN execs /\ execs2[g] = execs[g]
      BY Zenon, <2>3, <1>3
    <3> QED
      BY Zenon, <3>1, <1>9 DEF MapsOk
  <2> QED
    BY Zenon, <2>1, <2>2, <2>3
<1>11. MapsOk(execs2, ns, given)
  BY Zenon, <1>o, <1>7, <1>8, <1>9 DEF MapsOk
<1> QED
  BY <1>1, <1>11

\* Entries with the same nodes and the same mark.
LEMMA MirrorSame ==
    ASSUME NEW mine, NEW execs, Mirror(mine, execs), NEW execs2,
           DOMAIN execs2 = DOMAIN execs,
           \A e \in DOMAIN execs : /\ execs2[e].retired = execs[e].retired
                                   /\ Creates(execs2[e].nodes) = Creates(execs[e].nodes)
    PROVE  Mirror(mine, execs2)
<1>1. DOMAIN mine = {e \in DOMAIN execs2 : ~execs2[e].retired}
  BY Zenon DEF Mirror
<1>2. \A e \in DOMAIN mine : mine[e] = Creates(execs2[e].nodes)
  BY DEF Mirror
<1> QED
  BY Zenon, <1>1, <1>2 DEF Mirror

\* One more executable on both sides.
LEMMA MirrorNew ==
    ASSUME NEW mine, NEW execs, Mirror(mine, execs), NEW e, NEW v, ~v.retired
    PROVE  Mirror(With(mine, e, Creates(v.nodes)), With(execs, e, v))
<1>1. PICK mine2, execs2 : mine2 = With(mine, e, Creates(v.nodes)) /\ execs2 = With(execs, e, v)
  OBVIOUS
<1>2. /\ DOMAIN execs2 = DOMAIN execs \cup {e} /\ execs2[e] = v
      /\ \A f \in DOMAIN execs : f # e => execs2[f] = execs[f]
  BY Zenon, <1>1 DEF With
<1>3. /\ DOMAIN mine2 = DOMAIN mine \cup {e} /\ mine2[e] = Creates(v.nodes)
      /\ \A f \in DOMAIN mine : f # e => mine2[f] = mine[f]
  BY <1>1 DEF With
<1>4. DOMAIN mine2 = {f \in DOMAIN execs2 : ~execs2[f].retired}
  BY <1>2, <1>3 DEF Mirror
<1>5. \A f \in DOMAIN mine2 : mine2[f] = Creates(execs2[f].nodes)
  BY <1>2, <1>3 DEF Mirror
<1>6. Mirror(mine2, execs2)
  BY Zenon, <1>4, <1>5 DEF Mirror
<1> QED
  BY <1>1, <1>6

\* One more entry in the server's table.
LEMMA ExecAdded ==
    ASSUME NEW execs, ExecTable(execs), NEW e, NEW v, Entry(v)
    PROVE  ExecTable(With(execs, e, v))
<1>1. PICK execs2 : execs2 = With(execs, e, v)
  OBVIOUS
<1>2. /\ DOMAIN execs2 = DOMAIN execs \cup {e} /\ execs2[e] = v
      /\ \A f \in DOMAIN execs : f # e => execs2[f] = execs[f]
  BY <1>1 DEF With
<1>3. \A f \in DOMAIN execs2 : Entry(execs2[f])
  BY Zenon, <1>2 DEF ExecTable
<1>4. execs2 = [f \in DOMAIN execs2 |-> execs2[f]]
  BY <1>1 DEF With
<1> QED
  BY Zenon, <1>1, <1>3, <1>4 DEF ExecTable

-----------------------------------------------------------------------------
(* Graph definition                                                        *)

LEMMA InvInit == Init => IInv
<1> SUFFICES ASSUME Init PROVE IInv
  OBVIOUS
<1>1. /\ cGraph = <<>> /\ cAlloc = <<>> /\ cExec = <<>> /\ sGraph = <<>> /\ nodes = <<>>
      /\ sAlloc = <<>> /\ sExec = <<>>
      /\ next = [graph |-> 0, node |-> 0, exec |-> 0, alloc |-> 0]
  BY Zenon DEF Init
<1>2. Typed
  BY <1>1 DEF Typed, Ids, NodeTable, AllocTable, ExecTable
<1>3. Mirror(cExec, sExec) /\ Kept(sAlloc, DOMAIN sGraph, cExec)
  BY <1>1 DEF Mirror, Kept
<1>4. MapsOk(sExec, nodes, next.alloc)
  BY <1>1 DEF MapsOk
<1> QED
  BY <1>1, <1>2, <1>3, <1>4 DEF IInv, MemoryTablesAgree

\* The session ends with empty tables on both sides.
LEMMA InvSessionEnds == IInv /\ SessionEnds => IInv'
<1> SUFFICES ASSUME SessionEnds PROVE IInv'
  OBVIOUS
<1>1. /\ cGraph' = <<>> /\ cAlloc' = <<>> /\ cExec' = <<>> /\ sGraph' = <<>> /\ nodes' = <<>>
      /\ sAlloc' = <<>> /\ sExec' = <<>>
      /\ next' = [graph |-> 0, node |-> 0, exec |-> 0, alloc |-> 0]
  BY Zenon DEF SessionEnds
<1>2. Typed'
  BY <1>1 DEF Typed, Ids, NodeTable, AllocTable, ExecTable
<1>3. Mirror(cExec, sExec)' /\ Kept(sAlloc, DOMAIN sGraph, cExec)'
  BY <1>1 DEF Mirror, Kept
<1>4. MapsOk(sExec, nodes, next.alloc)'
  BY <1>1 DEF MapsOk
<1> QED
  BY Zenon, <1>1, <1>2, <1>3, <1>4 DEF IInv, MemoryTablesAgree

LEMMA InvGraphCreate == IInv /\ GraphCreate => IInv'
<1> SUFFICES ASSUME IInv, GraphCreate PROVE IInv'
  OBVIOUS
<1>1. /\ next' = [next EXCEPT !.graph = next.graph + 1]
      /\ cGraph' = With(cGraph, next.graph + 1, FALSE)
      /\ sGraph' = With(sGraph, next.graph + 1, FALSE)
      /\ UNCHANGED <<cAlloc, cExec, nodes, sAlloc, sExec>>
  BY Zenon DEF GraphCreate
<1>2. /\ next' \in Ids /\ next'.alloc = next.alloc /\ next'.exec = next.exec
      /\ next.graph + 1 \in Nat
  BY <1>1, Parts DEF Ids
<1>3. /\ DOMAIN cGraph' = DOMAIN cGraph \cup {next.graph + 1}
      /\ DOMAIN sGraph' = DOMAIN sGraph \cup {next.graph + 1}
  BY Zenon, <1>1, WithView
<1>4. DOMAIN sGraph' \subseteq Nat /\ DOMAIN cGraph' = DOMAIN sGraph'
  BY <1>2, <1>3, Parts
<1>5. Kept(sAlloc', DOMAIN sGraph', cExec')
  <2>1. Kept(sAlloc, DOMAIN sGraph, cExec)
    BY Zenon, Parts
  <2> QED
    BY Zenon, <1>1, <1>3, <2>1 DEF Kept
<1> QED
  BY Zenon, <1>1, <1>2, <1>4, <1>5, Parts, Assemble

LEMMA InvAddMemAllocNode ==
    ASSUME IInv, NEW g \in DOMAIN cGraph, NEW deps, AddMemAllocNode(g, deps)
    PROVE  IInv'
<1>1. PICK a, fresh, v, n : /\ a = next.alloc + 1 /\ n = next.node + 1
                            /\ fresh = [graph |-> g, active |-> FALSE, paired |-> FALSE]
                            /\ v = [graph |-> g, kind |-> "alloc", alloc |-> a]
  OBVIOUS
<1>2. /\ nodes' = With(nodes, n, v)
      /\ next' = [next EXCEPT !.node = next.node + 1, !.alloc = next.alloc + 1]
      /\ cAlloc' = With(cAlloc, a, fresh) /\ sAlloc' = With(sAlloc, a, fresh)
      /\ UNCHANGED <<cGraph, cExec, sGraph, sExec>>
  BY Zenon, <1>1 DEF AddMemAllocNode, NewNode
<1>3. next' \in Ids /\ next'.alloc = a /\ next'.exec = next.exec /\ a \in Nat
  <2>1. next \in Ids
    BY Zenon, Parts
  <2>2. a \in Nat /\ n \in Nat
    BY <1>1, <2>1 DEF Ids
  <2>3. next' = [next EXCEPT !.node = n, !.alloc = a]
    BY Zenon, <1>1, <1>2
  <2> QED
    BY <2>1, <2>2, <2>3 DEF Ids
<1>4. g \in Nat /\ g \in DOMAIN sGraph
  BY Parts
<1>5. /\ v \in NodeRecords /\ fresh \in Reservations /\ v.kind = "alloc" /\ v.alloc = a
      /\ fresh.graph = g
  BY <1>1, <1>3, <1>4 DEF NodeRecords, Reservations, NodeKinds
<1>6. NodeTable(nodes')
  BY Zenon, <1>2, <1>5, Parts, NodeAdded
<1>7. AllocTable(sAlloc')
  <2>1. AllocTable(sAlloc)
    BY Zenon, Parts
  <2> QED
    BY <1>2, <1>3, <1>5, <2>1 DEF AllocTable, With
<1>8. cAlloc' = sAlloc'
  BY Zenon, <1>2, Parts
<1>9. Kept(sAlloc', DOMAIN sGraph', cExec')
  <2>1. Kept(sAlloc, DOMAIN sGraph, cExec)
    BY Zenon, Parts
  <2>2. \A b \in DOMAIN sAlloc' : b # a => b \in DOMAIN sAlloc /\ sAlloc'[b] = sAlloc[b]
    BY Zenon, <1>2 DEF With
  <2>3. sAlloc'[a] = fresh
    BY <1>2 DEF With
  <2>4. ASSUME NEW b \in DOMAIN sAlloc'
        PROVE  \/ sAlloc'[b].active
               \/ sAlloc'[b].graph \in DOMAIN sGraph
               \/ \E e \in DOMAIN cExec : b \in cExec[e]
    <3>1. CASE b = a
      BY Zenon, <3>1, <2>3, <1>4, <1>5
    <3>2. CASE b # a
      BY Zenon, <3>2, <2>1, <2>2 DEF Kept
    <3> QED
      BY Zenon, <3>1, <3>2
  <2> QED
    BY Zenon, <1>2, <2>4 DEF Kept
<1>10. MapsOk(sExec', nodes', next'.alloc)
  <2>1. MapsOk(sExec, nodes, next.alloc) /\ next.alloc \in Nat
    BY Zenon, Parts
  <2>2. v.alloc = next.alloc + 1
    BY Zenon, <1>1, <1>5
  <2>3. MapsOk(sExec, With(nodes, n, v), next.alloc + 1)
    BY Zenon, <1>5, <2>1, <2>2, MapsNewNode
  <2> QED
    BY Zenon, <1>1, <1>2, <1>3, <2>3
<1> QED
  BY Zenon, <1>2, <1>3, <1>6, <1>7, <1>8, <1>9, <1>10, Parts, Assemble

\* A new node that creates nothing, and reservations that keep their graph and
\* their activity.
LEMMA InvOtherNode ==
    ASSUME IInv, NEW n, NEW v \in NodeRecords, v.kind # "alloc",
           nodes' = With(nodes, n, v), next' = [next EXCEPT !.node = next.node + 1],
           UNCHANGED <<cGraph, cExec, sGraph, sExec>>, cAlloc' = sAlloc',
           AllocTable(sAlloc'), DOMAIN sAlloc' = DOMAIN sAlloc,
           \A a \in DOMAIN sAlloc : /\ sAlloc'[a].active = sAlloc[a].active
                                    /\ sAlloc'[a].graph = sAlloc[a].graph
    PROVE  IInv'
<1>1. next' \in Ids /\ next'.alloc = next.alloc /\ next'.exec = next.exec
  BY Parts DEF Ids
<1>2. NodeTable(nodes')
  BY Zenon, Parts, NodeAdded
<1>3. MapsOk(sExec', nodes', next'.alloc)
  <2>1. MapsOk(sExec, nodes, next.alloc) /\ next.alloc \in Nat
    BY Zenon, Parts
  <2>2. MapsOk(sExec, With(nodes, n, v), next.alloc)
    BY Zenon, <2>1, MapsOtherNode
  <2> QED
    BY Zenon, <1>1, <2>2
<1>4. Kept(sAlloc', DOMAIN sGraph', cExec')
  <2>1. Kept(sAlloc, DOMAIN sGraph, cExec)
    BY Zenon, Parts
  <2> QED
    BY Zenon, <2>1 DEF Kept
<1> QED
  BY Zenon, <1>1, <1>2, <1>3, <1>4, Parts, Assemble

LEMMA InvAddMemFreeNode ==
    ASSUME IInv, NEW g \in DOMAIN cGraph, NEW a \in DOMAIN cAlloc, NEW deps,
           AddMemFreeNode(g, a, deps)
    PROVE  IInv'
<1>1. PICK v, n : n = next.node + 1 /\ v = [graph |-> g, kind |-> "free", alloc |-> a]
  OBVIOUS
<1>2. /\ nodes' = With(nodes, n, v) /\ next' = [next EXCEPT !.node = next.node + 1]
      /\ cAlloc' = [cAlloc EXCEPT ![a].paired = TRUE]
      /\ sAlloc' = [sAlloc EXCEPT ![a].paired = TRUE]
      /\ UNCHANGED <<cGraph, cExec, sGraph, sExec>>
  BY Zenon, <1>1 DEF AddMemFreeNode, NewNode
<1>3. g \in Nat /\ a \in DOMAIN sAlloc /\ a \in Nat /\ AllocTable(sAlloc)
  BY Parts DEF AllocTable
<1>4. v \in NodeRecords /\ v.kind # "alloc"
  BY <1>1, <1>3 DEF NodeRecords, NodeKinds
<1>5. sAlloc \in [DOMAIN sAlloc -> Reservations] /\ DOMAIN sAlloc \subseteq Nat
  BY Zenon, <1>3 DEF AllocTable
<1>6. /\ DOMAIN sAlloc' = DOMAIN sAlloc /\ sAlloc' \in [DOMAIN sAlloc -> Reservations]
      /\ \A b \in DOMAIN sAlloc : /\ sAlloc'[b].active = sAlloc[b].active
                                  /\ sAlloc'[b].graph = sAlloc[b].graph
  BY <1>2, <1>5 DEF Reservations
<1>7. AllocTable(sAlloc')
  BY Zenon, <1>5, <1>6 DEF AllocTable
<1>8. cAlloc' = sAlloc'
  BY Zenon, <1>2, Parts
<1> QED
  BY Zenon, <1>2, <1>4, <1>6, <1>7, <1>8, InvOtherNode

LEMMA InvAddUseNode ==
    ASSUME IInv, NEW g \in DOMAIN cGraph, NEW a \in DOMAIN cAlloc, NEW deps,
           AddUseNode(g, a, deps)
    PROVE  IInv'
<1>1. PICK v, n : n = next.node + 1 /\ v = [graph |-> g, kind |-> "use", alloc |-> a]
  OBVIOUS
<1>2. /\ nodes' = With(nodes, n, v) /\ next' = [next EXCEPT !.node = next.node + 1]
      /\ UNCHANGED <<cGraph, cAlloc, cExec, sGraph, sAlloc, sExec>>
  BY Zenon, <1>1 DEF AddUseNode, NewNode, client
<1>3. g \in Nat /\ a \in Nat /\ AllocTable(sAlloc) /\ cAlloc = sAlloc
  BY Parts DEF AllocTable
<1>4. v \in NodeRecords /\ v.kind # "alloc"
  BY <1>1, <1>3 DEF NodeRecords, NodeKinds
<1> QED
  BY Zenon, <1>2, <1>3, <1>4, InvOtherNode

LEMMA InvAddDependency ==
    ASSUME IInv, NEW g, NEW f, NEW t, AddDependency(g, f, t)
    PROVE  IInv'
BY Zenon, SameTables DEF AddDependency

LEMMA InvSetNode ==
    ASSUME IInv, NEW n \in DOMAIN nodes, NEW a \in DOMAIN cAlloc, SetNode(n, a)
    PROVE  IInv'
<1>1. /\ nodes[n].kind = "use" /\ nodes' = [nodes EXCEPT ![n].alloc = a]
      /\ UNCHANGED <<cGraph, cAlloc, cExec, sGraph, sAlloc, sExec, next>>
  BY DEF SetNode, client
<1>2. a \in Nat /\ NodeTable(nodes) /\ next.alloc \in Nat /\ MapsOk(sExec, nodes, next.alloc)
  BY Zenon, Parts DEF AllocTable
<1>3. /\ nodes' \in [DOMAIN nodes -> NodeRecords] /\ DOMAIN nodes' = DOMAIN nodes
      /\ nodes'[n].kind = nodes[n].kind
      /\ \A m \in DOMAIN nodes : m # n => nodes'[m] = nodes[m]
  BY <1>1, <1>2 DEF NodeTable, NodeRecords
<1>4. NodeTable(nodes')
  BY Zenon, <1>3 DEF NodeTable
<1>5. \A m \in DOMAIN nodes' : nodes'[m].kind = "alloc" =>
         /\ m \in DOMAIN nodes /\ nodes[m].kind = "alloc"
         /\ nodes'[m].graph = nodes[m].graph /\ nodes'[m].alloc = nodes[m].alloc
  BY <1>1, <1>3
<1>6. next.alloc <= next.alloc
  BY <1>2
<1>7. MapsOk(sExec, nodes', next.alloc)
  BY <1>2, <1>5, <1>6, MapsKept
<1> QED
  BY Zenon, <1>1, <1>4, <1>7, Parts, Assemble

LEMMA InvGraphDestroy ==
    ASSUME IInv, NEW g \in DOMAIN cGraph, GraphDestroy(g)
    PROVE  IInv'
<1>1. /\ cGraph' = Without(cGraph, {g}) /\ sGraph' = Without(sGraph, {g})
      /\ nodes' = Without(nodes, NodesOf(g))
      /\ cAlloc' = RetireClientGraphAllocations(cExec, cAlloc, DOMAIN cGraph')
      /\ RetireGraphMemory(sExec, sAlloc, DOMAIN sGraph', Busy(inflight))
      /\ UNCHANGED <<cExec, next>>
  BY Zenon DEF GraphDestroy
<1>2. PICK gs, busy : gs = DOMAIN sGraph' /\ busy = Busy(inflight)
  OBVIOUS
<1>3. DOMAIN cGraph' = DOMAIN sGraph' /\ DOMAIN sGraph' \subseteq DOMAIN sGraph
  <2>1. DOMAIN cGraph' = DOMAIN cGraph \ {g} /\ DOMAIN sGraph' = DOMAIN sGraph \ {g}
    BY Zenon, <1>1 DEF Without
  <2>2. DOMAIN cGraph = DOMAIN sGraph
    BY Zenon, Parts
  <2> QED
    BY Zenon, <2>1, <2>2
<1>4. /\ sAlloc' = RetireClientGraphAllocations(cExec, sAlloc, gs)
      /\ AllocTable(sAlloc') /\ Kept(sAlloc', gs, cExec)
      /\ ExecTable(sExec') /\ Mirror(cExec, sExec')
      /\ \A e \in DOMAIN sExec' : e \in DOMAIN sExec /\ sExec'[e] = sExec[e]
  <2>1. RetireGraphMemory(sExec, sAlloc, gs, busy)
    BY Zenon, <1>1, <1>2
  <2> QED
    BY Zenon, <2>1, Parts, ServerRetires
<1>5. NodeTable(nodes') /\ \A n \in DOMAIN nodes' : n \in DOMAIN nodes /\ nodes'[n] = nodes[n]
  BY Zenon, <1>1, Parts DEF Without, NodeTable
<1>6. MapsOk(sExec', nodes', next.alloc)
  <2>1. MapsOk(sExec, nodes, next.alloc) /\ next.alloc \in Nat /\ next.alloc <= next.alloc
    BY Parts
  <2> QED
    BY <1>4, <1>5, <2>1, MapsKept
<1>7. cAlloc' = sAlloc'
  BY Zenon, <1>1, <1>2, <1>3, <1>4, Parts
<1>8. DOMAIN sGraph' \subseteq Nat /\ DOMAIN sExec' \subseteq 1..next'.exec
  BY Zenon, <1>1, <1>3, <1>4, Parts
<1> QED
  BY Zenon, <1>1, <1>2, <1>3, <1>4, <1>5, <1>6, <1>7, <1>8, Parts, Assemble

-----------------------------------------------------------------------------
(* Executables                                                             *)

\* What the snapshot of a graph creates.
LEMMA SnapshotView ==
    ASSUME IInv, NEW g
    PROVE  /\ NodeMap(Snapshot(g))
           /\ \A a \in Creates(Snapshot(g)) : \E n \in DOMAIN nodes :
                 nodes[n].kind = "alloc" /\ nodes[n].graph = g /\ nodes[n].alloc = a
           /\ Creates(Snapshot(g)) # {} => GraphHasMemory(g)
<1>1. PICK ns : ns = Snapshot(g)
  OBVIOUS
<1>2. /\ DOMAIN ns = NodesOf(g) /\ ns = [n \in DOMAIN ns |-> ns[n]]
      /\ \A n \in NodesOf(g) : ns[n] = [kind |-> nodes[n].kind, alloc |-> nodes[n].alloc]
  BY Zenon, <1>1 DEF Snapshot
<1>3. \A n \in NodesOf(g) : n \in DOMAIN nodes /\ nodes[n].graph = g
  BY DEF NodesOf
<1>4. \A n \in DOMAIN nodes : nodes[n].kind \in NodeKinds /\ nodes[n].alloc \in Nat
  BY Zenon, Parts DEF NodeTable, NodeRecords
<1>5. \A n \in NodesOf(g) : /\ ns[n] \in [kind : NodeKinds, alloc : Nat]
                            /\ ns[n].kind = nodes[n].kind /\ ns[n].alloc = nodes[n].alloc
  BY <1>2, <1>3, <1>4
<1>6. NodeMap(ns)
  BY Zenon, <1>2, <1>5 DEF NodeMap
<1>7. ASSUME NEW a \in Creates(ns)
      PROVE  \E n \in NodesOf(g) : nodes[n].kind = "alloc" /\ nodes[n].alloc = a
  <2>1. PICK n \in DOMAIN ns : ns[n].kind = "alloc" /\ ns[n].alloc = a
    BY Zenon DEF Creates
  <2> QED
    BY Zenon, <2>1, <1>2, <1>5
<1>8. \A a \in Creates(ns) : \E n \in DOMAIN nodes :
         nodes[n].kind = "alloc" /\ nodes[n].graph = g /\ nodes[n].alloc = a
  BY Zenon, <1>3, <1>7
<1>9. Creates(ns) # {} => GraphHasMemory(g)
  BY Zenon, <1>7 DEF GraphHasMemory
<1> QED
  BY Zenon, <1>1, <1>6, <1>8, <1>9

\* A retirement that the client does not take part in retires no reservation.
LEMMA ServerAlone ==
    ASSUME IInv, NEW busy
    PROVE  LET left == ExecsLeft(sExec, sAlloc, busy)
           IN  /\ AllocsLeft(left, sAlloc, DOMAIN sGraph) = sAlloc
               /\ ExecTable(left) /\ Mirror(cExec, left)
               /\ MapsOk(left, nodes, next.alloc)
               /\ DOMAIN left \subseteq 1..next.exec
<1>1. PICK left : left = ExecsLeft(sExec, sAlloc, busy)
  OBVIOUS
<1>2. /\ DOMAIN left \subseteq DOMAIN sExec
      /\ \A e \in DOMAIN left : left[e] = sExec[e]
      /\ \A e \in DOMAIN sExec : ~sExec[e].retired => e \in DOMAIN left
      /\ ExecTable(left)
  BY <1>1, Parts, ExecsLeftView
<1>3. Mirror(cExec, left)
  BY Zenon, <1>2, Parts, MirrorLeft
<1>4. PICK gs : gs = DOMAIN sGraph
  OBVIOUS
<1>5. AllocsLeft(left, sAlloc, gs) = RetireClientGraphAllocations(cExec, sAlloc, gs)
  BY <1>3, RulesAgree
<1>6. RetireClientGraphAllocations(cExec, sAlloc, gs) = sAlloc
  BY Zenon, <1>4, Parts, NothingRetired
<1>7. MapsOk(left, nodes, next.alloc)
  <2>1. MapsOk(sExec, nodes, next.alloc) /\ next.alloc \in Nat /\ next.alloc <= next.alloc
    BY Parts
  <2> QED
    BY <1>2, <2>1, MapsKept
<1>8. DOMAIN left \subseteq 1..next.exec
  BY Zenon, <1>2, Parts
<1> QED
  BY <1>1, <1>2, <1>3, <1>4, <1>5, <1>6, <1>7, <1>8

LEMMA InvServerAlone ==
    ASSUME IInv, NEW busy, RetireGraphMemory(sExec, sAlloc, DOMAIN sGraph, busy),
           UNCHANGED <<cGraph, cAlloc, cExec, sGraph, nodes, next>>
    PROVE  IInv'
<1>1. /\ sExec' = ExecsLeft(sExec, sAlloc, busy)
      /\ sAlloc' = AllocsLeft(sExec', sAlloc, DOMAIN sGraph)
  BY Zenon DEF RetireGraphMemory
<1>2. /\ sAlloc' = sAlloc /\ ExecTable(sExec') /\ Mirror(cExec, sExec')
      /\ MapsOk(sExec', nodes, next.alloc) /\ DOMAIN sExec' \subseteq 1..next.exec
  BY <1>1, ServerAlone
<1> QED
  BY Zenon, <1>2, Parts, Assemble

LEMMA InvInstantiate ==
    ASSUME IInv, NEW g \in DOMAIN cGraph, Instantiate(g)
    PROVE  IInv'
<1>1. PICK e, execs, allocs, entry :
        /\ e = next.exec + 1
        /\ execs = ExecsLeft(sExec, sAlloc, Busy(inflight))
        /\ allocs = AllocsLeft(execs, sAlloc, DOMAIN sGraph)
        /\ entry = [graph |-> g, nodes |-> Snapshot(g), edges |-> EdgesOf(g),
                    retired |-> FALSE, last |-> {}, pending |-> <<>>]
  OBVIOUS
<1>2. /\ sAlloc' = allocs /\ UNCHANGED <<cAlloc, nodes>>
      /\ \/ /\ Instantiable(g, execs, allocs)
            /\ next' = [next EXCEPT !.exec = e]
            /\ sExec' = With(execs, e, entry)
            /\ sGraph' = [sGraph EXCEPT ![g] = @ \/ GraphHasMemory(g)]
            /\ cExec' = With(cExec, e, Creates(entry.nodes))
            /\ cGraph' = [cGraph EXCEPT ![g] = @ \/ Creates(entry.nodes) # {}]
         \/ sExec' = execs /\ UNCHANGED <<next, sGraph, cExec, cGraph>>
  BY Zenon, <1>1 DEF Instantiate
<1>3. /\ allocs = sAlloc /\ ExecTable(execs) /\ Mirror(cExec, execs)
      /\ MapsOk(execs, nodes, next.alloc) /\ DOMAIN execs \subseteq 1..next.exec
  BY <1>1, ServerAlone
<1>4. CASE sExec' = execs /\ UNCHANGED <<next, sGraph, cExec, cGraph>>
  BY Zenon, <1>2, <1>3, <1>4, Parts, Assemble
<1>5. CASE /\ Instantiable(g, execs, allocs)
           /\ next' = [next EXCEPT !.exec = e]
           /\ sExec' = With(execs, e, entry)
           /\ sGraph' = [sGraph EXCEPT ![g] = @ \/ GraphHasMemory(g)]
           /\ cExec' = With(cExec, e, Creates(entry.nodes))
           /\ cGraph' = [cGraph EXCEPT ![g] = @ \/ Creates(entry.nodes) # {}]
  <2>1. DOMAIN sGraph' = DOMAIN sGraph /\ DOMAIN cGraph' = DOMAIN cGraph /\ g \in Nat
    BY <1>5, Parts
  <2>2. next' \in Ids /\ next'.alloc = next.alloc /\ next'.exec = e
    <3>1. next \in Ids /\ e \in Nat
      BY <1>1, Parts
    <3> QED
      BY SMT, <1>5, <3>1 DEF Ids
  <2>3. 1..next.exec \subseteq 1..e /\ e \in 1..e /\ e \notin 1..next.exec
    BY <1>1, Parts
  <2>4. NodeMap(Snapshot(g))
    BY Zenon, SnapshotView
  <2>5. Entry(entry) /\ entry.graph = g /\ entry.nodes = Snapshot(g) /\ entry.retired = FALSE
    <3> HIDE DEF Snapshot, EdgesOf
    <3> QED
      BY Zenon, <1>1, <2>1, <2>4 DEF Entry
  <2>6. ExecTable(sExec')
    BY Zenon, <1>3, <1>5, <2>5, ExecAdded
  <2>7. DOMAIN sExec' \subseteq 1..e
    <3>1. DOMAIN sExec' = DOMAIN execs \cup {e}
      BY <1>5 DEF With
    <3> QED
      BY Zenon, <1>3, <2>3, <3>1
  <2>8. Mirror(cExec', sExec')
    BY <1>3, <1>5, <2>5, MirrorNew
  <2>9. MapsOk(sExec', nodes, next.alloc)
    <3>1. PICK S : S = Creates(entry.nodes)
      OBVIOUS
    <3>2. \A a \in S : \E n \in DOMAIN nodes :
             nodes[n].kind = "alloc" /\ nodes[n].graph = entry.graph /\ nodes[n].alloc = a
      BY <2>5, <3>1, SnapshotView
    <3>3. S # {} => \A f \in DOMAIN execs : execs[f].graph # entry.graph
      BY Zenon, <1>5, <2>5, <3>1, SnapshotView DEF Instantiable, Instantiated
    <3>4. MapsOk(With(execs, e, entry), nodes, next.alloc)
      BY <1>3, <3>1, <3>2, <3>3, MapsNewExec
    <3> QED
      BY Zenon, <1>5, <3>4
  <2>10. Kept(sAlloc', DOMAIN sGraph', cExec')
    <3>1. Kept(sAlloc, DOMAIN sGraph, cExec)
      BY Zenon, Parts
    <3>2. e \notin DOMAIN cExec
      BY Zenon, <1>3, <2>3 DEF Mirror
    <3>3. \A f \in DOMAIN cExec : f \in DOMAIN cExec' /\ cExec'[f] = cExec[f]
      BY <1>5, <3>2 DEF With
    <3>4. sAlloc' = sAlloc
      BY Zenon, <1>2, <1>3
    <3> QED
      BY Zenon, <3>1, <3>3, <3>4, <2>1 DEF Kept
  <2>11. cAlloc' = sAlloc' /\ AllocTable(sAlloc')
    BY Zenon, <1>2, <1>3, Parts
  <2>12. DOMAIN cGraph' = DOMAIN sGraph' /\ DOMAIN sGraph' \subseteq Nat
    BY Zenon, <2>1, Parts
  <2> QED
    BY Zenon, <1>2, <2>2, <2>6, <2>7, <2>8, <2>9, <2>10, <2>11, <2>12, Parts, Assemble
<1> QED
  BY Zenon, <1>2, <1>4, <1>5

\* Entries of executables that keep their graph, their mark and what they create.
LEMMA InvSameExecs ==
    ASSUME IInv, ExecTable(sExec'), DOMAIN sExec' = DOMAIN sExec,
           \A e \in DOMAIN sExec :
              /\ sExec'[e].graph = sExec[e].graph /\ sExec'[e].retired = sExec[e].retired
              /\ Creates(sExec'[e].nodes) = Creates(sExec[e].nodes),
           UNCHANGED <<cGraph, cExec, sGraph, nodes, next>>,
           cAlloc' = sAlloc', AllocTable(sAlloc'), Kept(sAlloc', DOMAIN sGraph, cExec)
    PROVE  IInv'
<1>1. Mirror(cExec, sExec')
  <2>1. Mirror(cExec, sExec)
    BY Zenon, Parts
  <2> QED
    BY <2>1, MirrorSame
<1>2. MapsOk(sExec', nodes, next.alloc)
  <2>1. MapsOk(sExec, nodes, next.alloc) /\ next.alloc \in Nat /\ next.alloc <= next.alloc
    BY Parts
  <2> QED
    BY <2>1, MapsKept
<1> QED
  BY Zenon, <1>1, <1>2, Parts, Assemble

LEMMA InvExecSetNode ==
    ASSUME IInv, NEW e \in DOMAIN cExec, NEW n \in DOMAIN sExec[e].nodes,
           NEW a \in DOMAIN cAlloc, ExecSetNode(e, n, a)
    PROVE  IInv'
<1>1. PICK changed : changed = [sExec[e].nodes EXCEPT ![n].alloc = a]
  OBVIOUS
<1>2. /\ sExec[e].nodes[n].kind = "use" /\ sExec' = [sExec EXCEPT ![e].nodes = changed]
      /\ UNCHANGED <<cGraph, cAlloc, cExec, sGraph, nodes, sAlloc, next>>
  BY Zenon, <1>1 DEF ExecSetNode, client, graphs
<1>3. e \in DOMAIN sExec /\ a \in Nat
  BY Parts DEF Mirror, AllocTable
<1>4. ExecTable(sExec)
  BY Zenon, Parts
<1>5. Entry(sExec[e])
  BY Zenon, <1>3, <1>4 DEF ExecTable
<1>6. NodeMap(sExec[e].nodes)
  BY Zenon, <1>5 DEF Entry
<1>7. NodeMap(changed) /\ Creates(changed) = Creates(sExec[e].nodes)
  <2>1. PICK ns : ns = sExec[e].nodes
    OBVIOUS
  <2>2. /\ NodeMap(ns) /\ n \in DOMAIN ns /\ ns[n].kind # "alloc"
        /\ changed = [ns EXCEPT ![n].alloc = a]
    BY <1>1, <1>2, <1>6, <2>1
  <2> QED
    BY <1>3, <2>1, <2>2, CreatesSame
<1>8. /\ DOMAIN sExec' = DOMAIN sExec /\ sExec'[e] = [sExec[e] EXCEPT !.nodes = changed]
      /\ \A f \in DOMAIN sExec : f # e => sExec'[f] = sExec[f]
      /\ sExec' = [f \in DOMAIN sExec' |-> sExec'[f]]
  BY <1>2, <1>3
<1>9. /\ Entry(sExec'[e]) /\ sExec'[e].nodes = changed
      /\ sExec'[e].graph = sExec[e].graph /\ sExec'[e].retired = sExec[e].retired
  BY <1>5, <1>7, <1>8, EntryNodes
<1>10. ExecTable(sExec')
  BY Zenon, <1>4, <1>8, <1>9 DEF ExecTable
<1>11. \A f \in DOMAIN sExec :
          /\ sExec'[f].graph = sExec[f].graph /\ sExec'[f].retired = sExec[f].retired
          /\ Creates(sExec'[f].nodes) = Creates(sExec[f].nodes)
  BY Zenon, <1>7, <1>8, <1>9
<1> QED
  BY Zenon, <1>2, <1>8, <1>10, <1>11, Parts, InvSameExecs

\* What ExecRetired leaves of the executables.
LEMMA ExecRetiredView ==
    ASSUME IInv, NEW e \in DOMAIN cExec
    PROVE  LET execs == ExecRetired(e)
           IN  /\ ExecTable(execs) /\ Mirror(Without(cExec, {e}), execs)
               /\ \A f \in DOMAIN execs :
                     /\ f \in DOMAIN sExec /\ execs[f].graph = sExec[f].graph
                     /\ Creates(execs[f].nodes) = Creates(sExec[f].nodes)
<1>1. PICK execs, mine : execs = ExecRetired(e) /\ mine = Without(cExec, {e})
  OBVIOUS
<1>2. /\ DOMAIN mine = DOMAIN cExec \ {e}
      /\ \A f \in DOMAIN cExec \ {e} : mine[f] = cExec[f]
  BY <1>1 DEF Without
<1>3. /\ DOMAIN cExec = {f \in DOMAIN sExec : ~sExec[f].retired}
      /\ \A f \in DOMAIN cExec : cExec[f] = Creates(sExec[f].nodes)
      /\ e \in DOMAIN sExec
  BY Parts DEF Mirror
<1>4. ExecTable(sExec) /\ Entry(sExec[e])
  BY Zenon, <1>3, Parts DEF ExecTable
<1>5. CASE Creates(sExec[e].nodes) # {}
  <2>1. /\ DOMAIN execs = DOMAIN sExec /\ execs[e] = [sExec[e] EXCEPT !.retired = TRUE]
        /\ \A f \in DOMAIN sExec : f # e => execs[f] = sExec[f]
        /\ execs = [f \in DOMAIN execs |-> execs[f]]
    BY <1>1, <1>3, <1>5 DEF ExecRetired
  <2>2. /\ Entry(execs[e]) /\ execs[e].nodes = sExec[e].nodes
        /\ execs[e].graph = sExec[e].graph /\ execs[e].retired = TRUE
    BY <1>4, <2>1, EntryRetired
  <2>3. ExecTable(execs)
    BY Zenon, <1>4, <2>1, <2>2 DEF ExecTable
  <2>4. \A f \in DOMAIN execs :
           /\ f \in DOMAIN sExec /\ execs[f].graph = sExec[f].graph
           /\ Creates(execs[f].nodes) = Creates(sExec[f].nodes)
    BY Zenon, <2>1, <2>2
  <2>5. DOMAIN mine = {f \in DOMAIN execs : ~execs[f].retired}
    BY Zenon, <1>2, <1>3, <2>1, <2>2
  <2>6. \A f \in DOMAIN mine : mine[f] = Creates(execs[f].nodes)
    BY <1>2, <1>3, <2>1
  <2> QED
    BY Zenon, <1>1, <2>3, <2>4, <2>5, <2>6 DEF Mirror
<1>6. CASE Creates(sExec[e].nodes) = {}
  <2>1. /\ DOMAIN execs = DOMAIN sExec \ {e}
        /\ \A f \in DOMAIN execs : execs[f] = sExec[f]
        /\ execs = [f \in DOMAIN execs |-> execs[f]]
    BY <1>1, <1>6 DEF ExecRetired, Without
  <2>3. ExecTable(execs)
    BY Zenon, <1>4, <2>1 DEF ExecTable
  <2>5. DOMAIN mine = {f \in DOMAIN execs : ~execs[f].retired}
    BY <1>2, <1>3, <2>1
  <2>6. \A f \in DOMAIN mine : mine[f] = Creates(execs[f].nodes)
    BY <1>2, <1>3, <2>1
  <2>7. \A f \in DOMAIN execs : f \in DOMAIN sExec /\ execs[f] = sExec[f]
    BY Zenon, <2>1
  <2> QED
    BY Zenon, <1>1, <2>3, <2>5, <2>6, <2>7 DEF Mirror
<1> QED
  BY Zenon, <1>5, <1>6

\* A call of the client after which both sides retire: execs and allocs are the
\* server's tables before its retirement.
LEMMA InvBothRetire ==
    ASSUME IInv, NEW execs, NEW allocs, NEW busy, NEW mine,
           ExecTable(execs), AllocTable(allocs), Mirror(mine, execs),
           \A e \in DOMAIN execs :
              /\ e \in DOMAIN sExec /\ execs[e].graph = sExec[e].graph
              /\ Creates(execs[e].nodes) = Creates(sExec[e].nodes),
           RetireGraphMemory(execs, allocs, DOMAIN sGraph, busy),
           cExec' = mine,
           cAlloc' = RetireClientGraphAllocations(mine, allocs, DOMAIN cGraph),
           UNCHANGED <<cGraph, sGraph, nodes, next>>
    PROVE  IInv'
<1>1. PICK gs : gs = DOMAIN sGraph
  OBVIOUS
<1>2. gs = DOMAIN cGraph
  BY Zenon, <1>1, Parts
<1>3. /\ sAlloc' = RetireClientGraphAllocations(mine, allocs, gs)
      /\ AllocTable(sAlloc') /\ Kept(sAlloc', gs, mine)
      /\ ExecTable(sExec') /\ Mirror(mine, sExec')
      /\ \A e \in DOMAIN sExec' : e \in DOMAIN execs /\ sExec'[e] = execs[e]
  <2>1. RetireGraphMemory(execs, allocs, gs, busy)
    BY Zenon, <1>1
  <2> QED
    BY <2>1, ServerRetires
<1>4. \A e \in DOMAIN sExec' :
         /\ e \in DOMAIN sExec /\ sExec'[e].graph = sExec[e].graph
         /\ Creates(sExec'[e].nodes) = Creates(sExec[e].nodes)
  BY Zenon, <1>3
<1>5. MapsOk(sExec', nodes, next.alloc)
  <2>1. MapsOk(sExec, nodes, next.alloc) /\ next.alloc \in Nat /\ next.alloc <= next.alloc
    BY Parts
  <2> QED
    BY <1>4, <2>1, MapsKept
<1>6. cAlloc' = sAlloc'
  BY Zenon, <1>1, <1>2, <1>3
<1>7. DOMAIN sExec' \subseteq 1..next.exec
  BY Zenon, <1>4, Parts
<1> QED
  BY Zenon, <1>1, <1>3, <1>5, <1>6, <1>7, Parts, Assemble

LEMMA InvExecDestroy ==
    ASSUME IInv, NEW e \in DOMAIN cExec, ExecDestroy(e)
    PROVE  IInv'
<1>1. PICK execs, mine, busy :
         execs = ExecRetired(e) /\ mine = Without(cExec, {e}) /\ busy = Busy(inflight)
  OBVIOUS
<1>2. /\ ExecTable(execs) /\ Mirror(mine, execs)
      /\ \A f \in DOMAIN execs :
            /\ f \in DOMAIN sExec /\ execs[f].graph = sExec[f].graph
            /\ Creates(execs[f].nodes) = Creates(sExec[f].nodes)
  BY <1>1, ExecRetiredView
<1>3. /\ cExec' = mine /\ cAlloc' = RetireClientGraphAllocations(mine, cAlloc, DOMAIN cGraph)
      /\ RetireGraphMemory(execs, sAlloc, DOMAIN sGraph, busy)
      /\ UNCHANGED <<cGraph, sGraph, nodes, next>>
  BY Zenon, <1>1 DEF ExecDestroy, graphs
<1>4. AllocTable(sAlloc) /\ cAlloc = sAlloc
  BY Zenon, Parts
<1> QED
  BY Zenon, <1>2, <1>3, <1>4, InvBothRetire

LEMMA InvLaunch ==
    ASSUME IInv, NEW e \in DOMAIN cExec, NEW s, Launch(e, s)
    PROVE  IInv'
<1>1. PICK S : S = Creates(sExec[e].nodes)
  OBVIOUS
<1>2. /\ sAlloc' = Activated(sAlloc, S) /\ cAlloc' = Activated(cAlloc, cExec[e])
      /\ sExec' = [sExec EXCEPT ![e].last = {s}, ![e].pending = <<>>]
      /\ UNCHANGED <<cGraph, cExec, sGraph, nodes, next>>
  BY Zenon, <1>1 DEF Launch, graphs
<1>3. e \in DOMAIN sExec /\ cExec[e] = S
  BY <1>1, Parts DEF Mirror
<1>4. cAlloc' = sAlloc'
  BY Zenon, <1>2, <1>3, Parts
<1>5. AllocTable(sAlloc)
  BY Zenon, Parts
<1>6. /\ DOMAIN sAlloc' = DOMAIN sAlloc /\ sAlloc' \in [DOMAIN sAlloc -> Reservations]
      /\ \A a \in DOMAIN sAlloc : a \notin S => sAlloc'[a] = sAlloc[a]
  BY <1>2, <1>5 DEF Activated, AllocTable, Reservations
<1>7. AllocTable(sAlloc')
  BY Zenon, <1>5, <1>6 DEF AllocTable
<1>8. Kept(sAlloc', DOMAIN sGraph, cExec)
  <2>1. Kept(sAlloc, DOMAIN sGraph, cExec)
    BY Zenon, Parts
  <2> SUFFICES ASSUME NEW a \in DOMAIN sAlloc'
               PROVE  \/ sAlloc'[a].active
                      \/ sAlloc'[a].graph \in DOMAIN sGraph
                      \/ \E f \in DOMAIN cExec : a \in cExec[f]
    BY Zenon DEF Kept
  <2>2. CASE a \in S
    BY Zenon, <1>3, <2>2
  <2>3. CASE a \notin S
    <3>1. a \in DOMAIN sAlloc /\ sAlloc'[a] = sAlloc[a]
      BY Zenon, <1>6, <2>3
    <3> QED
      BY Zenon, <2>1, <3>1 DEF Kept
  <2> QED
    BY Zenon, <2>2, <2>3
<1>9. ExecTable(sExec) /\ Entry(sExec[e])
  BY Zenon, <1>3, Parts DEF ExecTable
<1>10. /\ DOMAIN sExec' = DOMAIN sExec
       /\ sExec'[e] = [sExec[e] EXCEPT !.last = {s}, !.pending = <<>>]
       /\ \A f \in DOMAIN sExec : f # e => sExec'[f] = sExec[f]
       /\ sExec' = [f \in DOMAIN sExec' |-> sExec'[f]]
  BY Zenon, <1>2, <1>3
<1>11. /\ Entry(sExec'[e]) /\ sExec'[e].nodes = sExec[e].nodes
       /\ sExec'[e].graph = sExec[e].graph /\ sExec'[e].retired = sExec[e].retired
  <2>1. PICK x, y, l, p : x = sExec[e] /\ y = sExec'[e] /\ l = {s} /\ p = <<>>
    OBVIOUS
  <2>2. Entry(x) /\ y = [x EXCEPT !.last = l, !.pending = p]
    BY Zenon, <1>9, <1>10, <2>1
  <2>3. Entry(y) /\ y.nodes = x.nodes /\ y.graph = x.graph /\ y.retired = x.retired
    BY Zenon, <2>2 DEF Entry
  <2> QED
    BY Zenon, <2>1, <2>3
<1>12. ExecTable(sExec')
  BY Zenon, <1>9, <1>10, <1>11 DEF ExecTable
<1>13. \A f \in DOMAIN sExec :
          /\ sExec'[f].graph = sExec[f].graph /\ sExec'[f].retired = sExec[f].retired
          /\ Creates(sExec'[f].nodes) = Creates(sExec[f].nodes)
  BY Zenon, <1>10, <1>11
<1> QED
  BY Zenon, <1>2, <1>4, <1>7, <1>8, <1>10, <1>12, <1>13, InvSameExecs

-----------------------------------------------------------------------------
(* Ordinary calls on graph memory, and the device                          *)

\* What FreedIn leaves of the executables.
LEMMA FreedInView ==
    ASSUME IInv, NEW a, NEW pend
    PROVE  LET execs == FreedIn(a, pend)
           IN  /\ ExecTable(execs) /\ Mirror(cExec, execs)
               /\ \A f \in DOMAIN execs :
                     /\ f \in DOMAIN sExec /\ execs[f].graph = sExec[f].graph
                     /\ Creates(execs[f].nodes) = Creates(sExec[f].nodes)
<1>1. PICK execs : execs = FreedIn(a, pend)
  OBVIOUS
<1>2. /\ DOMAIN execs = DOMAIN sExec /\ execs = [e \in DOMAIN execs |-> execs[e]]
      /\ \A e \in DOMAIN sExec :
            \/ execs[e] = sExec[e]
            \/ \E p : execs[e] = [sExec[e] EXCEPT !.pending = p]
  BY <1>1 DEF FreedIn
<1>3. ExecTable(sExec)
  BY Zenon, Parts
<1>4. ASSUME NEW e \in DOMAIN sExec
      PROVE  /\ Entry(execs[e]) /\ execs[e].nodes = sExec[e].nodes
             /\ execs[e].graph = sExec[e].graph /\ execs[e].retired = sExec[e].retired
  <2>1. Entry(sExec[e])
    BY Zenon, <1>3 DEF ExecTable
  <2>2. CASE execs[e] = sExec[e]
    BY Zenon, <2>1, <2>2
  <2>3. ASSUME NEW p, execs[e] = [sExec[e] EXCEPT !.pending = p]
        PROVE  /\ Entry(execs[e]) /\ execs[e].nodes = sExec[e].nodes
               /\ execs[e].graph = sExec[e].graph /\ execs[e].retired = sExec[e].retired
    BY <2>1, <2>3, EntryPending
  <2> QED
    BY Zenon, <1>2, <2>2, <2>3
<1>5. ExecTable(execs)
  BY Zenon, <1>2, <1>4 DEF ExecTable
<1>6. \A e \in DOMAIN sExec : /\ execs[e].retired = sExec[e].retired
                              /\ Creates(execs[e].nodes) = Creates(sExec[e].nodes)
  BY Zenon, <1>4
<1>7. Mirror(cExec, execs)
  BY <1>2, <1>6, Parts, MirrorSame
<1> QED
  BY Zenon, <1>1, <1>2, <1>4, <1>5, <1>6, <1>7

LEMMA InvAllocationFreed ==
    ASSUME IInv, NEW a \in DOMAIN cAlloc, NEW pend, AllocationFreed(a, pend)
    PROVE  IInv'
<1>1. PICK execs, allocs, busy :
         /\ execs = FreedIn(a, pend) /\ allocs = [sAlloc EXCEPT ![a].active = FALSE]
         /\ busy = Busy(inflight')
  OBVIOUS
<1>2. /\ RetireGraphMemory(execs, allocs, DOMAIN sGraph, busy)
      /\ cAlloc' = RetireClientGraphAllocations(
                      cExec, [cAlloc EXCEPT ![a].active = FALSE], DOMAIN cGraph)
      /\ UNCHANGED <<cGraph, cExec, sGraph, nodes, next>>
  BY Zenon, <1>1 DEF AllocationFreed, graphs
<1>3. /\ ExecTable(execs) /\ Mirror(cExec, execs)
      /\ \A f \in DOMAIN execs :
            /\ f \in DOMAIN sExec /\ execs[f].graph = sExec[f].graph
            /\ Creates(execs[f].nodes) = Creates(sExec[f].nodes)
  BY <1>1, FreedInView
<1>4. AllocTable(sAlloc) /\ cAlloc = sAlloc
  BY Zenon, Parts
<1>5. AllocTable(allocs)
  BY Zenon, <1>1, <1>4 DEF AllocTable, Reservations
<1>6. cAlloc' = RetireClientGraphAllocations(cExec, allocs, DOMAIN cGraph)
  BY Zenon, <1>1, <1>2, <1>4
<1> QED
  BY Zenon, <1>2, <1>3, <1>5, <1>6, InvBothRetire

LEMMA InvMemory == IInv /\ Memory => IInv'
<1> SUFFICES ASSUME IInv, Memory PROVE IInv'
  OBVIOUS
<1>1. ASSUME NEW a \in DOMAIN cAlloc, Free(a) PROVE IInv'
  BY <1>1, InvAllocationFreed DEF Free
<1>2. ASSUME NEW a \in DOMAIN cAlloc, NEW s \in Streams, UseAsync(a, s) PROVE IInv'
  BY Zenon, <1>2, SameTables DEF UseAsync, graphs
<1>3. ASSUME NEW a \in DOMAIN cAlloc, NEW s \in Streams, FreeAsync(a, s) PROVE IInv'
  BY Zenon, <1>3, InvAllocationFreed DEF FreeAsync
<1>4. CASE Trim
  <2>1. /\ RetireGraphMemory(sExec, sAlloc, DOMAIN sGraph, Busy(inflight))
        /\ UNCHANGED <<cGraph, cAlloc, cExec, sGraph, nodes, next>>
    BY Zenon, <1>4 DEF Trim, client, graphs
  <2> QED
    BY Zenon, <2>1, InvServerAlone
<1>5. CASE DeviceSynchronize
  <2>1. /\ RetireGraphMemory(sExec, sAlloc, DOMAIN sGraph, {})
        /\ UNCHANGED <<cGraph, cAlloc, cExec, sGraph, nodes, next>>
    BY Zenon, <1>5 DEF DeviceSynchronize, client, graphs
  <2> QED
    BY Zenon, <2>1, InvServerAlone
<1>6. CASE SessionEnds
  BY Zenon, <1>6, InvSessionEnds
<1> QED
  BY Zenon, <1>1, <1>2, <1>3, <1>4, <1>5, <1>6 DEF Memory

LEMMA InvDefine == IInv /\ Define => IInv'
<1> SUFFICES ASSUME IInv, Define PROVE IInv'
  OBVIOUS
<1>1. CASE GraphCreate
  BY Zenon, <1>1, InvGraphCreate
<1>2. ASSUME NEW g \in DOMAIN cGraph, NEW deps, AddMemAllocNode(g, deps) PROVE IInv'
  BY Zenon, <1>2, InvAddMemAllocNode
<1>3. ASSUME NEW g \in DOMAIN cGraph, NEW a \in DOMAIN cAlloc, NEW deps,
             AddMemFreeNode(g, a, deps)
      PROVE  IInv'
  BY Zenon, <1>3, InvAddMemFreeNode
<1>4. ASSUME NEW g \in DOMAIN cGraph, NEW a \in DOMAIN cAlloc, NEW deps,
             AddUseNode(g, a, deps)
      PROVE  IInv'
  BY Zenon, <1>4, InvAddUseNode
<1>5. ASSUME NEW g, NEW f, NEW t, AddDependency(g, f, t) PROVE IInv'
  BY Zenon, <1>5, InvAddDependency
<1>6. ASSUME NEW g \in DOMAIN cGraph, GraphDestroy(g) PROVE IInv'
  BY Zenon, <1>6, InvGraphDestroy
<1>7. ASSUME NEW n \in DOMAIN nodes, NEW a \in DOMAIN cAlloc, SetNode(n, a) PROVE IInv'
  BY Zenon, <1>7, InvSetNode
<1> QED
  BY Zenon, <1>1, <1>2, <1>3, <1>4, <1>5, <1>6, <1>7 DEF Define

LEMMA InvExecute == IInv /\ Execute => IInv'
<1> SUFFICES ASSUME IInv, Execute PROVE IInv'
  OBVIOUS
<1>1. ASSUME NEW g \in DOMAIN cGraph, Instantiate(g) PROVE IInv'
  BY Zenon, <1>1, InvInstantiate
<1>2. ASSUME NEW e \in DOMAIN cExec, NEW s \in Streams, Launch(e, s) PROVE IInv'
  BY Zenon, <1>2, InvLaunch
<1>3. ASSUME NEW e \in DOMAIN cExec, NEW n \in DOMAIN sExec[e].nodes, NEW a \in DOMAIN cAlloc,
             ExecSetNode(e, n, a)
      PROVE  IInv'
  BY Zenon, <1>3, InvExecSetNode
<1>4. ASSUME NEW e \in DOMAIN cExec, ExecDestroy(e) PROVE IInv'
  BY Zenon, <1>4, InvExecDestroy
<1> QED
  BY Zenon, <1>1, <1>2, <1>3, <1>4 DEF Execute

LEMMA InvNext == IInv /\ [Next]_vars => IInv'
<1> SUFFICES ASSUME IInv, [Next]_vars PROVE IInv'
  OBVIOUS
<1>1. ASSUME NEW i, NEW n, RunNode(i, n) PROVE IInv'
  BY Zenon, <1>1, SameTables DEF RunNode, graphs
<1>2. CASE UNCHANGED vars
  BY Zenon, <1>2, SameTables DEF vars, client, graphs
<1> QED
  BY Zenon, <1>1, <1>2, InvDefine, InvExecute, InvMemory DEF Next, Device

-----------------------------------------------------------------------------
(* The theorems                                                            *)

\* The inductive invariant holds in every reachable state.
THEOREM Invariance == Spec => []IInv
<1>1. Init => IInv
  BY InvInit
<1>2. IInv /\ [Next]_vars => IInv'
  BY InvNext
<1> QED
  BY <1>1, <1>2, PTL DEF Spec

\* Client and server always have the same reservations, with the same graph,
\* activity and pairing, whichever calls made either of them retire some.
THEOREM TablesInAgreement == Spec => []MemoryTablesAgree
<1>1. IInv => MemoryTablesAgree
  BY Zenon DEF IInv
<1> QED
  BY Invariance, <1>1, PTL

\* No reservation is ever mapped by two native executables, retired ones
\* included: GRAPH_INSTANTIATE refuses a second executable of a graph with
\* memory, and no other graph allocates the reservation.
THEOREM MappedOnce == Spec => []OneMapping
<1>1. IInv => OneMapping
  <2> SUFFICES ASSUME IInv, NEW e \in DOMAIN sExec, NEW f \in DOMAIN sExec, e # f
               PROVE  Creates(sExec[e].nodes) \cap Creates(sExec[f].nodes) = {}
    BY DEF OneMapping
  <2>1. \A a : ~(a \in Creates(sExec[e].nodes) /\ a \in Creates(sExec[f].nodes))
    BY Zenon DEF IInv, MapsOk
  <2> QED
    BY Zenon, <2>1
<1> QED
  BY Invariance, <1>1, PTL

-----------------------------------------------------------------------------
(* Nodes and reservations                                                  *)

\* The reservations that the free nodes of a snapshot release.
Frees(ns) == {ns[n].alloc : n \in {m \in DOMAIN ns : ns[m].kind = "free"}}

\* A reservation has one allocation node.
OneAlloc(ns) ==
    \A m, n \in DOMAIN ns :
        ns[m].kind = "alloc" /\ ns[n].kind = "alloc" /\ ns[m].alloc = ns[n].alloc => m = n

\* The reservations a launch or a call has left allocated.
ActiveIn(allocs) == {a \in DOMAIN allocs : allocs[a].active}

-----------------------------------------------------------------------------
(* The queue of the device                                                 *)

\* Node m has to run before node k: allocation, uses, free of a reservation.
Before(l, m, k) ==
    /\ m # k /\ l[m].alloc = l[k].alloc
    /\ \/ l[m].kind = "alloc" /\ l[k].kind # "alloc"
       \/ l[m].kind # "alloc" /\ l[k].kind = "free"

\* An item in the queue, of which some nodes have run: what is left has the
\* successors of its nodes, and paths where an order is needed.
ItemOk(x) ==
    /\ x = [stream |-> x.stream, exec |-> x.exec, names |-> x.names,
            left |-> x.left, edges |-> x.edges]
    /\ Names(x.left) \subseteq x.names /\ OneAlloc(x.left)
    /\ \A p \in x.edges : p = <<p[1], p[2]>> /\ (p[1] \in DOMAIN x.left => p[2] \in DOMAIN x.left)
    /\ \A m, k \in DOMAIN x.left :
          Before(x.left, m, k) => <<m, k>> \in Reachable(x.left, x.edges)

\* A sequence of items.
IsSeq(q) == q \in Seq({q[i] : i \in DOMAIN q})

\* Item y waits for item x.
Waits(x, y) == x.stream = y.stream \/ (y.exec # 0 /\ x.exec = y.exec)

\* The queue: items that name a common reservation run one after the other.
QueueOk(q) ==
    /\ IsSeq(q)
    /\ \A i \in DOMAIN q : ItemOk(q[i])
    /\ \A i, j \in DOMAIN q : \A a :
          i < j /\ a \in q[i].names /\ a \in q[j].names => Waits(q[i], q[j])

\* Item x takes reservation a from b, whether it has storage, to c.
StepOn(x, a, b, c) ==
    IF a \in Names(x.left) THEN (b <=> a \notin Creates(x.left)) /\ (c <=> a \notin Frees(x.left))
                           ELSE b <=> c

\* No item from position j to before position k touches reservation a.
Quiet(q, a, j, k) == \A m \in j..(k - 1) : a \notin Names(q[m].left)

\* W has the positions of the queue before which reservation a has storage.
Traces(q, W, a) ==
    /\ \A j \in 1..Len(q) : StepOn(q[j], a, j \in W, j + 1 \in W)
    /\ \A j, k \in 1..(Len(q) + 1) : j <= k /\ Quiet(q, a, j, k) => (j \in W <=> k \in W)

\* The queue takes reservation a from having storage (a \in bk) to being
\* active (a \in act).
Runs(q, bk, act, a) ==
    \E W \in SUBSET (1..(Len(q) + 1)) :
        /\ 1 \in W <=> a \in bk
        /\ Len(q) + 1 \in W <=> a \in act
        /\ Traces(q, W, a)

\* The streams on which an executable may still work on reservation a.
MarksOf(x, a) == x.last \cup {x.pending[b] : b \in DOMAIN x.pending \cap {a}}

\* A reservation is mapped while it is active or the queue names it; in the
\* second case the executable is marked with a stream that is still busy.
MapOk(q, execs, act) ==
    /\ \A a \in act : \E e \in DOMAIN execs : a \in Creates(execs[e].nodes)
    /\ \A i \in DOMAIN q : \A a \in q[i].names \ act :
          \E j \in DOMAIN q, e \in DOMAIN execs :
             /\ i <= j /\ a \in q[j].names
             /\ a \in Creates(execs[e].nodes) /\ q[j].stream \in MarksOf(execs[e], a)

-----------------------------------------------------------------------------
(* Positions                                                               *)

\* A new item at the end of a sequence.
LEMMA AppendView ==
    ASSUME NEW q, IsSeq(q), NEW x
    PROVE  /\ Len(q) \in Nat /\ DOMAIN q = 1..Len(q)
           /\ IsSeq(Append(q, x))
           /\ Len(Append(q, x)) = Len(q) + 1
           /\ DOMAIN Append(q, x) = DOMAIN q \cup {Len(q) + 1}
           /\ Append(q, x)[Len(q) + 1] = x
           /\ \A i \in DOMAIN q : Append(q, x)[i] = q[i]
<1> DEFINE S == {q[i] : i \in DOMAIN q} \cup {x}
<1>1. q \in Seq(S)
  BY DEF IsSeq
<1> HIDE DEF S
<1>2. x \in S
  BY Zenon DEF S
<1>3. /\ Len(q) \in Nat /\ DOMAIN q = 1..Len(q)
      /\ Append(q, x) \in Seq(S) /\ Len(Append(q, x)) = Len(q) + 1
      /\ DOMAIN Append(q, x) = DOMAIN q \cup {Len(q) + 1}
      /\ Append(q, x)[Len(q) + 1] = x
      /\ \A i \in DOMAIN q : Append(q, x)[i] = q[i]
  BY <1>1, <1>2
<1>4. ASSUME NEW r, r \in Seq(S) PROVE IsSeq(r)
  BY <1>4 DEF IsSeq
<1> QED
  BY Zenon, <1>3, <1>4

\* A part of a sequence, two sequences joined, the set of a sequence's items.
LEMMA PartView ==
    ASSUME NEW S, NEW q \in Seq(S), NEW i \in 1..Len(q)
    PROVE  /\ SubSeq(q, 1, i - 1) \in Seq(S) /\ Len(SubSeq(q, 1, i - 1)) = i - 1
           /\ \A j \in 1..(i - 1) : SubSeq(q, 1, i - 1)[j] = q[j]
           /\ SubSeq(q, i + 1, Len(q)) \in Seq(S)
           /\ Len(SubSeq(q, i + 1, Len(q))) = Len(q) - i
           /\ \A j \in 1..(Len(q) - i) : SubSeq(q, i + 1, Len(q))[j] = q[i + j]
<1>1. /\ SubSeq(q, 1, i - 1) \in Seq(S) /\ Len(SubSeq(q, 1, i - 1)) = i - 1
      /\ \A j \in 1..(i - 1) : SubSeq(q, 1, i - 1)[j] = q[j]
  OBVIOUS
<1>2. SubSeq(q, i + 1, Len(q)) \in Seq(S)
  OBVIOUS
<1>3. Len(SubSeq(q, i + 1, Len(q))) = Len(q) - i
  OBVIOUS
<1>4. \A j \in 1..(Len(q) - i) : SubSeq(q, i + 1, Len(q))[j] = q[i + j]
  OBVIOUS
<1> QED
  BY Zenon, <1>1, <1>2, <1>3, <1>4

\* The positions of two parts put together.
LEMMA JoinView ==
    ASSUME NEW S, NEW s \in Seq(S), NEW t \in Seq(S)
    PROVE  /\ s \o t \in Seq(S) /\ Len(s \o t) = Len(s) + Len(t)
           /\ DOMAIN (s \o t) = 1..Len(s \o t)
           /\ \A j \in 1..(Len(s) + Len(t)) :
                 (s \o t)[j] = IF j <= Len(s) THEN s[j] ELSE t[j - Len(s)]
OBVIOUS

\* A sequence is a sequence of its own items.
LEMMA OwnItems ==
    ASSUME NEW S, NEW s \in Seq(S)
    PROVE  s \in Seq({s[i] : i \in DOMAIN s})
OBVIOUS

\* A sequence without item i.
LEMMA RemoveFrom ==
    ASSUME NEW S, NEW q \in Seq(S), NEW i \in 1..Len(q)
    PROVE  \E r : /\ r = SubSeq(q, 1, i - 1) \o SubSeq(q, i + 1, Len(q))
                  /\ r \in Seq({r[j] : j \in DOMAIN r}) /\ DOMAIN r = 1..Len(r)
                  /\ Len(q) \in Nat /\ i \in 1..Len(q) /\ Len(r) = Len(q) - 1
                  /\ \A j \in 1..Len(r) : r[j] = IF j < i THEN q[j] ELSE q[j + 1]
<1> DEFINE s == SubSeq(q, 1, i - 1)
           t == SubSeq(q, i + 1, Len(q))
           r == s \o t
<1>1. Len(q) \in Nat /\ i \in 1..Len(q)
  OBVIOUS
<1>2. /\ s \in Seq(S) /\ Len(s) = i - 1 /\ \A j \in 1..(i - 1) : s[j] = q[j]
      /\ t \in Seq(S) /\ Len(t) = Len(q) - i
      /\ \A j \in 1..(Len(q) - i) : t[j] = q[i + j]
  BY PartView
<1> HIDE DEF s, t
<1>3. /\ r \in Seq(S) /\ Len(r) = Len(s) + Len(t) /\ DOMAIN r = 1..Len(r)
      /\ \A j \in 1..(Len(s) + Len(t)) :
            r[j] = IF j <= Len(s) THEN s[j] ELSE t[j - Len(s)]
  BY <1>2, JoinView
<1> HIDE DEF r
<1>4. Len(r) = Len(q) - 1
  BY <1>1, <1>2, <1>3
<1>5. ASSUME NEW j \in 1..Len(r) PROVE r[j] = IF j < i THEN q[j] ELSE q[j + 1]
  <2>0. Len(q) \in Nat /\ i \in 1..Len(q) /\ Len(r) = Len(q) - 1 /\ Len(s) = i - 1 /\ Len(t) = Len(q) - i
    BY Zenon, <1>1, <1>2, <1>4
  <2>1. CASE j < i
    <3>1. j \in 1..(i - 1) /\ j <= Len(s) /\ j \in 1..(Len(s) + Len(t))
      BY <2>0, <2>1
    <3> QED
      BY Zenon, <1>2, <1>3, <2>1, <3>1
  <2>2. CASE ~(j < i)
    <3>1. PICK k : k = j - (i - 1)
      OBVIOUS
    <3>2. /\ k \in 1..(Len(q) - i) /\ i + k = j + 1 /\ k = j - Len(s)
          /\ ~(j <= Len(s)) /\ j \in 1..(Len(s) + Len(t))
      BY <2>0, <2>2, <3>1
    <3>3. r[j] = t[k]
      BY Zenon, <1>3, <3>2
    <3>4. t[k] = q[i + k]
      BY Zenon, <1>2, <3>2
    <3> QED
      BY Zenon, <3>2, <3>3, <3>4, <2>2
  <2> QED
    BY Zenon, <2>1, <2>2
<1>6. r \in Seq({r[j] : j \in DOMAIN r})
  BY <1>3, OwnItems
<1> WITNESS r
<1>7. r = SubSeq(q, 1, i - 1) \o SubSeq(q, i + 1, Len(q))
  BY Zenon DEF r, s, t
<1> QED
  BY Zenon, <1>1, <1>3, <1>4, <1>5, <1>6, <1>7

\* A queue without its item i: who was before i stays, who was after moves up.
LEMMA RemoveView ==
    ASSUME NEW q, IsSeq(q), NEW i \in DOMAIN q
    PROVE  \E r : /\ r = SubSeq(q, 1, i - 1) \o SubSeq(q, i + 1, Len(q))
                  /\ IsSeq(r) /\ DOMAIN r = 1..Len(r)
                  /\ Len(q) \in Nat /\ i \in 1..Len(q) /\ Len(r) = Len(q) - 1
                  /\ \A j \in 1..Len(r) : r[j] = IF j < i THEN q[j] ELSE q[j + 1]
<1> DEFINE S == {q[j] : j \in DOMAIN q}
<1>1. q \in Seq(S)
  BY Zenon DEF IsSeq
<1> HIDE DEF S
<1>2. i \in 1..Len(q)
  BY <1>1
<1> QED
  BY <1>1, <1>2, RemoveFrom DEF IsSeq

\* The positions of a sequence.
LEMMA SeqView ==
    ASSUME NEW q, IsSeq(q)
    PROVE  /\ Len(q) \in Nat /\ DOMAIN q = 1..Len(q)
           /\ \A i \in DOMAIN q : i \in Nat /\ i <= Len(q)
BY DEF IsSeq

\* The item and the queue of which item i has the nodes of l left.
ItemLeft(x, l) == [x EXCEPT !.left = l]
QueueLeft(q, i, l) == [q EXCEPT ![i].left = l]

\* Queue r is queue q with l left of item i.
Replaced(q, i, l, r) ==
    /\ IsSeq(r) /\ Len(r) = Len(q) /\ DOMAIN r = DOMAIN q
    /\ r[i] = ItemLeft(q[i], l)
    /\ \A j \in DOMAIN q \ {i} : r[j] = q[j]

\* A queue whose item i has other nodes left differs at i only.
LEMMA ReplaceView ==
    ASSUME NEW q, IsSeq(q), NEW i \in DOMAIN q, NEW l
    PROVE  Replaced(q, i, l, QueueLeft(q, i, l))
<1> DEFINE x == ItemLeft(q[i], l)
           r == [q EXCEPT ![i] = x]
           S == {q[j] : j \in DOMAIN q} \cup {x}
<1>1. QueueLeft(q, i, l) = r
  BY Zenon DEF QueueLeft, ItemLeft
<1>2. q \in Seq(S) /\ x \in S
  <2> HIDE DEF x
  <2> QED BY DEF IsSeq
<1> HIDE DEF S, x
<1>3. r \in Seq(S) /\ Len(r) = Len(q) /\ DOMAIN r = DOMAIN q
  BY <1>2
<1>4. r[i] = x /\ \A j \in DOMAIN q \ {i} : r[j] = q[j]
  BY Zenon
<1> HIDE DEF r
<1>5. IsSeq(r)
  BY <1>3, OwnItems DEF IsSeq
<1> QED
  BY Zenon, <1>1, <1>3, <1>4, <1>5 DEF x, Replaced

-----------------------------------------------------------------------------
(* Running the queue                                                       *)

\* A node that is reachable from a node that has not run has a predecessor
\* that has not run: otherwise the nodes with such predecessors would be a
\* closed set without it.
LEMMA ReachBlocks ==
    ASSUME NEW l, NEW es,
           \A p \in es : p = <<p[1], p[2]>> /\ (p[1] \in DOMAIN l => p[2] \in DOMAIN l),
           NEW m \in DOMAIN l, NEW k \in DOMAIN l, <<m, k>> \in Reachable(l, es)
    PROVE  \E p \in DOMAIN l : <<p, k>> \in es
<1> DEFINE S == {x \in DOMAIN l : \E p \in DOMAIN l : <<p, x>> \in es}
<1>1. \A T \in SUBSET DOMAIN l :
         /\ \A p \in es : p[1] \in T => p[2] \in T
         /\ \A p \in es : p[1] = m => p[2] \in T
         => k \in T
  BY DEF Reachable
<1>2. S \in SUBSET DOMAIN l
  BY Zenon
<1>3. ASSUME NEW p \in es, p[1] \in DOMAIN l PROVE p[2] \in S
  <2>1. <<p[1], p[2]>> \in es /\ p[2] \in DOMAIN l
    BY Zenon, <1>3
  <2> QED
    BY Zenon, <2>1, <1>3
<1>4. \A p \in es : p[1] \in S => p[2] \in S
  BY Zenon, <1>3
<1>5. \A p \in es : p[1] = m => p[2] \in S
  BY Zenon, <1>3
<1>6. k \in S
  <2> HIDE DEF S
  <2> QED BY Zenon, <1>1, <1>2, <1>4, <1>5
<1> QED
  BY Zenon, <1>6

\* Items before a runnable item name none of its reservations.
LEMMA RunnableFirst ==
    ASSUME QueueOk(inflight), NEW i \in DOMAIN inflight, Runnable(i)
    PROVE  \A j \in 1..(i - 1) : /\ j \in DOMAIN inflight
                                 /\ \A a \in inflight[i].names :
                                       /\ a \notin inflight[j].names
                                       /\ a \notin Names(inflight[j].left)
<1>1. IsSeq(inflight)
  BY Zenon DEF QueueOk
<1>2. Len(inflight) \in Nat /\ DOMAIN inflight = 1..Len(inflight)
  BY Zenon, <1>1, SeqView
<1>3. SUFFICES ASSUME NEW j \in 1..(i - 1), NEW a \in inflight[i].names
               PROVE  /\ j \in DOMAIN inflight /\ a \notin inflight[j].names
                      /\ a \notin Names(inflight[j].left)
  <2>1. \A j \in 1..(i - 1) : j \in DOMAIN inflight
    BY <1>2
  <2> QED
    BY Zenon, <2>1
<1>4. j \in DOMAIN inflight /\ j < i
  BY <1>2
<1>5. a \notin inflight[j].names
  <2>1. ~Waits(inflight[j], inflight[i])
    BY Zenon DEF Runnable, Waits
  <2> QED
    BY Zenon, <1>4, <2>1 DEF QueueOk
<1>6. Names(inflight[j].left) \subseteq inflight[j].names
  BY Zenon, <1>4 DEF QueueOk, ItemOk
<1> QED
  BY Zenon, <1>4, <1>5, <1>6

\* What is left of its reservation when a node is ready: no allocation node
\* beside it, and nothing beside it if it is the free node.
LEMMA ReadyNode ==
    ASSUME QueueOk(inflight), NEW i \in DOMAIN inflight,
           NEW n \in DOMAIN inflight[i].left, Ready(i, n)
    PROVE  \A m \in DOMAIN inflight[i].left : ~Before(inflight[i].left, m, n)
<1>1. SUFFICES ASSUME NEW m \in DOMAIN inflight[i].left, Before(inflight[i].left, m, n)
               PROVE  FALSE
  BY Zenon
<1>2. PICK l, es : l = inflight[i].left /\ es = inflight[i].edges
  OBVIOUS
<1>3. /\ \A p \in es : p = <<p[1], p[2]>> /\ (p[1] \in DOMAIN l => p[2] \in DOMAIN l)
      /\ <<m, n>> \in Reachable(l, es)
  BY Zenon, <1>1, <1>2 DEF QueueOk, ItemOk
<1>4. m \in DOMAIN l /\ n \in DOMAIN l
  BY Zenon, <1>2
<1>5. PICK p \in DOMAIN l : <<p, n>> \in es
  BY <1>3, <1>4, ReachBlocks
<1> QED
  BY Zenon, <1>2, <1>5 DEF Ready

\* The first item that touches a reservation finds it as it needs it.
LEMMA RunsFirst ==
    ASSUME NEW q, IsSeq(q), NEW bk, NEW act, NEW a, Runs(q, bk, act, a),
           NEW i \in DOMAIN q, \A j \in 1..(i - 1) : a \notin Names(q[j].left),
           a \in Names(q[i].left)
    PROVE  a \in bk <=> a \notin Creates(q[i].left)
<1>1. /\ i \in 1..Len(q) /\ 1 \in 1..(Len(q) + 1) /\ i \in 1..(Len(q) + 1) /\ 1 <= i
  BY SeqView
<1>2. PICK W \in SUBSET (1..(Len(q) + 1)) : (1 \in W <=> a \in bk) /\ Traces(q, W, a)
  BY Zenon DEF Runs
<1>3. i \in W <=> 1 \in W
  BY Zenon, <1>1, <1>2 DEF Traces, Quiet
<1>4. i \in W <=> a \notin Creates(q[i].left)
  BY Zenon, <1>1, <1>2 DEF Traces, StepOn
<1> QED
  BY Zenon, <1>2, <1>3, <1>4

\* A reservation that is not active has storage only if an item touches it.
LEMMA RunsTouched ==
    ASSUME NEW q, IsSeq(q), NEW bk, NEW act, NEW a, Runs(q, bk, act, a),
           a \in bk, a \notin act
    PROVE  \E i \in DOMAIN q : a \in Names(q[i].left)
<1>1. /\ DOMAIN q = 1..Len(q) /\ 1..((Len(q) + 1) - 1) = 1..Len(q) /\ 1 <= Len(q) + 1
      /\ 1 \in 1..(Len(q) + 1) /\ Len(q) + 1 \in 1..(Len(q) + 1)
  <2>1. Len(q) \in Nat /\ DOMAIN q = 1..Len(q)
    BY Zenon, SeqView
  <2> QED
    BY <2>1
<1>2. PICK W \in SUBSET (1..(Len(q) + 1)) :
         1 \in W /\ Len(q) + 1 \notin W /\ Traces(q, W, a)
  BY Zenon DEF Runs
<1>3. ~Quiet(q, a, 1, Len(q) + 1)
  BY Zenon, <1>1, <1>2 DEF Traces
<1>4. PICK m \in 1..((Len(q) + 1) - 1) : a \in Names(q[m].left)
  BY Zenon, <1>3 DEF Quiet
<1>5. m \in DOMAIN q
  BY <1>1
<1> QED
  BY Zenon, <1>4, <1>5

\* An empty queue: what has storage is active.
LEMMA RunsEmpty ==
    ASSUME NEW bk, NEW act, NEW a
    PROVE  Runs(<<>>, bk, act, a) <=> (a \in bk <=> a \in act)
<1>1. Len(<<>>) = 0 /\ 1..0 = {} /\ 0 + 1 = 1 /\ 1 \in 1..1 /\ \A j \in 1..1 : j = 1
  OBVIOUS
<1>2. ASSUME Runs(<<>>, bk, act, a) PROVE a \in bk <=> a \in act
  BY Zenon, <1>1, <1>2 DEF Runs
<1>3. \A W : Traces(<<>>, W, a)
  <2>1. \A j \in 1..Len(<<>>) : FALSE
    BY Zenon, <1>1
  <2>2. \A j \in 1..(Len(<<>>) + 1) : j = 1
    BY Zenon, <1>1
  <2> QED
    BY Zenon, <2>1, <2>2 DEF Traces
<1>4. ASSUME a \in bk <=> a \in act PROVE Runs(<<>>, bk, act, a)
  <2>1. CASE a \in bk
    <3> DEFINE W == 1..1
    <3>1. W \in SUBSET (1..(Len(<<>>) + 1)) /\ 1 \in W /\ Len(<<>>) + 1 \in W
      BY Zenon, <1>1
    <3> HIDE DEF W
    <3> QED BY Zenon, <1>3, <1>4, <2>1, <3>1 DEF Runs
  <2>2. CASE a \notin bk
    <3>1. {} \in SUBSET (1..(Len(<<>>) + 1)) /\ 1 \notin {} /\ Len(<<>>) + 1 \notin {}
      BY Zenon
    <3> QED BY Zenon, <1>3, <1>4, <2>2, <3>1 DEF Runs
  <2> QED BY Zenon, <2>1, <2>2
<1> QED
  BY Zenon, <1>2, <1>4

\* A queue of which no item has another effect on the reservation.
LEMMA RunsSame ==
    ASSUME NEW q, IsSeq(q), NEW bk, NEW act, NEW a, Runs(q, bk, act, a), NEW q2, NEW bk2, NEW act2,
           Len(q2) = Len(q), a \in bk2 <=> a \in bk, a \in act2 <=> a \in act,
           \A j \in 1..Len(q) :
              /\ a \in Names(q2[j].left) <=> a \in Names(q[j].left)
              /\ a \in Creates(q2[j].left) <=> a \in Creates(q[j].left)
              /\ a \in Frees(q2[j].left) <=> a \in Frees(q[j].left)
    PROVE  Runs(q2, bk2, act2, a)
<1>1. PICK W \in SUBSET (1..(Len(q) + 1)) :
         /\ 1 \in W <=> a \in bk
         /\ Len(q) + 1 \in W <=> a \in act
         /\ Traces(q, W, a)
  BY Zenon DEF Runs
<1>2. \A j \in 1..Len(q) : StepOn(q2[j], a, j \in W, j + 1 \in W)
  BY Zenon, <1>1 DEF Traces, StepOn
<1>3. ASSUME NEW j \in 1..(Len(q) + 1), NEW k \in 1..(Len(q) + 1), j <= k, Quiet(q2, a, j, k)
      PROVE  j \in W <=> k \in W
  <2>1. Len(q) \in Nat
    BY Zenon, SeqView
  <2>2. \A m \in j..(k - 1) : m \in 1..Len(q)
    BY <2>1
  <2>3. Quiet(q, a, j, k)
    BY Zenon, <1>3, <2>2 DEF Quiet
  <2> QED
    BY Zenon, <1>1, <1>3, <2>3 DEF Traces
<1>4. Traces(q2, W, a)
  BY Zenon, <1>2, <1>3 DEF Traces
<1> QED
  BY Zenon, <1>1, <1>4 DEF Runs

\* The device runs a node of the first item that touches the reservation.
LEMMA RunsMove ==
    ASSUME NEW q, IsSeq(q), NEW bk, NEW act, NEW a, Runs(q, bk, act, a),
           NEW i \in DOMAIN q, \A j \in 1..(i - 1) : a \notin Names(q[j].left),
           a \in Names(q[i].left), NEW q2, NEW bk2, Len(q2) = Len(q),
           \A j \in DOMAIN q \ {i} : q2[j] = q[j],
           StepOn(q2[i], a, a \in bk2, a \notin Frees(q[i].left))
    PROVE  Runs(q2, bk2, act, a)
<1>1. Len(q) \in Nat /\ DOMAIN q = 1..Len(q) /\ i \in 1..Len(q) /\ i \in Nat
  BY SeqView
<1>2. PICK W \in SUBSET (1..(Len(q) + 1)) : (Len(q) + 1 \in W <=> a \in act) /\ Traces(q, W, a)
  BY Zenon DEF Runs
<1> DEFINE V == {j \in 1..(Len(q) + 1) : IF j <= i THEN a \in bk2 ELSE j \in W}
<1>3. /\ 1 \in 1..(Len(q) + 1) /\ 1 <= i
      /\ Len(q) + 1 \in 1..(Len(q) + 1) /\ ~(Len(q) + 1 <= i)
  BY <1>1
<1>4. V \in SUBSET (1..(Len(q) + 1)) /\ (1 \in V <=> a \in bk2)
  BY Zenon, <1>3
<1>5. Len(q) + 1 \in V <=> a \in act
  BY Zenon, <1>2, <1>3
<1>6. i + 1 \in W <=> a \notin Frees(q[i].left)
  BY Zenon, <1>1, <1>2 DEF Traces, StepOn
<1>7. ASSUME NEW j \in 1..Len(q) PROVE StepOn(q2[j], a, j \in V, j + 1 \in V)
  <2>0. j \in 1..(Len(q) + 1) /\ j + 1 \in 1..(Len(q) + 1)
    BY <1>1
  <2>1. CASE j = i
    <3>1. j <= i /\ ~(j + 1 <= i)
      BY <1>1, <2>1
    <3>2. (j \in V <=> a \in bk2) /\ (j + 1 \in V <=> j + 1 \in W)
      BY Zenon, <2>0, <3>1
    <3> HIDE DEF V
    <3> QED BY Zenon, <1>6, <2>1, <3>2 DEF StepOn
  <2>2. CASE j < i
    <3>1. j \in 1..(i - 1) /\ j <= i /\ j + 1 <= i /\ j # i
      BY <1>1, <2>2
    <3>2. j \in V <=> j + 1 \in V
      BY Zenon, <2>0, <3>1
    <3>3. q2[j] = q[j] /\ a \notin Names(q[j].left)
      BY Zenon, <1>1, <3>1
    <3> HIDE DEF V
    <3> QED BY Zenon, <3>2, <3>3 DEF StepOn
  <2>3. CASE i < j
    <3>1. ~(j <= i) /\ ~(j + 1 <= i) /\ j # i
      BY <1>1, <2>3
    <3>2. (j \in V <=> j \in W) /\ (j + 1 \in V <=> j + 1 \in W)
      BY Zenon, <2>0, <3>1
    <3>3. q2[j] = q[j] /\ StepOn(q[j], a, j \in W, j + 1 \in W)
      BY Zenon, <1>1, <1>2, <3>1 DEF Traces
    <3> HIDE DEF V
    <3> QED BY Zenon, <3>2, <3>3 DEF StepOn
  <2> QED
    BY <1>1, <2>1, <2>2, <2>3
<1>8. ASSUME NEW j \in 1..(Len(q) + 1), NEW k \in 1..(Len(q) + 1), j <= k, Quiet(q2, a, j, k)
      PROVE  j \in V <=> k \in V
  <2>1. ASSUME NEW h \in 1..(Len(q) + 1), i < h, h <= k, \A m \in h..(k - 1) : m \in j..(k - 1)
        PROVE  h \in W <=> k \in W
    <3>1. \A m \in h..(k - 1) : m \in DOMAIN q \ {i}
      BY <1>1, <2>1
    <3>2. Quiet(q, a, h, k)
      BY Zenon, <1>8, <2>1, <3>1 DEF Quiet
    <3> QED
      BY Zenon, <1>2, <2>1, <3>2 DEF Traces
  <2>2. CASE k <= i
    <3>1. j <= i
      BY <1>1, <1>8, <2>2
    <3> QED
      BY Zenon, <2>2, <3>1
  <2>3. CASE i < j
    <3>1. j <= k /\ ~(j <= i) /\ ~(k <= i)
      BY <1>1, <1>8, <2>3
    <3>2. j \in W <=> k \in W
      BY Zenon, <1>8, <2>1, <2>3
    <3> QED
      BY Zenon, <3>1, <3>2
  <2>4. CASE j <= i /\ i < k
    <3>1. PICK h : h = i + 1
      OBVIOUS
    <3>2. /\ h \in 1..(Len(q) + 1) /\ i < h /\ h <= k /\ i \in j..(k - 1) /\ ~(k <= i)
          /\ \A m \in h..(k - 1) : m \in j..(k - 1)
      BY <1>1, <2>4, <3>1
    <3>3. h \in W <=> k \in W
      BY Zenon, <2>1, <3>2
    <3>4. a \notin Names(q2[i].left)
      BY Zenon, <1>8, <3>2 DEF Quiet
    <3>5. a \in bk2 <=> h \in W
      BY Zenon, <1>6, <3>1, <3>4 DEF StepOn
    <3>6. (j \in V <=> a \in bk2) /\ (k \in V <=> k \in W)
      BY Zenon, <2>4, <3>2
    <3> HIDE DEF V
    <3> QED BY Zenon, <3>3, <3>5, <3>6
  <2> QED
    BY <1>1, <2>2, <2>3, <2>4
<1> HIDE DEF V
<1>9. Traces(q2, V, a)
  BY Zenon, <1>7, <1>8 DEF Traces
<1> QED
  BY Zenon, <1>4, <1>5, <1>9 DEF Runs

\* An item that touches the reservation no more leaves the queue.
LEMMA RunsRemove ==
    ASSUME NEW q, IsSeq(q), NEW bk, NEW act, NEW a, Runs(q, bk, act, a),
           NEW i \in DOMAIN q, a \notin Names(q[i].left), NEW r, Len(r) = Len(q) - 1,
           \A j \in 1..Len(r) : r[j] = IF j < i THEN q[j] ELSE q[j + 1]
    PROVE  Runs(r, bk, act, a)
<1>1. Len(q) \in Nat /\ DOMAIN q = 1..Len(q) /\ i \in 1..Len(q) /\ i \in Nat
  BY SeqView
<1>2. PICK W \in SUBSET (1..(Len(q) + 1)) :
         /\ 1 \in W <=> a \in bk
         /\ Len(q) + 1 \in W <=> a \in act
         /\ Traces(q, W, a)
  BY Zenon DEF Runs
<1>3. PICK n : n = Len(q)
  OBVIOUS
<1>4. n \in Nat /\ i \in 1..n /\ Len(r) + 1 = n /\ Len(r) = n - 1
  BY <1>1, <1>3
<1> DEFINE V == {j \in 1..n : IF j <= i THEN j \in W ELSE j + 1 \in W}
<1>5. i \in W <=> i + 1 \in W
  BY Zenon, <1>1, <1>2 DEF Traces, StepOn
<1>6. V \in SUBSET (1..(Len(r) + 1))
  BY Zenon, <1>4
<1>7. 1 \in 1..n /\ 1 <= i /\ n \in 1..n /\ (n <= i => n = i)
  BY <1>4
<1>8. 1 \in V <=> a \in bk
  BY Zenon, <1>2, <1>7
<1>9. n \in V <=> a \in act
  BY Zenon, <1>2, <1>3, <1>5, <1>7
<1>10. ASSUME NEW j \in 1..Len(r) PROVE StepOn(r[j], a, j \in V, j + 1 \in V)
  <2>0. j \in 1..n /\ j + 1 \in 1..n
    BY <1>4
  <2>1. CASE j < i
    <3>1. j <= i /\ j + 1 <= i /\ j \in 1..Len(q)
      BY <1>3, <1>4, <2>1
    <3>2. (j \in V <=> j \in W) /\ (j + 1 \in V <=> j + 1 \in W)
      BY Zenon, <2>0, <3>1
    <3>3. r[j] = q[j]
      BY Zenon, <2>1
    <3> HIDE DEF V
    <3> QED BY Zenon, <1>2, <3>1, <3>2, <3>3 DEF Traces, StepOn
  <2>2. CASE ~(j < i)
    <3>1. (j <= i => j = i) /\ ~(j + 1 <= i) /\ j + 1 \in 1..Len(q)
      BY <1>3, <1>4, <2>2
    <3>2. (j \in V <=> j + 1 \in W) /\ (j + 1 \in V <=> j + 1 + 1 \in W)
      BY Zenon, <2>0, <3>1, <1>5
    <3>3. r[j] = q[j + 1]
      BY Zenon, <2>2
    <3>4. StepOn(q[j + 1], a, j + 1 \in W, j + 1 + 1 \in W)
      BY Zenon, <1>2, <3>1 DEF Traces
    <3> HIDE DEF V
    <3> QED BY Zenon, <3>2, <3>3, <3>4 DEF StepOn
  <2> QED
    BY Zenon, <2>1, <2>2
<1>11. ASSUME NEW j \in 1..n, NEW k \in 1..n, j <= k, Quiet(r, a, j, k)
       PROVE  j \in V <=> k \in V
  <2>1. PICK f : f = IF j <= i THEN j ELSE j + 1
    OBVIOUS
  <2>2. PICK h : h = IF k <= i THEN k ELSE k + 1
    OBVIOUS
  <2>3. f \in 1..(n + 1) /\ h \in 1..(n + 1) /\ f <= h
    BY <1>4, <1>11, <2>1, <2>2
  <2>4. ASSUME NEW m \in f..(h - 1) PROVE a \notin Names(q[m].left)
    <3>1. CASE m = i
      BY Zenon, <3>1
    <3>2. CASE m < i
      <4>1. m \in j..(k - 1) /\ m \in 1..Len(r)
        BY <1>4, <1>11, <2>1, <2>2, <2>4, <3>2
      <4>2. r[m] = q[m]
        BY Zenon, <3>2, <4>1
      <4> QED
        BY Zenon, <1>11, <4>1, <4>2 DEF Quiet
    <3>3. CASE i < m
      <4>1. PICK l : l = m - 1
        OBVIOUS
      <4>2. l \in j..(k - 1) /\ l \in 1..Len(r) /\ ~(l < i) /\ l + 1 = m
        BY <1>4, <1>11, <2>1, <2>2, <2>4, <3>3, <4>1
      <4>3. r[l] = q[m]
        BY Zenon, <4>2
      <4> QED
        BY Zenon, <1>11, <4>2, <4>3 DEF Quiet
    <3> QED
      BY <1>4, <2>3, <3>1, <3>2, <3>3
  <2>5. Quiet(q, a, f, h)
    BY Zenon, <2>4 DEF Quiet
  <2>6. f \in W <=> h \in W
    BY Zenon, <1>2, <1>3, <2>3, <2>5 DEF Traces
  <2>7. (j \in V <=> f \in W) /\ (k \in V <=> h \in W)
    BY Zenon, <2>1, <2>2
  <2> HIDE DEF V
  <2> QED BY Zenon, <2>6, <2>7
<1> HIDE DEF V
<1>12. Traces(r, V, a)
  BY Zenon, <1>4, <1>10, <1>11 DEF Traces
<1> QED
  BY Zenon, <1>4, <1>6, <1>8, <1>9, <1>12 DEF Runs

\* A new item finds the reservation as the calls have left it.
LEMMA RunsAppend ==
    ASSUME NEW q, IsSeq(q), NEW bk, NEW act, NEW a, Runs(q, bk, act, a), NEW x, NEW act2,
           StepOn(x, a, a \in act, a \in act2)
    PROVE  Runs(Append(q, x), bk, act2, a)
<1>1. PICK r : r = Append(q, x)
  OBVIOUS
<1>2. /\ Len(q) \in Nat /\ DOMAIN q = 1..Len(q)
      /\ Len(r) = Len(q) + 1 /\ r[Len(q) + 1] = x
      /\ \A i \in DOMAIN q : r[i] = q[i]
  BY <1>1, AppendView
<1>3. PICK W \in SUBSET (1..(Len(q) + 1)) :
         /\ 1 \in W <=> a \in bk
         /\ Len(q) + 1 \in W <=> a \in act
         /\ Traces(q, W, a)
  BY Zenon DEF Runs
<1>4. PICK n : n = Len(q) + 1
  OBVIOUS
<1>5. n \in Nat /\ n >= 1 /\ Len(q) = n - 1 /\ Len(r) = n
  BY <1>2, <1>4
<1> DEFINE V == {j \in 1..(n + 1) : IF j = n + 1 THEN a \in act2 ELSE j \in W}
<1>6. V \in SUBSET (1..(Len(r) + 1))
  BY Zenon, <1>5
<1>7. 1 \in 1..(n + 1) /\ 1 # n + 1 /\ n + 1 \in 1..(n + 1) /\ n \in 1..(n + 1) /\ n # n + 1
  BY <1>5
<1>8. (1 \in V <=> a \in bk) /\ (Len(r) + 1 \in V <=> a \in act2)
  BY Zenon, <1>3, <1>5, <1>7
<1>9. (n \in V <=> a \in act) /\ (n + 1 \in V <=> a \in act2) /\ (n \in W <=> a \in act) /\ r[n] = x
  BY Zenon, <1>2, <1>3, <1>4, <1>7
<1>10. ASSUME NEW j \in 1..Len(r) PROVE StepOn(r[j], a, j \in V, j + 1 \in V)
  <2>1. CASE j = n
    <3> HIDE DEF V
    <3> QED BY Zenon, <1>9, <2>1 DEF StepOn
  <2>2. CASE j # n
    <3>1. /\ j \in 1..Len(q) /\ j \in 1..(n + 1) /\ j # n + 1
          /\ j + 1 \in 1..(n + 1) /\ j + 1 # n + 1
      BY <1>5, <2>2
    <3>2. (j \in V <=> j \in W) /\ (j + 1 \in V <=> j + 1 \in W)
      BY Zenon, <3>1
    <3>3. r[j] = q[j] /\ StepOn(q[j], a, j \in W, j + 1 \in W)
      BY Zenon, <1>2, <1>3, <3>1 DEF Traces
    <3> HIDE DEF V
    <3> QED BY Zenon, <3>2, <3>3 DEF StepOn
  <2> QED
    BY Zenon, <2>1, <2>2
<1>11. ASSUME NEW j \in 1..(n + 1), NEW k \in 1..(n + 1), j <= k, Quiet(r, a, j, k)
       PROVE  j \in V <=> k \in V
  <2>1. ASSUME NEW h \in 1..n, j <= h, h <= k PROVE j \in W <=> h \in W
    <3>1. \A m \in j..(h - 1) : m \in j..(k - 1) /\ m \in DOMAIN q
      BY <1>2, <1>5, <2>1
    <3>2. Quiet(q, a, j, h)
      BY Zenon, <1>2, <1>11, <3>1 DEF Quiet
    <3>3. j \in 1..n
      BY <1>5, <2>1
    <3> QED
      BY Zenon, <1>3, <1>4, <2>1, <3>2, <3>3 DEF Traces
  <2>2. CASE j = n + 1
    <3>1. k = j
      BY <1>5, <1>11, <2>2
    <3> QED
      BY Zenon, <3>1
  <2>3. CASE k # n + 1
    <3>1. k \in 1..n /\ k <= k /\ j # n + 1
      BY <1>5, <1>11, <2>3
    <3>2. j \in W <=> k \in W
      BY Zenon, <1>11, <2>1, <3>1
    <3> QED
      BY Zenon, <2>3, <3>1, <3>2
  <2>4. CASE j # n + 1 /\ k = n + 1
    <3>1. n \in 1..n /\ j <= n /\ n <= k /\ n \in j..(k - 1)
      BY <1>5, <2>4
    <3>2. j \in W <=> n \in W
      BY Zenon, <2>1, <3>1
    <3>3. a \notin Names(x.left)
      BY Zenon, <1>9, <1>11, <3>1 DEF Quiet
    <3>4. a \in act <=> a \in act2
      BY Zenon, <3>3 DEF StepOn
    <3>5. j \in V <=> j \in W
      BY Zenon, <2>4
    <3> HIDE DEF V
    <3> QED BY Zenon, <1>9, <2>4, <3>2, <3>4, <3>5
  <2> QED
    BY Zenon, <2>2, <2>3, <2>4
<1> HIDE DEF V
<1>12. Traces(r, V, a)
  BY Zenon, <1>5, <1>10, <1>11 DEF Traces
<1>13. Runs(r, bk, act2, a)
  BY Zenon, <1>6, <1>8, <1>12 DEF Runs
<1> QED
  BY Zenon, <1>1, <1>13

-----------------------------------------------------------------------------
(* The queue stays ordered                                                 *)

\* A path among fewer nodes meets fewer sets.
LEMMA ReachShrinks ==
    ASSUME NEW l, NEW es, NEW l2, DOMAIN l2 \subseteq DOMAIN l,
           NEW m \in DOMAIN l2, NEW k \in DOMAIN l2, <<m, k>> \in Reachable(l, es)
    PROVE  <<m, k>> \in Reachable(l2, es)
<1>1. \A T \in SUBSET DOMAIN l :
         /\ \A p \in es : p[1] \in T => p[2] \in T
         /\ \A p \in es : p[1] = m => p[2] \in T
         => k \in T
  BY DEF Reachable
<1>2. \A T \in SUBSET DOMAIN l2 : T \in SUBSET DOMAIN l
  BY Zenon
<1>3. <<m, k>> \in (DOMAIN l2) \X (DOMAIN l2) /\ <<m, k>>[1] = m /\ <<m, k>>[2] = k
  OBVIOUS
<1>4. \A T \in SUBSET DOMAIN l2 :
         /\ \A p \in es : p[1] \in T => p[2] \in T
         /\ \A p \in es : p[1] = <<m, k>>[1] => p[2] \in T
         => <<m, k>>[2] \in T
  BY Zenon, <1>1, <1>2, <1>3
<1> QED
  BY Zenon, <1>3, <1>4 DEF Reachable

\* The parts of an item of which a node has run.
LEMMA ItemFields ==
    ASSUME NEW x, ItemOk(x), NEW l
    PROVE  /\ ItemLeft(x, l).left = l /\ ItemLeft(x, l).stream = x.stream
           /\ ItemLeft(x, l).exec = x.exec /\ ItemLeft(x, l).names = x.names
           /\ ItemLeft(x, l).edges = x.edges
           /\ ItemLeft(x, l) = [stream |-> x.stream, exec |-> x.exec, names |-> x.names,
                                left |-> l, edges |-> x.edges]
<1>1. x = [stream |-> x.stream, exec |-> x.exec, names |-> x.names,
           left |-> x.left, edges |-> x.edges]
  BY Zenon DEF ItemOk
<1>2. PICK u, v, w, k, z : x = [stream |-> u, exec |-> v, names |-> w, left |-> k, edges |-> z]
  BY Zenon, <1>1
<1> QED
  BY SMT, <1>2 DEF ItemLeft

\* A node without predecessors runs.
LEMMA ItemShrinks ==
    ASSUME NEW x, ItemOk(x), NEW n \in DOMAIN x.left,
           \A m \in DOMAIN x.left : <<m, n>> \notin x.edges
    PROVE  ItemOk(ItemLeft(x, Without(x.left, {n})))
<1>1. PICK l : l = Without(x.left, {n})
  OBVIOUS
<1>2. PICK y : y = ItemLeft(x, l)
  OBVIOUS
<1>3. /\ y.left = l /\ y.stream = x.stream /\ y.exec = x.exec
      /\ y.names = x.names /\ y.edges = x.edges
      /\ y = [stream |-> x.stream, exec |-> x.exec, names |-> x.names,
              left |-> l, edges |-> x.edges]
  BY Zenon, <1>2, ItemFields
<1>4. DOMAIN l = DOMAIN x.left \ {n} /\ \A m \in DOMAIN l : l[m] = x.left[m]
  BY Zenon, <1>1 DEF Without
<1>5. Names(l) \subseteq x.names /\ OneAlloc(l)
  <2>1. Names(x.left) \subseteq x.names /\ OneAlloc(x.left)
    BY Zenon DEF ItemOk
  <2>2. \A m \in DOMAIN l : m \in DOMAIN x.left /\ l[m] = x.left[m]
    BY Zenon, <1>4
  <2>3. Names(l) \subseteq Names(x.left)
    BY Zenon, <2>2 DEF Names
  <2>4. OneAlloc(l)
    BY Zenon, <2>1, <2>2 DEF OneAlloc
  <2> QED
    BY Zenon, <2>1, <2>3, <2>4
<1>6. ASSUME NEW p \in x.edges PROVE p = <<p[1], p[2]>> /\ (p[1] \in DOMAIN l => p[2] \in DOMAIN l)
  <2>1. p = <<p[1], p[2]>> /\ (p[1] \in DOMAIN x.left => p[2] \in DOMAIN x.left)
    BY Zenon, <1>6 DEF ItemOk
  <2>2. p[1] \in DOMAIN x.left => p[2] # n
    BY Zenon, <2>1
  <2> QED
    BY Zenon, <1>4, <2>1, <2>2
<1>7. ASSUME NEW m \in DOMAIN l, NEW k \in DOMAIN l, Before(l, m, k)
      PROVE  <<m, k>> \in Reachable(l, x.edges)
  <2>1. m \in DOMAIN x.left /\ k \in DOMAIN x.left /\ Before(x.left, m, k)
    BY Zenon, <1>4, <1>7 DEF Before
  <2>2. <<m, k>> \in Reachable(x.left, x.edges)
    BY Zenon, <2>1 DEF ItemOk
  <2>3. DOMAIN l \subseteq DOMAIN x.left
    BY Zenon, <1>4
  <2> QED
    BY Zenon, <2>2, <2>3, ReachShrinks
<1>8. ItemOk(y)
  BY Zenon, <1>3, <1>5, <1>6, <1>7 DEF ItemOk
<1> QED
  BY Zenon, <1>1, <1>2, <1>8

\* A new item waits for those it shares a reservation with.
LEMMA QueueAppend ==
    ASSUME NEW q, QueueOk(q), NEW x, ItemOk(x),
           \A i \in DOMAIN q : \A a : a \in q[i].names /\ a \in x.names => Waits(q[i], x)
    PROVE  QueueOk(Append(q, x))
<1>1. PICK r : r = Append(q, x)
  OBVIOUS
<1>2. IsSeq(q)
  BY Zenon DEF QueueOk
<1>3. /\ Len(q) \in Nat /\ DOMAIN q = 1..Len(q) /\ IsSeq(r)
      /\ DOMAIN r = DOMAIN q \cup {Len(q) + 1} /\ r[Len(q) + 1] = x
      /\ \A i \in DOMAIN q : r[i] = q[i]
  BY <1>1, <1>2, AppendView
<1>4. \A i \in DOMAIN r : ItemOk(r[i])
  BY Zenon, <1>3 DEF QueueOk
<1>5. ASSUME NEW i \in DOMAIN r, NEW j \in DOMAIN r, NEW a, i < j, a \in r[i].names, a \in r[j].names
      PROVE  Waits(r[i], r[j])
  <2>1. i \in DOMAIN q
    <3>1. \A k \in DOMAIN r : k \in Nat /\ k <= Len(q) + 1
      BY <1>3
    <3>2. i # Len(q) + 1
      BY <1>3, <1>5, <3>1
    <3> QED
      BY Zenon, <1>3, <3>2
  <2>2. CASE j \in DOMAIN q
    BY Zenon, <1>3, <1>5, <2>1, <2>2 DEF QueueOk
  <2>3. CASE j = Len(q) + 1
    BY Zenon, <1>3, <1>5, <2>1, <2>3
  <2> QED
    BY Zenon, <1>3, <2>2, <2>3
<1>6. QueueOk(r)
  BY Zenon, <1>3, <1>4, <1>5 DEF QueueOk
<1> QED
  BY Zenon, <1>1, <1>6

\* An item with the same names, stream and executable takes the place of one.
LEMMA QueueReplace ==
    ASSUME NEW q, QueueOk(q), NEW i \in DOMAIN q, NEW r, IsSeq(r), DOMAIN r = DOMAIN q,
           \A j \in DOMAIN q \ {i} : r[j] = q[j], ItemOk(r[i]),
           r[i].stream = q[i].stream, r[i].exec = q[i].exec, r[i].names = q[i].names
    PROVE  QueueOk(r)
<1>1. \A j \in DOMAIN q : /\ ItemOk(r[j]) /\ r[j].stream = q[j].stream
                          /\ r[j].exec = q[j].exec /\ r[j].names = q[j].names
  BY Zenon DEF QueueOk
<1>2. ASSUME NEW j \in DOMAIN r, NEW k \in DOMAIN r, NEW a, j < k, a \in r[j].names, a \in r[k].names
      PROVE  Waits(r[j], r[k])
  <2>1. Waits(q[j], q[k])
    BY Zenon, <1>1, <1>2 DEF QueueOk
  <2> QED
    BY Zenon, <1>1, <2>1 DEF Waits
<1> QED
  BY Zenon, <1>1, <1>2 DEF QueueOk

\* An item leaves the queue.
LEMMA QueueRemove ==
    ASSUME NEW q, QueueOk(q), NEW i \in DOMAIN q, NEW r, IsSeq(r), DOMAIN r = 1..Len(r),
           Len(r) = Len(q) - 1,
           \A j \in 1..Len(r) : r[j] = IF j < i THEN q[j] ELSE q[j + 1]
    PROVE  QueueOk(r)
<1>1. Len(q) \in Nat /\ DOMAIN q = 1..Len(q) /\ i \in 1..Len(q)
  BY SeqView DEF QueueOk
<1>2. \A j \in DOMAIN r : \E k \in DOMAIN q : r[j] = q[k] /\ k = IF j < i THEN j ELSE j + 1
  BY <1>1
<1>3. \A j \in DOMAIN r : ItemOk(r[j])
  BY Zenon, <1>2 DEF QueueOk
<1>4. ASSUME NEW j \in DOMAIN r, NEW k \in DOMAIN r, NEW a, j < k, a \in r[j].names, a \in r[k].names
      PROVE  Waits(r[j], r[k])
  <2>1. PICK m \in DOMAIN q : r[j] = q[m] /\ m = IF j < i THEN j ELSE j + 1
    BY Zenon, <1>2
  <2>2. PICK n \in DOMAIN q : r[k] = q[n] /\ n = IF k < i THEN k ELSE k + 1
    BY Zenon, <1>2
  <2>3. m < n
    <3>1. j \in Nat /\ k \in Nat /\ i \in Nat
      BY <1>1
    <3> QED
      BY <1>4, <2>1, <2>2, <3>1
  <2> QED
    BY Zenon, <1>4, <2>1, <2>2, <2>3 DEF QueueOk
<1> QED
  BY Zenon, <1>3, <1>4 DEF QueueOk

-----------------------------------------------------------------------------
(* What is mapped                                                          *)

\* Executables that map the same, with at least the same marks.
LEMMA MapKept ==
    ASSUME NEW q, NEW execs, NEW act, MapOk(q, execs, act), NEW execs2,
           \A e \in DOMAIN execs : \A a \in Creates(execs[e].nodes) :
              /\ e \in DOMAIN execs2 /\ a \in Creates(execs2[e].nodes)
              /\ MarksOf(execs[e], a) \subseteq MarksOf(execs2[e], a)
    PROVE  MapOk(q, execs2, act)
<1>1. ASSUME NEW a \in act PROVE \E e \in DOMAIN execs2 : a \in Creates(execs2[e].nodes)
  BY Zenon, <1>1 DEF MapOk
<1>2. ASSUME NEW i \in DOMAIN q, NEW a \in q[i].names \ act
      PROVE  \E j \in DOMAIN q, e \in DOMAIN execs2 :
                /\ i <= j /\ a \in q[j].names
                /\ a \in Creates(execs2[e].nodes) /\ q[j].stream \in MarksOf(execs2[e], a)
  <2>1. \E j \in DOMAIN q, e \in DOMAIN execs :
           /\ i <= j /\ a \in q[j].names
           /\ a \in Creates(execs[e].nodes) /\ q[j].stream \in MarksOf(execs[e], a)
    BY Zenon DEF MapOk
  <2> QED
    BY Zenon, <2>1
<1> QED
  BY Zenon, <1>1, <1>2 DEF MapOk

\* Work is submitted: the executables keep their marks on the reservations the
\* new item does not name, and are marked with its stream for those it leaves
\* inactive.
LEMMA MapAppend ==
    ASSUME NEW q, IsSeq(q), NEW execs, NEW act, MapOk(q, execs, act), NEW x, NEW execs2, NEW act2,
           \A e \in DOMAIN execs : \A a \in Creates(execs[e].nodes) :
              /\ e \in DOMAIN execs2 /\ a \in Creates(execs2[e].nodes)
              /\ a \notin x.names => MarksOf(execs[e], a) \subseteq MarksOf(execs2[e], a),
           \A a : a \notin x.names => (a \in act2 <=> a \in act),
           \A a \in x.names : \E e \in DOMAIN execs2 :
              /\ a \in Creates(execs2[e].nodes)
              /\ a \notin act2 => x.stream \in MarksOf(execs2[e], a)
    PROVE  MapOk(Append(q, x), execs2, act2)
<1>1. PICK r : r = Append(q, x)
  OBVIOUS
<1>2. PICK n : n = Len(q) + 1
  OBVIOUS
<1>3. /\ DOMAIN r = DOMAIN q \cup {n} /\ r[n] = x
      /\ \A i \in DOMAIN q : r[i] = q[i]
  BY <1>1, <1>2, AppendView
<1>4. \A i \in DOMAIN r : i <= n
  <2>1. \A i \in DOMAIN q : i \in Nat /\ i <= Len(q)
    BY Zenon, SeqView
  <2>2. Len(q) \in Nat
    BY Zenon, SeqView
  <2> QED
    BY <1>2, <1>3, <2>1, <2>2
<1>5. ASSUME NEW a \in act2 PROVE \E e \in DOMAIN execs2 : a \in Creates(execs2[e].nodes)
  <2>1. CASE a \in x.names
    BY Zenon, <2>1
  <2>2. CASE a \notin x.names
    BY Zenon, <2>2, <1>5 DEF MapOk
  <2> QED
    BY Zenon, <2>1, <2>2
<1>6. ASSUME NEW i \in DOMAIN r, NEW a \in r[i].names \ act2
      PROVE  \E j \in DOMAIN r, e \in DOMAIN execs2 :
                /\ i <= j /\ a \in r[j].names
                /\ a \in Creates(execs2[e].nodes) /\ r[j].stream \in MarksOf(execs2[e], a)
  <2>1. CASE a \in x.names
    BY Zenon, <1>3, <1>4, <2>1
  <2>2. CASE a \notin x.names
    <3>1. i \in DOMAIN q /\ a \in q[i].names \ act
      BY Zenon, <1>3, <2>2
    <3>2. \E j \in DOMAIN q, e \in DOMAIN execs :
             /\ i <= j /\ a \in q[j].names
             /\ a \in Creates(execs[e].nodes) /\ q[j].stream \in MarksOf(execs[e], a)
      BY Zenon, <3>1 DEF MapOk
    <3>3. PICK j \in DOMAIN q : \E e \in DOMAIN execs :
             /\ i <= j /\ a \in q[j].names
             /\ a \in Creates(execs[e].nodes) /\ q[j].stream \in MarksOf(execs[e], a)
      BY Zenon, <3>2
    <3>4. PICK e \in DOMAIN execs :
             /\ i <= j /\ a \in q[j].names
             /\ a \in Creates(execs[e].nodes) /\ q[j].stream \in MarksOf(execs[e], a)
      BY Zenon, <3>3
    <3>5. j \in DOMAIN r /\ r[j] = q[j]
      BY Zenon, <1>3
    <3>6. e \in DOMAIN execs2 /\ a \in Creates(execs2[e].nodes) /\ q[j].stream \in MarksOf(execs2[e], a)
      BY Zenon, <2>2, <3>4
    <3> QED
      BY Zenon, <3>4, <3>5, <3>6
  <2> QED
    BY Zenon, <2>1, <2>2
<1>7. MapOk(r, execs2, act2)
  BY Zenon, <1>5, <1>6 DEF MapOk
<1> QED
  BY Zenon, <1>1, <1>7

\* A node of an item runs.
LEMMA MapReplace ==
    ASSUME NEW q, NEW execs, NEW act, MapOk(q, execs, act), NEW r, DOMAIN r = DOMAIN q,
           \A i \in DOMAIN q : r[i].names = q[i].names /\ r[i].stream = q[i].stream
    PROVE  MapOk(r, execs, act)
<1>1. \A a \in act : \E e \in DOMAIN execs : a \in Creates(execs[e].nodes)
  BY Zenon DEF MapOk
<1>2. ASSUME NEW i \in DOMAIN r, NEW a \in r[i].names \ act
      PROVE  \E j \in DOMAIN r, e \in DOMAIN execs :
                /\ i <= j /\ a \in r[j].names
                /\ a \in Creates(execs[e].nodes) /\ r[j].stream \in MarksOf(execs[e], a)
  <2>1. \E j \in DOMAIN q, e \in DOMAIN execs :
           /\ i <= j /\ a \in q[j].names
           /\ a \in Creates(execs[e].nodes) /\ q[j].stream \in MarksOf(execs[e], a)
    BY Zenon DEF MapOk
  <2> QED
    BY Zenon, <2>1
<1> QED
  BY Zenon, <1>1, <1>2 DEF MapOk

\* An item leaves the queue that names nothing the items before it name.
LEMMA MapRemove ==
    ASSUME NEW q, IsSeq(q), NEW execs, NEW act, MapOk(q, execs, act), NEW i \in DOMAIN q,
           \A j \in 1..(i - 1) : \A a \in q[i].names : a \notin q[j].names,
           NEW r, DOMAIN r = 1..Len(r), Len(r) = Len(q) - 1,
           \A j \in 1..Len(r) : r[j] = IF j < i THEN q[j] ELSE q[j + 1]
    PROVE  MapOk(r, execs, act)
<1>1. Len(q) \in Nat /\ DOMAIN q = 1..Len(q) /\ i \in 1..Len(q)
  BY SeqView
<1>2. \A a \in act : \E e \in DOMAIN execs : a \in Creates(execs[e].nodes)
  BY Zenon DEF MapOk
<1>3. ASSUME NEW k \in DOMAIN r, NEW a \in r[k].names \ act
      PROVE  \E j \in DOMAIN r, e \in DOMAIN execs :
                /\ k <= j /\ a \in r[j].names
                /\ a \in Creates(execs[e].nodes) /\ r[j].stream \in MarksOf(execs[e], a)
  <2>1. PICK m : m = IF k < i THEN k ELSE k + 1
    OBVIOUS
  <2>2. m \in DOMAIN q /\ m # i /\ r[k] = q[m]
    BY <1>1, <2>1
  <2>3. \E j \in DOMAIN q, e \in DOMAIN execs :
           /\ m <= j /\ a \in q[j].names
           /\ a \in Creates(execs[e].nodes) /\ q[j].stream \in MarksOf(execs[e], a)
    BY Zenon, <2>2 DEF MapOk
  <2>4. PICK j \in DOMAIN q : \E e \in DOMAIN execs :
           /\ m <= j /\ a \in q[j].names
           /\ a \in Creates(execs[e].nodes) /\ q[j].stream \in MarksOf(execs[e], a)
    BY Zenon, <2>3
  <2>5. PICK e \in DOMAIN execs :
           /\ m <= j /\ a \in q[j].names
           /\ a \in Creates(execs[e].nodes) /\ q[j].stream \in MarksOf(execs[e], a)
    BY Zenon, <2>4
  <2>6. j # i
    <3>1. SUFFICES ASSUME j = i PROVE FALSE
      BY Zenon
    <3>2. m <= i
      BY Zenon, <2>5, <3>1
    <3>3. m \in 1..(i - 1)
      BY <1>1, <2>2, <3>2
    <3>4. a \in q[i].names /\ a \in q[m].names
      BY Zenon, <2>2, <2>5, <3>1
    <3> QED
      BY Zenon, <3>3, <3>4
  <2>7. PICK l : l = IF j < i THEN j ELSE j - 1
    OBVIOUS
  <2>8. k \in 1..Len(r) /\ m <= j
    BY Zenon, <2>5
  <2>9. l \in 1..Len(r) /\ k <= l /\ (l < i => l = j) /\ (~(l < i) => l + 1 = j)
    BY <1>1, <2>1, <2>2, <2>6, <2>7, <2>8
  <2>10. l \in DOMAIN r /\ r[l] = q[j]
    BY Zenon, <2>9
  <2> QED
    BY Zenon, <2>5, <2>9, <2>10
<1> QED
  BY Zenon, <1>2, <1>3 DEF MapOk

\* The first loop of retire_graph_memory holds the executables that count.
LEMMA MapRetire ==
    ASSUME NEW q, NEW execs, NEW allocs, MapOk(q, execs, ActiveIn(allocs))
    PROVE  MapOk(q, ExecsLeft(execs, allocs, Busy(q)), ActiveIn(allocs))
<1>1. PICK act, left : act = ActiveIn(allocs) /\ left = ExecsLeft(execs, allocs, Busy(q))
  OBVIOUS
<1>2. \A e \in DOMAIN execs : Held(execs[e], allocs, Busy(q)) => e \in DOMAIN left /\ left[e] = execs[e]
  BY Zenon, <1>1 DEF ExecsLeft
<1>3. ASSUME NEW a \in act PROVE \E e \in DOMAIN left : a \in Creates(left[e].nodes)
  <2>1. PICK e \in DOMAIN execs : a \in Creates(execs[e].nodes)
    BY Zenon, <1>1, <1>3 DEF MapOk
  <2>2. Held(execs[e], allocs, Busy(q))
    BY Zenon, <1>1, <1>3, <2>1 DEF Held, ActiveIn
  <2> QED
    BY Zenon, <1>2, <2>1, <2>2
<1>4. ASSUME NEW i \in DOMAIN q, NEW a \in q[i].names \ act
      PROVE  \E j \in DOMAIN q, e \in DOMAIN left :
                /\ i <= j /\ a \in q[j].names
                /\ a \in Creates(left[e].nodes) /\ q[j].stream \in MarksOf(left[e], a)
  <2>1. \E j \in DOMAIN q, e \in DOMAIN execs :
           /\ i <= j /\ a \in q[j].names
           /\ a \in Creates(execs[e].nodes) /\ q[j].stream \in MarksOf(execs[e], a)
    BY Zenon, <1>1 DEF MapOk
  <2>2. PICK j \in DOMAIN q : \E e \in DOMAIN execs :
           /\ i <= j /\ a \in q[j].names
           /\ a \in Creates(execs[e].nodes) /\ q[j].stream \in MarksOf(execs[e], a)
    BY Zenon, <2>1
  <2>3. PICK e \in DOMAIN execs :
           /\ i <= j /\ a \in q[j].names
           /\ a \in Creates(execs[e].nodes) /\ q[j].stream \in MarksOf(execs[e], a)
    BY Zenon, <2>2
  <2>4. q[j].stream \in Busy(q)
    BY Zenon DEF Busy
  <2>5. q[j].stream \in execs[e].last \cup {execs[e].pending[b] : b \in DOMAIN execs[e].pending}
    BY Zenon, <2>3 DEF MarksOf
  <2>6. Held(execs[e], allocs, Busy(q))
    BY Zenon, <2>4, <2>5 DEF Held
  <2> QED
    BY Zenon, <1>2, <2>3, <2>6
<1>5. MapOk(q, left, act)
  BY Zenon, <1>3, <1>4 DEF MapOk
<1> QED
  BY Zenon, <1>1, <1>5

\* The second loop keeps what is active.
LEMMA ActiveLeft ==
    ASSUME NEW execs, NEW allocs, NEW gs
    PROVE  ActiveIn(AllocsLeft(execs, allocs, gs)) = ActiveIn(allocs)
<1>1. PICK left : left = AllocsLeft(execs, allocs, gs)
  OBVIOUS
<1>2. /\ \A a \in DOMAIN left : a \in DOMAIN allocs /\ left[a] = allocs[a]
      /\ \A a \in DOMAIN allocs : allocs[a].active => a \in DOMAIN left /\ left[a] = allocs[a]
  BY Zenon, <1>1 DEF AllocsLeft
<1>3. ActiveIn(left) = ActiveIn(allocs)
  BY Zenon, <1>2 DEF ActiveIn
<1> QED
  BY Zenon, <1>1, <1>3

-----------------------------------------------------------------------------
(* The tables behind a launch                                              *)

\* The graphs whose memory is not frozen.
Open(gs) == {g \in DOMAIN gs : ~gs[g]}

\* The ids in the tables have been given out, and nodes are of live graphs.
IdsOk(D, ns, al, ids) ==
    /\ D \subseteq 1..ids.graph /\ DOMAIN al \subseteq 1..ids.alloc
    /\ \A a \in DOMAIN al : al[a].graph \in 1..ids.graph
    /\ \A n \in DOMAIN ns : /\ n \in 1..ids.node /\ ns[n].graph \in D
                            /\ ns[n].alloc \in 1..ids.alloc

\* Dependencies are between nodes of one graph.
EdgesOk(ns, es) ==
    \A p \in es : /\ p = <<p[1], p[2]>> /\ p[1] \in DOMAIN ns /\ p[2] \in DOMAIN ns
                  /\ ns[p[1]].graph = ns[p[2]].graph

\* A reservation is paired if a node frees it; while its graph lives, it has
\* the free node if it is paired.
PairsOk(D, ns, al) ==
    /\ \A n \in DOMAIN ns : ns[n].alloc \in DOMAIN al =>
          /\ ns[n].kind = "free" => al[ns[n].alloc].paired
          /\ ns[n].kind = "alloc" => al[ns[n].alloc].graph = ns[n].graph
    /\ \A a \in DOMAIN al : al[a].paired /\ al[a].graph \in D =>
          \E n \in DOMAIN ns : /\ ns[n].kind = "free" /\ ns[n].alloc = a
                               /\ ns[n].graph = al[a].graph

\* The same of the snapshot an executable has, whose graph is frozen if it
\* creates reservations.
ExecOk(x, al, open, ids) ==
    /\ x.graph \in 1..ids.graph /\ Names(x.nodes) \subseteq 1..ids.alloc
    /\ \A p \in x.edges : p = <<p[1], p[2]>> /\ p[1] \in DOMAIN x.nodes /\ p[2] \in DOMAIN x.nodes
    /\ OneAlloc(x.nodes)
    /\ \A a \in Creates(x.nodes) : x.graph \notin open
    /\ \A a \in DOMAIN al :
          /\ a \in Frees(x.nodes) => al[a].paired
          /\ a \in Creates(x.nodes) => al[a].graph = x.graph
          /\ a \in Creates(x.nodes) /\ al[a].paired => a \in Frees(x.nodes)

ExecsOk(execs, al, open, ids) == \A e \in DOMAIN execs : ExecOk(execs[e], al, open, ids)

Tables ==
    /\ IdsOk(DOMAIN sGraph, nodes, sAlloc, next) /\ EdgesOk(nodes, edges)
    /\ OneAlloc(nodes) /\ PairsOk(DOMAIN sGraph, nodes, sAlloc)
    /\ ExecsOk(sExec, sAlloc, Open(sGraph), next)

\* What a snapshot creates and frees, it names.
LEMMA NamesAll ==
    ASSUME NEW ns
    PROVE  Creates(ns) \subseteq Names(ns) /\ Frees(ns) \subseteq Names(ns)
BY Zenon DEF Creates, Frees, Names

\* An executable as it was: ids are only given out, graphs only frozen or
\* created, and reservations only retired, created, or paired while their
\* graph is open.
LEMMA ExecKept ==
    ASSUME NEW x, NEW al, NEW open, NEW ids, ExecOk(x, al, open, ids),
           NEW x2, x2.graph = x.graph, x2.nodes = x.nodes, x2.edges = x.edges,
           NEW al2, NEW open2, NEW ids2,
           1..ids.graph \subseteq 1..ids2.graph, 1..ids.alloc \subseteq 1..ids2.alloc,
           \A g \in open2 : g \in open \/ g \notin 1..ids.graph,
           \A a \in DOMAIN al2 : \/ a \notin 1..ids.alloc
                                 \/ /\ a \in DOMAIN al /\ al2[a].graph = al[a].graph
                                    /\ al[a].paired => al2[a].paired
                                    /\ al2[a].paired => al[a].paired \/ al[a].graph \in open
    PROVE  ExecOk(x2, al2, open2, ids2)
<1>1. x2.graph \in 1..ids2.graph /\ Names(x2.nodes) \subseteq 1..ids2.alloc
  BY Zenon DEF ExecOk
<1>2. \A p \in x2.edges : p = <<p[1], p[2]>> /\ p[1] \in DOMAIN x2.nodes /\ p[2] \in DOMAIN x2.nodes
  BY Zenon DEF ExecOk
<1>3. OneAlloc(x2.nodes)
  BY Zenon DEF ExecOk
<1>4. \A a \in Creates(x2.nodes) : x2.graph \notin open2
  BY Zenon DEF ExecOk
<1>5. ASSUME NEW a \in DOMAIN al2
      PROVE  /\ a \in Frees(x2.nodes) => al2[a].paired
             /\ a \in Creates(x2.nodes) => al2[a].graph = x2.graph
             /\ a \in Creates(x2.nodes) /\ al2[a].paired => a \in Frees(x2.nodes)
  <2>1. CASE a \notin 1..ids.alloc
    <3>1. a \notin Names(x2.nodes)
      BY Zenon, <2>1 DEF ExecOk
    <3> QED
      BY Zenon, <3>1, NamesAll
  <2>2. CASE /\ a \in DOMAIN al /\ al2[a].graph = al[a].graph
             /\ al[a].paired => al2[a].paired
             /\ al2[a].paired => al[a].paired \/ al[a].graph \in open
    <3>1. /\ a \in Frees(x.nodes) => al[a].paired
          /\ a \in Creates(x.nodes) => al[a].graph = x.graph /\ x.graph \notin open
          /\ a \in Creates(x.nodes) /\ al[a].paired => a \in Frees(x.nodes)
      BY Zenon, <2>2 DEF ExecOk
    <3> QED
      BY Zenon, <2>2, <3>1
  <2> QED
    BY Zenon, <2>1, <2>2
<1> QED
  BY Zenon, <1>1, <1>2, <1>3, <1>4, <1>5 DEF ExecOk

\* Reservations are retired, or change their activity.
LEMMA PairsKept ==
    ASSUME NEW D, NEW ns, NEW al, PairsOk(D, ns, al), NEW al2,
           \A a \in DOMAIN al2 : /\ a \in DOMAIN al /\ al2[a].graph = al[a].graph
                                 /\ (al2[a].paired <=> al[a].paired)
    PROVE  PairsOk(D, ns, al2)
<1>1. ASSUME NEW n \in DOMAIN ns, ns[n].alloc \in DOMAIN al2
      PROVE  /\ ns[n].kind = "free" => al2[ns[n].alloc].paired
             /\ ns[n].kind = "alloc" => al2[ns[n].alloc].graph = ns[n].graph
  <2>1. PICK a : a = ns[n].alloc
    OBVIOUS
  <2>2. /\ a \in DOMAIN al /\ al2[a].graph = al[a].graph
        /\ al[a].paired => al2[a].paired
    BY Zenon, <1>1, <2>1
  <2>3. /\ ns[n].kind = "free" => al[a].paired
        /\ ns[n].kind = "alloc" => al[a].graph = ns[n].graph
    BY Zenon, <2>1, <2>2 DEF PairsOk
  <2> QED
    BY Zenon, <2>1, <2>2, <2>3
<1>2. ASSUME NEW a \in DOMAIN al2, al2[a].paired, al2[a].graph \in D
      PROVE  \E n \in DOMAIN ns : /\ ns[n].kind = "free" /\ ns[n].alloc = a
                                  /\ ns[n].graph = al2[a].graph
  <2>1. a \in DOMAIN al /\ al[a].paired /\ al[a].graph \in D /\ al2[a].graph = al[a].graph
    BY Zenon, <1>2
  <2>2. \E n \in DOMAIN ns : ns[n].kind = "free" /\ ns[n].alloc = a /\ ns[n].graph = al[a].graph
    BY Zenon, <2>1 DEF PairsOk
  <2> QED
    BY Zenon, <2>1, <2>2
<1> QED
  BY Zenon, <1>1, <1>2 DEF PairsOk

\* A call that leaves graphs, snapshots and ids alone.
LEMMA TablesKept ==
    ASSUME Tables, UNCHANGED <<sGraph, nodes, edges, next>>,
           \A a \in DOMAIN sAlloc' :
              /\ a \in DOMAIN sAlloc /\ sAlloc'[a].graph = sAlloc[a].graph
              /\ (sAlloc'[a].paired <=> sAlloc[a].paired),
           \A e \in DOMAIN sExec' :
              /\ e \in DOMAIN sExec /\ sExec'[e].graph = sExec[e].graph
              /\ sExec'[e].nodes = sExec[e].nodes /\ sExec'[e].edges = sExec[e].edges
    PROVE  Tables'
<1>1. PICK D, open : D = DOMAIN sGraph /\ open = Open(sGraph)
  OBVIOUS
<1>2. /\ IdsOk(D, nodes, sAlloc, next) /\ EdgesOk(nodes, edges)
      /\ OneAlloc(nodes) /\ PairsOk(D, nodes, sAlloc)
      /\ ExecsOk(sExec, sAlloc, open, next)
  BY Zenon, <1>1 DEF Tables
<1>3. IdsOk(D, nodes, sAlloc', next)
  BY Zenon, <1>2 DEF IdsOk
<1>4. PairsOk(D, nodes, sAlloc')
  BY Zenon, <1>2, PairsKept
<1>5. ASSUME NEW e \in DOMAIN sExec' PROVE ExecOk(sExec'[e], sAlloc', open, next)
  <2>1. ExecOk(sExec[e], sAlloc, open, next)
    BY Zenon, <1>2 DEF ExecsOk
  <2>2. \A a \in DOMAIN sAlloc' : \/ a \notin 1..next.alloc
                                  \/ /\ a \in DOMAIN sAlloc /\ sAlloc'[a].graph = sAlloc[a].graph
                                     /\ sAlloc[a].paired => sAlloc'[a].paired
                                     /\ sAlloc'[a].paired => sAlloc[a].paired \/ sAlloc[a].graph \in open
    BY Zenon
  <2>3. /\ sExec'[e].graph = sExec[e].graph /\ sExec'[e].nodes = sExec[e].nodes
        /\ sExec'[e].edges = sExec[e].edges
    BY Zenon
  <2> QED
    BY <2>1, <2>2, <2>3, ExecKept
<1>6. ExecsOk(sExec', sAlloc', open, next)
  BY Zenon, <1>5 DEF ExecsOk
<1> QED
  BY Zenon, <1>1, <1>2, <1>3, <1>4, <1>6 DEF Tables

\* A node is added, after nodes of its graph: the allocation node of a new
\* reservation, the free node of one that gets paired while its graph is
\* open, or another node.
LEMMA TablesNewNode ==
    ASSUME IInv, Tables, NEW g \in DOMAIN sGraph, NEW kind, NEW a, NEW deps,
           NewNode(g, kind, a, deps), UNCHANGED <<sGraph, sExec>>,
           next'.graph = next.graph, next'.node = next.node + 1,
           1..next.alloc \subseteq 1..next'.alloc, a \in 1..next'.alloc,
           DOMAIN sAlloc' = DOMAIN sAlloc \cup {a},
           \A b \in DOMAIN sAlloc : b # a => sAlloc'[b] = sAlloc[b],
           kind = "alloc" => /\ a \notin 1..next.alloc
                             /\ ~sAlloc'[a].paired /\ sAlloc'[a].graph = g,
           kind # "alloc" => /\ a \in DOMAIN sAlloc /\ sAlloc'[a].graph = sAlloc[a].graph
                             /\ sAlloc[a].paired => sAlloc'[a].paired,
           kind = "free" => /\ sAlloc'[a].paired /\ sAlloc[a].graph = g
                            /\ g \in Open(sGraph),
           kind \notin {"alloc", "free"} => (sAlloc'[a].paired => sAlloc[a].paired)
    PROVE  Tables'
<1>1. PICK n, v, D, open :
         /\ n = next.node + 1 /\ v = [graph |-> g, kind |-> kind, alloc |-> a]
         /\ D = DOMAIN sGraph /\ open = Open(sGraph)
  OBVIOUS
<1>2. v.graph = g /\ v.kind = kind /\ v.alloc = a
  BY <1>1
<1>3. /\ nodes' = With(nodes, n, v) /\ edges' = edges \cup (deps \X {n})
      /\ deps \subseteq NodesOf(g)
  BY Zenon, <1>1 DEF NewNode
<1>4. /\ IdsOk(D, nodes, sAlloc, next) /\ EdgesOk(nodes, edges)
      /\ OneAlloc(nodes) /\ PairsOk(D, nodes, sAlloc)
      /\ ExecsOk(sExec, sAlloc, open, next)
  BY Zenon, <1>1 DEF Tables
<1>5. next.node \in Nat /\ next.graph \in Nat
  BY Parts DEF Ids
<1>6. n \notin 1..next.node /\ 1..next.node \subseteq 1..next'.node /\ n \in 1..next'.node
  BY <1>1, <1>5
<1>7. n \notin DOMAIN nodes
  BY Zenon, <1>4, <1>6 DEF IdsOk
<1>8. /\ DOMAIN nodes' = DOMAIN nodes \cup {n} /\ nodes'[n] = v
      /\ \A m \in DOMAIN nodes : nodes'[m] = nodes[m] /\ m # n
  <2>1. /\ DOMAIN With(nodes, n, v) = DOMAIN nodes \cup {n} /\ With(nodes, n, v)[n] = v
        /\ \A m \in DOMAIN nodes : m # n => With(nodes, n, v)[m] = nodes[m]
    BY Zenon DEF With
  <2> QED
    BY Zenon, <1>3, <1>7, <2>1
<1>9. \A m \in DOMAIN nodes : nodes[m].alloc \in 1..next.alloc
  BY Zenon, <1>4 DEF IdsOk
<1>10. sAlloc'[a].graph \in 1..next.graph
  <2>1. g \in 1..next.graph
    BY Zenon, <1>1, <1>4 DEF IdsOk
  <2>2. a \in DOMAIN sAlloc => sAlloc[a].graph \in 1..next.graph
    BY Zenon, <1>4 DEF IdsOk
  <2> QED
    BY Zenon, <2>1, <2>2
<1>11. IdsOk(D, nodes', sAlloc', next')
  <2>1. D \subseteq 1..next'.graph /\ DOMAIN sAlloc' \subseteq 1..next'.alloc
    BY Zenon, <1>4 DEF IdsOk
  <2>2. ASSUME NEW b \in DOMAIN sAlloc' PROVE sAlloc'[b].graph \in 1..next'.graph
    <3>1. CASE b = a
      BY Zenon, <1>10, <3>1
    <3>2. CASE b # a
      BY Zenon, <1>4, <3>2 DEF IdsOk
    <3> QED
      BY Zenon, <3>1, <3>2
  <2>3. ASSUME NEW m \in DOMAIN nodes'
        PROVE  /\ m \in 1..next'.node /\ nodes'[m].graph \in D
               /\ nodes'[m].alloc \in 1..next'.alloc
    <3>1. CASE m = n
      <4>1. nodes'[m].graph = g /\ nodes'[m].alloc = a
        BY Zenon, <1>2, <1>8, <3>1
      <4>2. g \in D
        BY Zenon, <1>1
      <4> QED
        BY Zenon, <1>6, <3>1, <4>1, <4>2
    <3>2. CASE m \in DOMAIN nodes
      <4>1. m \in 1..next.node /\ nodes[m].graph \in D /\ nodes[m].alloc \in 1..next.alloc
        BY Zenon, <1>4, <3>2 DEF IdsOk
      <4> QED
        BY Zenon, <1>6, <1>8, <3>2, <4>1
    <3> QED
      BY Zenon, <1>8, <3>1, <3>2
  <2> QED
    BY Zenon, <2>1, <2>2, <2>3 DEF IdsOk
<1>12. EdgesOk(nodes', edges')
  <2>1. SUFFICES ASSUME NEW p \in edges'
                 PROVE  /\ p = <<p[1], p[2]>> /\ p[1] \in DOMAIN nodes' /\ p[2] \in DOMAIN nodes'
                        /\ nodes'[p[1]].graph = nodes'[p[2]].graph
    BY Zenon DEF EdgesOk
  <2>2. CASE p \in edges
    <3>1. /\ p = <<p[1], p[2]>> /\ p[1] \in DOMAIN nodes /\ p[2] \in DOMAIN nodes
          /\ nodes[p[1]].graph = nodes[p[2]].graph
      BY Zenon, <1>4, <2>2 DEF EdgesOk
    <3> QED
      BY Zenon, <1>8, <3>1
  <2>3. CASE p \in deps \X {n}
    <3>1. p = <<p[1], p[2]>> /\ p[1] \in deps /\ p[2] = n
      BY <2>3
    <3>2. p[1] \in DOMAIN nodes /\ nodes[p[1]].graph = g
      BY Zenon, <1>3, <3>1 DEF NodesOf
    <3>3. nodes'[p[1]] = nodes[p[1]] /\ nodes'[p[2]] = v
      BY Zenon, <1>8, <3>1, <3>2
    <3> QED
      BY Zenon, <1>2, <1>8, <3>1, <3>2, <3>3
  <2> QED
    BY Zenon, <1>3, <2>2, <2>3
<1>13. OneAlloc(nodes')
  <2>1. SUFFICES ASSUME NEW i \in DOMAIN nodes', NEW j \in DOMAIN nodes', nodes'[i].kind = "alloc",
                        nodes'[j].kind = "alloc", nodes'[i].alloc = nodes'[j].alloc
                 PROVE  i = j
    BY Zenon DEF OneAlloc
  <2>2. ASSUME NEW m \in DOMAIN nodes, kind = "alloc" PROVE nodes[m].alloc # a
    BY Zenon, <1>9, <2>2
  <2>3. CASE i \in DOMAIN nodes /\ j \in DOMAIN nodes
    BY Zenon, <1>4, <1>8, <2>1, <2>3 DEF OneAlloc
  <2>4. CASE i \in DOMAIN nodes /\ j = n
    BY Zenon, <1>2, <1>8, <2>1, <2>2, <2>4
  <2>5. CASE i = n /\ j \in DOMAIN nodes
    BY Zenon, <1>2, <1>8, <2>1, <2>2, <2>5
  <2> QED
    BY Zenon, <1>8, <2>3, <2>4, <2>5
<1>14. PairsOk(D, nodes', sAlloc')
  <2>1. ASSUME NEW m \in DOMAIN nodes', nodes'[m].alloc \in DOMAIN sAlloc'
        PROVE  /\ nodes'[m].kind = "free" => sAlloc'[nodes'[m].alloc].paired
               /\ nodes'[m].kind = "alloc" => sAlloc'[nodes'[m].alloc].graph = nodes'[m].graph
    <3>1. CASE m = n
      BY Zenon, <1>2, <1>8, <3>1
    <3>2. CASE m \in DOMAIN nodes
      <4>1. PICK b : b = nodes[m].alloc
        OBVIOUS
      <4>2. b \in DOMAIN sAlloc' /\ b \in 1..next.alloc /\ nodes'[m] = nodes[m]
        BY Zenon, <1>8, <1>9, <2>1, <3>2, <4>1
      <4>3. b \in DOMAIN sAlloc
        BY Zenon, <4>2
      <4>4. sAlloc'[b].graph = sAlloc[b].graph /\ (sAlloc[b].paired => sAlloc'[b].paired)
        <5>1. CASE b = a
          BY Zenon, <4>2, <5>1
        <5>2. CASE b # a
          BY Zenon, <4>3, <5>2
        <5> QED
          BY Zenon, <5>1, <5>2
      <4>5. /\ nodes[m].kind = "free" => sAlloc[b].paired
            /\ nodes[m].kind = "alloc" => sAlloc[b].graph = nodes[m].graph
        BY Zenon, <1>4, <3>2, <4>1, <4>3 DEF PairsOk
      <4> QED
        BY Zenon, <4>1, <4>2, <4>4, <4>5
    <3> QED
      BY Zenon, <1>8, <3>1, <3>2
  <2>2. ASSUME NEW b \in DOMAIN sAlloc', sAlloc'[b].paired, sAlloc'[b].graph \in D
        PROVE  \E m \in DOMAIN nodes' : /\ nodes'[m].kind = "free" /\ nodes'[m].alloc = b
                                        /\ nodes'[m].graph = sAlloc'[b].graph
    <3>1. CASE b = a /\ kind = "free"
      <4>1. n \in DOMAIN nodes' /\ nodes'[n].kind = "free" /\ nodes'[n].alloc = b
        BY Zenon, <1>2, <1>8, <3>1
      <4>2. nodes'[n].graph = sAlloc'[b].graph
        BY Zenon, <1>2, <1>8, <3>1
      <4> QED
        BY Zenon, <4>1, <4>2
    <3>2. CASE b # a \/ kind # "free"
      <4>1. b \in DOMAIN sAlloc /\ sAlloc[b].paired /\ sAlloc'[b].graph = sAlloc[b].graph
        <5>1. CASE b = a
          <6>1. kind # "free" /\ sAlloc'[a].paired
            BY Zenon, <2>2, <3>2, <5>1
          <6>2. kind # "alloc"
            BY Zenon, <6>1
          <6> QED
            BY Zenon, <5>1, <6>1, <6>2
        <5>2. CASE b # a
          BY Zenon, <2>2, <5>2
        <5> QED
          BY Zenon, <5>1, <5>2
      <4>2. \E m \in DOMAIN nodes : /\ nodes[m].kind = "free" /\ nodes[m].alloc = b
                                    /\ nodes[m].graph = sAlloc[b].graph
        BY Zenon, <1>4, <2>2, <4>1 DEF PairsOk
      <4>3. PICK m \in DOMAIN nodes : /\ nodes[m].kind = "free" /\ nodes[m].alloc = b
                                      /\ nodes[m].graph = sAlloc[b].graph
        BY Zenon, <4>2
      <4>4. m \in DOMAIN nodes' /\ nodes'[m] = nodes[m]
        BY Zenon, <1>8
      <4> QED
        BY Zenon, <4>1, <4>3, <4>4
    <3> QED
      BY Zenon, <3>1, <3>2
  <2> QED
    BY Zenon, <2>1, <2>2 DEF PairsOk
<1>15. ASSUME NEW e \in DOMAIN sExec PROVE ExecOk(sExec[e], sAlloc', open, next')
  <2>1. ExecOk(sExec[e], sAlloc, open, next)
    BY Zenon, <1>4 DEF ExecsOk
  <2>2. ASSUME NEW b \in DOMAIN sAlloc', b \in 1..next.alloc
        PROVE  /\ b \in DOMAIN sAlloc /\ sAlloc'[b].graph = sAlloc[b].graph
               /\ sAlloc[b].paired => sAlloc'[b].paired
               /\ sAlloc'[b].paired => sAlloc[b].paired \/ sAlloc[b].graph \in open
    <3>1. CASE b = a
      <4>1. kind # "alloc"
        BY Zenon, <2>2, <3>1
      <4>2. CASE kind = "free"
        BY Zenon, <1>1, <3>1, <4>1, <4>2
      <4>3. CASE kind # "free"
        BY Zenon, <3>1, <4>1, <4>3
      <4> QED
        BY Zenon, <4>2, <4>3
    <3>2. CASE b # a
      BY Zenon, <3>2
    <3> QED
      BY Zenon, <3>1, <3>2
  <2>3. 1..next.graph \subseteq 1..next'.graph
    BY Zenon
  <2>4. PICK x, al2, ids2 : x = sExec[e] /\ al2 = sAlloc' /\ ids2 = next'
    OBVIOUS
  <2>5. ExecOk(x, sAlloc, open, next) /\ 1..next.graph \subseteq 1..ids2.graph
        /\ 1..next.alloc \subseteq 1..ids2.alloc
    BY Zenon, <2>1, <2>3, <2>4
  <2>6. \A b \in DOMAIN al2 :
           \/ b \notin 1..next.alloc
           \/ /\ b \in DOMAIN sAlloc /\ al2[b].graph = sAlloc[b].graph
              /\ sAlloc[b].paired => al2[b].paired
              /\ al2[b].paired => sAlloc[b].paired \/ sAlloc[b].graph \in open
    BY Zenon, <2>2, <2>4
  <2>7. \A h \in open : h \in open \/ h \notin 1..next.graph
    OBVIOUS
  <2>8. ExecOk(x, al2, open, ids2)
    BY <2>5, <2>6, <2>7, ExecKept
  <2> QED
    BY Zenon, <2>4, <2>8
<1>16. ExecsOk(sExec', sAlloc', open, next')
  BY Zenon, <1>15 DEF ExecsOk
<1> QED
  BY Zenon, <1>1, <1>11, <1>12, <1>13, <1>14, <1>16 DEF Tables

-----------------------------------------------------------------------------
(* What the calls make of the entries                                      *)

\* What retire_graph_memory leaves of the given tables.
LEMMA RetireView ==
    ASSUME NEW execs, NEW allocs, NEW gs, NEW busy, RetireGraphMemory(execs, allocs, gs, busy)
    PROVE  /\ \A e \in DOMAIN sExec' : e \in DOMAIN execs /\ sExec'[e] = execs[e]
           /\ \A a \in DOMAIN sAlloc' : a \in DOMAIN allocs /\ sAlloc'[a] = allocs[a]
           /\ ActiveIn(sAlloc') = ActiveIn(allocs)
<1>1. PICK left : left = ExecsLeft(execs, allocs, busy)
  OBVIOUS
<1>2. sExec' = left /\ sAlloc' = AllocsLeft(left, allocs, gs)
  BY Zenon, <1>1 DEF RetireGraphMemory
<1>3. \A e \in DOMAIN left : e \in DOMAIN execs /\ left[e] = execs[e]
  BY Zenon, <1>1 DEF ExecsLeft
<1>4. \A a \in DOMAIN sAlloc' : a \in DOMAIN allocs /\ sAlloc'[a] = allocs[a]
  BY Zenon, <1>2 DEF AllocsLeft
<1>5. ActiveIn(sAlloc') = ActiveIn(allocs)
  BY <1>2, ActiveLeft
<1> QED
  BY Zenon, <1>2, <1>3, <1>4, <1>5

\* The parts of a reservation of which the activity changes.
LEMMA ReservationActive ==
    ASSUME NEW r \in Reservations, NEW v
    PROVE  /\ [r EXCEPT !.active = v].graph = r.graph
           /\ [r EXCEPT !.active = v].paired = r.paired
           /\ [r EXCEPT !.active = v].active = v
BY DEF Reservations

\* A pairing changes neither the graph nor the activity.
LEMMA ReservationPaired ==
    ASSUME NEW r \in Reservations, NEW v
    PROVE  /\ [r EXCEPT !.paired = v].graph = r.graph
           /\ [r EXCEPT !.paired = v].paired = v
           /\ [r EXCEPT !.paired = v].active = r.active
BY DEF Reservations

\* The reservations after a launch.
LEMMA ActivatedView ==
    ASSUME NEW al, AllocTable(al), NEW S
    PROVE  LET al2 == Activated(al, S)
           IN  /\ DOMAIN al2 = DOMAIN al
               /\ \A a \in DOMAIN al :
                     /\ al2[a].graph = al[a].graph
                     /\ al2[a].paired <=> al[a].paired
                     /\ a \in S => (al2[a].active <=> ~al[a].paired)
                     /\ a \notin S => (al2[a].active <=> al[a].active)
<1>1. PICK al2 : al2 = Activated(al, S)
  OBVIOUS
<1>2. /\ DOMAIN al2 = DOMAIN al
      /\ \A a \in DOMAIN al : al2[a] = IF a \in S THEN [al[a] EXCEPT !.active = ~al[a].paired]
                                       ELSE al[a]
  BY Zenon, <1>1 DEF Activated
<1>3. ASSUME NEW a \in DOMAIN al
      PROVE  /\ al2[a].graph = al[a].graph
             /\ al2[a].paired <=> al[a].paired
             /\ a \in S => (al2[a].active <=> ~al[a].paired)
             /\ a \notin S => (al2[a].active <=> al[a].active)
  <2>1. PICK r : r = al[a]
    OBVIOUS
  <2>2. r \in Reservations
    BY Zenon, <2>1 DEF AllocTable
  <2>3. CASE a \in S
    <3>1. PICK v : v = ~r.paired
      OBVIOUS
    <3>2. al2[a] = [r EXCEPT !.active = v]
      BY Zenon, <1>2, <2>1, <2>3, <3>1
    <3>3. al2[a].graph = r.graph /\ al2[a].paired = r.paired /\ al2[a].active = v
      BY <2>2, <3>2, ReservationActive
    <3> QED
      BY <2>1, <2>3, <3>1, <3>3
  <2>4. CASE a \notin S
    BY Zenon, <1>2, <2>4
  <2> QED
    BY Zenon, <2>3, <2>4
<1> QED
  BY Zenon, <1>1, <1>2, <1>3

\* The reservations after a free.
LEMMA DeactivatedView ==
    ASSUME NEW al, AllocTable(al), NEW a \in DOMAIN al
    PROVE  LET al2 == [al EXCEPT ![a].active = FALSE]
           IN  /\ DOMAIN al2 = DOMAIN al
               /\ \A b \in DOMAIN al : /\ al2[b].graph = al[b].graph
                                       /\ al2[b].paired <=> al[b].paired
               /\ \A b : b \in ActiveIn(al2) <=> b \in ActiveIn(al) /\ b # a
<1>1. PICK al2 : al2 = [al EXCEPT ![a].active = FALSE]
  OBVIOUS
<1>2. /\ DOMAIN al2 = DOMAIN al /\ al2[a] = [al[a] EXCEPT !.active = FALSE]
      /\ \A b \in DOMAIN al : b # a => al2[b] = al[b]
  BY Zenon, <1>1
<1>3. al[a] \in Reservations
  BY Zenon DEF AllocTable
<1>4. al2[a].graph = al[a].graph /\ al2[a].paired = al[a].paired /\ al2[a].active = FALSE
  BY <1>2, <1>3, ReservationActive
<1>5. ASSUME NEW b \in DOMAIN al
      PROVE  al2[b].graph = al[b].graph /\ (al2[b].paired <=> al[b].paired)
  <2>1. CASE b = a
    BY <1>4, <2>1
  <2>2. CASE b # a
    BY Zenon, <1>2, <2>2
  <2> QED
    BY Zenon, <2>1, <2>2
<1>6. ASSUME NEW b PROVE b \in ActiveIn(al2) <=> b \in ActiveIn(al) /\ b # a
  BY Zenon, <1>2, <1>4 DEF ActiveIn
<1> QED
  BY Zenon, <1>1, <1>2, <1>5, <1>6

\* The parts of an entry that a launch, a free or a retirement leaves alone.
LEMMA EntryParts ==
    ASSUME NEW x, Entry(x), NEW l, NEW p
    PROVE  /\ [x EXCEPT !.last = l, !.pending = p].nodes = x.nodes
           /\ [x EXCEPT !.last = l, !.pending = p].edges = x.edges
           /\ [x EXCEPT !.last = l, !.pending = p].graph = x.graph
           /\ [x EXCEPT !.last = l, !.pending = p].last = l
           /\ [x EXCEPT !.last = l, !.pending = p].pending = p
           /\ [x EXCEPT !.pending = p].nodes = x.nodes
           /\ [x EXCEPT !.pending = p].edges = x.edges
           /\ [x EXCEPT !.pending = p].graph = x.graph
           /\ [x EXCEPT !.pending = p].last = x.last
           /\ [x EXCEPT !.pending = p].pending = p
           /\ [x EXCEPT !.retired = TRUE].nodes = x.nodes
           /\ [x EXCEPT !.retired = TRUE].edges = x.edges
           /\ [x EXCEPT !.retired = TRUE].graph = x.graph
           /\ [x EXCEPT !.retired = TRUE].last = x.last
           /\ [x EXCEPT !.retired = TRUE].pending = x.pending
<1>1. PICK g, ns, es, r, s, t : x = [graph |-> g, nodes |-> ns, edges |-> es, retired |-> r,
                                     last |-> s, pending |-> t]
  <2>1. x = [graph |-> x.graph, nodes |-> x.nodes, edges |-> x.edges, retired |-> x.retired,
             last |-> x.last, pending |-> x.pending]
    BY Zenon DEF Entry
  <2> QED
    BY Zenon, <2>1
<1> QED
  BY <1>1

\* The parts of an entry whose nodes change.
LEMMA EntryNodesParts ==
    ASSUME NEW x, Entry(x), NEW c
    PROVE  /\ [x EXCEPT !.nodes = c].nodes = c
           /\ [x EXCEPT !.nodes = c].edges = x.edges
           /\ [x EXCEPT !.nodes = c].graph = x.graph
           /\ [x EXCEPT !.nodes = c].last = x.last
           /\ [x EXCEPT !.nodes = c].pending = x.pending
<1>1. PICK g, ns, es, r, s, t : x = [graph |-> g, nodes |-> ns, edges |-> es, retired |-> r,
                                     last |-> s, pending |-> t]
  <2>1. x = [graph |-> x.graph, nodes |-> x.nodes, edges |-> x.edges, retired |-> x.retired,
             last |-> x.last, pending |-> x.pending]
    BY Zenon DEF Entry
  <2> QED
    BY Zenon, <2>1
<1> QED
  BY <1>1

\* The executables after an allocation of theirs is freed on a stream or,
\* with no stream, after the device has finished.
LEMMA FreedInParts ==
    ASSUME ExecTable(sExec), NEW a, NEW pend
    PROVE  LET execs == FreedIn(a, pend)
           IN  /\ DOMAIN execs = DOMAIN sExec
               /\ \A e \in DOMAIN sExec :
                     /\ execs[e].nodes = sExec[e].nodes /\ execs[e].edges = sExec[e].edges
                     /\ execs[e].graph = sExec[e].graph
                     /\ \A b : b # a => MarksOf(sExec[e], b) \subseteq MarksOf(execs[e], b)
                     /\ \A s : pend = {s} /\ a \in Creates(sExec[e].nodes) => s \in MarksOf(execs[e], a)
<1>1. PICK execs : execs = FreedIn(a, pend)
  OBVIOUS
<1>2. /\ DOMAIN execs = DOMAIN sExec
      /\ \A e \in DOMAIN sExec :
            execs[e] = IF a \in Creates(sExec[e].nodes)
                       THEN [sExec[e] EXCEPT !.pending =
                                IF pend = {} THEN Without(@, {a})
                                ELSE With(@, a, CHOOSE s \in pend : TRUE)]
                       ELSE sExec[e]
  BY Zenon, <1>1 DEF FreedIn
<1>3. ASSUME NEW e \in DOMAIN sExec
      PROVE  /\ execs[e].nodes = sExec[e].nodes /\ execs[e].edges = sExec[e].edges
             /\ execs[e].graph = sExec[e].graph
             /\ \A b : b # a => MarksOf(sExec[e], b) \subseteq MarksOf(execs[e], b)
             /\ \A s : pend = {s} /\ a \in Creates(sExec[e].nodes) => s \in MarksOf(execs[e], a)
  <2>1. CASE a \notin Creates(sExec[e].nodes)
    BY Zenon, <1>2, <2>1
  <2>2. CASE a \in Creates(sExec[e].nodes)
    <3>1. PICK x : x = sExec[e]
      OBVIOUS
    <3>2. PICK p : p = IF pend = {} THEN Without(x.pending, {a})
                       ELSE With(x.pending, a, CHOOSE s \in pend : TRUE)
      OBVIOUS
    <3>3. execs[e] = [x EXCEPT !.pending = p]
      BY Zenon, <1>2, <2>2, <3>1, <3>2
    <3>4. Entry(x)
      BY Zenon, <3>1 DEF ExecTable
    <3>5. /\ execs[e].nodes = x.nodes /\ execs[e].edges = x.edges
          /\ execs[e].graph = x.graph /\ execs[e].last = x.last /\ execs[e].pending = p
      BY <3>3, <3>4, EntryParts
    <3>6. ASSUME NEW b, b # a PROVE MarksOf(x, b) \subseteq MarksOf(execs[e], b)
      <4>1. b \in DOMAIN x.pending => b \in DOMAIN p /\ p[b] = x.pending[b]
        <5>1. CASE pend = {}
          BY Zenon, <3>2, <3>6, <5>1 DEF Without
        <5>2. CASE pend # {}
          BY Zenon, <3>2, <3>6, <5>2 DEF With
        <5> QED
          BY Zenon, <5>1, <5>2
      <4> QED
        BY Zenon, <3>5, <4>1 DEF MarksOf
    <3>7. ASSUME NEW s, pend = {s} PROVE s \in MarksOf(execs[e], a)
      <4>1. pend # {} /\ (CHOOSE t \in pend : TRUE) = s
        BY Zenon, <3>7
      <4>2. a \in DOMAIN p /\ p[a] = s
        BY Zenon, <3>2, <4>1 DEF With
      <4> QED
        BY Zenon, <3>5, <4>2 DEF MarksOf
    <3> QED
      BY Zenon, <3>1, <3>5, <3>6, <3>7
  <2> QED
    BY Zenon, <2>1, <2>2
<1> QED
  BY Zenon, <1>1, <1>2, <1>3

\* The executables after one is destroyed: only one that maps nothing goes.
LEMMA ExecRetiredParts ==
    ASSUME ExecTable(sExec), NEW e \in DOMAIN sExec
    PROVE  LET execs == ExecRetired(e)
           IN  /\ \A f \in DOMAIN execs :
                     /\ f \in DOMAIN sExec /\ execs[f].graph = sExec[f].graph
                     /\ execs[f].nodes = sExec[f].nodes /\ execs[f].edges = sExec[f].edges
               /\ \A f \in DOMAIN sExec : \A a \in Creates(sExec[f].nodes) :
                     /\ f \in DOMAIN execs /\ a \in Creates(execs[f].nodes)
                     /\ MarksOf(sExec[f], a) \subseteq MarksOf(execs[f], a)
<1>1. PICK execs : execs = ExecRetired(e)
  OBVIOUS
<1>2. CASE Creates(sExec[e].nodes) # {}
  <2>1. PICK x : x = sExec[e]
    OBVIOUS
  <2>2. /\ DOMAIN execs = DOMAIN sExec /\ execs[e] = [x EXCEPT !.retired = TRUE]
        /\ \A f \in DOMAIN sExec : f # e => execs[f] = sExec[f]
    BY <1>1, <1>2, <2>1 DEF ExecRetired
  <2>3. Entry(x)
    BY Zenon, <2>1 DEF ExecTable
  <2>4. /\ execs[e].nodes = x.nodes /\ execs[e].edges = x.edges
        /\ execs[e].graph = x.graph /\ execs[e].last = x.last /\ execs[e].pending = x.pending
    BY <2>2, <2>3, EntryParts
  <2>5. \A a : MarksOf(execs[e], a) = MarksOf(x, a)
    BY <2>4 DEF MarksOf
  <2>6. ASSUME NEW f \in DOMAIN sExec
        PROVE  /\ execs[f].graph = sExec[f].graph /\ execs[f].nodes = sExec[f].nodes
               /\ execs[f].edges = sExec[f].edges
               /\ \A a : MarksOf(execs[f], a) = MarksOf(sExec[f], a)
    <3>1. CASE f = e
      BY Zenon, <2>1, <2>4, <2>5, <3>1
    <3>2. CASE f # e
      BY Zenon, <2>2, <3>2
    <3> QED
      BY Zenon, <3>1, <3>2
  <2> QED
    BY Zenon, <1>1, <2>2, <2>6
<1>3. CASE Creates(sExec[e].nodes) = {}
  <2>1. DOMAIN execs = DOMAIN sExec \ {e} /\ \A f \in DOMAIN execs : execs[f] = sExec[f]
    BY Zenon, <1>1, <1>3 DEF ExecRetired, Without
  <2>2. \A f \in DOMAIN sExec : \A a \in Creates(sExec[f].nodes) : f \in DOMAIN execs
    BY Zenon, <1>3, <2>1
  <2> QED
    BY Zenon, <1>1, <2>1, <2>2
<1> QED
  BY Zenon, <1>2, <1>3

-----------------------------------------------------------------------------
(* The tables, step by step                                                *)

\* The parts of the tables' invariant.
LEMMA TableParts ==
    ASSUME Tables
    PROVE  /\ IdsOk(DOMAIN sGraph, nodes, sAlloc, next) /\ EdgesOk(nodes, edges)
           /\ OneAlloc(nodes) /\ PairsOk(DOMAIN sGraph, nodes, sAlloc)
           /\ \A e \in DOMAIN sExec : ExecOk(sExec[e], sAlloc, Open(sGraph), next)
BY Zenon DEF Tables, ExecsOk

\* Empty tables.
LEMMA TablesEmpty ==
    ASSUME NEW gs, NEW ns, NEW es, NEW al, NEW execs, NEW ids,
           gs = <<>>, ns = <<>>, es = {}, al = <<>>, execs = <<>>
    PROVE  /\ IdsOk(DOMAIN gs, ns, al, ids) /\ EdgesOk(ns, es)
           /\ OneAlloc(ns) /\ PairsOk(DOMAIN gs, ns, al)
           /\ ExecsOk(execs, al, Open(gs), ids)
<1>1. DOMAIN gs = {} /\ DOMAIN ns = {} /\ DOMAIN al = {} /\ DOMAIN execs = {}
  OBVIOUS
<1> QED
  BY Zenon, <1>1 DEF IdsOk, EdgesOk, OneAlloc, PairsOk, ExecsOk

\* The tables are well formed when the session starts.
LEMMA TablesInit == Init => Tables
<1> SUFFICES ASSUME Init PROVE Tables
  OBVIOUS
<1>1. sGraph = <<>> /\ nodes = <<>> /\ edges = {} /\ sAlloc = <<>> /\ sExec = <<>>
  BY Zenon DEF Init
<1> QED
  BY <1>1, TablesEmpty DEF Tables

\* They are again when it has ended.
LEMMA TablesSessionEnds == SessionEnds => Tables'
<1> SUFFICES ASSUME SessionEnds PROVE Tables'
  OBVIOUS
<1>1. sGraph' = <<>> /\ nodes' = <<>> /\ edges' = {} /\ sAlloc' = <<>> /\ sExec' = <<>>
  BY Zenon DEF SessionEnds
<1> QED
  BY <1>1, TablesEmpty DEF Tables

\* A new graph is open and has no nodes.
LEMMA TablesGraphCreate ==
    ASSUME IInv, Tables, GraphCreate
    PROVE  Tables'
<1>1. PICK g, D, open : g = next.graph + 1 /\ D = DOMAIN sGraph /\ open = Open(sGraph)
  OBVIOUS
<1>2. /\ next' = [next EXCEPT !.graph = next.graph + 1] /\ sGraph' = With(sGraph, g, FALSE)
      /\ UNCHANGED <<nodes, edges, sAlloc, sExec>>
  BY Zenon, <1>1 DEF GraphCreate
<1>3. /\ next'.node = next.node /\ next'.alloc = next.alloc /\ next'.graph = g
      /\ next.graph \in Nat
  BY <1>1, <1>2, Parts DEF Ids
<1>4. 1..next.graph \subseteq 1..next'.graph /\ g \in 1..next'.graph /\ g \notin 1..next.graph
  BY <1>1, <1>3
<1>5. /\ IdsOk(D, nodes, sAlloc, next) /\ PairsOk(D, nodes, sAlloc)
      /\ \A e \in DOMAIN sExec : ExecOk(sExec[e], sAlloc, open, next)
  BY Zenon, <1>1, TableParts
<1>6. /\ DOMAIN sGraph' = D \cup {g} /\ g \notin D
      /\ \A h \in D : sGraph'[h] = sGraph[h]
  <2>1. g \notin D
    BY Zenon, <1>4, <1>5 DEF IdsOk
  <2> QED
    BY Zenon, <1>1, <1>2, <2>1 DEF With
<1>7. IdsOk(DOMAIN sGraph', nodes, sAlloc, next')
  <2>1. DOMAIN sGraph' \subseteq 1..next'.graph /\ DOMAIN sAlloc \subseteq 1..next'.alloc
    BY Zenon, <1>3, <1>4, <1>5, <1>6 DEF IdsOk
  <2>2. \A a \in DOMAIN sAlloc : sAlloc[a].graph \in 1..next'.graph
    BY Zenon, <1>4, <1>5 DEF IdsOk
  <2>3. \A n \in DOMAIN nodes : /\ n \in 1..next'.node /\ nodes[n].graph \in DOMAIN sGraph'
                                /\ nodes[n].alloc \in 1..next'.alloc
    BY Zenon, <1>3, <1>5, <1>6 DEF IdsOk
  <2> QED
    BY Zenon, <2>1, <2>2, <2>3 DEF IdsOk
<1>8. PairsOk(DOMAIN sGraph', nodes, sAlloc)
  <2>1. \A a \in DOMAIN sAlloc : sAlloc[a].graph \in DOMAIN sGraph' => sAlloc[a].graph \in D
    BY Zenon, <1>4, <1>5, <1>6 DEF IdsOk
  <2> QED
    BY Zenon, <1>5, <2>1 DEF PairsOk
<1>9. ASSUME NEW e \in DOMAIN sExec PROVE ExecOk(sExec[e], sAlloc, Open(sGraph'), next')
  <2>1. PICK open2 : open2 = Open(sGraph')
    OBVIOUS
  <2>2. \A h \in open2 : h \in open \/ h \notin 1..next.graph
    <3> SUFFICES ASSUME NEW h \in open2 PROVE h \in open \/ h \notin 1..next.graph
      BY Zenon
    <3>1. h \in DOMAIN sGraph' /\ ~sGraph'[h]
      BY Zenon, <2>1 DEF Open
    <3>2. CASE h = g
      BY Zenon, <1>4, <3>2
    <3>3. CASE h \in D
      BY Zenon, <1>1, <1>6, <3>1, <3>3 DEF Open
    <3> QED
      BY Zenon, <1>6, <3>1, <3>2, <3>3
  <2>3. ExecOk(sExec[e], sAlloc, open, next)
    BY Zenon, <1>5
  <2>4. 1..next.alloc \subseteq 1..next'.alloc
    BY Zenon, <1>3
  <2>5. ExecOk(sExec[e], sAlloc, open2, next')
    BY <1>4, <2>2, <2>3, <2>4, ExecKept
  <2> QED
    BY Zenon, <2>1, <2>5
<1> QED
  BY Zenon, <1>2, <1>7, <1>8, <1>9, TableParts DEF Tables, ExecsOk

\* A new allocation node names a new reservation, which nothing frees yet.
LEMMA TablesAddMemAllocNode ==
    ASSUME IInv, Tables, NEW g \in DOMAIN cGraph, NEW deps, AddMemAllocNode(g, deps)
    PROVE  Tables'
<1>1. PICK a, fresh : /\ a = next.alloc + 1
                      /\ fresh = [graph |-> g, active |-> FALSE, paired |-> FALSE]
  OBVIOUS
<1>2. /\ NewNode(g, "alloc", a, deps)
      /\ next' = [next EXCEPT !.node = next.node + 1, !.alloc = next.alloc + 1]
      /\ sAlloc' = With(sAlloc, a, fresh)
      /\ UNCHANGED <<sGraph, sExec>>
  BY Zenon, <1>1 DEF AddMemAllocNode
<1>3. /\ next'.node = next.node + 1 /\ next'.alloc = a /\ next'.graph = next.graph
      /\ next.alloc \in Nat
  BY <1>1, <1>2, Parts DEF Ids
<1>4. 1..next.alloc \subseteq 1..next'.alloc /\ a \in 1..next'.alloc /\ a \notin 1..next.alloc
  BY <1>1, <1>3
<1>5. g \in DOMAIN sGraph
  BY Zenon, Parts
<1>6. a \notin DOMAIN sAlloc
  BY Zenon, <1>4, TableParts DEF IdsOk
<1>7. /\ DOMAIN sAlloc' = DOMAIN sAlloc \cup {a} /\ sAlloc'[a] = fresh
      /\ \A b \in DOMAIN sAlloc : b # a => sAlloc'[b] = sAlloc[b]
  BY Zenon, <1>2 DEF With
<1>8. ~sAlloc'[a].paired /\ sAlloc'[a].graph = g
  BY <1>1, <1>7
<1>9. PICK kind : kind = "alloc"
  OBVIOUS
<1>10. /\ NewNode(g, kind, a, deps) /\ kind # "free"
       /\ kind \notin {"alloc", "free"} => (sAlloc'[a].paired => sAlloc[a].paired)
  BY <1>2, <1>9
<1>11. /\ kind = "alloc" => a \notin 1..next.alloc /\ ~sAlloc'[a].paired /\ sAlloc'[a].graph = g
       /\ kind # "alloc" => /\ a \in DOMAIN sAlloc /\ sAlloc'[a].graph = sAlloc[a].graph
                            /\ sAlloc[a].paired => sAlloc'[a].paired
       /\ kind = "free" => /\ sAlloc'[a].paired /\ sAlloc[a].graph = g
                           /\ g \in Open(sGraph)
  BY Zenon, <1>4, <1>8, <1>9, <1>10
<1> QED
  BY <1>2, <1>3, <1>4, <1>5, <1>7, <1>10, <1>11, TablesNewNode

\* A new free node pairs a reservation that had none.
LEMMA TablesAddMemFreeNode ==
    ASSUME IInv, Tables, NEW g \in DOMAIN cGraph, NEW a \in DOMAIN cAlloc, NEW deps,
           AddMemFreeNode(g, a, deps)
    PROVE  Tables'
<1>1. /\ ~sGraph[g] /\ sAlloc[a].graph = g /\ NewNode(g, "free", a, deps)
      /\ next' = [next EXCEPT !.node = next.node + 1]
      /\ sAlloc' = [sAlloc EXCEPT ![a].paired = TRUE]
      /\ UNCHANGED <<sGraph, sExec>>
  BY Zenon DEF AddMemFreeNode
<1>2. next'.node = next.node + 1 /\ next'.alloc = next.alloc /\ next'.graph = next.graph
  BY <1>1, Parts DEF Ids
<1>3. a \in DOMAIN sAlloc /\ g \in DOMAIN sGraph /\ AllocTable(sAlloc)
  BY Zenon, Parts
<1>4. sAlloc[a] \in Reservations
  BY Zenon, <1>3 DEF AllocTable
<1>5. /\ DOMAIN sAlloc' = DOMAIN sAlloc /\ sAlloc'[a] = [sAlloc[a] EXCEPT !.paired = TRUE]
      /\ \A b \in DOMAIN sAlloc : b # a => sAlloc'[b] = sAlloc[b]
  BY Zenon, <1>1, <1>3
<1>6. sAlloc'[a].graph = sAlloc[a].graph /\ sAlloc'[a].paired = TRUE
  BY <1>4, <1>5, ReservationPaired
<1>7. a \in 1..next.alloc
  BY Zenon, <1>3, TableParts DEF IdsOk
<1>8. g \in Open(sGraph)
  BY Zenon, <1>1, <1>3 DEF Open
<1>9. PICK kind : kind = "free"
  OBVIOUS
<1>10. /\ kind # "alloc" /\ NewNode(g, kind, a, deps)
       /\ kind \notin {"alloc", "free"} => (sAlloc'[a].paired => sAlloc[a].paired)
  BY <1>1, <1>9
<1>11. /\ 1..next.alloc \subseteq 1..next'.alloc /\ a \in 1..next'.alloc
       /\ DOMAIN sAlloc' = DOMAIN sAlloc \cup {a}
  BY <1>2, <1>3, <1>5, <1>7
<1> QED
  BY Zenon, <1>1, <1>2, <1>3, <1>5, <1>6, <1>8, <1>10, <1>11, TablesNewNode

\* A new node of another kind creates and frees nothing.
LEMMA TablesAddUseNode ==
    ASSUME IInv, Tables, NEW g \in DOMAIN cGraph, NEW a \in DOMAIN cAlloc, NEW deps,
           AddUseNode(g, a, deps)
    PROVE  Tables'
<1>1. /\ NewNode(g, "use", a, deps) /\ next' = [next EXCEPT !.node = next.node + 1]
      /\ UNCHANGED <<sGraph, sAlloc, sExec>>
  BY Zenon DEF AddUseNode
<1>2. next'.node = next.node + 1 /\ next'.alloc = next.alloc /\ next'.graph = next.graph
  BY <1>1, Parts DEF Ids
<1>3. a \in DOMAIN sAlloc /\ g \in DOMAIN sGraph
  BY Zenon, Parts
<1>4. a \in 1..next.alloc
  BY Zenon, <1>3, TableParts DEF IdsOk
<1>5. PICK kind : kind = "use"
  OBVIOUS
<1>6. kind # "alloc" /\ kind # "free" /\ NewNode(g, kind, a, deps)
  BY <1>1, <1>5
<1>7. /\ 1..next.alloc \subseteq 1..next'.alloc /\ a \in 1..next'.alloc
      /\ DOMAIN sAlloc' = DOMAIN sAlloc \cup {a}
  BY <1>1, <1>2, <1>3, <1>4
<1> QED
  BY Zenon, <1>1, <1>2, <1>3, <1>6, <1>7, TablesNewNode

\* A new dependency joins two nodes of one graph.
LEMMA TablesAddDependency ==
    ASSUME Tables, NEW g, NEW f, NEW t, AddDependency(g, f, t)
    PROVE  Tables'
<1>1. /\ f \in DOMAIN nodes /\ t \in DOMAIN nodes /\ nodes[f].graph = nodes[t].graph
      /\ edges' = edges \cup {<<f, t>>} /\ UNCHANGED <<sGraph, nodes, sAlloc, sExec, next>>
  BY Zenon DEF AddDependency, NodesOf
<1>2. EdgesOk(nodes, edges')
  <2>1. EdgesOk(nodes, edges)
    BY Zenon, TableParts
  <2>2. <<f, t>>[1] = f /\ <<f, t>>[2] = t
    OBVIOUS
  <2> QED
    BY Zenon, <1>1, <2>1, <2>2 DEF EdgesOk
<1> QED
  BY Zenon, <1>1, <1>2 DEF Tables

\* A changed parameter of a node that is a use creates and frees nothing.
LEMMA TablesSetNode ==
    ASSUME IInv, Tables, NEW n \in DOMAIN nodes, NEW a \in DOMAIN cAlloc, SetNode(n, a)
    PROVE  Tables'
<1>1. /\ nodes[n].kind = "use" /\ nodes' = [nodes EXCEPT ![n].alloc = a]
      /\ UNCHANGED <<sGraph, edges, sAlloc, sExec, next>>
  BY DEF SetNode
<1>2. PICK D : D = DOMAIN sGraph
  OBVIOUS
<1>3. /\ IdsOk(D, nodes, sAlloc, next) /\ EdgesOk(nodes, edges) /\ OneAlloc(nodes)
      /\ PairsOk(D, nodes, sAlloc)
  BY Zenon, <1>2, TableParts
<1>4. a \in 1..next.alloc
  BY Zenon, <1>3, Parts DEF IdsOk
<1>5. nodes[n] \in NodeRecords
  BY Zenon, Parts DEF NodeTable
<1>6. /\ DOMAIN nodes' = DOMAIN nodes /\ nodes'[n] = [nodes[n] EXCEPT !.alloc = a]
      /\ \A m \in DOMAIN nodes : m # n => nodes'[m] = nodes[m]
  BY Zenon, <1>1
<1>7. nodes'[n].graph = nodes[n].graph /\ nodes'[n].kind = nodes[n].kind /\ nodes'[n].alloc = a
  BY <1>5, <1>6 DEF NodeRecords
<1>8. /\ nodes'[n].kind # "alloc" /\ nodes'[n].kind # "free"
      /\ nodes[n].kind # "alloc" /\ nodes[n].kind # "free"
  BY <1>1, <1>7
<1>9. \A m \in DOMAIN nodes : nodes'[m].graph = nodes[m].graph /\ nodes'[m].kind = nodes[m].kind
  BY Zenon, <1>6, <1>7
<1>10. \A m \in DOMAIN nodes :
          nodes[m].kind = "alloc" \/ nodes[m].kind = "free" => nodes'[m] = nodes[m]
  BY Zenon, <1>6, <1>8
<1>11. IdsOk(D, nodes', sAlloc, next)
  <2>1. \A m \in DOMAIN nodes : nodes'[m].alloc \in 1..next.alloc
    BY Zenon, <1>3, <1>4, <1>6, <1>7 DEF IdsOk
  <2> QED
    BY Zenon, <1>3, <1>6, <1>9, <2>1 DEF IdsOk
<1>12. EdgesOk(nodes', edges)
  BY Zenon, <1>3, <1>6, <1>9 DEF EdgesOk
<1>13. OneAlloc(nodes')
  BY Zenon, <1>3, <1>6, <1>9, <1>10 DEF OneAlloc
<1>14. PairsOk(D, nodes', sAlloc)
  <2>1. ASSUME NEW m \in DOMAIN nodes', nodes'[m].alloc \in DOMAIN sAlloc
        PROVE  /\ nodes'[m].kind = "free" => sAlloc[nodes'[m].alloc].paired
               /\ nodes'[m].kind = "alloc" => sAlloc[nodes'[m].alloc].graph = nodes'[m].graph
    <3>1. CASE m = n
      BY Zenon, <1>8, <3>1
    <3>2. CASE m # n
      <4>1. m \in DOMAIN nodes /\ nodes'[m] = nodes[m]
        BY Zenon, <1>6, <3>2
      <4>2. /\ nodes[m].kind = "free" => sAlloc[nodes[m].alloc].paired
            /\ nodes[m].kind = "alloc" => sAlloc[nodes[m].alloc].graph = nodes[m].graph
        BY Zenon, <1>3, <2>1, <4>1 DEF PairsOk
      <4> QED
        BY Zenon, <4>1, <4>2
    <3> QED
      BY Zenon, <3>1, <3>2
  <2>2. ASSUME NEW b \in DOMAIN sAlloc, sAlloc[b].paired, sAlloc[b].graph \in D
        PROVE  \E m \in DOMAIN nodes' : /\ nodes'[m].kind = "free" /\ nodes'[m].alloc = b
                                        /\ nodes'[m].graph = sAlloc[b].graph
    <3>1. PICK m \in DOMAIN nodes : /\ nodes[m].kind = "free" /\ nodes[m].alloc = b
                                    /\ nodes[m].graph = sAlloc[b].graph
      BY Zenon, <1>3, <2>2 DEF PairsOk
    <3>2. m \in DOMAIN nodes' /\ nodes'[m] = nodes[m]
      BY Zenon, <1>6, <1>10, <3>1
    <3> QED
      BY Zenon, <3>1, <3>2
  <2> QED
    BY Zenon, <2>1, <2>2 DEF PairsOk
<1> QED
  BY Zenon, <1>1, <1>2, <1>11, <1>12, <1>13, <1>14 DEF Tables

\* A destroyed graph takes its nodes and its edges along.
LEMMA TablesGraphDestroy ==
    ASSUME IInv, Tables, NEW g \in DOMAIN cGraph, GraphDestroy(g)
    PROVE  Tables'
<1>1. PICK D, open : D = DOMAIN sGraph /\ open = Open(sGraph)
  OBVIOUS
<1>2. /\ sGraph' = Without(sGraph, {g}) /\ nodes' = Without(nodes, NodesOf(g))
      /\ edges' = edges \ EdgesOf(g) /\ UNCHANGED next
      /\ RetireGraphMemory(sExec, sAlloc, DOMAIN sGraph', Busy(inflight))
  BY Zenon DEF GraphDestroy
<1>3. /\ IdsOk(D, nodes, sAlloc, next) /\ EdgesOk(nodes, edges) /\ OneAlloc(nodes)
      /\ PairsOk(D, nodes, sAlloc)
      /\ \A e \in DOMAIN sExec : ExecOk(sExec[e], sAlloc, open, next)
  BY Zenon, <1>1, TableParts
<1>4. /\ \A e \in DOMAIN sExec' : e \in DOMAIN sExec /\ sExec'[e] = sExec[e]
      /\ \A a \in DOMAIN sAlloc' : a \in DOMAIN sAlloc /\ sAlloc'[a] = sAlloc[a]
  <2>1. PICK gs, busy : gs = DOMAIN sGraph' /\ busy = Busy(inflight)
    OBVIOUS
  <2>2. RetireGraphMemory(sExec, sAlloc, gs, busy)
    BY Zenon, <1>2, <2>1
  <2> QED
    BY Zenon, <2>2, RetireView
<1>5. DOMAIN sGraph' = D \ {g} /\ \A h \in D \ {g} : sGraph'[h] = sGraph[h]
  BY Zenon, <1>1, <1>2 DEF Without
<1>6. /\ \A n \in DOMAIN nodes' : n \in DOMAIN nodes /\ nodes'[n] = nodes[n] /\ nodes[n].graph # g
      /\ \A n \in DOMAIN nodes : nodes[n].graph # g => n \in DOMAIN nodes' /\ nodes'[n] = nodes[n]
  BY Zenon, <1>2 DEF Without, NodesOf
<1>7. IdsOk(DOMAIN sGraph', nodes', sAlloc', next)
  <2>1. DOMAIN sGraph' \subseteq 1..next.graph /\ DOMAIN sAlloc' \subseteq 1..next.alloc
    BY Zenon, <1>3, <1>4, <1>5 DEF IdsOk
  <2>2. \A a \in DOMAIN sAlloc' : sAlloc'[a].graph \in 1..next.graph
    BY Zenon, <1>3, <1>4 DEF IdsOk
  <2>3. \A n \in DOMAIN nodes' : /\ n \in 1..next.node /\ nodes'[n].graph \in DOMAIN sGraph'
                                 /\ nodes'[n].alloc \in 1..next.alloc
    BY Zenon, <1>3, <1>5, <1>6 DEF IdsOk
  <2> QED
    BY Zenon, <2>1, <2>2, <2>3 DEF IdsOk
<1>8. EdgesOk(nodes', edges')
  <2>1. SUFFICES ASSUME NEW p \in edges'
                 PROVE  /\ p = <<p[1], p[2]>> /\ p[1] \in DOMAIN nodes' /\ p[2] \in DOMAIN nodes'
                        /\ nodes'[p[1]].graph = nodes'[p[2]].graph
    BY Zenon DEF EdgesOk
  <2>2. p \in edges /\ p \notin EdgesOf(g)
    BY Zenon, <1>2
  <2>3. /\ p = <<p[1], p[2]>> /\ p[1] \in DOMAIN nodes /\ p[2] \in DOMAIN nodes
        /\ nodes[p[1]].graph = nodes[p[2]].graph
    BY Zenon, <1>3, <2>2 DEF EdgesOk
  <2>4. nodes[p[1]].graph # g
    BY Zenon, <2>2, <2>3 DEF EdgesOf, NodesOf
  <2>5. /\ p[1] \in DOMAIN nodes' /\ nodes'[p[1]] = nodes[p[1]]
        /\ p[2] \in DOMAIN nodes' /\ nodes'[p[2]] = nodes[p[2]]
    BY Zenon, <1>6, <2>3, <2>4
  <2> QED
    BY Zenon, <2>3, <2>5
<1>9. OneAlloc(nodes')
  BY Zenon, <1>3, <1>6 DEF OneAlloc
<1>10. PairsOk(DOMAIN sGraph', nodes', sAlloc')
  <2>1. ASSUME NEW m \in DOMAIN nodes', nodes'[m].alloc \in DOMAIN sAlloc'
        PROVE  /\ nodes'[m].kind = "free" => sAlloc'[nodes'[m].alloc].paired
               /\ nodes'[m].kind = "alloc" => sAlloc'[nodes'[m].alloc].graph = nodes'[m].graph
    <3>1. PICK b : b = nodes[m].alloc
      OBVIOUS
    <3>2. m \in DOMAIN nodes /\ nodes'[m] = nodes[m] /\ b \in DOMAIN sAlloc /\ sAlloc'[b] = sAlloc[b]
      BY Zenon, <1>4, <1>6, <2>1, <3>1
    <3>3. /\ nodes[m].kind = "free" => sAlloc[b].paired
          /\ nodes[m].kind = "alloc" => sAlloc[b].graph = nodes[m].graph
      BY Zenon, <1>3, <3>1, <3>2 DEF PairsOk
    <3> QED
      BY Zenon, <3>1, <3>2, <3>3
  <2>2. ASSUME NEW b \in DOMAIN sAlloc', sAlloc'[b].paired, sAlloc'[b].graph \in DOMAIN sGraph'
        PROVE  \E m \in DOMAIN nodes' : /\ nodes'[m].kind = "free" /\ nodes'[m].alloc = b
                                        /\ nodes'[m].graph = sAlloc'[b].graph
    <3>1. b \in DOMAIN sAlloc /\ sAlloc'[b] = sAlloc[b]
      BY Zenon, <1>4
    <3>2. sAlloc[b].paired /\ sAlloc[b].graph \in D /\ sAlloc[b].graph # g
      BY Zenon, <1>5, <2>2, <3>1
    <3>3. PICK m \in DOMAIN nodes : /\ nodes[m].kind = "free" /\ nodes[m].alloc = b
                                    /\ nodes[m].graph = sAlloc[b].graph
      BY Zenon, <1>3, <3>1, <3>2 DEF PairsOk
    <3>4. m \in DOMAIN nodes' /\ nodes'[m] = nodes[m]
      BY Zenon, <1>6, <3>2, <3>3
    <3> QED
      BY Zenon, <3>1, <3>3, <3>4
  <2> QED
    BY Zenon, <2>1, <2>2 DEF PairsOk
<1>11. ASSUME NEW e \in DOMAIN sExec' PROVE ExecOk(sExec'[e], sAlloc', Open(sGraph'), next)
  <2>1. PICK open2 : open2 = Open(sGraph')
    OBVIOUS
  <2>2. \A h \in open2 : h \in open \/ h \notin 1..next.graph
    BY Zenon, <1>1, <1>5, <2>1 DEF Open
  <2>3. ExecOk(sExec[e], sAlloc, open, next) /\ sExec'[e] = sExec[e]
    BY Zenon, <1>3, <1>4
  <2>4. \A a \in DOMAIN sAlloc' : \/ a \notin 1..next.alloc
                                  \/ /\ a \in DOMAIN sAlloc /\ sAlloc'[a].graph = sAlloc[a].graph
                                     /\ sAlloc[a].paired => sAlloc'[a].paired
                                     /\ sAlloc'[a].paired => sAlloc[a].paired \/ sAlloc[a].graph \in open
    BY Zenon, <1>4
  <2>5. ExecOk(sExec[e], sAlloc', open2, next)
    BY <2>2, <2>3, <2>4, ExecKept
  <2> QED
    BY Zenon, <2>1, <2>3, <2>5
<1> QED
  BY Zenon, <1>2, <1>7, <1>8, <1>9, <1>10, <1>11 DEF Tables, ExecsOk

\* The snapshot of a graph of the tables is in order.
LEMMA SnapshotOk ==
    ASSUME IInv, Tables, NEW g \in DOMAIN sGraph, NEW x, NEW open, NEW ids,
           x.graph = g, x.nodes = Snapshot(g), x.edges = EdgesOf(g),
           ids.graph = next.graph, ids.alloc = next.alloc,
           GraphHasMemory(g) => g \notin open
    PROVE  ExecOk(x, sAlloc, open, ids)
<1>1. PICK ns, D : ns = x.nodes /\ D = DOMAIN sGraph
  OBVIOUS
<1>2. /\ IdsOk(D, nodes, sAlloc, next) /\ EdgesOk(nodes, edges) /\ OneAlloc(nodes)
      /\ PairsOk(D, nodes, sAlloc)
  BY Zenon, <1>1, TableParts
<1>3. /\ DOMAIN ns = NodesOf(g)
      /\ \A n \in NodesOf(g) : ns[n] = [kind |-> nodes[n].kind, alloc |-> nodes[n].alloc]
  BY Zenon, <1>1 DEF Snapshot
<1>4. \A n : n \in NodesOf(g) <=> n \in DOMAIN nodes /\ nodes[n].graph = g
  BY Zenon DEF NodesOf
<1>5. \A n \in DOMAIN ns : /\ n \in DOMAIN nodes /\ nodes[n].graph = g
                           /\ ns[n].kind = nodes[n].kind /\ ns[n].alloc = nodes[n].alloc
  <2> TAKE n \in DOMAIN ns
  <2>1. n \in DOMAIN nodes /\ nodes[n].graph = g
    BY Zenon, <1>3, <1>4
  <2>2. ns[n] = [kind |-> nodes[n].kind, alloc |-> nodes[n].alloc]
    BY Zenon, <1>3
  <2>3. ns[n].kind = nodes[n].kind /\ ns[n].alloc = nodes[n].alloc
    BY <2>2
  <2> QED
    BY Zenon, <2>1, <2>3
<1>6. x.graph \in 1..ids.graph
  BY Zenon, <1>1, <1>2 DEF IdsOk
<1>7. Names(ns) \subseteq 1..ids.alloc
  BY Zenon, <1>2, <1>5 DEF IdsOk, Names
<1>8. ASSUME NEW p \in x.edges
      PROVE  p = <<p[1], p[2]>> /\ p[1] \in DOMAIN ns /\ p[2] \in DOMAIN ns
  <2>1. p \in edges /\ p[1] \in NodesOf(g)
    BY Zenon DEF EdgesOf
  <2>2. p = <<p[1], p[2]>> /\ p[2] \in DOMAIN nodes /\ nodes[p[1]].graph = nodes[p[2]].graph
    BY Zenon, <1>2, <2>1 DEF EdgesOk
  <2> QED
    BY Zenon, <1>3, <1>4, <2>1, <2>2
<1>9. OneAlloc(ns)
  BY Zenon, <1>2, <1>5 DEF OneAlloc
<1>10. \A a \in Creates(ns) : x.graph \notin open
  <2>1. Creates(ns) # {} => GraphHasMemory(g)
    BY Zenon, <1>1, SnapshotView
  <2> QED
    BY Zenon, <2>1
<1>11. ASSUME NEW a \in DOMAIN sAlloc
       PROVE  /\ a \in Frees(ns) => sAlloc[a].paired
              /\ a \in Creates(ns) => sAlloc[a].graph = x.graph
              /\ a \in Creates(ns) /\ sAlloc[a].paired => a \in Frees(ns)
  <2>1. ASSUME a \in Frees(ns) PROVE sAlloc[a].paired
    <3>1. PICK n \in DOMAIN ns : ns[n].kind = "free" /\ ns[n].alloc = a
      BY Zenon, <2>1 DEF Frees
    <3>2. n \in DOMAIN nodes /\ nodes[n].kind = "free" /\ nodes[n].alloc = a
      BY Zenon, <1>5, <3>1
    <3> QED
      BY Zenon, <1>2, <3>2 DEF PairsOk
  <2>2. ASSUME a \in Creates(ns) PROVE sAlloc[a].graph = g
    <3>1. PICK n \in DOMAIN ns : ns[n].kind = "alloc" /\ ns[n].alloc = a
      BY Zenon, <2>2 DEF Creates
    <3>2. n \in DOMAIN nodes /\ nodes[n].kind = "alloc" /\ nodes[n].alloc = a /\ nodes[n].graph = g
      BY Zenon, <1>5, <3>1
    <3> QED
      BY Zenon, <1>2, <3>2 DEF PairsOk
  <2>3. ASSUME a \in Creates(ns), sAlloc[a].paired PROVE a \in Frees(ns)
    <3>1. sAlloc[a].graph = g /\ g \in D
      BY Zenon, <1>1, <2>2, <2>3
    <3>2. PICK n \in DOMAIN nodes : /\ nodes[n].kind = "free" /\ nodes[n].alloc = a
                                    /\ nodes[n].graph = sAlloc[a].graph
      BY Zenon, <1>2, <2>3, <3>1 DEF PairsOk
    <3>3. n \in DOMAIN ns
      BY Zenon, <1>3, <1>4, <3>1, <3>2
    <3>4. ns[n].kind = "free" /\ ns[n].alloc = a
      BY Zenon, <1>5, <3>2, <3>3
    <3> QED
      BY Zenon, <3>3, <3>4 DEF Frees
  <2> QED
    BY Zenon, <2>1, <2>2, <2>3
<1> QED
  BY Zenon, <1>1, <1>6, <1>7, <1>8, <1>9, <1>10, <1>11 DEF ExecOk

\* A node of a snapshot that neither allocates nor frees gets reservation a.
LEMMA ChangedUse ==
    ASSUME NEW ns, NodeMap(ns), NEW n \in DOMAIN ns, ns[n].kind = "use", NEW a \in Nat
    PROVE  LET c == [ns EXCEPT ![n].alloc = a]
           IN  /\ DOMAIN c = DOMAIN ns /\ Creates(c) = Creates(ns) /\ Frees(c) = Frees(ns)
               /\ \A b \in Names(c) : b \in Names(ns) \/ b = a
               /\ OneAlloc(ns) => OneAlloc(c)
<1>1. PICK c : c = [ns EXCEPT ![n].alloc = a]
  OBVIOUS
<1>2. ns[n] \in [kind : NodeKinds, alloc : Nat]
  BY Zenon DEF NodeMap
<1>3. /\ DOMAIN c = DOMAIN ns /\ c[n] = [ns[n] EXCEPT !.alloc = a]
      /\ \A m \in DOMAIN ns : m # n => c[m] = ns[m]
  BY Zenon, <1>1
<1>4. c[n].kind = "use" /\ c[n].alloc = a
  BY <1>2, <1>3
<1>5. "use" # "alloc" /\ "use" # "free"
  OBVIOUS
<1>6. \A m \in DOMAIN ns : c[m].kind = ns[m].kind
  BY Zenon, <1>3, <1>4
<1>7. \A m \in DOMAIN ns : ns[m].kind = "alloc" \/ ns[m].kind = "free" => c[m] = ns[m]
  BY Zenon, <1>3, <1>5
<1>8. Creates(c) = Creates(ns)
  <2>1. {m \in DOMAIN c : c[m].kind = "alloc"} = {m \in DOMAIN ns : ns[m].kind = "alloc"}
    BY <1>3, <1>6
  <2> QED
    BY <1>7, <2>1 DEF Creates
<1>9. Frees(c) = Frees(ns)
  <2>1. {m \in DOMAIN c : c[m].kind = "free"} = {m \in DOMAIN ns : ns[m].kind = "free"}
    BY <1>3, <1>6
  <2> QED
    BY <1>7, <2>1 DEF Frees
<1>10. \A b \in Names(c) : b \in Names(ns) \/ b = a
  BY Zenon, <1>3, <1>4 DEF Names
<1>11. OneAlloc(ns) => OneAlloc(c)
  BY Zenon, <1>3, <1>6, <1>7 DEF OneAlloc
<1> QED
  BY Zenon, <1>1, <1>3, <1>8, <1>9, <1>10, <1>11

\* The entries and the executable after GRAPH_EXEC_SET_NODE.
LEMMA ExecSetNodeParts ==
    ASSUME IInv, NEW e \in DOMAIN cExec, NEW n \in DOMAIN sExec[e].nodes,
           NEW a \in DOMAIN cAlloc, ExecSetNode(e, n, a)
    PROVE  /\ e \in DOMAIN sExec /\ DOMAIN sExec' = DOMAIN sExec
           /\ \A f \in DOMAIN sExec : f # e => sExec'[f] = sExec[f]
           /\ sExec'[e].graph = sExec[e].graph /\ sExec'[e].edges = sExec[e].edges
           /\ sExec'[e].last = sExec[e].last /\ sExec'[e].pending = sExec[e].pending
           /\ DOMAIN sExec'[e].nodes = DOMAIN sExec[e].nodes
           /\ Creates(sExec'[e].nodes) = Creates(sExec[e].nodes)
           /\ Frees(sExec'[e].nodes) = Frees(sExec[e].nodes)
           /\ \A b \in Names(sExec'[e].nodes) : b \in Names(sExec[e].nodes) \/ b = a
           /\ OneAlloc(sExec[e].nodes) => OneAlloc(sExec'[e].nodes)
           /\ UNCHANGED <<sGraph, nodes, edges, sAlloc, next, inflight, backing>>
<1>1. PICK x, c : x = sExec[e] /\ c = [sExec[e].nodes EXCEPT ![n].alloc = a]
  OBVIOUS
<1>2. /\ x.nodes[n].kind = "use" /\ sExec' = [sExec EXCEPT ![e].nodes = c]
      /\ UNCHANGED <<sGraph, nodes, edges, sAlloc, next, inflight, backing>>
  BY Zenon, <1>1 DEF ExecSetNode, graphs, device
<1>3. e \in DOMAIN sExec /\ a \in Nat
  BY Parts DEF Mirror, AllocTable
<1>4. Entry(x)
  BY Zenon, <1>1, <1>3, Parts DEF ExecTable
<1>5. PICK ns : ns = x.nodes
  OBVIOUS
<1>6. /\ NodeMap(ns) /\ n \in DOMAIN ns /\ ns[n].kind = "use" /\ c = [ns EXCEPT ![n].alloc = a]
  BY Zenon, <1>1, <1>2, <1>4, <1>5 DEF Entry
<1>7. /\ DOMAIN c = DOMAIN ns /\ Creates(c) = Creates(ns) /\ Frees(c) = Frees(ns)
      /\ \A b \in Names(c) : b \in Names(ns) \/ b = a
      /\ OneAlloc(ns) => OneAlloc(c)
  BY <1>3, <1>6, ChangedUse
<1>8. /\ DOMAIN sExec' = DOMAIN sExec /\ sExec'[e] = [x EXCEPT !.nodes = c]
      /\ \A f \in DOMAIN sExec : f # e => sExec'[f] = sExec[f]
  BY <1>1, <1>2, <1>3
<1>9. /\ sExec'[e].nodes = c /\ sExec'[e].graph = x.graph /\ sExec'[e].edges = x.edges
      /\ sExec'[e].last = x.last /\ sExec'[e].pending = x.pending
  BY <1>4, <1>8, EntryNodesParts
<1> QED
  BY Zenon, <1>1, <1>2, <1>3, <1>5, <1>7, <1>8, <1>9

\* A changed parameter of an executable leaves what it creates and frees.
LEMMA TablesExecSetNode ==
    ASSUME IInv, Tables, NEW e \in DOMAIN cExec, NEW n \in DOMAIN sExec[e].nodes,
           NEW a \in DOMAIN cAlloc, ExecSetNode(e, n, a)
    PROVE  Tables'
<1>1. PICK D, open : D = DOMAIN sGraph /\ open = Open(sGraph)
  OBVIOUS
<1>2. /\ IdsOk(D, nodes, sAlloc, next) /\ EdgesOk(nodes, edges) /\ OneAlloc(nodes)
      /\ PairsOk(D, nodes, sAlloc)
      /\ \A f \in DOMAIN sExec : ExecOk(sExec[f], sAlloc, open, next)
  BY Zenon, <1>1, TableParts
<1>3. PICK x, y : x = sExec[e] /\ y = sExec'[e]
  OBVIOUS
<1>4. /\ e \in DOMAIN sExec /\ DOMAIN sExec' = DOMAIN sExec
      /\ \A f \in DOMAIN sExec : f # e => sExec'[f] = sExec[f]
      /\ y.graph = x.graph /\ y.edges = x.edges /\ DOMAIN y.nodes = DOMAIN x.nodes
      /\ Creates(y.nodes) = Creates(x.nodes) /\ Frees(y.nodes) = Frees(x.nodes)
      /\ \A b \in Names(y.nodes) : b \in Names(x.nodes) \/ b = a
      /\ OneAlloc(x.nodes) => OneAlloc(y.nodes)
      /\ UNCHANGED <<sGraph, nodes, edges, sAlloc, next>>
  BY Zenon, <1>3, ExecSetNodeParts
<1>5. ExecOk(x, sAlloc, open, next) /\ a \in 1..next.alloc
  BY Zenon, <1>2, <1>3, <1>4, Parts DEF IdsOk
<1>6. ExecOk(y, sAlloc, open, next)
  <2>1. Names(y.nodes) \subseteq 1..next.alloc
    BY Zenon, <1>4, <1>5 DEF ExecOk
  <2> QED
    BY Zenon, <1>4, <1>5, <2>1 DEF ExecOk
<1>7. ExecsOk(sExec', sAlloc, open, next)
  BY Zenon, <1>2, <1>3, <1>4, <1>6 DEF ExecsOk
<1> QED
  BY Zenon, <1>1, <1>2, <1>4, <1>7 DEF Tables

\* A new executable has a snapshot of its graph, which is frozen from then on.
LEMMA TablesInstantiate ==
    ASSUME IInv, Tables, NEW g \in DOMAIN cGraph, Instantiate(g)
    PROVE  Tables'
<1>1. PICK e, execs, entry :
        /\ e = next.exec + 1
        /\ execs = ExecsLeft(sExec, sAlloc, Busy(inflight))
        /\ entry = [graph |-> g, nodes |-> Snapshot(g), edges |-> EdgesOf(g),
                    retired |-> FALSE, last |-> {}, pending |-> <<>>]
  OBVIOUS
<1>2. /\ AllocsLeft(execs, sAlloc, DOMAIN sGraph) = sAlloc /\ DOMAIN execs \subseteq 1..next.exec
      /\ \A f \in DOMAIN execs : f \in DOMAIN sExec /\ execs[f] = sExec[f]
  BY Zenon, <1>1, ServerAlone DEF ExecsLeft
<1>3. /\ sAlloc' = sAlloc /\ UNCHANGED <<nodes, edges>>
      /\ \/ /\ next' = [next EXCEPT !.exec = e] /\ sExec' = With(execs, e, entry)
            /\ sGraph' = [sGraph EXCEPT ![g] = @ \/ GraphHasMemory(g)]
         \/ sExec' = execs /\ UNCHANGED <<next, sGraph>>
  BY Zenon, <1>1, <1>2 DEF Instantiate
<1>4. CASE sExec' = execs /\ UNCHANGED <<next, sGraph>>
  BY Zenon, <1>2, <1>3, <1>4, TablesKept
<1>5. CASE /\ next' = [next EXCEPT !.exec = e] /\ sExec' = With(execs, e, entry)
           /\ sGraph' = [sGraph EXCEPT ![g] = @ \/ GraphHasMemory(g)]
  <2>1. PICK D, open, open2 : D = DOMAIN sGraph /\ open = Open(sGraph) /\ open2 = Open(sGraph')
    OBVIOUS
  <2>2. /\ IdsOk(D, nodes, sAlloc, next) /\ EdgesOk(nodes, edges) /\ OneAlloc(nodes)
        /\ PairsOk(D, nodes, sAlloc)
        /\ \A f \in DOMAIN sExec : ExecOk(sExec[f], sAlloc, open, next)
    BY Zenon, <2>1, TableParts
  <2>3. next'.graph = next.graph /\ next'.alloc = next.alloc /\ next'.node = next.node
    <3>1. next \in Ids
      BY Zenon, Parts
    <3> QED
      BY <1>5, <3>1 DEF Ids
  <2>4. g \in D /\ DOMAIN sGraph' = D
    BY Zenon, <1>5, <2>1, Parts
  <2>5. /\ sGraph'[g] <=> sGraph[g] \/ GraphHasMemory(g)
        /\ \A h \in D : h # g => sGraph'[h] = sGraph[h]
    BY Zenon, <1>5, <2>1, <2>4
  <2>6. (\A h \in open2 : h \in open) /\ (GraphHasMemory(g) => g \notin open2)
    BY Zenon, <2>1, <2>4, <2>5 DEF Open
  <2>7. IdsOk(D, nodes, sAlloc, next')
    BY Zenon, <2>2, <2>3 DEF IdsOk
  <2>8. ExecOk(entry, sAlloc, open2, next')
    <3>1. entry.graph = g /\ entry.nodes = Snapshot(g) /\ entry.edges = EdgesOf(g) /\ g \in DOMAIN sGraph
      BY Zenon, <1>1, <2>1, <2>4
    <3>2. PICK ids : ids = next'
      OBVIOUS
    <3>3. ExecOk(entry, sAlloc, open2, ids)
      BY <2>3, <2>6, <3>1, <3>2, SnapshotOk
    <3> QED
      BY Zenon, <3>2, <3>3
  <2>9. ASSUME NEW f \in DOMAIN execs PROVE ExecOk(execs[f], sAlloc, open2, next')
    <3>1. PICK ids, x : ids = next' /\ x = execs[f]
      OBVIOUS
    <3>2. ExecOk(x, sAlloc, open, next)
      BY Zenon, <1>2, <2>2, <3>1
    <3>3. 1..next.graph \subseteq 1..ids.graph /\ 1..next.alloc \subseteq 1..ids.alloc
      BY Zenon, <2>3, <3>1
    <3>4. \A h \in open2 : h \in open \/ h \notin 1..next.graph
      BY Zenon, <2>6
    <3>5. ExecOk(x, sAlloc, open2, ids)
      BY <3>2, <3>3, <3>4, ExecKept
    <3> QED
      BY Zenon, <3>1, <3>5
  <2>10. ASSUME NEW f \in DOMAIN sExec' PROVE ExecOk(sExec'[f], sAlloc, open2, next')
    <3>1. DOMAIN sExec' = DOMAIN execs \cup {e} /\ sExec'[e] = entry
          /\ \A h \in DOMAIN execs : h # e => sExec'[h] = execs[h]
      BY Zenon, <1>5 DEF With
    <3>2. CASE f = e
      BY Zenon, <2>8, <3>1, <3>2
    <3>3. CASE f # e
      BY Zenon, <2>9, <3>1, <3>3
    <3> QED
      BY Zenon, <3>2, <3>3
  <2>11. ExecsOk(sExec', sAlloc, open2, next')
    BY Zenon, <2>10 DEF ExecsOk
  <2> QED
    BY Zenon, <1>3, <2>1, <2>2, <2>4, <2>7, <2>11 DEF Tables
<1> QED
  BY Zenon, <1>3, <1>4, <1>5

\* A retirement of tables that differ from the server's in activity and marks.
LEMMA TablesRetire ==
    ASSUME Tables, UNCHANGED <<sGraph, nodes, edges, next>>,
           NEW execs, NEW allocs, NEW gs, NEW busy, RetireGraphMemory(execs, allocs, gs, busy),
           \A a \in DOMAIN allocs :
              /\ a \in DOMAIN sAlloc /\ allocs[a].graph = sAlloc[a].graph
              /\ (allocs[a].paired <=> sAlloc[a].paired),
           \A e \in DOMAIN execs :
              /\ e \in DOMAIN sExec /\ execs[e].graph = sExec[e].graph
              /\ execs[e].nodes = sExec[e].nodes /\ execs[e].edges = sExec[e].edges
    PROVE  Tables'
<1>1. /\ \A e \in DOMAIN sExec' : e \in DOMAIN execs /\ sExec'[e] = execs[e]
      /\ \A a \in DOMAIN sAlloc' : a \in DOMAIN allocs /\ sAlloc'[a] = allocs[a]
  BY Zenon, RetireView
<1>2. \A a \in DOMAIN sAlloc' :
         /\ a \in DOMAIN sAlloc /\ sAlloc'[a].graph = sAlloc[a].graph
         /\ (sAlloc'[a].paired <=> sAlloc[a].paired)
  BY Zenon, <1>1
<1>3. \A e \in DOMAIN sExec' :
         /\ e \in DOMAIN sExec /\ sExec'[e].graph = sExec[e].graph
         /\ sExec'[e].nodes = sExec[e].nodes /\ sExec'[e].edges = sExec[e].edges
  BY Zenon, <1>1
<1> QED
  BY Zenon, <1>2, <1>3, TablesKept

=============================================================================
