------------------------- MODULE GraphCaptureProofs -------------------------
(***************************************************************************)
(* Proofs about GraphCapture, for every set of threads and streams and     *)
(* every bound on the ids: client, server and driver agree on the capture, *)
(* the two tables of graphs and nodes agree, and a capture that was ended  *)
(* without an error is complete.                                           *)
(*                                                                         *)
(* The tables are treated first, as values: TablesOk is preserved by       *)
(* entering a graph, entering nodes and dropping a closed set of both, and *)
(* every action is a composition of these.                                 *)
(***************************************************************************)
EXTENDS GraphCapture, FiniteSetTheorems, TLAPS

\* The tables of one side, with ids up to mg and mn.
Table(gs, ns, mg, mn) ==
    /\ DOMAIN gs \subseteq 1..mg
    /\ DOMAIN ns \subseteq 1..mn
    /\ \A g \in DOMAIN gs : gs[g] \in DOMAIN ns \cup {0}
    /\ \A n \in DOMAIN ns : ns[n].graph \in DOMAIN gs /\ ns[n].child \in BOOLEAN

\* A borrowed graph belongs to a child node of a graph that is not borrowed.
Owners(gs, ns) ==
    \A h \in DOMAIN gs :
        gs[h] # 0 => ns[gs[h]].child /\ gs[ns[gs[h]].graph] = 0

\* What TrackedGraphs says, of tables cg, cn of the client, sg, sn of the
\* server and the graphs st with untracked nodes.
Tracked(cg, cn, sg, sn, st) ==
    /\ \A g \in DOMAIN cg : g \in DOMAIN sg /\ sg[g] = cg[g]
    /\ \A n \in DOMAIN cn : n \in DOMAIN sn /\ sn[n] = cn[n]
    /\ DOMAIN sg \ DOMAIN cg \subseteq st
    /\ \A n \in DOMAIN sn \ DOMAIN cn : sn[n].graph \in st

TablesOk(cg, cn, sg, sn, st, mg, mn) ==
    /\ mg \in Nat /\ mn \in Nat
    /\ Table(cg, cn, mg, mn) /\ Table(sg, sn, mg, mn)
    /\ Owners(sg, sn)
    /\ Tracked(cg, cn, sg, sn, st)
    /\ st \subseteq DOMAIN sg

-----------------------------------------------------------------------------
(* The tables                                                              *)

\* What Without leaves.
LEMMA WithoutValue ==
    ASSUME NEW f, NEW S
    PROVE  /\ DOMAIN Without(f, S) = DOMAIN f \ S
           /\ \A x \in DOMAIN f \ S : Without(f, S)[x] = f[x]
BY Zenon DEF Without

\* Both sides enter the graph with the next id, borrowed from node o unless o
\* is 0 (GRAPH_CREATE, GRAPH_CLONE, GRAPH_ADD_CHILD, GRAPH_CAPTURE_BEGIN).
LEMMA AddGraph ==
    ASSUME NEW cg, NEW cn, NEW sg, NEW sn, NEW st, NEW mg, NEW mn,
           TablesOk(cg, cn, sg, sn, st, mg, mn),
           NEW o \in DOMAIN cn \cup {0},
           o # 0 => cn[o].child /\ cg[cn[o].graph] = 0,
           NEW X \in SUBSET {mg + 1}
    PROVE  TablesOk(With(cg, {mg + 1}, o), cn, With(sg, {mg + 1}, o), sn,
                    st \cup X, mg + 1, mn)
<1> DEFINE c == With(cg, {mg + 1}, o)
           s == With(sg, {mg + 1}, o)
<1>1. mg \in Nat /\ mn \in Nat /\ mg + 1 \in Nat
  BY DEF TablesOk
<1>2. /\ DOMAIN c = DOMAIN cg \cup {mg + 1} /\ c[mg + 1] = o
      /\ \A x \in DOMAIN cg \ {mg + 1} : c[x] = cg[x]
  BY SMT DEF With
<1>3. /\ DOMAIN s = DOMAIN sg \cup {mg + 1} /\ s[mg + 1] = o
      /\ \A x \in DOMAIN sg \ {mg + 1} : s[x] = sg[x]
  BY SMT DEF With
<1>4. mg + 1 \notin DOMAIN cg /\ mg + 1 \notin DOMAIN sg
  <2>1. DOMAIN cg \subseteq 1..mg /\ DOMAIN sg \subseteq 1..mg
    BY Zenon DEF TablesOk, Table
  <2>2. mg + 1 \notin 1..mg
    BY <1>1
  <2> QED
    BY Zenon, <2>1, <2>2
<1> HIDE DEF c, s
<1>5. 1..mg \subseteq 1..(mg + 1) /\ mg + 1 \in 1..(mg + 1)
  BY <1>1
<1>6. o \in DOMAIN sn \cup {0}
  BY Zenon DEF TablesOk, Tracked
<1>7. Table(c, cn, mg + 1, mn)
  BY Zenon, <1>2, <1>4, <1>5 DEF TablesOk, Table
<1>8. Table(s, sn, mg + 1, mn)
  BY Zenon, <1>3, <1>4, <1>5, <1>6 DEF TablesOk, Table
<1>9. Tracked(c, cn, s, sn, st \cup X)
  BY Zenon, <1>2, <1>3, <1>4 DEF TablesOk, Tracked
<1>10. Owners(s, sn)
  <2> SUFFICES ASSUME NEW h \in DOMAIN s, s[h] # 0
               PROVE  sn[s[h]].child /\ s[sn[s[h]].graph] = 0
    BY Zenon DEF Owners
  <2>1. CASE h = mg + 1
    <3>1. s[h] = o /\ o \in DOMAIN cn /\ o \in DOMAIN sn /\ sn[o] = cn[o]
      BY Zenon, <1>3, <2>1 DEF TablesOk, Tracked
    <3>2. cn[o].child /\ cg[cn[o].graph] = 0
      BY Zenon, <2>1, <1>3
    <3>3. cn[o].graph \in DOMAIN cg
      BY Zenon, <3>1 DEF TablesOk, Table
    <3>4. cn[o].graph \in DOMAIN sg /\ sg[cn[o].graph] = 0
      BY Zenon, <3>2, <3>3 DEF TablesOk, Tracked
    <3> QED
      BY <3>1, <3>2, <3>4, <1>3, <1>4
  <2>2. CASE h # mg + 1
    <3>1. h \in DOMAIN sg /\ s[h] = sg[h]
      BY Zenon, <2>2, <1>3
    <3>2. sn[sg[h]].child /\ sg[sn[sg[h]].graph] = 0
      BY Zenon, <3>1 DEF TablesOk, Owners
    <3>3. sg[h] \in DOMAIN sn
      BY Zenon, <3>1 DEF TablesOk, Table
    <3>4. sn[sg[h]].graph \in DOMAIN sg
      BY Zenon, <3>3 DEF TablesOk, Table
    <3> QED
      BY Zenon, <3>1, <3>2, <3>4, <1>3, <1>4
  <2> QED
    BY Zenon, <2>1, <2>2
<1>11. st \cup X \subseteq DOMAIN s
  BY Zenon, <1>3 DEF TablesOk
<1> QED
  BY Zenon, <1>1, <1>7, <1>8, <1>9, <1>10, <1>11 DEF TablesOk, c, s

\* Both sides enter nodes with new ids in a graph the client knows
\* (GRAPH_ADD_NODE, GRAPH_CAPTURE_ADD and the copies of a clone).
LEMMA AddNodes ==
    ASSUME NEW cg, NEW cn, NEW sg, NEW sn, NEW st, NEW mg, NEW mn,
           TablesOk(cg, cn, sg, sn, st, mg, mn),
           NEW g \in DOMAIN cg, NEW k \in BOOLEAN,
           NEW m \in Nat, m >= mn,
           NEW S \in SUBSET ((mn + 1)..m)
    PROVE  TablesOk(cg, With(cn, S, [graph |-> g, child |-> k]),
                    sg, With(sn, S, [graph |-> g, child |-> k]), st, mg, m)
<1> DEFINE e == [graph |-> g, child |-> k]
           c == With(cn, S, e)
           s == With(sn, S, e)
<1>6. e.graph = g /\ e.child = k /\ g \in DOMAIN sg
  BY Zenon DEF TablesOk, Tracked
<1> HIDE DEF e
<1>1. mg \in Nat /\ mn \in Nat
  BY Zenon DEF TablesOk
<1>2. /\ DOMAIN c = DOMAIN cn \cup S
      /\ \A x \in S : c[x] = e
      /\ \A x \in DOMAIN cn \ S : c[x] = cn[x]
  BY SMT DEF With
<1>3. /\ DOMAIN s = DOMAIN sn \cup S
      /\ \A x \in S : s[x] = e
      /\ \A x \in DOMAIN sn \ S : s[x] = sn[x]
  BY SMT DEF With
<1>4. /\ \A x \in DOMAIN cn : x \notin S
      /\ \A x \in DOMAIN sn : x \notin S
  <2>1. DOMAIN cn \subseteq 1..mn /\ DOMAIN sn \subseteq 1..mn
    BY Zenon DEF TablesOk, Table
  <2>2. \A x \in 1..mn : x \notin S
    BY <1>1
  <2> QED
    BY Zenon, <2>1, <2>2
<1>5. S \subseteq 1..m /\ 1..mn \subseteq 1..m
  BY <1>1
<1> HIDE DEF c, s
<1>7. Table(cg, c, mg, m)
  BY Zenon, <1>2, <1>4, <1>5, <1>6 DEF TablesOk, Table
<1>8. Table(sg, s, mg, m)
  BY Zenon, <1>3, <1>4, <1>5, <1>6 DEF TablesOk, Table
<1>9. Tracked(cg, c, sg, s, st)
  BY Zenon, <1>2, <1>3, <1>4 DEF TablesOk, Tracked
<1>10. Owners(sg, s)
  <2> SUFFICES ASSUME NEW h \in DOMAIN sg, sg[h] # 0
               PROVE  s[sg[h]].child /\ sg[s[sg[h]].graph] = 0
    BY Zenon DEF Owners
  <2>1. sg[h] \in DOMAIN sn
    BY Zenon DEF TablesOk, Table
  <2>2. s[sg[h]] = sn[sg[h]]
    BY Zenon, <2>1, <1>3, <1>4
  <2> QED
    BY Zenon, <2>2 DEF TablesOk, Owners
<1> QED
  BY Zenon, <1>1, <1>7, <1>8, <1>9, <1>10 DEF TablesOk, c, s, e

\* Ids may be given out without an entry.
LEMMA SkipIds ==
    ASSUME NEW cg, NEW cn, NEW sg, NEW sn, NEW st, NEW mg, NEW mn,
           TablesOk(cg, cn, sg, sn, st, mg, mn),
           NEW g \in Nat, NEW m \in Nat, g >= mg, m >= mn
    PROVE  TablesOk(cg, cn, sg, sn, st, g, m)
<1>1. mg \in Nat /\ mn \in Nat
  BY Zenon DEF TablesOk
<1>2. 1..mg \subseteq 1..g /\ 1..mn \subseteq 1..m
  BY <1>1
<1> QED
  BY Zenon, <1>2 DEF TablesOk, Table

\* The client drops graphs CG and nodes N, the server graphs SG and nodes N,
\* the nodes of the graphs with them.  The server drops no graph the client
\* keeps, keeps one the client drops only if it has untracked nodes, and
\* neither keeps a graph borrowed from a node it drops.
LEMMA DropTables ==
    ASSUME NEW cg, NEW cn, NEW sg, NEW sn, NEW st, NEW mg, NEW mn,
           TablesOk(cg, cn, sg, sn, st, mg, mn),
           NEW CG, NEW SG, NEW N,
           SG \cap DOMAIN cg \subseteq CG,
           CG \ SG \subseteq st,
           \A h \in DOMAIN cg \ CG : cg[h] \notin N \cup NodesOf(cn, CG),
           \A h \in DOMAIN sg \ SG : sg[h] \notin N \cup NodesOf(sn, SG)
    PROVE  TablesOk(Without(cg, CG), Without(cn, N \cup NodesOf(cn, CG)),
                    Without(sg, SG), Without(sn, N \cup NodesOf(sn, SG)),
                    st \ SG, mg, mn)
<1> DEFINE cN == N \cup NodesOf(cn, CG)
           sN == N \cup NodesOf(sn, SG)
           cg2 == Without(cg, CG)
           sg2 == Without(sg, SG)
           cn2 == Without(cn, cN)
           sn2 == Without(sn, sN)
<1>1. /\ DOMAIN cg2 = DOMAIN cg \ CG /\ \A x \in DOMAIN cg \ CG : cg2[x] = cg[x]
      /\ DOMAIN sg2 = DOMAIN sg \ SG /\ \A x \in DOMAIN sg \ SG : sg2[x] = sg[x]
  BY Zenon, WithoutValue
<1>2. /\ DOMAIN cn2 = DOMAIN cn \ cN /\ \A x \in DOMAIN cn \ cN : cn2[x] = cn[x]
      /\ DOMAIN sn2 = DOMAIN sn \ sN /\ \A x \in DOMAIN sn \ sN : sn2[x] = sn[x]
  BY Zenon, WithoutValue
<1>3. /\ \A n \in DOMAIN cn : n \in cN <=> n \in N \/ cn[n].graph \in CG
      /\ \A n \in DOMAIN sn : n \in sN <=> n \in N \/ sn[n].graph \in SG
  BY Zenon DEF NodesOf
<1>4. /\ \A h \in DOMAIN cg \ CG : cg[h] \notin cN
      /\ \A h \in DOMAIN sg \ SG : sg[h] \notin sN
  OBVIOUS
<1> HIDE DEF cN, sN, cg2, sg2, cn2, sn2
<1>5. Table(cg2, cn2, mg, mn)
  BY Zenon, <1>1, <1>2, <1>3, <1>4 DEF TablesOk, Table
<1>6. Table(sg2, sn2, mg, mn)
  BY Zenon, <1>1, <1>2, <1>3, <1>4 DEF TablesOk, Table
<1>7. Owners(sg2, sn2)
  <2> SUFFICES ASSUME NEW h \in DOMAIN sg2, sg2[h] # 0
               PROVE  sn2[sg2[h]].child /\ sg2[sn2[sg2[h]].graph] = 0
    BY Zenon DEF Owners
  <2>1. h \in DOMAIN sg /\ h \notin SG /\ sg2[h] = sg[h]
    BY Zenon, <1>1
  <2>2. sg[h] \in DOMAIN sn /\ sg[h] \notin sN
    BY Zenon, <2>1, <1>4 DEF TablesOk, Table
  <2>3. sn2[sg[h]] = sn[sg[h]] /\ sn[sg[h]].graph \notin SG
    BY Zenon, <2>2, <1>2, <1>3
  <2>4. sn[sg[h]].graph \in DOMAIN sg
    BY Zenon, <2>2 DEF TablesOk, Table
  <2>5. sn[sg[h]].child /\ sg[sn[sg[h]].graph] = 0
    BY Zenon, <2>1 DEF TablesOk, Owners
  <2> QED
    BY Zenon, <2>1, <2>3, <2>4, <2>5, <1>1
<1>8. Tracked(cg2, cn2, sg2, sn2, st \ SG)
  <2>1. \A g \in DOMAIN cg2 : g \in DOMAIN sg2 /\ sg2[g] = cg2[g]
    BY Zenon, <1>1 DEF TablesOk, Tracked
  <2>2. \A n \in DOMAIN cn2 : n \in DOMAIN sn2 /\ sn2[n] = cn2[n]
    BY Zenon, <1>2, <1>3 DEF TablesOk, Tracked, Table
  <2>3. DOMAIN sg2 \ DOMAIN cg2 \subseteq st \ SG
    BY Zenon, <1>1 DEF TablesOk, Tracked
  <2>4. \A n \in DOMAIN sn2 \ DOMAIN cn2 : sn2[n].graph \in st \ SG
    BY Zenon, <1>2, <1>3 DEF TablesOk, Tracked
  <2> QED
    BY Zenon, <2>1, <2>2, <2>3, <2>4 DEF Tracked
<1>9. st \ SG \subseteq DOMAIN sg2
  BY Zenon, <1>1 DEF TablesOk
<1> QED
  BY Zenon, <1>5, <1>6, <1>7, <1>8, <1>9 DEF TablesOk, cN, sN, cg2, sg2, cn2, sn2

\* Client and server borrow the same graphs from nodes the client knows: for
\* owners both sides know, no kept graph is borrowed from a dropped one.
LEMMA BorrowedAgree ==
    ASSUME NEW cg, NEW cn, NEW sg, NEW sn, NEW st, NEW mg, NEW mn,
           TablesOk(cg, cn, sg, sn, st, mg, mn),
           NEW h \in DOMAIN cg, cg[h] # 0
    PROVE  /\ h \in DOMAIN sg /\ sg[h] = cg[h]
           /\ cg[h] \in DOMAIN cn /\ cg[h] \in DOMAIN sn
           /\ sn[cg[h]] = cn[cg[h]]
           /\ cn[cg[h]].child
           /\ cn[cg[h]].graph \in DOMAIN cg /\ cg[cn[cg[h]].graph] = 0
BY DEF TablesOk, Table, Owners, Tracked

-----------------------------------------------------------------------------
(* The inductive invariant                                                 *)

Tables ==
    /\ next \in [graph : Nat, node : Nat]
    /\ TablesOk(cGraph, cNode, sGraph, sNode, stray, next.graph, next.node)

\* Without a capture nothing is left of one.  The captured graph is known,
\* not borrowed, and without children; while the capture is valid no
\* operation was refused and the native frontier names nodes the client has.
CaptureShape ==
    /\ cap.status = "None" => cap = NoCapture /\ nCap = NoNativeCapture
    /\ cap.status # "None" =>
          cap.graph \in DOMAIN cGraph /\ cGraph[cap.graph] = 0 /\ Leaves(cap.graph)
    /\ cap.status = "Active" => ~missed /\ nCap.deps \subseteq NodesOf(cNode, {cap.graph})

CaptureTypes ==
    /\ cap \in [status : {"None", "Active", "Invalidated"}, stream : Streams \cup {Nobody},
                graph : Nat, deps : SUBSET Nat, supplied : BOOLEAN,
                owner : Threads \cup {Nobody}]
    /\ nCap \in [graph : Nat, stream : Streams \cup {Nobody}, deps : SUBSET Nat]
    /\ relaxed \subseteq Threads /\ call \subseteq Threads

FrontiersKnown ==
    /\ cap.deps \subseteq NodesOf(cNode, {cap.graph})
    /\ nCap.deps \subseteq NodesOf(sNode, {nCap.graph}) \cup {Untracked}

CaptureOk == CaptureTypes /\ CaptureShape /\ FrontiersKnown /\ CaptureAgrees /\ FrontierAgrees

IInv == Tables /\ CaptureOk

\* The inductive invariant contains the invariants it is for.
LEMMA InvImplies ==
    ASSUME IInv
    PROVE  TypeOK /\ CaptureAgrees /\ FrontierAgrees /\ TrackedGraphs
<1>1. GraphTables(cGraph, cNode) /\ GraphTables(sGraph, sNode)
  BY Zenon DEF IInv, Tables, TablesOk, Table, GraphTables
<1>2. TrackedGraphs
  BY Zenon DEF IInv, Tables, TablesOk, Tracked, TrackedGraphs
<1>3. stray \subseteq DOMAIN sGraph
  BY Zenon DEF IInv, Tables, TablesOk
<1>4. cap.status \in {"None", "Active", "Invalidated"}
  BY Zenon DEF IInv, CaptureOk, CaptureTypes
<1> QED
  BY Zenon, <1>1, <1>2, <1>3, <1>4 DEF IInv, CaptureOk, CaptureTypes, FrontiersKnown, TypeOK

LEMMA InvInit == Init => IInv
<1> SUFFICES ASSUME Init PROVE IInv
  OBVIOUS
<1>1. Tables
  BY DEF Init, Tables, TablesOk, Table, Owners, Tracked
<1>2. CaptureTypes
  BY Zenon DEF Init, CaptureTypes, NoCapture, NoNativeCapture
<1>3. CaptureShape /\ FrontiersKnown
  BY Zenon DEF Init, CaptureShape, FrontiersKnown, NoCapture, NoNativeCapture
<1>4. CaptureAgrees /\ FrontierAgrees
  BY Zenon DEF Init, CaptureAgrees, FrontierAgrees, NoCapture, NoNativeCapture, NoServerCapture
<1> QED
  BY Zenon, <1>1, <1>2, <1>3, <1>4 DEF IInv, CaptureOk

-----------------------------------------------------------------------------
(* Calls outside a capture                                                 *)

\* A call that leaves the capture alone when there is none.
LEMMA NoCaptureKept ==
    ASSUME IInv, cap.status = "None",
           UNCHANGED <<cap, nCap, sCap, call, allow, history>>,
           relaxed' \subseteq Threads
    PROVE  CaptureOk'
<1>1. cap = NoCapture /\ nCap = NoNativeCapture
  BY Zenon DEF IInv, CaptureOk, CaptureShape
<1>2. CaptureTypes'
  BY Zenon DEF IInv, CaptureOk, CaptureTypes
<1>3. CaptureShape' /\ FrontiersKnown'
  BY Zenon, <1>1 DEF CaptureShape, FrontiersKnown, NoCapture, NoNativeCapture
<1>4. CaptureAgrees' /\ FrontierAgrees'
  BY Zenon DEF IInv, CaptureOk, CaptureAgrees, FrontierAgrees, history
<1> QED
  BY Zenon, <1>2, <1>3, <1>4 DEF CaptureOk

\* The nodes of a graph are finitely many and their copies get consecutive ids.
LEMMA CopiesAre ==
    ASSUME Tables, NEW g, NEW from \in Nat
    PROVE  /\ Cardinality(Copies(g, from)) \in Nat
           /\ Copies(g, from) = (from + 1)..(from + Cardinality(Copies(g, from)))
<1> DEFINE N == NodesOf(sNode, {g})
           k == Cardinality(N)
<1>1. N \subseteq 1..next.node /\ next.node \in Nat
  BY Zenon DEF Tables, TablesOk, Table, NodesOf
<1>2. k \in Nat
  <2>1. IsFiniteSet(1..next.node)
    BY <1>1, FS_Interval
  <2>2. IsFiniteSet(N)
    BY Zenon, <1>1, <2>1, FS_Subset
  <2> QED
    BY Zenon, <2>2, FS_CardinalityType
<1>3. Copies(g, from) = (from + 1)..(from + k)
  BY Zenon DEF Copies
<1> HIDE DEF k, N
<1>4. Cardinality((from + 1)..(from + k)) = k
  <2>1. from + 1 \in Int /\ from + k \in Int
    BY <1>2
  <2>2. Cardinality((from + 1)..(from + k)) =
            IF from + 1 > from + k THEN 0 ELSE (from + k) - (from + 1) + 1
    BY Zenon, <2>1, FS_Interval
  <2> QED
    BY <2>2, <1>2
<1> QED
  BY Zenon, <1>2, <1>3, <1>4

LEMMA TablesGraphCreate ==
    ASSUME Tables, next.graph + 1 \in Nat,
           next' = [next EXCEPT !.graph = @ + 1],
           cGraph' = With(cGraph, {next.graph + 1}, 0),
           sGraph' = With(sGraph, {next.graph + 1}, 0),
           UNCHANGED <<cNode, sNode, stray>>
    PROVE  Tables'
<1>1. next' \in [graph : Nat, node : Nat] /\ next'.graph = next.graph + 1
                                          /\ next'.node = next.node
  BY Zenon DEF Tables
<1>2. TablesOk(With(cGraph, {next.graph + 1}, 0), cNode,
               With(sGraph, {next.graph + 1}, 0), sNode,
               stray \cup {}, next.graph + 1, next.node)
  BY Zenon, AddGraph DEF Tables
<1>3. stray \cup {} = stray
  OBVIOUS
<1> QED
  BY Zenon, <1>1, <1>2, <1>3 DEF Tables

LEMMA InvGraphCreate == IInv /\ GraphCreate => IInv'
<1> SUFFICES ASSUME IInv, GraphCreate PROVE IInv'
  OBVIOUS
<1>1. next.graph + 1 \in Nat
  BY DEF IInv, Tables
<1>2. Tables'
  BY Zenon, <1>1, TablesGraphCreate DEF IInv, GraphCreate, native
<1>3. CaptureOk'
  BY Zenon, NoCaptureKept DEF GraphCreate, Plain, native, IInv, CaptureOk, CaptureTypes
<1> QED
  BY Zenon, <1>2, <1>3 DEF IInv

LEMMA InvClone ==
    ASSUME IInv, NEW g \in DOMAIN cGraph, Clone(g)
    PROVE  IInv'
<1> DEFINE copy == next.graph + 1
           copies == Copies(g, next.node)
           entry == [graph |-> copy, child |-> FALSE]
           m == next.node + Cardinality(copies)
           X == {x \in {copy} : g \in stray}
<1>1. next.graph \in Nat /\ next.node \in Nat
  BY Zenon DEF IInv, Tables
<1>2. Cardinality(copies) \in Nat /\ copies = (next.node + 1)..m
  BY Zenon, <1>1, CopiesAre DEF IInv
<1> HIDE DEF copies
<1>3. m \in Nat /\ m >= next.node
  BY <1>1, <1>2
<1>4. next' = [graph |-> copy, node |-> m]
  BY Zenon DEF Clone, copies
<1>5. next' \in [graph : Nat, node : Nat] /\ next'.graph = copy /\ next'.node = m
  BY <1>1, <1>3, <1>4
<1>6. ASSUME /\ cGraph' = With(cGraph, {copy}, 0)
             /\ sGraph' = With(sGraph, {copy}, 0)
             /\ cNode' = With(cNode, copies, entry)
             /\ sNode' = With(sNode, copies, entry)
             /\ stray' = stray \cup X
      PROVE  Tables'
  <2>1. TablesOk(With(cGraph, {copy}, 0), cNode, With(sGraph, {copy}, 0), sNode,
                 stray \cup X, copy, next.node)
    <3>1. X \in SUBSET {copy}
      OBVIOUS
    <3> QED
      BY Zenon, <3>1, AddGraph DEF IInv, Tables
  <2>2. copy \in DOMAIN With(cGraph, {copy}, 0)
    BY Zenon DEF With
  <2> HIDE DEF m, X, entry
  <2>3. copies \in SUBSET ((next.node + 1)..m)
    BY Zenon, <1>2
  <2>4. TablesOk(With(cGraph, {copy}, 0), With(cNode, copies, [graph |-> copy, child |-> FALSE]),
                 With(sGraph, {copy}, 0), With(sNode, copies, [graph |-> copy, child |-> FALSE]),
                 stray \cup X, copy, m)
    BY Zenon, <2>1, <2>2, <2>3, <1>3, AddNodes
  <2> QED
    BY SMT, <2>4, <1>6, <1>5 DEF Tables, entry
<1>7. ASSUME UNCHANGED <<cGraph, sGraph, cNode, sNode, stray>>
      PROVE  Tables'
  <2>1. copy \in Nat /\ copy >= next.graph
    BY <1>1
  <2> HIDE DEF m, copy
  <2>2. TablesOk(cGraph, cNode, sGraph, sNode, stray, copy, m)
    BY Zenon, <2>1, <1>3, SkipIds DEF IInv, Tables
  <2> QED
    BY SMT, <2>2, <1>7, <1>5 DEF Tables
<1>8. Tables'
  BY SMT, <1>6, <1>7 DEF Clone, copies
<1>9. CaptureOk'
  BY Zenon, NoCaptureKept DEF Clone, Plain, IInv, CaptureOk, CaptureTypes
<1> QED
  BY Zenon, <1>8, <1>9 DEF IInv

LEMMA InvAddChild ==
    ASSUME IInv, NEW p \in DOMAIN cGraph, NEW g \in DOMAIN cGraph, AddChild(p, g)
    PROVE  IInv'
<1> DEFINE node == next.node + 1
           copy == next.graph + 1
           copies == Copies(g, node)
           own == [graph |-> p, child |-> TRUE]
           entry == [graph |-> copy, child |-> FALSE]
           m == node + Cardinality(copies)
           X == {x \in {copy} : g \in stray}
<1>1. next.graph \in Nat /\ next.node \in Nat /\ node \in Nat /\ copy \in Nat
  BY DEF IInv, Tables
<1>2. Cardinality(copies) \in Nat /\ copies = (node + 1)..m
  BY Zenon, <1>1, CopiesAre DEF IInv
<1> HIDE DEF copies
<1>3. m \in Nat /\ m >= node /\ m >= next.node /\ copy >= next.graph /\ node >= next.node
  BY <1>1, <1>2
<1>4. next' = [graph |-> copy, node |-> m]
  BY Zenon DEF AddChild, copies
<1>5. next' \in [graph : Nat, node : Nat] /\ next'.graph = copy /\ next'.node = m
  BY Zenon, <1>1, <1>3, <1>4
<1>6. ASSUME /\ cGraph' = With(cGraph, {copy}, node)
             /\ sGraph' = With(sGraph, {copy}, node)
             /\ cNode' = With(With(cNode, {node}, own), copies, entry)
             /\ sNode' = With(With(sNode, {node}, own), copies, entry)
             /\ stray' = stray \cup X
      PROVE  Tables'
  <2> DEFINE c == With(cNode, {node}, own)
             s == With(sNode, {node}, own)
  <2>1. {node} \in SUBSET ((next.node + 1)..node)
    BY <1>1
  <2>2. TablesOk(cGraph, c, sGraph, s, stray, next.graph, node)
    BY Zenon, <2>1, <1>1, <1>3, AddNodes DEF IInv, Tables
  <2>3. node \in DOMAIN c \cup {0} /\ c[node].child /\ c[node].graph = p
    BY Zenon DEF With
  <2>4. cGraph[p] = 0
    BY Zenon DEF AddChild
  <2>5. X \in SUBSET {copy}
    OBVIOUS
  <2> HIDE DEF c, s, X, m, entry
  <2>6. TablesOk(With(cGraph, {copy}, node), c, With(sGraph, {copy}, node), s,
                 stray \cup X, copy, node)
    BY <2>2, <2>3, <2>4, <2>5, AddGraph
  <2>7. copy \in DOMAIN With(cGraph, {copy}, node)
    BY Zenon DEF With
  <2>8. copies \in SUBSET ((node + 1)..m)
    BY Zenon, <1>2
  <2>9. TablesOk(With(cGraph, {copy}, node), With(c, copies, [graph |-> copy, child |-> FALSE]),
                 With(sGraph, {copy}, node), With(s, copies, [graph |-> copy, child |-> FALSE]),
                 stray \cup X, copy, m)
    BY Zenon, <2>6, <2>7, <2>8, <1>3, AddNodes
  <2> QED
    BY SMT, <2>9, <1>6, <1>5 DEF Tables, entry, c, s
<1>7. ASSUME UNCHANGED <<cGraph, sGraph, cNode, sNode, stray>>
      PROVE  Tables'
  <2> HIDE DEF m, copy
  <2>2. TablesOk(cGraph, cNode, sGraph, sNode, stray, copy, m)
    BY Zenon, <1>1, <1>3, SkipIds DEF IInv, Tables
  <2> QED
    BY SMT, <2>2, <1>7, <1>5 DEF Tables
<1>8. Tables'
  BY SMT, <1>6, <1>7 DEF AddChild, copies
<1>9. CaptureOk'
  BY Zenon, NoCaptureKept DEF AddChild, Plain, IInv, CaptureOk, CaptureTypes
<1> QED
  BY Zenon, <1>8, <1>9 DEF IInv

\* Every action that drops entries keeps the tables, given what DropTables asks.
LEMMA TablesDrop ==
    ASSUME Tables, NEW CG, NEW SG, NEW N, Drop(CG, N, SG, N), UNCHANGED next,
           SG \cap DOMAIN cGraph \subseteq CG,
           CG \ SG \subseteq stray,
           \A h \in DOMAIN cGraph \ CG : cGraph[h] \notin N \cup NodesOf(cNode, CG),
           \A h \in DOMAIN sGraph \ SG : sGraph[h] \notin N \cup NodesOf(sNode, SG)
    PROVE  Tables'
<1>1. TablesOk(Without(cGraph, CG), Without(cNode, N \cup NodesOf(cNode, CG)),
               Without(sGraph, SG), Without(sNode, N \cup NodesOf(sNode, SG)),
               stray \ SG, next.graph, next.node)
  BY Zenon, DropTables DEF Tables
<1>2. TablesOk(cGraph', cNode', sGraph', sNode', stray', next.graph, next.node)
  BY Zenon, <1>1 DEF Drop
<1> QED
  BY Zenon, <1>2 DEF Tables

\* A borrowed graph on either side: its owner is a child node, which is in a
\* graph that is not borrowed.
LEMMA BorrowedFrom ==
    ASSUME Tables
    PROVE  /\ \A h \in DOMAIN cGraph : cGraph[h] # 0 =>
                 /\ h \in DOMAIN sGraph /\ sGraph[h] = cGraph[h]
                 /\ cGraph[h] \in DOMAIN cNode /\ cGraph[h] \in DOMAIN sNode
                 /\ sNode[cGraph[h]] = cNode[cGraph[h]]
                 /\ cNode[cGraph[h]].child
                 /\ cNode[cGraph[h]].graph \in DOMAIN cGraph
                 /\ cGraph[cNode[cGraph[h]].graph] = 0
           /\ \A h \in DOMAIN sGraph : sGraph[h] # 0 =>
                 /\ sGraph[h] \in DOMAIN sNode
                 /\ sNode[sGraph[h]].child
                 /\ sGraph[sNode[sGraph[h]].graph] = 0
           /\ 0 \notin DOMAIN cNode /\ 0 \notin DOMAIN sNode
<1>1. \A h \in DOMAIN cGraph : cGraph[h] # 0 =>
                 /\ h \in DOMAIN sGraph /\ sGraph[h] = cGraph[h]
                 /\ cGraph[h] \in DOMAIN cNode /\ cGraph[h] \in DOMAIN sNode
                 /\ sNode[cGraph[h]] = cNode[cGraph[h]]
                 /\ cNode[cGraph[h]].child
                 /\ cNode[cGraph[h]].graph \in DOMAIN cGraph
                 /\ cGraph[cNode[cGraph[h]].graph] = 0
  BY Zenon, BorrowedAgree DEF Tables
<1>2. \A h \in DOMAIN sGraph : sGraph[h] # 0 =>
                 /\ sGraph[h] \in DOMAIN sNode
                 /\ sNode[sGraph[h]].child
                 /\ sGraph[sNode[sGraph[h]].graph] = 0
  BY Zenon DEF Tables, TablesOk, Table, Owners
<1>3. 0 \notin DOMAIN cNode /\ 0 \notin DOMAIN sNode
  BY DEF Tables, TablesOk, Table
<1> QED
  BY Zenon, <1>1, <1>2, <1>3

LEMMA InvGraphDestroy ==
    ASSUME IInv, NEW g \in DOMAIN cGraph, GraphDestroy(g)
    PROVE  IInv'
<1> DEFINE CG == {g} \cup ForgetClientChild(NodesOf(cNode, {g}))
           SG == {g} \cup ReleaseBorrowedChild(NodesOf(sNode, {g}))
<1>1. Tables
  BY Zenon DEF IInv
<1>2. /\ \A h : h \in CG <=> \/ h = g
                             \/ h \in DOMAIN cGraph /\ cGraph[h] \in DOMAIN cNode
                                                    /\ cNode[cGraph[h]].graph = g
      /\ \A h : h \in SG <=> \/ h = g
                             \/ h \in DOMAIN sGraph /\ sGraph[h] \in DOMAIN sNode
                                                    /\ sNode[sGraph[h]].graph = g
  BY Zenon DEF ForgetClientChild, ReleaseBorrowedChild, NodesOf
<1>3. cGraph[g] = 0 /\ g \in DOMAIN sGraph /\ sGraph[g] = 0
  BY Zenon, <1>1 DEF GraphDestroy, Tables, TablesOk, Tracked
<1>4. Drop(CG, {}, SG, {}) /\ UNCHANGED next
  BY Zenon DEF GraphDestroy
<1> HIDE DEF CG, SG
<1>5. SG \cap DOMAIN cGraph \subseteq CG
  <2> SUFFICES ASSUME NEW h \in SG, h \in DOMAIN cGraph, h # g PROVE h \in CG
    BY Zenon, <1>2
  <2>1. sGraph[h] \in DOMAIN sNode /\ sNode[sGraph[h]].graph = g
    BY Zenon, <1>2
  <2>2. sGraph[h] = cGraph[h]
    BY Zenon, <1>1 DEF Tables, TablesOk, Tracked
  <2>3. cGraph[h] # 0
    BY Zenon, <2>1, <2>2, <1>1, BorrowedFrom
  <2> QED
    BY Zenon, <2>1, <2>2, <2>3, <1>1, <1>2, BorrowedFrom
<1>6. CG \ SG \subseteq stray
  <2> SUFFICES ASSUME NEW h \in CG PROVE h \in SG
    OBVIOUS
  <2>1. CASE h = g
    BY Zenon, <2>1, <1>2
  <2>2. CASE h # g
    <3>1. h \in DOMAIN cGraph /\ cGraph[h] \in DOMAIN cNode /\ cNode[cGraph[h]].graph = g
      BY Zenon, <2>2, <1>2
    <3>2. cGraph[h] # 0
      BY Zenon, <3>1, <1>1, BorrowedFrom
    <3> QED
      BY Zenon, <3>1, <3>2, <1>1, <1>2, BorrowedFrom
  <2> QED
    BY Zenon, <2>1, <2>2
<1>7. \A h \in DOMAIN cGraph \ CG : cGraph[h] \notin {} \cup NodesOf(cNode, CG)
  <2> SUFFICES ASSUME NEW h \in DOMAIN cGraph, h \notin CG,
                      cGraph[h] \in DOMAIN cNode, cNode[cGraph[h]].graph \in CG
               PROVE  FALSE
    BY Zenon DEF NodesOf
  <2>1. cGraph[h] # 0
    BY Zenon, <1>1, BorrowedFrom
  <2>2. cGraph[cNode[cGraph[h]].graph] = 0
    BY Zenon, <2>1, <1>1, BorrowedFrom
  <2>3. cNode[cGraph[h]].graph = g
    BY Zenon, <2>2, <1>1, <1>2, BorrowedFrom
  <2> QED
    BY Zenon, <2>3, <1>2
<1>8. \A h \in DOMAIN sGraph \ SG : sGraph[h] \notin {} \cup NodesOf(sNode, SG)
  <2> SUFFICES ASSUME NEW h \in DOMAIN sGraph, h \notin SG,
                      sGraph[h] \in DOMAIN sNode, sNode[sGraph[h]].graph \in SG
               PROVE  FALSE
    BY Zenon DEF NodesOf
  <2>1. sGraph[h] # 0
    BY Zenon, <1>1, BorrowedFrom
  <2>2. sGraph[sNode[sGraph[h]].graph] = 0
    BY Zenon, <2>1, <1>1, BorrowedFrom
  <2>3. sNode[sGraph[h]].graph = g
    BY Zenon, <2>2, <1>1, <1>2, BorrowedFrom
  <2> QED
    BY Zenon, <2>3, <1>2
<1>9. Tables'
  BY Zenon, <1>1, <1>4, <1>5, <1>6, <1>7, <1>8, TablesDrop
<1>10. CaptureOk'
  BY Zenon, NoCaptureKept DEF GraphDestroy, Plain, IInv, CaptureOk, CaptureTypes
<1> QED
  BY Zenon, <1>9, <1>10 DEF IInv

LEMMA InvDestroyNode ==
    ASSUME IInv, NEW n \in DOMAIN cNode, DestroyNode(n)
    PROVE  IInv'
<1> DEFINE CG == ForgetClientChild({n})
           SG == ReleaseBorrowedChild({n})
<1>1. Tables
  BY Zenon DEF IInv
<1>2. /\ \A h : h \in CG <=> h \in DOMAIN cGraph /\ cGraph[h] = n
      /\ \A h : h \in SG <=> h \in DOMAIN sGraph /\ sGraph[h] = n
  BY Zenon DEF ForgetClientChild, ReleaseBorrowedChild
<1>3. n # 0
  BY Zenon, <1>1, BorrowedFrom
<1>4. Drop(CG, {n}, SG, {n}) /\ UNCHANGED next
  BY Zenon DEF DestroyNode
<1> HIDE DEF CG, SG
<1>5. SG \cap DOMAIN cGraph \subseteq CG
  BY Zenon, <1>1, <1>2 DEF Tables, TablesOk, Tracked
<1>6. CG \ SG \subseteq stray
  BY Zenon, <1>1, <1>2 DEF Tables, TablesOk, Tracked
<1>7. \A h \in DOMAIN cGraph \ CG : cGraph[h] \notin {n} \cup NodesOf(cNode, CG)
  <2> SUFFICES ASSUME NEW h \in DOMAIN cGraph, h \notin CG,
                      cGraph[h] \in DOMAIN cNode, cNode[cGraph[h]].graph \in CG
               PROVE  FALSE
    BY Zenon, <1>2 DEF NodesOf
  <2>1. cGraph[h] # 0
    BY Zenon, <1>1, BorrowedFrom
  <2>2. cGraph[cNode[cGraph[h]].graph] = 0
    BY Zenon, <2>1, <1>1, BorrowedFrom
  <2> QED
    BY Zenon, <2>2, <1>2, <1>3
<1>8. \A h \in DOMAIN sGraph \ SG : sGraph[h] \notin {n} \cup NodesOf(sNode, SG)
  <2> SUFFICES ASSUME NEW h \in DOMAIN sGraph, h \notin SG,
                      sGraph[h] \in DOMAIN sNode, sNode[sGraph[h]].graph \in SG
               PROVE  FALSE
    BY Zenon, <1>2 DEF NodesOf
  <2>1. sGraph[h] # 0
    BY Zenon, <1>1, BorrowedFrom
  <2>2. sGraph[sNode[sGraph[h]].graph] = 0
    BY Zenon, <2>1, <1>1, BorrowedFrom
  <2> QED
    BY Zenon, <2>2, <1>2, <1>3
<1>9. Tables'
  BY Zenon, <1>1, <1>4, <1>5, <1>6, <1>7, <1>8, TablesDrop
<1>10. CaptureOk'
  BY Zenon, NoCaptureKept DEF DestroyNode, Plain, IInv, CaptureOk, CaptureTypes
<1> QED
  BY Zenon, <1>9, <1>10 DEF IInv

-----------------------------------------------------------------------------
(* Calls in a capture                                                      *)

\* A new node without a child graph joins a table: the nodes that graphs had
\* stay theirs, and graphs without children remain so.
LEMMA NodeJoins ==
    ASSUME NEW tab, NEW n, n \notin DOMAIN tab, NEW g
    PROVE  LET t == With(tab, {n}, [graph |-> g, child |-> FALSE])
           IN  /\ \A G : NodesOf(tab, G) \subseteq NodesOf(t, G)
               /\ n \in NodesOf(t, {g})
               /\ \A x \in DOMAIN t : ~t[x].child \/ (x \in DOMAIN tab /\ t[x] = tab[x])
<1> DEFINE t == With(tab, {n}, [graph |-> g, child |-> FALSE])
<1>1. DOMAIN t = DOMAIN tab \cup {n} /\ t[n] = [graph |-> g, child |-> FALSE]
  BY Zenon DEF With
<1>2. \A x \in DOMAIN tab : t[x] = tab[x]
  BY Zenon DEF With
<1>3. t[n].graph = g /\ t[n].child = FALSE
  BY <1>1
<1> HIDE DEF t
<1>4. /\ \A G : NodesOf(tab, G) \subseteq NodesOf(t, G)
      /\ n \in NodesOf(t, {g})
      /\ \A x \in DOMAIN t : ~t[x].child \/ (x \in DOMAIN tab /\ t[x] = tab[x])
  BY Zenon, <1>1, <1>2, <1>3 DEF NodesOf
<1> QED
  BY Zenon, <1>4 DEF t

\* Both sides enter one node in a graph.
LEMMA TablesAddNode ==
    ASSUME Tables, NEW g \in DOMAIN cGraph,
           next' = [next EXCEPT !.node = next.node + 1],
           cNode' = With(cNode, {next.node + 1}, [graph |-> g, child |-> FALSE]),
           sNode' = With(sNode, {next.node + 1}, [graph |-> g, child |-> FALSE]),
           UNCHANGED <<cGraph, sGraph, stray>>
    PROVE  /\ Tables'
           /\ next.node + 1 \notin DOMAIN cNode /\ next.node + 1 \notin DOMAIN sNode
           /\ next.node + 1 \in Nat
<1> DEFINE n == next.node + 1
<1>1. next.node \in Nat /\ n \in Nat /\ n >= next.node
  BY DEF Tables
<1>2. next' \in [graph : Nat, node : Nat] /\ next'.graph = next.graph /\ next'.node = n
  BY DEF Tables
<1>3. {n} \in SUBSET ((next.node + 1)..n)
  BY <1>1
<1>4. TablesOk(cGraph, With(cNode, {n}, [graph |-> g, child |-> FALSE]),
               sGraph, With(sNode, {n}, [graph |-> g, child |-> FALSE]),
               stray, next.graph, n)
  BY Zenon, <1>1, <1>3, AddNodes DEF Tables
<1>5. Tables'
  BY Zenon, <1>2, <1>4 DEF Tables
<1>6. DOMAIN cNode \subseteq 1..next.node /\ DOMAIN sNode \subseteq 1..next.node
  BY Zenon DEF Tables, TablesOk, Table
<1>7. n \notin 1..next.node
  BY <1>1
<1> QED
  BY Zenon, <1>1, <1>5, <1>6, <1>7

\* What that leaves of the nodes graphs had.
LEMMA NodeJoined ==
    ASSUME NEW n, n \notin DOMAIN cNode, n \notin DOMAIN sNode, NEW g,
           cNode' = With(cNode, {n}, [graph |-> g, child |-> FALSE]),
           sNode' = With(sNode, {n}, [graph |-> g, child |-> FALSE])
    PROVE  /\ \A G : NodesOf(cNode, G) \subseteq NodesOf(cNode', G)
           /\ \A G : NodesOf(sNode, G) \subseteq NodesOf(sNode', G)
           /\ n \in NodesOf(cNode', {g}) /\ n \in NodesOf(sNode', {g})
           /\ \A x \in DOMAIN sNode' :
                 ~sNode'[x].child \/ (x \in DOMAIN sNode /\ sNode'[x] = sNode[x])
<1>1. \A G : NodesOf(cNode, G) \subseteq NodesOf(cNode', G)
  BY Zenon, NodeJoins
<1>2. \A G : NodesOf(sNode, G) \subseteq NodesOf(sNode', G)
  BY Zenon, NodeJoins
<1>3. n \in NodesOf(cNode', {g})
  BY Zenon, NodeJoins
<1>4. n \in NodesOf(sNode', {g})
  BY Zenon, NodeJoins
<1>5. \A x \in DOMAIN sNode' :
          ~sNode'[x].child \/ (x \in DOMAIN sNode /\ sNode'[x] = sNode[x])
  <2>1. \A x \in DOMAIN With(sNode, {n}, [graph |-> g, child |-> FALSE]) :
            \/ ~With(sNode, {n}, [graph |-> g, child |-> FALSE])[x].child
            \/ /\ x \in DOMAIN sNode
               /\ With(sNode, {n}, [graph |-> g, child |-> FALSE])[x] = sNode[x]
    BY Zenon, NodeJoins
  <2> QED
    BY <2>1
<1> QED
  BY Zenon, <1>1, <1>2, <1>3, <1>4, <1>5

LEMMA InvAddNode ==
    ASSUME IInv, NEW g \in DOMAIN cGraph, AddNode(g)
    PROVE  IInv'
<1> DEFINE n == next.node + 1
<1>1. /\ next' = [next EXCEPT !.node = next.node + 1]
      /\ cNode' = With(cNode, {n}, [graph |-> g, child |-> FALSE])
      /\ sNode' = With(sNode, {n}, [graph |-> g, child |-> FALSE])
      /\ UNCHANGED <<cGraph, cap, relaxed, call, sGraph, sCap, allow, nCap, stray,
                     missed, skewed>>
  BY Zenon DEF AddNode, native, history
<1>2. Tables' /\ n \notin DOMAIN cNode /\ n \notin DOMAIN sNode
  BY Zenon, <1>1, TablesAddNode DEF IInv
<1> HIDE DEF n
<1>3. /\ \A G : NodesOf(cNode, G) \subseteq NodesOf(cNode', G)
      /\ \A G : NodesOf(sNode, G) \subseteq NodesOf(sNode', G)
      /\ \A x \in DOMAIN sNode' :
            ~sNode'[x].child \/ (x \in DOMAIN sNode /\ sNode'[x] = sNode[x])
  BY Zenon, <1>1, <1>2, NodeJoined
<1>4. CaptureTypes'
  BY Zenon, <1>1 DEF IInv, CaptureOk, CaptureTypes
<1>5. FrontiersKnown'
  BY Zenon, <1>1, <1>3 DEF IInv, CaptureOk, FrontiersKnown
<1>6. Leaves(cap.graph) => Leaves(cap.graph)'
  BY Zenon, <1>1, <1>3 DEF Leaves, NodesOf
<1>7. CaptureShape'
  BY Zenon, <1>1, <1>3, <1>6 DEF IInv, CaptureOk, CaptureShape
<1>8. CaptureAgrees' /\ FrontierAgrees'
  BY Zenon, <1>1 DEF IInv, CaptureOk, CaptureAgrees, FrontierAgrees
<1> QED
  BY Zenon, <1>2, <1>4, <1>5, <1>7, <1>8 DEF IInv, CaptureOk

\* A capture begins on a graph both sides know, not borrowed, without
\* children, from nodes of it.
LEMMA CaptureBegins ==
    ASSUME IInv, cap.status = "None", Tables',
           NEW t \in Threads, NEW s \in Streams, NEW g \in Nat, NEW deps, NEW supplied \in BOOLEAN,
           Captured(t, s, g, deps, supplied), UNCHANGED <<relaxed, call, allow>>,
           deps \subseteq NodesOf(cNode', {g}), deps \subseteq NodesOf(sNode', {g}),
           deps \subseteq Nat,
           g \in DOMAIN cGraph', cGraph'[g] = 0, Leaves(g)'
    PROVE  IInv'
<1>1. CaptureTypes'
  BY Zenon DEF Captured, IInv, CaptureOk, CaptureTypes
<1>2. CaptureShape'
  BY Zenon DEF Captured, CaptureShape
<1>3. FrontiersKnown'
  BY Zenon DEF Captured, FrontiersKnown
<1>4. CaptureAgrees' /\ FrontierAgrees'
  BY Zenon DEF Captured, CaptureAgrees, FrontierAgrees, IInv, CaptureOk
<1> QED
  BY Zenon, <1>1, <1>2, <1>3, <1>4 DEF IInv, CaptureOk

LEMMA InvBeginCapture ==
    ASSUME IInv, NEW t \in Threads, NEW s \in Streams, BeginCapture(t, s)
    PROVE  IInv'
<1>1. next.graph \in Nat /\ next.graph + 1 \in Nat
  BY DEF IInv, Tables
<1> PICK g \in Nat : g = next.graph + 1
  BY Zenon, <1>1
<1>2. Tables'
  BY Zenon, <1>1, TablesGraphCreate DEF IInv, BeginCapture
<1>3. g \in DOMAIN cGraph' /\ cGraph'[g] = 0
  BY Zenon DEF BeginCapture, With
<1>4. NodesOf(sNode, {g}) = {}
  <2>1. DOMAIN sGraph \subseteq 1..next.graph
    BY Zenon DEF IInv, Tables, TablesOk, Table
  <2>2. g \notin DOMAIN sGraph
    BY <1>1, <2>1
  <2> QED
    BY Zenon, <2>2 DEF IInv, Tables, TablesOk, Table, NodesOf
<1>5. Leaves(g)'
  BY Zenon, <1>4 DEF Leaves, BeginCapture, NodesOf
<1>6. Captured(t, s, g, {}, FALSE) /\ UNCHANGED <<relaxed, call, allow>> /\ cap.status = "None"
  BY Zenon DEF BeginCapture, Plain
<1>7. PICK deps : deps = {}
  OBVIOUS
<1>8. PICK supplied \in BOOLEAN : supplied = FALSE
  OBVIOUS
<1>9. Captured(t, s, g, deps, supplied)
  BY Zenon, <1>6, <1>7, <1>8
<1>10. deps \subseteq NodesOf(cNode', {g}) /\ deps \subseteq NodesOf(sNode', {g}) /\ deps \subseteq Nat
  BY <1>7
<1> QED
  BY Zenon, <1>2, <1>3, <1>5, <1>6, <1>8, <1>9, <1>10, CaptureBegins

LEMMA InvBeginCaptureToGraph ==
    ASSUME IInv, NEW t \in Threads, NEW s \in Streams, NEW g \in DOMAIN cGraph,
           NEW deps \in SUBSET DOMAIN cNode, BeginCaptureToGraph(t, s, g, deps)
    PROVE  IInv'
<1>1. Tables'
  BY Zenon DEF IInv, Tables, BeginCaptureToGraph
<1>2. UNCHANGED <<cGraph, cNode, sGraph, sNode>>
  BY Zenon DEF BeginCaptureToGraph
<1>3. g \in DOMAIN cGraph' /\ cGraph'[g] = 0 /\ g \in Nat
  <2>1. cGraph[g] = 0
    BY Zenon DEF BeginCaptureToGraph, IInv, Tables, TablesOk, Tracked
  <2>2. g \in Nat
    BY DEF IInv, Tables, TablesOk, Table
  <2> QED
    BY Zenon, <1>2, <2>1, <2>2
<1>4. Leaves(g)'
  BY Zenon, <1>2 DEF BeginCaptureToGraph, Leaves, NodesOf
<1>5. deps \subseteq NodesOf(cNode', {g}) /\ deps \subseteq NodesOf(sNode', {g})
  <2>1. deps \subseteq NodesOf(cNode, {g})
    BY Zenon DEF BeginCaptureToGraph
  <2>2. \A n \in NodesOf(cNode, {g}) : n \in NodesOf(sNode, {g})
    BY Zenon DEF IInv, Tables, TablesOk, Tracked, NodesOf
  <2> QED
    BY Zenon, <2>1, <2>2, <1>2
<1>6. deps \subseteq Nat
  BY DEF IInv, Tables, TablesOk, Table
<1>7. Captured(t, s, g, deps, TRUE) /\ UNCHANGED <<relaxed, call, allow>> /\ cap.status = "None"
  BY Zenon DEF BeginCaptureToGraph, Plain
<1> QED
  BY <1>1, <1>3, <1>4, <1>5, <1>6, <1>7, CaptureBegins

LEMMA InvReject == IInv /\ Reject => IInv'
<1> SUFFICES ASSUME IInv, Reject PROVE IInv'
  OBVIOUS
<1>1. /\ cap.status = "Active" /\ cap' = [cap EXCEPT !.status = "Invalidated"]
      /\ UNCHANGED <<cGraph, cNode, relaxed, call, sGraph, sNode, sCap, allow, nCap, stray,
                     next, skewed>>
  BY Zenon DEF Reject, Invalidated, server, native
<1>2. /\ cap'.status = "Invalidated" /\ cap'.graph = cap.graph /\ cap'.deps = cap.deps
      /\ cap'.stream = cap.stream /\ cap'.supplied = cap.supplied
  BY Zenon, <1>1 DEF IInv, CaptureOk, CaptureTypes
<1>3. Tables'
  BY Zenon, <1>1 DEF IInv, Tables
<1>4. CaptureTypes'
  BY Zenon, <1>1 DEF IInv, CaptureOk, CaptureTypes
<1>5. FrontiersKnown'
  BY Zenon, <1>1, <1>2 DEF IInv, CaptureOk, FrontiersKnown
<1>6. Leaves(cap.graph)' <=> Leaves(cap.graph)
  BY Zenon, <1>1, <1>2 DEF Leaves, NodesOf
<1>7. CaptureShape'
  BY Zenon, <1>1, <1>2, <1>6 DEF IInv, CaptureOk, CaptureShape
<1>8. CaptureAgrees' /\ FrontierAgrees'
  BY Zenon, <1>1, <1>2 DEF IInv, CaptureOk, CaptureAgrees, FrontierAgrees
<1> QED
  BY Zenon, <1>3, <1>4, <1>5, <1>7, <1>8 DEF IInv, CaptureOk

LEMMA InvCaptureSubmit ==
    ASSUME IInv, NEW t \in Threads, NEW outcome \in {"tracked", "untracked", "refused"},
           CaptureSubmit(t, outcome)
    PROVE  IInv'
<1> DEFINE n == next.node + 1
           g == cap.graph
<1>1. /\ cap.status = "Active"
      /\ UNCHANGED <<cGraph, relaxed, call, sGraph, sCap, allow>>
  BY Zenon DEF CaptureSubmit
<1>2. g \in DOMAIN cGraph /\ cGraph[g] = 0 /\ Leaves(g) /\ nCap.graph = g
  BY Zenon, <1>1 DEF IInv, CaptureOk, CaptureShape, CaptureAgrees
<1>3. CASE outcome = "tracked"
  <2>1. /\ cNode' = With(cNode, {n}, [graph |-> g, child |-> FALSE])
        /\ sNode' = With(sNode, {n}, [graph |-> g, child |-> FALSE])
        /\ next' = [next EXCEPT !.node = next.node + 1]
        /\ UNCHANGED <<stray, missed>> /\ skewed' = FALSE
    BY Zenon, <1>3 DEF CaptureSubmit, CaptureAdd
  <2>2. cap' = [cap EXCEPT !.deps = {n}] /\ nCap' = [nCap EXCEPT !.deps = {n}]
    BY Zenon, <1>3 DEF CaptureSubmit, CaptureAdd, FrontierAfter
  <2>3. Tables' /\ n \notin DOMAIN cNode /\ n \notin DOMAIN sNode /\ n \in Nat
    BY Zenon, <1>1, <1>2, <2>1, TablesAddNode DEF IInv
  <2>4. /\ cap'.status = "Active" /\ cap'.graph = g /\ cap'.deps = {n}
        /\ cap'.stream = cap.stream /\ cap'.supplied = cap.supplied
        /\ nCap'.graph = nCap.graph /\ nCap'.stream = nCap.stream /\ nCap'.deps = {n}
    BY Zenon, <1>1, <2>2 DEF IInv, CaptureOk, CaptureTypes
  <2>5. CaptureTypes'
    BY Zenon, <1>1, <2>2, <2>3 DEF IInv, CaptureOk, CaptureTypes
  <2> HIDE DEF n, g
  <2>6. /\ n \in NodesOf(cNode', {g}) /\ n \in NodesOf(sNode', {g})
        /\ \A x \in DOMAIN sNode' :
              ~sNode'[x].child \/ (x \in DOMAIN sNode /\ sNode'[x] = sNode[x])
    BY Zenon, <2>1, <2>3, NodeJoined
  <2>7. FrontiersKnown'
    BY Zenon, <2>4, <2>6, <1>2 DEF FrontiersKnown
  <2>8. Leaves(cap.graph)'
    BY Zenon, <1>2, <2>4, <2>6 DEF Leaves, NodesOf
  <2>9. CaptureShape'
    BY Zenon, <1>1, <1>2, <2>1, <2>4, <2>6, <2>8 DEF IInv, CaptureOk, CaptureShape
  <2>10. CaptureAgrees' /\ FrontierAgrees'
    BY Zenon, <1>1, <2>4 DEF IInv, CaptureOk, CaptureAgrees, FrontierAgrees, g
  <2> QED
    BY Zenon, <2>3, <2>5, <2>7, <2>9, <2>10 DEF IInv, CaptureOk
<1>4. CASE outcome # "tracked"
  <2>1. /\ cap' = [cap EXCEPT !.status = "Invalidated"]
        /\ UNCHANGED <<next, cNode, sNode>>
    BY Zenon, <1>4 DEF CaptureSubmit, CaptureAdd, Invalidated
  <2>2. /\ cap'.status = "Invalidated" /\ cap'.graph = g /\ cap'.deps = cap.deps
        /\ cap'.stream = cap.stream /\ cap'.supplied = cap.supplied
    BY Zenon, <2>1 DEF IInv, CaptureOk, CaptureTypes
  <2>3. \/ nCap' = nCap /\ stray' = stray
        \/ nCap' = [nCap EXCEPT !.deps = {Untracked}] /\ stray' = stray \cup {g}
    BY Zenon, <1>4 DEF CaptureSubmit, CaptureAdd
  <2>4. /\ nCap'.graph = nCap.graph /\ nCap'.stream = nCap.stream
        /\ nCap'.deps = nCap.deps \/ nCap'.deps = {Untracked}
    BY Zenon, <2>3 DEF IInv, CaptureOk, CaptureTypes
  <2>5. Tables'
    <3>1. stray \subseteq stray' /\ stray' \subseteq DOMAIN sGraph
      BY Zenon, <1>2, <2>3 DEF IInv, Tables, TablesOk, Tracked
    <3>2. TablesOk(cGraph, cNode, sGraph, sNode, stray', next.graph, next.node)
      BY Zenon, <3>1 DEF IInv, Tables, TablesOk, Tracked
    <3> QED
      BY Zenon, <1>1, <2>1, <3>2 DEF IInv, Tables
  <2>6. CaptureTypes'
    BY <1>1, <2>1, <2>3 DEF IInv, CaptureOk, CaptureTypes, Untracked
  <2>7. FrontiersKnown'
    BY Zenon, <2>1, <2>2, <2>4 DEF IInv, CaptureOk, FrontiersKnown
  <2>8. Leaves(cap.graph)'
    BY Zenon, <1>2, <2>1, <2>2 DEF Leaves, NodesOf
  <2>9. CaptureShape'
    BY Zenon, <1>1, <1>2, <2>2, <2>8 DEF CaptureShape
  <2>10. CaptureAgrees' /\ FrontierAgrees'
    BY Zenon, <1>1, <2>2, <2>4 DEF IInv, CaptureOk, CaptureAgrees, FrontierAgrees
  <2> QED
    BY Zenon, <2>5, <2>6, <2>7, <2>9, <2>10 DEF IInv, CaptureOk
<1> QED
  BY Zenon, <1>3, <1>4

LEMMA InvUpdateCaptureDependencies ==
    ASSUME IInv, NEW t \in Threads, NEW deps \in SUBSET DOMAIN cNode, NEW replace \in BOOLEAN,
           UpdateCaptureDependencies(t, deps, replace)
    PROVE  IInv'
<1> DEFINE new == UpdatedFrontier(deps, replace)
<1>1. /\ cap.status = "Active" /\ deps \subseteq NodesOf(cNode, {cap.graph})
      /\ nCap' = [nCap EXCEPT !.deps = new]
      /\ \/ cap' = [cap EXCEPT !.deps = new]
         \/ cap' = cap /\ skewed' = TRUE
      /\ UNCHANGED <<cGraph, cNode, relaxed, call, sGraph, sNode, sCap, allow, stray, next, missed>>
  BY Zenon DEF UpdateCaptureDependencies, server
<1>2. cap.graph \in DOMAIN cGraph /\ cGraph[cap.graph] = 0 /\ Leaves(cap.graph)
  BY Zenon, <1>1 DEF IInv, CaptureOk, CaptureShape
<1>3. new \subseteq NodesOf(cNode, {cap.graph})
  BY Zenon, <1>1 DEF UpdatedFrontier, IInv, CaptureOk, CaptureShape
<1>4. NodesOf(cNode, {cap.graph}) \subseteq NodesOf(sNode, {cap.graph})
  BY Zenon DEF IInv, Tables, TablesOk, Tracked, NodesOf
<1>5. new \subseteq Nat
  BY <1>3 DEF NodesOf, IInv, Tables, TablesOk, Table
<1> HIDE DEF new
<1>6. /\ cap'.status = "Active" /\ cap'.graph = cap.graph
      /\ cap'.stream = cap.stream /\ cap'.supplied = cap.supplied
      /\ nCap'.graph = nCap.graph /\ nCap'.stream = nCap.stream /\ nCap'.deps = new
      /\ cap'.deps = new \/ (cap'.deps = cap.deps /\ skewed')
  BY Zenon, <1>1 DEF IInv, CaptureOk, CaptureTypes
<1>7. Tables'
  BY Zenon, <1>1 DEF IInv, Tables
<1>8. CaptureTypes'
  BY <1>1, <1>5 DEF IInv, CaptureOk, CaptureTypes
<1>9. FrontiersKnown'
  BY Zenon, <1>1, <1>3, <1>4, <1>6 DEF IInv, CaptureOk, FrontiersKnown, CaptureAgrees
<1>10. Leaves(cap.graph)'
  BY Zenon, <1>1, <1>2, <1>6 DEF Leaves, NodesOf
<1>11. CaptureShape'
  BY Zenon, <1>1, <1>2, <1>3, <1>6, <1>10 DEF IInv, CaptureOk, CaptureShape
<1>12. CaptureAgrees' /\ FrontierAgrees'
  BY Zenon, <1>1, <1>6 DEF IInv, CaptureOk, CaptureAgrees, FrontierAgrees
<1> QED
  BY Zenon, <1>7, <1>8, <1>9, <1>11, <1>12 DEF IInv, CaptureOk

\* EndCapture: a graph the client keeps is kept by the server, and one the
\* server alone keeps has untracked nodes.
LEMMA EndOutcome ==
    ASSUME IInv, NEW t \in Threads, NEW ok \in BOOLEAN, EndCapture(t, ok)
    PROVE  \E CG, SG \in SUBSET {cap.graph} :
              /\ Drop(CG, {}, SG, {})
              /\ SG \subseteq CG
              /\ CG \ SG \subseteq stray
              /\ CG = {} /\ cap.status = "Active" => cap.graph \notin stray
<1> DEFINE g == cap.graph
           aborted == cap.status = "Invalidated"
           failed == EndFailed(aborted, ok)
           clientKeeps == ~failed /\ (~aborted \/ cap.supplied)
           serverKeeps == ServerKeepsGraph(aborted, ok)
           CG == IF clientKeeps THEN {} ELSE {g}
           SG == IF serverKeeps THEN {} ELSE {g}
<1>1. sCap.graph = g /\ sCap.supplied = cap.supplied
  BY Zenon DEF IInv, CaptureOk, CaptureAgrees
<1>2. failed <=> ~ok \/ (~aborted /\ g \in stray)
  BY Zenon, <1>1 DEF EndFailed
<1>3. serverKeeps <=> ok /\ (cap.supplied \/ (~aborted /\ g \notin stray))
  BY Zenon, <1>1 DEF ServerKeepsGraph
<1>4. Drop(CG, {}, SG, {})
  BY Zenon DEF EndCapture
<1>5. clientKeeps => serverKeeps
  BY Zenon, <1>2, <1>3
<1>6. serverKeeps /\ ~clientKeeps => g \in stray
  BY Zenon, <1>2, <1>3
<1>7. clientKeeps /\ cap.status = "Active" => g \notin stray
  BY Zenon, <1>2
<1> HIDE DEF clientKeeps, serverKeeps, g, failed, aborted
<1>8. /\ CG \in SUBSET {g} /\ SG \in SUBSET {g} /\ SG \subseteq CG /\ CG \ SG \subseteq stray
      /\ CG = {} /\ cap.status = "Active" => g \notin stray
  BY <1>5, <1>6, <1>7
<1> QED
  BY Zenon, <1>4, <1>8 DEF g

LEMMA InvEndCapture ==
    ASSUME IInv, NEW t \in Threads, NEW ok \in BOOLEAN, EndCapture(t, ok)
    PROVE  IInv'
<1>1. /\ cap.status # "None" /\ cap' = NoCapture /\ sCap' = NoServerCapture
      /\ nCap' = NoNativeCapture /\ UNCHANGED <<relaxed, call, allow, next>>
  BY Zenon DEF EndCapture, CaptureAfterEnd
<1>2. PICK CG, SG \in SUBSET {cap.graph} :
          Drop(CG, {}, SG, {}) /\ SG \subseteq CG /\ CG \ SG \subseteq stray
  BY Zenon, EndOutcome
<1>3. Tables /\ Leaves(cap.graph)
  BY Zenon, <1>1 DEF IInv, CaptureOk, CaptureShape
<1>4. \A h \in DOMAIN cGraph \ CG : cGraph[h] \notin {} \cup NodesOf(cNode, CG)
  <2> SUFFICES ASSUME NEW h \in DOMAIN cGraph,
                      cGraph[h] \in DOMAIN cNode, cNode[cGraph[h]].graph = cap.graph
               PROVE  FALSE
    BY Zenon, <1>2 DEF NodesOf
  <2>1. cGraph[h] # 0
    BY Zenon, <1>3, BorrowedFrom
  <2>2. /\ cGraph[h] \in DOMAIN sNode /\ sNode[cGraph[h]] = cNode[cGraph[h]]
        /\ cNode[cGraph[h]].child
    BY Zenon, <2>1, <1>3, BorrowedFrom
  <2> QED
    BY Zenon, <2>2, <1>3 DEF Leaves, NodesOf
<1>5. \A h \in DOMAIN sGraph \ SG : sGraph[h] \notin {} \cup NodesOf(sNode, SG)
  <2> SUFFICES ASSUME NEW h \in DOMAIN sGraph,
                      sGraph[h] \in DOMAIN sNode, sNode[sGraph[h]].graph = cap.graph
               PROVE  FALSE
    BY Zenon, <1>2 DEF NodesOf
  <2>1. sGraph[h] # 0
    BY Zenon, <1>3, BorrowedFrom
  <2>2. sNode[sGraph[h]].child
    BY Zenon, <2>1, <1>3, BorrowedFrom
  <2> QED
    BY Zenon, <2>2, <1>3 DEF Leaves, NodesOf
<1>6. SG \cap DOMAIN cGraph \subseteq CG
  BY Zenon, <1>2
<1>7. Tables'
  BY Zenon, <1>1, <1>2, <1>3, <1>4, <1>5, <1>6, TablesDrop
<1>8. CaptureTypes'
  BY Zenon, <1>1 DEF IInv, CaptureOk, CaptureTypes, NoCapture, NoNativeCapture
<1>9. CaptureShape' /\ FrontiersKnown'
  BY Zenon, <1>1 DEF CaptureShape, FrontiersKnown, NoCapture, NoNativeCapture
<1>10. CaptureAgrees' /\ FrontierAgrees'
  BY Zenon, <1>1 DEF IInv, CaptureOk, CaptureAgrees, FrontierAgrees, NoCapture, NoNativeCapture,
              NoServerCapture
<1> QED
  BY Zenon, <1>7, <1>8, <1>9, <1>10 DEF IInv, CaptureOk

\* The calls that change no table and nothing of the capture itself.
LEMMA TablesAndCaptureKept ==
    ASSUME IInv, UNCHANGED <<cGraph, cNode, cap, sGraph, sNode, sCap, nCap, stray, next,
                             missed, skewed>>,
           relaxed' \subseteq Threads, call' \subseteq Threads, call' = {} => ~allow'
    PROVE  IInv'
<1>1. Tables'
  BY Zenon DEF IInv, Tables
<1>2. CaptureTypes'
  BY Zenon DEF IInv, CaptureOk, CaptureTypes
<1>3. CaptureShape' /\ FrontiersKnown'
  BY Zenon DEF IInv, CaptureOk, CaptureShape, FrontiersKnown, Leaves, NodesOf
<1>4. CaptureAgrees' /\ FrontierAgrees'
  BY Zenon DEF IInv, CaptureOk, CaptureAgrees, FrontierAgrees
<1> QED
  BY Zenon, <1>1, <1>2, <1>3, <1>4 DEF IInv, CaptureOk

LEMMA InvModesAndPermissions ==
    ASSUME IInv,
           \/ \E t \in Threads : ExchangeCaptureMode(t) \/ AskToAllocate(t)
           \/ Allocate
           \/ UNCHANGED vars
    PROVE  IInv'
<1> USE DEF client, server, native, history
<1>1. relaxed \subseteq Threads /\ call \subseteq Threads /\ (call = {} => ~allow)
  BY Zenon DEF IInv, CaptureOk, CaptureTypes, CaptureAgrees
<1>2. ASSUME NEW t \in Threads, ExchangeCaptureMode(t) PROVE IInv'
  <2>1. relaxed' \subseteq Threads /\ call' = call /\ allow' = allow
    BY Zenon, <1>1, <1>2 DEF ExchangeCaptureMode
  <2> QED
    BY <1>1, <1>2, <2>1, TablesAndCaptureKept DEF ExchangeCaptureMode
<1>3. ASSUME NEW t \in Threads, AskToAllocate(t) PROVE IInv'
  <2>1. relaxed' = relaxed /\ call' = {t} /\ call' \subseteq Threads /\ call' # {}
    BY Zenon, <1>3 DEF AskToAllocate
  <2> QED
    BY Zenon, <1>1, <1>3, <2>1, TablesAndCaptureKept DEF AskToAllocate
<1>4. ASSUME Allocate PROVE IInv'
  <2>1. relaxed' = relaxed /\ call' = {} /\ ~allow'
    BY Zenon, <1>4 DEF Allocate, PermissionAfterRequest
  <2> QED
    BY Zenon, <1>1, <1>4, <2>1, TablesAndCaptureKept DEF Allocate
<1>5. ASSUME UNCHANGED vars PROVE IInv'
  BY Zenon, <1>1, <1>5, TablesAndCaptureKept DEF vars
<1> QED
  BY Zenon, <1>2, <1>3, <1>4, <1>5

\* A lost session leaves what Init describes, except the interaction modes.
LEMMA InvSessionLost == IInv /\ SessionLost => IInv'
<1> SUFFICES ASSUME IInv, SessionLost PROVE IInv'
  OBVIOUS
<1>1. Tables'
  BY DEF SessionLost, Tables, TablesOk, Table, Owners, Tracked
<1>2. CaptureTypes'
  BY Zenon DEF SessionLost, IInv, CaptureOk, CaptureTypes, NoCapture, NoNativeCapture
<1>3. CaptureShape' /\ FrontiersKnown'
  BY Zenon DEF SessionLost, CaptureShape, FrontiersKnown, NoCapture, NoNativeCapture
<1>4. CaptureAgrees' /\ FrontierAgrees'
  BY Zenon DEF SessionLost, CaptureAgrees, FrontierAgrees, NoCapture, NoNativeCapture, NoServerCapture
<1> QED
  BY Zenon, <1>1, <1>2, <1>3, <1>4 DEF IInv, CaptureOk

LEMMA InvNext == IInv /\ [Next]_vars => IInv'
<1> SUFFICES ASSUME IInv, [Next]_vars PROVE IInv'
  OBVIOUS
<1>1. CASE GraphCall
  BY Zenon, <1>1, InvGraphCreate, InvGraphDestroy, InvAddNode, InvClone, InvAddChild,
     InvDestroyNode DEF GraphCall
<1>2. ASSUME NEW t \in Threads, CaptureCall(t) PROVE IInv'
  BY Zenon, <1>2, InvBeginCapture, InvBeginCaptureToGraph, InvCaptureSubmit,
     InvUpdateCaptureDependencies, InvEndCapture, InvModesAndPermissions DEF CaptureCall
<1>3. CASE Reject
  BY Zenon, <1>3, InvReject
<1>4. CASE Allocate \/ UNCHANGED vars
  BY Zenon, <1>4, InvModesAndPermissions
<1>5. CASE SessionLost
  BY Zenon, <1>5, InvSessionLost
<1> QED
  BY Zenon, <1>1, <1>2, <1>3, <1>4, <1>5 DEF Next

-----------------------------------------------------------------------------
(* The theorems                                                            *)

\* The inductive invariant holds of every behaviour.
THEOREM Invariance == Spec => []IInv
BY InvInit, InvNext, PTL DEF Spec

\* Nodes, borrowed graphs, frontiers and captures name live entries.
THEOREM TypeCorrect == Spec => []TypeOK
<1>1. IInv => TypeOK
  BY Zenon, InvImplies
<1> QED
  BY <1>1, Invariance, PTL

\* Client, server and driver agree on the capture in progress, and between
\* calls no permission to allocate is outstanding.
THEOREM CaptureInAgreement == Spec => []CaptureAgrees
<1>1. IInv => CaptureAgrees
  BY Zenon, InvImplies
<1> QED
  BY <1>1, Invariance, PTL

\* The frontier that the client reports is the native one.
THEOREM FrontierInAgreement == Spec => []FrontierAgrees
<1>1. IInv => FrontierAgrees
  BY Zenon, InvImplies
<1> QED
  BY <1>1, Invariance, PTL

\* A handle the client accepts names the same object on the server, which
\* keeps nothing else except graphs with untracked nodes.
THEOREM GraphsTracked == Spec => []TrackedGraphs
<1>1. IInv => TrackedGraphs
  BY Zenon, InvImplies
<1> QED
  BY <1>1, Invariance, PTL

\* A graph that the end of a valid capture leaves to the client holds every
\* operation issued to the capture.
THEOREM CompleteCaptures == Spec => CaptureIsComplete
<1> DEFINE A == cap.status = "Active" /\ cap' = NoCapture /\ cap.graph \in DOMAIN cGraph'
                   => ~missed /\ cap.graph \notin stray
<1>1. IInv /\ [Next]_vars => [A]_vars
  <2> SUFFICES ASSUME IInv, Next, cap.status = "Active", cap' = NoCapture,
                      cap.graph \in DOMAIN cGraph'
               PROVE  ~missed /\ cap.graph \notin stray
    BY Zenon DEF vars
  <2>1. ~missed
    BY Zenon DEF IInv, CaptureOk, CaptureShape
  <2>2. cap' # cap /\ cap'.status = "None"
    BY DEF NoCapture
  <2>3. CASE GraphCall
    BY Zenon, <2>2, <2>3 DEF GraphCall, GraphCreate, GraphDestroy, AddNode, Clone, AddChild, DestroyNode
  <2>4. ASSUME NEW t \in Threads, CaptureCall(t) PROVE cap.graph \notin stray
    <3>1. CASE \E ok \in BOOLEAN : EndCapture(t, ok)
      <4>1. PICK ok \in BOOLEAN : EndCapture(t, ok)
        BY Zenon, <3>1
      <4>2. PICK CG, SG \in SUBSET {cap.graph} :
                Drop(CG, {}, SG, {}) /\ (CG = {} => cap.graph \notin stray)
        BY Zenon, <4>1, EndOutcome
      <4>3. cap.graph \notin CG
        BY Zenon, <4>2 DEF Drop, Without
      <4> QED
        BY Zenon, <4>2, <4>3
    <3>2. CASE \E s \in Streams : BeginCapture(t, s)
      BY Zenon, <3>2 DEF BeginCapture, Plain
    <3>3. CASE \E s \in Streams, g \in DOMAIN cGraph, deps \in SUBSET DOMAIN cNode :
                  BeginCaptureToGraph(t, s, g, deps)
      BY Zenon, <3>3 DEF BeginCaptureToGraph, Plain
    <3>4. CASE \E outcome \in {"tracked", "untracked", "refused"} : CaptureSubmit(t, outcome)
      <4>1. cap'.status # "None"
        BY Zenon, <3>4 DEF CaptureSubmit, Invalidated, IInv, CaptureOk, CaptureTypes
      <4> QED
        BY Zenon, <2>2, <4>1
    <3>5. CASE \E deps \in SUBSET DOMAIN cNode, replace \in BOOLEAN :
                  UpdateCaptureDependencies(t, deps, replace)
      <4>1. cap'.status # "None"
        BY Zenon, <3>5 DEF UpdateCaptureDependencies, IInv, CaptureOk, CaptureTypes
      <4> QED
        BY Zenon, <2>2, <4>1
    <3>6. CASE ExchangeCaptureMode(t) \/ AskToAllocate(t)
      BY Zenon, <2>2, <3>6 DEF ExchangeCaptureMode, AskToAllocate, client
    <3> QED
      BY Zenon, <2>4, <3>1, <3>2, <3>3, <3>4, <3>5, <3>6 DEF CaptureCall
  <2>5. CASE Reject
    <3>1. cap'.status # "None"
      BY Zenon, <2>5 DEF Reject, Invalidated, IInv, CaptureOk, CaptureTypes
    <3> QED
      BY Zenon, <2>2, <3>1
  <2>6. CASE Allocate
    BY Zenon, <2>2, <2>6 DEF Allocate, client
  <2>7. CASE SessionLost
    BY <2>7 DEF SessionLost
  <2> QED
    BY Zenon, <2>1, <2>3, <2>4, <2>5, <2>6, <2>7 DEF Next
<1> QED
  BY <1>1, Invariance, PTL DEF Spec, CaptureIsComplete

=============================================================================
