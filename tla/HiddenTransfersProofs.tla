------------------------- MODULE HiddenTransfersProofs ------------------------
(***************************************************************************)
(* Proofs about HiddenTransfers, for every set of streams, events and      *)
(* allocations and every table size with MaxTransfers <= MaxHidden: merged *)
(* frontiers, the inductive invariant and type correctness of every group  *)
(* of actions, preservation of Core, the ordering and table part of the    *)
(* invariant; then every step preserves the inductive invariant and the    *)
(* safety properties follow, and drains write in causal order, because a   *)
(* frontier that covers a transfer covers what was ordered before it.      *)
(***************************************************************************)
EXTENDS HiddenTransfers, FiniteSetTheorems, TLAPS

------------------------------------------------------------------------------
(* Greatest elements of sets of naturals.                                  *)

NatLess == {p \in Nat \X Nat : p[1] < p[2]}

\* The order of the naturals is well founded.
LEMMA NatLessWellFounded == IsWellFoundedOn(NatLess, Nat)
  BY NatLessThanWellFounded, Zenon DEF OpToRel, NatLess

\* A nonempty set of naturals has a least element.
LEMMA LeastElement ==
  ASSUME NEW S \in SUBSET Nat, S # {}
  PROVE  \E x \in S : \A y \in S : x <= y
<1>1. PICK x \in S : \A y \in S : ~ (<<y, x>> \in NatLess)
  BY Zenon, NatLessWellFounded, WFMin
<1>2. \A y \in S : x <= y
  <2> TAKE y \in S
  <2>1. ~ (<<y, x>> \in NatLess)
    BY Zenon, <1>1
  <2>2. x \in Nat /\ y \in Nat
    BY Zenon, <1>1
  <2>3. ~(y < x)
    BY Zenon, <2>1, <2>2 DEF NatLess
  <2> QED BY <2>2, <2>3
<1> QED BY Zenon, <1>2

\* A nonempty bounded set of naturals contains its maximum.
LEMMA MaxOfBounded ==
  ASSUME NEW S \in SUBSET Nat, S # {}, NEW b \in Nat, \A x \in S : x <= b
  PROVE  Max(S) \in S /\ \A y \in S : y <= Max(S)
<1> DEFINE D == {d \in Nat : \E x \in S : d = b - x}
<1>1. D \in SUBSET Nat /\ D # {}
  <2>1. PICK x \in S : TRUE
    BY Zenon
  <2>2. b - x \in D
    BY x <= b
  <2> QED BY Zenon, <2>2
<1>2. PICK d \in D : \A e \in D : d <= e
  BY Zenon, <1>1, LeastElement
<1>3. PICK x \in S : d = b - x
  BY Zenon, <1>2
<1>4. \A y \in S : x >= y
  <2> TAKE y \in S
  <2>1. b - y \in D
    BY y <= b
  <2> QED BY <1>2, <1>3, <2>1
<1> QED BY Zenon, <1>4 DEF Max

------------------------------------------------------------------------------
(* What merged frontiers cover.                                            *)

\* Merging the frontiers of a set of slots yields a frontier that dominates
\* each of them and stays below any common bound.
LEMMA MergeOverDominates ==
  ASSUME NEW S \in SUBSET Slots, S # {},
         NEW f \in [Slots -> Frontier], NEW b \in Frontier,
         \A s \in S, i \in Slots : f[s][i] <= b[i]
  PROVE  /\ MergeOver(S, f) \in Frontier
         /\ \A i \in Slots : MergeOver(S, f)[i] <= b[i]
         /\ \A s \in S, i \in Slots : f[s][i] <= MergeOver(S, f)[i]
<1>1. ASSUME NEW i \in Slots
      PROVE  /\ Max({f[s][i] : s \in S}) \in Nat
             /\ Max({f[s][i] : s \in S}) <= b[i]
             /\ \A r \in S : f[r][i] <= Max({f[s][i] : s \in S})
  <2> DEFINE V == {f[s][i] : s \in S}
  <2>1. V \in SUBSET Nat /\ V # {} /\ b[i] \in Nat /\ \A x \in V : x <= b[i]
    BY DEF Frontier
  <2>2. Max(V) \in V /\ \A y \in V : y <= Max(V)
    <3> HIDE DEF V
    <3> QED BY Zenon, <2>1, MaxOfBounded
  <2> QED BY Zenon, <2>1, <2>2
<1> QED BY Zenon, <1>1 DEF MergeOver, Frontier

------------------------------------------------------------------------------
(* The inductive invariant.                                                *)

\* No frontier and no transfer is ahead of its stream's sequence counter.
SeqBound ==
    /\ \A s \in Slots, i \in Slots : frontier[s][i] <= seq[i]
    /\ \A e \in Events, i \in Slots : evFrontier[e][i] <= seq[i]
    /\ \A t \in hidden : t.seq <= seq[t.slot]

\* Items ordered before some stream or event of the session.
Ordered(i) ==
    \/ \E s \in Slots : i \in before[s]
    \/ \E e \in Events : i \in evBefore[e]

\* An ordered device-to-host copy is visible or still has a hidden transfer.
Accounted ==
    \A i \in d2h : Ordered(i) => Visible(i) \/ \E t \in hidden : t.item = i

\* Client and server tables pair up by TransferID.
TablesPaired ==
    /\ IsFiniteSet(hidden) /\ IsFiniteSet(transfers)
    /\ Cardinality(hidden) = Cardinality(transfers)
    /\ \A t \in hidden : t.id < nextTransfer
    /\ \A x \in transfers : x.id < nextTransfer
    /\ \A t, u \in hidden : t.id = u.id => t = u
    /\ \A x, y \in transfers : x.id = y.id => x = y
    /\ TablesAgree

\* While the worker drains, the frontier it was handed covers all that the
\* device orders before the host function.
CallbackCovered ==
    call.op = "callback" =>
        \A t \in hidden :
            t.item \in DevicePreds(call.arg) => Covers(frontier[call.arg], t)

\* An event that was never recorded orders nothing.
UnrecordedEmpty == \A e \in Events : e \notin recorded => evBefore[e] = {}

Core == SeqBound /\ CausalCover /\ Accounted /\ TablesPaired /\ RightData

IInv == TypeOK /\ Core /\ UnrecordedEmpty /\ CallbackCovered /\ SyncMakesVisible

------------------------------------------------------------------------------
(* Lemmas about the ordering rules.                                        *)

\* apply_legacy_default_ordering changes only the stream's own frontier,
\* only upwards, and never beyond the sequence counters.
LEMMA LegacyOrderedGrows ==
  ASSUME TypeOK, SeqBound, NEW s \in Slots
  PROVE  /\ LegacyOrdered(s) \in [Slots -> Frontier]
         /\ \A x \in Slots : x # s => LegacyOrdered(s)[x] = frontier[x]
         /\ \A x, i \in Slots : LegacyOrdered(s)[x][i] <= seq[i]
         /\ \A i \in Slots : frontier[s][i] <= LegacyOrdered(s)[s][i]
<1> DEFINE L == {x \in Slots : LiveSlot(x)}
<1>1. L \in SUBSET Slots /\ DefaultSlot \in L /\ DefaultSlot \in Slots
  BY Zenon DEF LiveSlot, Slots
<1>2. seq \in Frontier /\ frontier \in [Slots -> Frontier]
  BY Zenon DEF TypeOK, Frontier
<1>3. /\ MergeOver(L, frontier) \in Frontier
      /\ \A i \in Slots : MergeOver(L, frontier)[i] <= seq[i]
      /\ \A x \in L, i \in Slots : frontier[x][i] <= MergeOver(L, frontier)[i]
  <2> HIDE DEF L
  <2> QED BY Zenon, <1>1, <1>2, MergeOverDominates DEF SeqBound
<1>4. CASE s = DefaultSlot
  <2> HIDE DEF L
  <2>1. LegacyOrdered(s) = [frontier EXCEPT ![DefaultSlot] = MergeOver(L, frontier)]
    BY Zenon, <1>4 DEF LegacyOrdered, L
  <2> QED BY Zenon, <1>1, <1>2, <1>3, <1>4, <2>1 DEF SeqBound
<1>5. CASE s # DefaultSlot /\ s \in nonblocking
  BY <1>2, <1>5 DEF LegacyOrdered, SeqBound, Frontier
<1>6. CASE s # DefaultSlot /\ s \notin nonblocking
  <2>1. LegacyOrdered(s) =
          [frontier EXCEPT ![s] = FrontierMerge(frontier[s], frontier[DefaultSlot])]
    BY Zenon, <1>2, <1>6 DEF LegacyOrdered
  <2>2. /\ FrontierMerge(frontier[s], frontier[DefaultSlot]) \in Frontier
        /\ \A i \in Slots :
             /\ FrontierMerge(frontier[s], frontier[DefaultSlot])[i] <= seq[i]
             /\ frontier[s][i] <= FrontierMerge(frontier[s], frontier[DefaultSlot])[i]
    BY <1>1, <1>2 DEF FrontierMerge, SeqBound, Frontier
  <2> QED BY Zenon, <1>2, <2>1, <2>2 DEF SeqBound
<1> QED BY Zenon, <1>4, <1>5, <1>6

\* Items the device orders before a submission are items, and ordered.
LEMMA DevicePredsOrdered ==
  ASSUME TypeOK, NEW s \in Slots
  PROVE  /\ DevicePreds(s) \in SUBSET Items
         /\ \A i \in DevicePreds(s) : \E x \in Slots : i \in before[x]
  BY DEF TypeOK, DevicePreds, Slots

\* The ordered frontier covers every transfer that the device orders before
\* the stream's next submission.
LEMMA LegacyOrderedCovers ==
  ASSUME TypeOK, SeqBound, CausalCover, NEW s \in Slots,
         NEW t \in hidden, t.item \in DevicePreds(s)
  PROVE  Covers(LegacyOrdered(s)[s], t)
<1> DEFINE L == {x \in Slots : LiveSlot(x)}
<1>1. L \in SUBSET Slots /\ DefaultSlot \in L /\ DefaultSlot \in Slots
  BY Zenon DEF LiveSlot, Slots
<1>2. seq \in Frontier /\ frontier \in [Slots -> Frontier]
      /\ t.slot \in Slots /\ t.seq \in Nat
  BY Zenon DEF TypeOK, Frontier
<1>3. \A x \in L, i \in Slots :
        MergeOver(L, frontier)[i] \in Nat /\ frontier[x][i] <= MergeOver(L, frontier)[i]
  <2> HIDE DEF L
  <2> QED BY Zenon, <1>1, <1>2, MergeOverDominates DEF SeqBound, Frontier
<1>4. CASE s = DefaultSlot
  <2> HIDE DEF L
  <2>1. LegacyOrdered(s)[s] = MergeOver(L, frontier)
    BY Zenon, <1>1, <1>2, <1>4 DEF LegacyOrdered, L
  <2>2. PICK x \in L : t.item \in before[x]
    BY Zenon, <1>1, <1>4 DEF DevicePreds, L, LiveSlot, Slots
  <2>3. t.seq <= frontier[x][t.slot]
    BY Zenon, <1>1, <2>2 DEF CausalCover, Covers
  <2> QED BY <1>1, <1>2, <1>3, <2>1, <2>2, <2>3 DEF Covers, Frontier
<1>5. CASE s # DefaultSlot /\ s \in nonblocking
  BY Zenon, <1>5 DEF LegacyOrdered, DevicePreds, CausalCover
<1>6. CASE s # DefaultSlot /\ s \notin nonblocking
  <2>1. LegacyOrdered(s)[s] = FrontierMerge(frontier[s], frontier[DefaultSlot])
    BY Zenon, <1>2, <1>6 DEF LegacyOrdered
  <2>2. t.item \in before[s] \/ t.item \in before[DefaultSlot]
    BY Zenon, <1>6 DEF DevicePreds
  <2>3. t.seq <= frontier[s][t.slot] \/ t.seq <= frontier[DefaultSlot][t.slot]
    BY Zenon, <1>1, <2>2 DEF CausalCover, Covers
  <2> QED BY <1>1, <1>2, <2>1, <2>3 DEF Covers, FrontierMerge, Frontier
<1> QED BY Zenon, <1>4, <1>5, <1>6

\* What a submission does to the device's bookkeeping.
LEMMA EnqueueFacts ==
  ASSUME TypeOK, NEW s \in Slots, NEW isD2H \in BOOLEAN, Enqueue(s, isD2H)
  PROVE  /\ preds' \in Seq(SUBSET Nat)
         /\ Items' = Items \cup {Len(preds) + 1}
         /\ Len(preds) + 1 \in Nat /\ Len(preds) + 1 \notin Items
         /\ d2h' \in SUBSET Items'
         /\ d2h' = IF isD2H THEN d2h \cup {Len(preds) + 1} ELSE d2h
         /\ before' \in [Slots -> SUBSET Items']
         /\ before'[s] = DevicePreds(s) \cup {Len(preds) + 1}
         /\ \A x \in Slots : x # s => before'[x] = before[x]
         /\ evBefore' = evBefore
<1>1. DevicePreds(s) \in SUBSET Items
  BY Zenon, DevicePredsOrdered
<1>2. preds \in Seq(SUBSET Nat) /\ Items = 1 .. Len(preds) /\ Len(preds) \in Nat
  BY DEF TypeOK, Items
<1>3. preds' = Append(preds, DevicePreds(s)) /\ DevicePreds(s) \in SUBSET Nat
  BY <1>1, <1>2 DEF Enqueue
<1>4. preds' \in Seq(SUBSET Nat) /\ Len(preds') = Len(preds) + 1
  BY <1>2, <1>3
<1>5. /\ Items' = Items \cup {Len(preds) + 1}
      /\ Len(preds) + 1 \in Nat /\ Len(preds) + 1 \notin Items
  BY <1>2, <1>4 DEF Items
<1>6. d2h \in SUBSET Items /\ before \in [Slots -> SUBSET Items]
  BY Zenon DEF TypeOK
<1>7. d2h' = IF isD2H THEN d2h \cup {Len(preds) + 1} ELSE d2h
  BY Zenon DEF Enqueue
<1>8. /\ before' = [before EXCEPT ![s] = DevicePreds(s) \cup {Len(preds) + 1}]
      /\ evBefore' = evBefore
  BY Zenon DEF Enqueue
<1>9. before' \in [Slots -> SUBSET Items']
  BY Zenon, <1>1, <1>5, <1>6, <1>8
<1> QED BY Zenon, <1>4, <1>5, <1>6, <1>7, <1>8, <1>9

\* What taking a sequence number does to the frontiers.
LEMMA SequencedFacts ==
  ASSUME TypeOK, SeqBound, NEW s \in Slots, Sequenced(s)
  PROVE  /\ seq' \in [Slots -> Nat] /\ frontier' \in [Slots -> Frontier]
         /\ \A x \in Slots : x # s => frontier'[x] = frontier[x]
         /\ frontier'[s][s] = seq[s] + 1
         /\ \A i \in Slots : seq[i] <= seq'[i]
         /\ \A x, i \in Slots : frontier'[x][i] <= seq'[i]
         /\ \A i \in Slots : LegacyOrdered(s)[s][i] <= frontier'[s][i]
         /\ seq'[s] = seq[s] + 1
<1> DEFINE L == LegacyOrdered(s)
<1>1. /\ L \in [Slots -> Frontier]
      /\ \A x \in Slots : x # s => L[x] = frontier[x]
      /\ \A x, i \in Slots : L[x][i] <= seq[i]
  BY Zenon, LegacyOrderedGrows
<1>2. seq \in [Slots -> Nat]
  BY Zenon DEF TypeOK
<1>3. seq' = [seq EXCEPT ![s] = @ + 1] /\ frontier' = [L EXCEPT ![s][s] = seq[s] + 1]
  BY Zenon DEF Sequenced
<1> HIDE DEF L
<1>4. seq' \in [Slots -> Nat] /\ seq'[s] = seq[s] + 1
      /\ \A i \in Slots : seq[i] <= seq'[i]
  BY <1>2, <1>3
<1>5. /\ frontier' \in [Slots -> Frontier]
      /\ frontier'[s][s] = seq[s] + 1
      /\ \A i \in Slots : i # s => frontier'[s][i] = L[s][i]
      /\ \A x \in Slots : x # s => frontier'[x] = L[x]
  BY <1>1, <1>2, <1>3 DEF Frontier
<1>6. \A i \in Slots : L[s][i] <= frontier'[s][i]
  BY <1>1, <1>2, <1>5 DEF Frontier
<1>7. ASSUME NEW x \in Slots, NEW i \in Slots PROVE frontier'[x][i] <= seq'[i]
  <2>1. /\ L[x][i] \in Nat /\ seq[i] \in Nat /\ seq'[i] \in Nat
        /\ L[x][i] <= seq[i] /\ seq[i] <= seq'[i]
    BY Zenon, <1>1, <1>2, <1>4 DEF Frontier
  <2>2. CASE x = s /\ i = s
    BY <1>4, <1>5, <2>1, <2>2
  <2>3. CASE ~(x = s /\ i = s)
    <3>1. frontier'[x][i] = L[x][i]
      BY Zenon, <1>5, <2>3
    <3> QED BY <2>1, <3>1
  <2> QED BY Zenon, <2>2, <2>3
<1> QED BY Zenon, <1>1, <1>4, <1>5, <1>6, <1>7 DEF L

------------------------------------------------------------------------------
(* Type correctness.                                                       *)

\* Handle creation, calls that begin, and failures keep the types.
LEMMA TypeEntry ==
  ASSUME TypeOK, SeqBound,
         \/ EnsureRuntime \/ ConnectFails \/ Creation \/ BlockingCall \/ Failure
         \/ Device
  PROVE  TypeOK'
<1>1. CASE EnsureRuntime
  BY SMTT(30), <1>1 DEF TypeOK, EnsureRuntime, Items, serverVars, orderVars, Rets, NoRet
<1>2. CASE ConnectFails
  BY Zenon, <1>2 DEF TypeOK, ConnectFails, Items, clientVars, serverVars, orderVars, Rets
<1>3. CASE Creation
  <2>1. ASSUME NEW s \in Streams, NEW nb \in BOOLEAN, StreamCreate(s, nb)
        PROVE  TypeOK'
    <3>1. streamState \in [Streams -> HandleState] /\ nonblocking \in SUBSET Streams
      BY Zenon DEF TypeOK
    <3>2. streamState' = [streamState EXCEPT ![s] = "live"]
          /\ nonblocking' = IF nb THEN nonblocking \cup {s} ELSE nonblocking
      BY Zenon, <2>1 DEF StreamCreate
    <3>3. streamState' \in [Streams -> HandleState] /\ nonblocking' \in SUBSET Streams
      BY Zenon, <3>1, <3>2 DEF HandleState
    <3> QED BY Zenon, <2>1, <3>3
            DEF TypeOK, StreamCreate, Items, serverVars, orderVars, Rets
  <2>2. ASSUME NEW e \in Events, EventCreate(e) PROVE TypeOK'
    BY Zenon, <2>2 DEF TypeOK, EventCreate, Items, serverVars, orderVars, Rets, HandleState
  <2>3. ASSUME NEW a \in Allocs, Malloc(a) PROVE TypeOK'
    BY Zenon, <2>3 DEF TypeOK, Malloc, Items, serverVars, orderVars, Rets, HandleState
  <2> QED BY Zenon, <1>3, <2>1, <2>2, <2>3 DEF Creation
<1>4. CASE BlockingCall
  <2>1. ASSUME NEW op, NEW arg, NEW stage \in Stages, Begin(op, arg, stage),
               frontier' \in [Slots -> Frontier],
               \/ op \in StreamCalls /\ arg \in Slots
               \/ op \in EventCalls /\ arg \in Events
               \/ op = "free" /\ arg \in Allocs
               \/ op = "allSync" /\ arg = DefaultSlot
        PROVE  TypeOK'
    <3>1. call' \in Calls /\ ret' \in Rets
      BY Zenon, <2>1 DEF Begin, Calls, Rets
    <3> QED BY Zenon, <2>1, <3>1 DEF TypeOK, Begin, Items, serverVars, orderVars
  <2>2. frontier \in [Slots -> Frontier]
    BY Zenon DEF TypeOK
  <2>3. ASSUME NEW s \in Slots, StreamSynchronize(s) PROVE TypeOK'
    <3>1. CASE s = DefaultSlot
      BY Zenon, <2>1, <2>2, <2>3, <3>1 DEF StreamSynchronize, Stages
    <3>2. CASE s # DefaultSlot
      BY Zenon, <2>1, <2>2, <2>3, <3>2 DEF StreamSynchronize, Stages, StreamCalls
    <3> QED BY Zenon, <3>1, <3>2
  <2>4. ASSUME NEW s \in Slots, StreamQuery(s) PROVE TypeOK'
    BY Zenon, <2>1, <2>4, LegacyOrderedGrows DEF StreamQuery, Stages, StreamCalls
  <2>5. ASSUME NEW s \in Slots, HostCallback(s) PROVE TypeOK'
    BY Zenon, <2>1, <2>5, LegacyOrderedGrows DEF HostCallback, Stages, StreamCalls
  <2>6. CASE DeviceSynchronize
    BY Zenon, <2>1, <2>2, <2>6 DEF DeviceSynchronize, Stages
  <2>7. ASSUME NEW s \in Streams, StreamDestroy(s) PROVE TypeOK'
    BY Zenon, <2>1, <2>2, <2>7 DEF StreamDestroy, Stages, StreamCalls, Slots
  <2>8. ASSUME NEW e \in Events, EventSynchronize(e) PROVE TypeOK'
    BY Zenon, <2>1, <2>2, <2>8 DEF EventSynchronize, Stages, EventCalls
  <2>9. ASSUME NEW e \in Events, EventQuery(e) PROVE TypeOK'
    BY Zenon, <2>1, <2>2, <2>9 DEF EventQuery, Stages, EventCalls
  <2>10. ASSUME NEW e \in Events, EventDestroy(e) PROVE TypeOK'
    <3>1. (IF e \in recorded THEN "barrier" ELSE "finish") \in Stages
      BY Zenon DEF Stages
    <3> QED BY Zenon, <2>1, <2>2, <2>10, <3>1 DEF EventDestroy, EventCalls
  <2>11. ASSUME NEW a \in Allocs, Free(a) PROVE TypeOK'
    BY Zenon, <2>1, <2>2, <2>11 DEF Free, Stages
  <2> QED BY Zenon, <1>4, <2>3, <2>4, <2>5, <2>6, <2>7, <2>8, <2>9, <2>10, <2>11
          DEF BlockingCall
<1>5. CASE Failure
  <2>1. CASE TransportFailure
    <3>1. /\ streamState \in [Streams -> HandleState] /\ eventState \in [Events -> HandleState]
          /\ allocState \in [Allocs -> HandleState] /\ seq \in [Slots -> Nat]
      BY Zenon DEF TypeOK
    <3>2. /\ streamState' = [s \in Streams |->
                 IF streamState[s] = "live" THEN "dead" ELSE streamState[s]]
          /\ eventState' = [e \in Events |->
                 IF eventState[e] = "live" THEN "dead" ELSE eventState[e]]
          /\ allocState' = [a \in Allocs |->
                 IF allocState[a] = "live" THEN "dead" ELSE allocState[a]]
          /\ seq' = [seq EXCEPT ![DefaultSlot] = 0]
      BY Zenon, <2>1 DEF TransportFailure, SessionFails
    <3>3. /\ streamState' \in [Streams -> HandleState] /\ eventState' \in [Events -> HandleState]
          /\ allocState' \in [Allocs -> HandleState]
      BY Zenon, <3>1, <3>2 DEF HandleState
    <3>4. seq' \in [Slots -> Nat]
      BY Zenon, <3>1, <3>2
    <3>5. /\ frontier' = [s \in Slots |-> ZeroFrontier]
          /\ evFrontier' = [e \in Events |-> ZeroFrontier]
      BY Zenon, <2>1 DEF TransportFailure, SessionFails
    <3>6. ZeroFrontier \in Frontier
      BY Zenon DEF ZeroFrontier, Frontier
    <3>7. /\ frontier' \in [Slots -> Frontier] /\ evFrontier' \in [Events -> Frontier]
      BY Zenon, <3>5, <3>6
    <3>8. /\ gen' = 0 /\ UNCHANGED <<nextGen, nonblocking, written, preds, d2h>>
          /\ recorded' = {} /\ hidden' = {} /\ submitOrder' = 0
          /\ transfers' = {} /\ nextTransfer' = 1
          /\ before' = [s \in Slots |-> {}] /\ evBefore' = [e \in Events |-> {}]
          /\ done' = Items /\ call' = NoCall /\ ret' = NoRet
      BY Zenon, <2>1 DEF TransportFailure, SessionFails, DropHidden
    <3>9. /\ before' \in [Slots -> SUBSET Items] /\ evBefore' \in [Events -> SUBSET Items]
      BY Zenon, <3>8
    <3>10. /\ gen' \in Nat /\ submitOrder' \in Nat /\ nextTransfer' \in Nat
      BY Zenon, <3>8
    <3>11. Items' = Items
      BY Zenon, <3>8 DEF Items
    <3> QED BY Zenon, <3>3, <3>4, <3>7, <3>8, <3>9, <3>10, <3>11 DEF TypeOK, Rets, Calls
  <2>2. CASE CallFails
    BY Zenon, <2>2 DEF TypeOK, CallFails, Return, Items, Rets, Calls, clientVars,
                serverVars, orderVars
  <2>3. ASSUME NEW s \in Slots, SubmitFails(s) PROVE TypeOK'
    <3>1. LegacyOrdered(s) \in [Slots -> Frontier]
      BY Zenon, LegacyOrderedGrows
    <3> QED BY Zenon, <2>3, <3>1 DEF TypeOK, SubmitFails, Items, Rets, serverVars, orderVars
  <2> QED BY Zenon, <1>5, <2>1, <2>2, <2>3 DEF Failure
<1>6. CASE Device
  BY Zenon, <1>6 DEF TypeOK, Device, Complete, Items, clientVars, serverVars, orderVars
<1> QED BY Zenon, <1>1, <1>2, <1>3, <1>4, <1>5, <1>6

\* Submissions keep the types.
LEMMA TypeSubmission ==
  ASSUME TypeOK, SeqBound, Submission
  PROVE  TypeOK'
<1> USE DEF Rets
<1>1. ASSUME NEW s \in Slots, NEW isD2H \in BOOLEAN, NEW a \in Allocs,
             MemcpyAsync(s, isD2H, a) \/ Memcpy2DAsync(s, isD2H, a)
      PROVE  TypeOK'
  <2>1. Enqueue(s, isD2H) /\ nextTransfer' = nextTransfer + 1
        /\ transfers' = transfers \cup {[id |-> nextTransfer, item |-> Len(preds) + 1]}
    BY Zenon, <1>1 DEF MemcpyAsync, Memcpy2DAsync, ServerSubmit
  <2>2. /\ preds' \in Seq(SUBSET Nat) /\ Items \subseteq Items'
        /\ Len(preds) + 1 \in Items' /\ d2h' \in SUBSET Items'
        /\ before' \in [Slots -> SUBSET Items'] /\ evBefore' = evBefore
    BY Zenon, <2>1, EnqueueFacts
  <2>3. transfers' \in SUBSET [id : Nat, item : Items'] /\ nextTransfer' \in Nat
    BY SMTT(30), <2>1, <2>2 DEF TypeOK
  <2>4. seq' \in [Slots -> Nat] /\ frontier' \in [Slots -> Frontier]
    <3>1. Sequenced(s) \/ (seq' = seq /\ frontier' = LegacyOrdered(s))
      BY Zenon, <1>1 DEF MemcpyAsync, Memcpy2DAsync
    <3>2. CASE Sequenced(s)
      BY Zenon, <3>2, SequencedFacts
    <3>3. CASE seq' = seq /\ frontier' = LegacyOrdered(s)
      <4>1. seq \in [Slots -> Nat]
        BY Zenon DEF TypeOK
      <4> QED BY Zenon, <3>3, <4>1, LegacyOrderedGrows
    <3> QED BY Zenon, <3>1, <3>2, <3>3
  <2>5. NewHidden(s, a) \in [id : Nat, item : Items', alloc : Allocs, slot : Slots,
                             seq : Nat, order : Nat]
    <3>1. nextTransfer \in Nat /\ seq[s] \in Nat /\ submitOrder \in Nat
      BY Zenon DEF TypeOK
    <3> QED BY <2>2, <3>1 DEF NewHidden
  <2>6. /\ hidden' \in SUBSET [id : Nat, item : Items', alloc : Allocs,
                               slot : Slots, seq : Nat, order : Nat]
        /\ submitOrder' \in Nat
    <3>1. \/ hidden' = hidden \cup {NewHidden(s, a)} /\ submitOrder' = submitOrder + 1
          \/ hidden' = hidden /\ submitOrder' = submitOrder
      BY Zenon, <1>1 DEF MemcpyAsync, Memcpy2DAsync
    <3>2. /\ hidden \in SUBSET [id : Nat, item : Items, alloc : Allocs,
                                slot : Slots, seq : Nat, order : Nat]
          /\ submitOrder \in Nat
      BY Zenon DEF TypeOK
    <3>3. hidden \in SUBSET [id : Nat, item : Items', alloc : Allocs,
                             slot : Slots, seq : Nat, order : Nat]
      BY Zenon, <2>2, <3>2
    <3> QED BY <2>5, <3>1, <3>2, <3>3
  <2>7. /\ written' \in SUBSET [dst : Items', data : Items', by : Drains]
        /\ evBefore' \in [Events -> SUBSET Items'] /\ done' \in SUBSET Items'
    BY Zenon, <1>1, <2>2 DEF TypeOK, MemcpyAsync, Memcpy2DAsync
  <2>8. /\ ret' = NoRet
        /\ UNCHANGED <<gen, nextGen, streamState, nonblocking, eventState, recorded,
                       evFrontier, allocState, call>>
    BY Zenon, <1>1 DEF MemcpyAsync, Memcpy2DAsync
  <2>9. /\ gen' \in Nat /\ nextGen' \in Nat \ {0} /\ streamState' \in [Streams -> HandleState]
        /\ nonblocking' \in SUBSET Streams /\ eventState' \in [Events -> HandleState]
        /\ recorded' \in SUBSET Events /\ evFrontier' \in [Events -> Frontier]
        /\ allocState' \in [Allocs -> HandleState] /\ call' \in Calls /\ ret' \in Rets
    BY Zenon, <2>8 DEF TypeOK
  <2> QED BY Zenon, <2>2, <2>3, <2>4, <2>6, <2>7, <2>9 DEF TypeOK
<1>2. ASSUME NEW s \in Slots,
             StreamOp(s) \/ LaunchKernel(s) \/ \E a \in Allocs : FreeAsync(s, a)
      PROVE  TypeOK'
  <2>1. Enqueue(s, FALSE)
    BY Zenon, <1>2 DEF StreamOp, LaunchKernel, FreeAsync
  <2>2. /\ preds' \in Seq(SUBSET Nat) /\ Items \subseteq Items'
        /\ d2h' \in SUBSET Items'
        /\ before' \in [Slots -> SUBSET Items'] /\ evBefore' = evBefore
    BY Zenon, <2>1, EnqueueFacts
  <2>3. seq' \in [Slots -> Nat] /\ frontier' \in [Slots -> Frontier]
    <3>1. Sequenced(s) \/ (seq' = seq /\ frontier' = LegacyOrdered(s))
      BY Zenon, <1>2 DEF StreamOp, LaunchKernel, FreeAsync
    <3> QED BY Zenon, <3>1, SequencedFacts, LegacyOrderedGrows DEF TypeOK
  <2>4. UNCHANGED <<hidden, transfers, written, done, nextTransfer, submitOrder>>
    BY ZenonT(30), <1>2 DEF StreamOp, LaunchKernel, FreeAsync, serverVars
  <2>5. /\ hidden' \in SUBSET [id : Nat, item : Items', alloc : Allocs,
                               slot : Slots, seq : Nat, order : Nat]
        /\ transfers' \in SUBSET [id : Nat, item : Items']
        /\ written' \in SUBSET [dst : Items', data : Items', by : Drains]
        /\ evBefore' \in [Events -> SUBSET Items'] /\ done' \in SUBSET Items'
    BY Zenon, <2>2, <2>4 DEF TypeOK
  <2>6. allocState' \in [Allocs -> HandleState]
    <3>1. allocState \in [Allocs -> HandleState]
      BY Zenon DEF TypeOK
    <3>2. \/ allocState' = allocState
          \/ \E a \in Allocs : allocState' = [allocState EXCEPT ![a] = "dead"]
      BY ZenonT(30), <1>2 DEF StreamOp, LaunchKernel, FreeAsync
    <3> QED BY Zenon, <3>1, <3>2 DEF HandleState
  <2> QED BY Zenon, <1>2, <2>2, <2>3, <2>4, <2>5, <2>6
          DEF TypeOK, StreamOp, LaunchKernel, FreeAsync
<1>3. ASSUME NEW s \in Slots, NEW e \in Events, EventRecord(e, s)
      PROVE  TypeOK'
  BY Zenon, <1>3, LegacyOrderedGrows, DevicePredsOrdered
     DEF TypeOK, EventRecord, Snapshot, Items, serverVars
<1>4. ASSUME NEW s \in Slots, NEW e \in Events, StreamWaitEvent(s, e)
      PROVE  TypeOK'
  <2>1. frontier' \in [Slots -> Frontier]
    <3>1. LegacyOrdered(s) \in [Slots -> Frontier] /\ evFrontier[e] \in Frontier
      BY Zenon, LegacyOrderedGrows DEF TypeOK
    <3>2. FrontierMerge(LegacyOrdered(s)[s], evFrontier[e]) \in Frontier
      BY Zenon, <3>1 DEF FrontierMerge, Frontier
    <3> QED BY Zenon, <1>4, <3>1, <3>2 DEF StreamWaitEvent, WaitMerged
  <2> QED BY ZenonT(30), <1>4, <2>1, DevicePredsOrdered
          DEF TypeOK, StreamWaitEvent, Items, serverVars
<1> QED BY Zenon, <1>1, <1>2, <1>3, <1>4 DEF Submission

\* The call in progress, by kind.
LEMMA CallKinds ==
  ASSUME TypeOK, call.stage # "none"
  PROVE  /\ \/ call.op \in StreamCalls /\ call.arg \in Slots
            \/ call.op \in EventCalls /\ call.arg \in Events
            \/ call.op = "free" /\ call.arg \in Allocs
            \/ call.op = "allSync" /\ call.arg = DefaultSlot
         /\ \A st \in Stages : [call EXCEPT !.stage = st] \in Calls
<1>1. \/ call \in [op : StreamCalls, arg : Slots, stage : Stages]
      \/ call \in [op : EventCalls, arg : Events, stage : Stages]
      \/ call \in [op : {"free"}, arg : Allocs, stage : Stages]
      \/ call \in [op : {"allSync"}, arg : {DefaultSlot}, stage : Stages]
  <2>1. call \in Calls
    BY Zenon DEF TypeOK
  <2>2. call # NoCall
    BY DEF NoCall
  <2> QED BY Zenon, <2>1, <2>2 DEF Calls
<1>2. \A st \in Stages : [call EXCEPT !.stage = st] \in Calls
  <2> TAKE st \in Stages
  <2>1. \/ [call EXCEPT !.stage = st] \in [op : StreamCalls, arg : Slots, stage : Stages]
        \/ [call EXCEPT !.stage = st] \in [op : EventCalls, arg : Events, stage : Stages]
        \/ [call EXCEPT !.stage = st] \in [op : {"free"}, arg : Allocs, stage : Stages]
        \/ [call EXCEPT !.stage = st]
              \in [op : {"allSync"}, arg : {DefaultSlot}, stage : Stages]
    BY Zenon, <1>1
  <2> QED BY Zenon, <2>1 DEF Calls
<1>3. /\ \/ call.op \in StreamCalls /\ call.arg \in Slots
         \/ call.op \in EventCalls /\ call.arg \in Events
         \/ call.op = "free" /\ call.arg \in Allocs
         \/ call.op = "allSync" /\ call.arg = DefaultSlot
  BY Zenon, <1>1
<1> QED BY Zenon, <1>2, <1>3

\* What a call drains is among the hidden transfers.
LEMMA MatchingHidden == \A t \in Matching(call) : t \in hidden
  BY Zenon DEF Matching

\* The steps inside a call keep the types.
LEMMA TypeCallStep ==
  ASSUME TypeOK, CallStep
  PROVE  TypeOK'
<1>1. CASE Barrier
  <2>1. call' \in Calls
    BY Zenon, <1>1, CallKinds DEF Barrier, Stages
  <2> QED BY Zenon, <1>1, <2>1 DEF TypeOK, Barrier, Items, clientVars, serverVars, orderVars
<1>2. CASE QueryAnswer
  <2>1. call' \in Calls /\ ret' \in Rets
    BY Zenon, <1>2, CallKinds DEF QueryAnswer, Return, Stages, Calls, Rets, TypeOK
  <2> QED BY Zenon, <1>2, <2>1 DEF TypeOK, QueryAnswer, Items, clientVars, serverVars, orderVars
<1>3. CASE CheckReady
  <2>1. call' \in Calls /\ ret' \in Rets
    BY ZenonT(30), <1>3, CallKinds DEF CheckReady, Return, Stages, Calls, Rets, TypeOK
  <2> QED BY Zenon, <1>3, <2>1 DEF TypeOK, CheckReady, Items, clientVars, serverVars, orderVars
<1>4. CASE Consume
  <2>1. PICK t \in Matching(call), x \in transfers :
            /\ hidden' = hidden \ {t}
            /\ transfers' = transfers \ {x}
            /\ written' = IF t.item \in d2h
                          THEN written \cup {[dst |-> t.item, data |-> x.item,
                                              by |-> DrainOf(call)]}
                          ELSE written
    BY Zenon, <1>4 DEF Consume, ClearEntry, ReleaseTransfer
  <2>2. t \in hidden
    BY Zenon, <2>1, MatchingHidden
  <2>0. DrainOf(call) \in Drains
    BY Zenon DEF DrainOf, Drains
  <2>3. written' \in SUBSET [dst : Items, data : Items, by : Drains]
    BY SMTT(30), <2>0, <2>1, <2>2 DEF TypeOK
  <2> QED BY Zenon, <1>4, <2>1, <2>3 DEF TypeOK, Consume, Items, orderVars
<1>5. CASE FinishSync
  <2>1. Reported(call) \in Rets
    <3>1. /\ call.stage # "none"
          /\ call.op \in {"streamSync", "streamQuery", "eventSync", "eventQuery",
                          "allSync", "callback"}
      BY Zenon, <1>5 DEF FinishSync, Drained
    <3>2. \/ call.op \in StreamCalls /\ call.arg \in Slots
          \/ call.op \in EventCalls /\ call.arg \in Events
          \/ call.op = "free" /\ call.arg \in Allocs
          \/ call.op = "allSync" /\ call.arg = DefaultSlot
      BY Zenon, <3>1, CallKinds
    <3>3. CASE call.op \in StreamCalls /\ call.arg \in Slots
      BY Zenon, <3>3 DEF Reported, Rets
    <3>4. CASE call.op \in EventCalls /\ call.arg \in Events
      BY Zenon, <3>4 DEF Reported, Rets, StreamCalls, EventCalls
    <3>5. CASE call.op = "allSync" /\ call.arg = DefaultSlot
      BY Zenon, <3>5 DEF Reported, Rets, StreamCalls, EventCalls
    <3> QED BY Zenon, <3>1, <3>2, <3>3, <3>4, <3>5
  <2> QED BY ZenonT(30), <1>5, <2>1 DEF TypeOK, FinishSync, Return, Calls, Items,
                            clientVars, serverVars, orderVars
<1>6. CASE FinishStreamDestroy
  BY Zenon, <1>6 DEF TypeOK, FinishStreamDestroy, Return, Calls, Rets, Items,
              HandleState, ZeroFrontier, Frontier, serverVars
<1>7. CASE FinishEventDestroy
  BY Zenon, <1>7 DEF TypeOK, FinishEventDestroy, Return, Calls, Rets, Items,
              HandleState, ZeroFrontier, Frontier, serverVars
<1>8. CASE FinishFree
  BY Zenon, <1>8 DEF TypeOK, FinishFree, Return, Calls, Rets, Items, HandleState,
              serverVars, orderVars
<1> QED BY Zenon, <1>1, <1>2, <1>3, <1>4, <1>5, <1>6, <1>7, <1>8 DEF CallStep

------------------------------------------------------------------------------
(* Preservation of the ordering and table invariants.                      *)

\* Steps that leave the frontiers, the tables and the device order alone.
LEMMA CoreQuiet ==
  ASSUME Core,
         UNCHANGED <<seq, frontier, evFrontier, hidden, transfers, nextTransfer,
                     d2h, before, evBefore, written>>
  PROVE  Core'
<1>1. SeqBound'
  BY Zenon DEF Core, SeqBound
<1>2. CausalCover'
  BY Zenon DEF Core, CausalCover, Covers
<1>3. Accounted'
  BY Zenon DEF Core, Accounted, Ordered, Visible
<1>4. TablesPaired'
  BY Zenon DEF Core, TablesPaired, TablesAgree
<1>5. RightData'
  BY Zenon DEF Core, RightData
<1> QED BY Zenon, <1>1, <1>2, <1>3, <1>4, <1>5 DEF Core

\* Steps that only reorder: tables, sequence numbers and host buffers stay.
LEMMA CoreReordered ==
  ASSUME Core,
         UNCHANGED <<seq, hidden, transfers, nextTransfer, d2h, written>>,
         \A x, i \in Slots : frontier'[x][i] <= seq[i],
         \A e \in Events, i \in Slots : evFrontier'[e][i] <= seq[i],
         \A i : Ordered(i)' => Ordered(i),
         CausalCover'
  PROVE  Core'
<1>1. SeqBound'
  BY Zenon DEF Core, SeqBound
<1>2. Accounted'
  BY Zenon DEF Core, Accounted, Visible
<1>3. TablesPaired'
  BY Zenon DEF Core, TablesPaired, TablesAgree
<1>4. RightData'
  BY Zenon DEF Core, RightData
<1> QED BY Zenon, <1>1, <1>2, <1>3, <1>4 DEF Core

\* apply_legacy_default_ordering on its own.
LEMMA CoreLegacyOrdered ==
  ASSUME TypeOK, Core, NEW s \in Slots, frontier' = LegacyOrdered(s),
         UNCHANGED <<seq, evFrontier, hidden, transfers, nextTransfer,
                     d2h, before, evBefore, written>>
  PROVE  Core'
<1>1. /\ \A x \in Slots : x # s => frontier'[x] = frontier[x]
      /\ \A x, i \in Slots : frontier'[x][i] <= seq[i]
      /\ \A i \in Slots : frontier[s][i] <= frontier'[s][i]
      /\ frontier' \in [Slots -> Frontier]
  BY Zenon, LegacyOrderedGrows DEF Core
<1>2. ASSUME NEW t \in hidden, NEW x \in Slots, t.item \in before[x]
      PROVE  Covers(frontier'[x], t)
  <2>1. t.slot \in Slots /\ t.seq \in Nat /\ frontier \in [Slots -> Frontier]
    BY Zenon DEF TypeOK
  <2>2. t.seq <= frontier[x][t.slot]
    BY Zenon, <1>2 DEF Core, CausalCover, Covers
  <2> QED BY <1>1, <2>1, <2>2 DEF Covers, Frontier
<1>3. CausalCover'
  BY Zenon, <1>2 DEF Core, CausalCover, Covers
<1>4. \A i : Ordered(i)' => Ordered(i)
  BY Zenon DEF Ordered
<1>5. \A e \in Events, i \in Slots : evFrontier'[e][i] <= seq[i]
  BY Zenon DEF Core, SeqBound
<1> QED BY Zenon, <1>1, <1>3, <1>4, <1>5, CoreReordered

\* cudaEventRecord.
LEMMA CoreEventRecord ==
  ASSUME TypeOK, Core, NEW s \in Slots, NEW e \in Events, EventRecord(e, s)
  PROVE  Core'
<1> DEFINE L == LegacyOrdered(s)
<1>1. /\ L \in [Slots -> Frontier]
      /\ \A x \in Slots : x # s => L[x] = frontier[x]
      /\ \A x, i \in Slots : L[x][i] <= seq[i]
  BY Zenon, LegacyOrderedGrows DEF Core
<1>2. \A t \in hidden : t.item \in DevicePreds(s) => Covers(L[s], t)
  BY Zenon, LegacyOrderedCovers DEF Core
<1>3. /\ frontier' = L
      /\ evFrontier' = [evFrontier EXCEPT ![e] = L[s]]
      /\ before' = [before EXCEPT ![s] = DevicePreds(s)]
      /\ evBefore' = [evBefore EXCEPT ![e] = DevicePreds(s)]
      /\ UNCHANGED <<seq, hidden, transfers, nextTransfer, d2h, written>>
  BY Zenon DEF EventRecord, Snapshot, serverVars
<1> HIDE DEF L
<1>4. before \in [Slots -> SUBSET Items] /\ evBefore \in [Events -> SUBSET Items]
      /\ evFrontier \in [Events -> Frontier]
  BY Zenon DEF TypeOK
<1>5. CausalCover'
  <2>1. ASSUME NEW t \in hidden, NEW x \in Slots, t.item \in before'[x]
        PROVE  Covers(L[x], t)
    BY <1>1, <1>2, <1>3, <1>4, <2>1 DEF Core, CausalCover, Covers
  <2>2. ASSUME NEW t \in hidden, NEW y \in Events, t.item \in evBefore'[y]
        PROVE  Covers(evFrontier'[y], t)
    BY Zenon, <1>1, <1>2, <1>3, <1>4, <2>2 DEF Core, CausalCover, Covers
  <2> QED BY Zenon, <1>3, <2>1, <2>2 DEF CausalCover, Covers
<1>6. \A i : Ordered(i)' => Ordered(i)
  BY Zenon, <1>3, <1>4, DevicePredsOrdered DEF Ordered
<1>7. \A y \in Events, i \in Slots : evFrontier'[y][i] <= seq[i]
  BY Zenon, <1>1, <1>3, <1>4 DEF Core, SeqBound
<1> QED BY Zenon, <1>1, <1>3, <1>5, <1>6, <1>7, CoreReordered

\* cudaStreamWaitEvent; an event never recorded orders nothing.
LEMMA CoreStreamWaitEvent ==
  ASSUME TypeOK, Core, NEW s \in Slots, NEW e \in Events, StreamWaitEvent(s, e),
         UnrecordedEmpty
  PROVE  Core'
<1> DEFINE L == LegacyOrdered(s)
<1> DEFINE W == WaitMerged(s, e)
<1>1. /\ L \in [Slots -> Frontier]
      /\ \A x \in Slots : x # s => L[x] = frontier[x]
      /\ \A x, i \in Slots : L[x][i] <= seq[i]
  BY Zenon, LegacyOrderedGrows DEF Core
<1>2. \A t \in hidden : t.item \in DevicePreds(s) => Covers(L[s], t)
  BY Zenon, LegacyOrderedCovers DEF Core
<1>3. /\ frontier' = W
      /\ before' = [before EXCEPT ![s] = DevicePreds(s) \cup evBefore[e]]
      /\ UNCHANGED <<seq, hidden, transfers, nextTransfer, d2h, written,
                     evBefore, evFrontier>>
  BY Zenon DEF StreamWaitEvent, serverVars
<1>4. W = IF e \in recorded
          THEN [L EXCEPT ![s] = FrontierMerge(L[s], evFrontier[e])] ELSE L
  BY Zenon, <1>1 DEF WaitMerged
<1>5. before \in [Slots -> SUBSET Items] /\ evBefore \in [Events -> SUBSET Items]
      /\ evFrontier \in [Events -> Frontier] /\ seq \in [Slots -> Nat]
  BY Zenon DEF TypeOK
<1>6. \A t \in hidden : t.slot \in Slots /\ t.seq \in Nat
  BY Zenon DEF TypeOK
<1> HIDE DEF L, W
<1>7. /\ \A x \in Slots : x # s => W[x] = frontier[x]
      /\ W[s] = IF e \in recorded THEN FrontierMerge(L[s], evFrontier[e]) ELSE L[s]
  BY Zenon, <1>1, <1>4
<1>8. \A i \in Slots : evFrontier[e][i] <= seq[i]
  BY Zenon DEF Core, SeqBound
<1>9. \A i \in Slots :
        /\ FrontierMerge(L[s], evFrontier[e])[i] <= seq[i]
        /\ L[s][i] <= FrontierMerge(L[s], evFrontier[e])[i]
        /\ evFrontier[e][i] <= FrontierMerge(L[s], evFrontier[e])[i]
        /\ FrontierMerge(L[s], evFrontier[e])[i] \in Nat
  BY <1>1, <1>5, <1>8 DEF FrontierMerge, Frontier
<1>10. CausalCover'
  <2>1. ASSUME NEW t \in hidden, NEW x \in Slots, t.item \in before'[x]
        PROVE  Covers(W[x], t)
    <3>1. CASE x # s
      BY Zenon, <1>3, <1>5, <1>7, <2>1, <3>1 DEF Core, CausalCover
    <3>2. CASE x = s /\ t.item \in DevicePreds(s)
      <4>1. t.seq <= L[s][t.slot]
        BY Zenon, <1>2, <3>2 DEF Covers
      <4>2. t.slot \in Slots /\ t.seq \in Nat /\ L[s][t.slot] \in Nat
        BY Zenon, <1>1, <1>6 DEF Frontier
      <4>3. L[s][t.slot] <= W[s][t.slot] /\ W[s][t.slot] \in Nat
        BY <1>7, <1>9, <4>2
      <4>4. t.seq <= W[s][t.slot]
        BY <4>1, <4>2, <4>3
      <4> QED BY Zenon, <3>2, <4>4 DEF Covers
    <3>3. CASE x = s /\ t.item \in evBefore[e]
      <4>1. e \in recorded
        BY Zenon, <3>3 DEF UnrecordedEmpty
      <4>2. t.seq <= evFrontier[e][t.slot]
        BY Zenon, <3>3 DEF Core, CausalCover, Covers
      <4>3. t.slot \in Slots /\ t.seq \in Nat /\ evFrontier[e][t.slot] \in Nat
        BY Zenon, <1>5, <1>6 DEF Frontier
      <4>4. evFrontier[e][t.slot] <= W[s][t.slot] /\ W[s][t.slot] \in Nat
        BY Zenon, <1>7, <1>9, <4>1, <4>3
      <4>5. t.seq <= W[s][t.slot]
        BY <4>2, <4>3, <4>4
      <4> QED BY Zenon, <3>3, <4>5 DEF Covers
    <3> QED BY Zenon, <1>3, <1>5, <2>1, <3>1, <3>2, <3>3
  <2>2. ASSUME NEW t \in hidden, NEW y \in Events, t.item \in evBefore[y]
        PROVE  Covers(evFrontier[y], t)
    BY Zenon, <2>2 DEF Core, CausalCover
  <2> QED BY Zenon, <1>3, <2>1, <2>2 DEF CausalCover, Covers
<1>11. \A i : Ordered(i)' => Ordered(i)
  BY Zenon, <1>3, <1>5, DevicePredsOrdered DEF Ordered
<1>12. \A x, i \in Slots : W[x][i] <= seq[i]
  <2> TAKE x, i \in Slots
  <2>1. CASE x = s
    BY Zenon, <1>1, <1>7, <1>9, <2>1
  <2>2. CASE x # s
    BY Zenon, <1>7, <2>2 DEF Core, SeqBound
  <2> QED BY Zenon, <2>1, <2>2
<1>13. \A y \in Events, i \in Slots : evFrontier'[y][i] <= seq[i]
  BY Zenon, <1>3 DEF Core, SeqBound
<1> QED BY Zenon, <1>3, <1>10, <1>11, <1>12, <1>13, CoreReordered

\* Submissions without a hidden transfer: fills, device-to-device copies,
\* kernels and cudaFreeAsync.
LEMMA CorePlainSubmission ==
  ASSUME TypeOK, Core, NEW s \in Slots, Enqueue(s, FALSE),
         \/ Sequenced(s)
         \/ frontier' = LegacyOrdered(s) /\ seq' = seq,
         UNCHANGED <<evFrontier, hidden, transfers, nextTransfer, written>>
  PROVE  Core'
<1> DEFINE L == LegacyOrdered(s)
<1> DEFINE new == Len(preds) + 1
<1>1. /\ L \in [Slots -> Frontier]
      /\ \A x \in Slots : x # s => L[x] = frontier[x]
      /\ \A x, i \in Slots : L[x][i] <= seq[i]
  BY Zenon, LegacyOrderedGrows DEF Core
<1>2. \A t \in hidden : t.item \in DevicePreds(s) => Covers(L[s], t)
  BY Zenon, LegacyOrderedCovers DEF Core
<1>3. /\ new \notin Items /\ d2h' = d2h /\ evBefore' = evBefore
      /\ before'[s] = DevicePreds(s) \cup {new}
      /\ \A x \in Slots : x # s => before'[x] = before[x]
  BY Zenon, EnqueueFacts
<1>4. /\ frontier' \in [Slots -> Frontier] /\ seq' \in [Slots -> Nat]
      /\ \A x \in Slots : x # s => frontier'[x] = frontier[x]
      /\ \A i \in Slots : seq[i] <= seq'[i] /\ L[s][i] <= frontier'[s][i]
      /\ \A x, i \in Slots : frontier'[x][i] <= seq'[i]
  <2>1. CASE Sequenced(s)
    BY Zenon, <2>1, SequencedFacts DEF Core
  <2>2. CASE frontier' = L /\ seq' = seq
    <3>1. seq \in [Slots -> Nat]
      BY Zenon DEF TypeOK
    <3> QED BY <1>1, <2>2, <3>1 DEF Frontier
  <2> QED BY Zenon, <2>1, <2>2
<1>5. \A t \in hidden : t.slot \in Slots /\ t.seq \in Nat /\ t.item \in Items
  BY Zenon DEF TypeOK
<1>6. seq \in [Slots -> Nat] /\ evFrontier \in [Events -> Frontier]
      /\ d2h \in SUBSET Items
  BY Zenon DEF TypeOK
<1> HIDE DEF L, new
<1>7. SeqBound'
  <2>1. \A e \in Events, i \in Slots : evFrontier[e][i] <= seq'[i]
    BY <1>4, <1>6 DEF Core, SeqBound, Frontier
  <2>2. \A t \in hidden : t.seq <= seq'[t.slot]
    BY <1>4, <1>5, <1>6 DEF Core, SeqBound
  <2> QED BY Zenon, <1>4, <2>1, <2>2 DEF SeqBound
<1>8. CausalCover'
  <2>1. ASSUME NEW t \in hidden, NEW x \in Slots, t.item \in before'[x]
        PROVE  Covers(frontier'[x], t)
    <3>1. CASE x # s
      <4>1. t.item \in before[x] /\ frontier'[x] = frontier[x]
        BY Zenon, <1>3, <1>4, <2>1, <3>1
      <4> QED BY Zenon, <4>1 DEF Core, CausalCover
    <3>2. CASE x = s
      <4>1. t.item \in DevicePreds(s)
        BY Zenon, <1>3, <1>5, <2>1, <3>2
      <4>2. t.seq <= L[s][t.slot]
        BY Zenon, <1>2, <4>1 DEF Covers
      <4>3. t.slot \in Slots /\ t.seq \in Nat /\ L[s][t.slot] \in Nat
        BY Zenon, <1>1, <1>5 DEF Frontier
      <4>4. L[s][t.slot] <= frontier'[s][t.slot] /\ frontier'[s][t.slot] \in Nat
        BY Zenon, <1>4, <4>3 DEF Frontier
      <4>5. t.seq <= frontier'[s][t.slot]
        BY <4>2, <4>3, <4>4
      <4> QED BY Zenon, <3>2, <4>5 DEF Covers
    <3> QED BY Zenon, <3>1, <3>2
  <2> QED BY Zenon, <1>3, <2>1 DEF Core, CausalCover, Covers
<1>9. Accounted'
  <2>1. \A i \in d2h : Ordered(i)' => Ordered(i)
    BY Zenon, <1>3, <1>6, DevicePredsOrdered DEF Ordered
  <2> QED BY Zenon, <1>3, <2>1 DEF Core, Accounted, Visible
<1>10. TablesPaired'
  BY Zenon DEF Core, TablesPaired, TablesAgree
<1>11. RightData'
  BY Zenon DEF Core, RightData
<1> QED BY Zenon, <1>7, <1>8, <1>9, <1>10, <1>11 DEF Core

\* The client finds a free table slot whenever the server has accepted a copy,
\* so cudaMemcpy2DAsync never forgets a TransferID.
LEMMA CopyIsRecorded ==
  ASSUME Core, NEW s \in Slots, NEW isD2H \in BOOLEAN, NEW a \in Allocs,
         MemcpyAsync(s, isD2H, a) \/ Memcpy2DAsync(s, isD2H, a)
  PROVE  /\ hidden' = hidden \cup {NewHidden(s, a)}
         /\ Sequenced(s)
<1>1. Cardinality(transfers) < MaxTransfers
  BY Zenon DEF MemcpyAsync, Memcpy2DAsync, ServerSubmit
<1>2. Cardinality(hidden) < MaxHidden
  <2>1. Cardinality(hidden) \in Nat /\ Cardinality(hidden) = Cardinality(transfers)
    BY Zenon, FS_CardinalityType DEF Core, TablesPaired
  <2> QED BY <1>1, <2>1, BoundAssumption
<1> QED BY Zenon, <1>2 DEF MemcpyAsync, Memcpy2DAsync

\* Adding one transfer with a fresh TransferID on both sides keeps the pairing.
LEMMA TablesPairedAdd ==
  ASSUME TypeOK, TablesPaired, NEW s \in Slots, NEW a \in Allocs,
         hidden' = hidden \cup {NewHidden(s, a)},
         transfers' = transfers \cup {[id |-> nextTransfer, item |-> Len(preds) + 1]},
         nextTransfer' = nextTransfer + 1
  PROVE  TablesPaired'
<1> DEFINE t0 == NewHidden(s, a)
<1> DEFINE x0 == [id |-> nextTransfer, item |-> Len(preds) + 1]
<1>1. t0.id = nextTransfer /\ x0.id = nextTransfer /\ t0.item = x0.item
  BY Zenon DEF NewHidden
<1>2. hidden' = hidden \cup {t0} /\ transfers' = transfers \cup {x0}
  BY SMTT(30)
<1>3. /\ nextTransfer \in Nat
      /\ \A t \in hidden : t.id \in Nat /\ t.id < nextTransfer
      /\ \A x \in transfers : x.id \in Nat /\ x.id < nextTransfer
  BY Zenon DEF TypeOK, TablesPaired
<1> HIDE DEF t0, x0
<1>4. t0 \notin hidden /\ x0 \notin transfers
  BY <1>1, <1>3
<1>5. /\ IsFiniteSet(hidden') /\ IsFiniteSet(transfers')
      /\ Cardinality(hidden') = Cardinality(transfers')
  <2>1. IsFiniteSet(hidden) /\ IsFiniteSet(transfers)
        /\ Cardinality(hidden) = Cardinality(transfers)
    BY Zenon DEF TablesPaired
  <2>2. /\ IsFiniteSet(hidden \cup {t0})
        /\ Cardinality(hidden \cup {t0}) = Cardinality(hidden) + 1
    BY Zenon, <1>4, <2>1, FS_AddElement
  <2>3. /\ IsFiniteSet(transfers \cup {x0})
        /\ Cardinality(transfers \cup {x0}) = Cardinality(transfers) + 1
    BY Zenon, <1>4, <2>1, FS_AddElement
  <2> QED BY Zenon, <1>2, <2>1, <2>2, <2>3
<1>6. /\ \A t \in hidden' : t.id < nextTransfer'
      /\ \A x \in transfers' : x.id < nextTransfer'
  BY <1>1, <1>2, <1>3
<1>7. /\ \A t, u \in hidden' : t.id = u.id => t = u
      /\ \A x, y \in transfers' : x.id = y.id => x = y
  BY SMTT(30), <1>1, <1>2, <1>3 DEF TablesPaired
<1>8. {<<t.id, t.item>> : t \in hidden'} = {<<x.id, x.item>> : x \in transfers'}
  <2>1. {<<t.id, t.item>> : t \in hidden'}
          = {<<t.id, t.item>> : t \in hidden} \cup {<<t0.id, t0.item>>}
    BY Zenon, <1>2
  <2>2. {<<x.id, x.item>> : x \in transfers'}
          = {<<x.id, x.item>> : x \in transfers} \cup {<<x0.id, x0.item>>}
    BY Zenon, <1>2
  <2> QED BY Zenon, <1>1, <2>1, <2>2 DEF TablesPaired, TablesAgree
<1> QED BY Zenon, <1>5, <1>6, <1>7, <1>8 DEF TablesPaired, TablesAgree

\* Asynchronous host/device copies.
LEMMA CoreCopy ==
  ASSUME TypeOK, Core, NEW s \in Slots, NEW isD2H \in BOOLEAN, NEW a \in Allocs,
         MemcpyAsync(s, isD2H, a) \/ Memcpy2DAsync(s, isD2H, a)
  PROVE  Core'
<1> DEFINE L == LegacyOrdered(s)
<1> DEFINE new == Len(preds) + 1
<1> DEFINE t0 == NewHidden(s, a)
<1>1. hidden' = hidden \cup {t0} /\ Sequenced(s)
  BY Zenon, CopyIsRecorded
<1>2. /\ Enqueue(s, isD2H) /\ nextTransfer' = nextTransfer + 1
      /\ transfers' = transfers \cup {[id |-> nextTransfer, item |-> new]}
      /\ UNCHANGED <<evFrontier, written>>
  BY Zenon DEF MemcpyAsync, Memcpy2DAsync, ServerSubmit
<1>3. t0.item = new /\ t0.slot = s /\ t0.seq = seq[s] + 1
  BY Zenon DEF NewHidden
<1>4. /\ new \notin Items /\ evBefore' = evBefore
      /\ d2h' = IF isD2H THEN d2h \cup {new} ELSE d2h
      /\ before'[s] = DevicePreds(s) \cup {new}
      /\ \A x \in Slots : x # s => before'[x] = before[x]
  BY Zenon, <1>2, EnqueueFacts
<1>5. /\ frontier' \in [Slots -> Frontier] /\ seq' \in [Slots -> Nat]
      /\ \A x \in Slots : x # s => frontier'[x] = frontier[x]
      /\ \A i \in Slots : seq[i] <= seq'[i] /\ L[s][i] <= frontier'[s][i]
      /\ \A x, i \in Slots : frontier'[x][i] <= seq'[i]
      /\ frontier'[s][s] = seq[s] + 1 /\ seq'[s] = seq[s] + 1
  BY Zenon, <1>1, SequencedFacts DEF Core
<1>6. L \in [Slots -> Frontier]
  BY Zenon, LegacyOrderedGrows DEF Core
<1>7. \A t \in hidden : t.item \in DevicePreds(s) => Covers(L[s], t)
  BY Zenon, LegacyOrderedCovers DEF Core
<1>8. \A t \in hidden : t.slot \in Slots /\ t.seq \in Nat /\ t.item \in Items
  BY Zenon DEF TypeOK
<1>9. /\ seq \in [Slots -> Nat] /\ evFrontier \in [Events -> Frontier]
      /\ d2h \in SUBSET Items /\ before \in [Slots -> SUBSET Items]
      /\ evBefore \in [Events -> SUBSET Items]
  BY Zenon DEF TypeOK
<1>10. TablesPaired'
  BY Zenon, <1>1, <1>2, TablesPairedAdd DEF Core
<1> HIDE DEF L, new, t0
<1>11. SeqBound /\ CausalCover
  BY Zenon DEF Core
<1>12. \A i \in Slots : seq[i] \in Nat /\ seq'[i] \in Nat /\ seq[i] <= seq'[i]
  BY Zenon, <1>5, <1>9
<1>13. seq'[s] = seq[s] + 1 /\ frontier'[s][s] = seq[s] + 1
  BY Zenon, <1>5
<1>14. hidden' = hidden \cup {t0} /\ evBefore' = evBefore /\ evFrontier' = evFrontier
  BY Zenon, <1>1, <1>2, <1>4
<1>15. SeqBound'
  <2>1. ASSUME NEW e \in Events, NEW i \in Slots PROVE evFrontier[e][i] <= seq'[i]
    <3>1. evFrontier[e][i] \in Nat
      BY Zenon, <1>9 DEF Frontier
    <3>2. evFrontier[e][i] <= seq[i]
      BY Zenon, <1>11 DEF SeqBound
    <3> QED BY <1>12, <3>1, <3>2
  <2>2. ASSUME NEW t \in hidden PROVE t.seq <= seq'[t.slot]
    <3>1. t.seq <= seq[t.slot]
      BY Zenon, <1>11 DEF SeqBound
    <3> QED BY <1>8, <1>12, <3>1
  <2>3. t0.seq <= seq'[t0.slot]
    BY <1>3, <1>12, <1>13
  <2>4. \A x, i \in Slots : frontier'[x][i] <= seq'[i]
    BY Zenon, <1>5
  <2> QED BY Zenon, <1>14, <2>1, <2>2, <2>3, <2>4 DEF SeqBound
<1>16. CausalCover'
  <2>1. ASSUME NEW t \in hidden, NEW x \in Slots, t.item \in before'[x]
        PROVE  Covers(frontier'[x], t)
    <3>1. CASE x # s
      <4>1. before'[x] = before[x] /\ frontier'[x] = frontier[x]
        BY <1>4, <1>5, <3>1
      <4> QED BY Zenon, <1>11, <2>1, <4>1 DEF CausalCover
    <3>2. CASE x = s
      <4>1. t.item \in DevicePreds(s)
        BY Zenon, <1>4, <1>8, <2>1, <3>2
      <4>2. t.seq <= L[s][t.slot]
        BY Zenon, <1>7, <4>1 DEF Covers
      <4>3. /\ L[s][t.slot] \in Nat /\ frontier'[s][t.slot] \in Nat
            /\ L[s][t.slot] <= frontier'[s][t.slot]
        BY Zenon, <1>5, <1>6, <1>8 DEF Frontier
      <4> QED BY <1>8, <3>2, <4>2, <4>3 DEF Covers
    <3> QED BY Zenon, <3>1, <3>2
  <2>2. ASSUME NEW x \in Slots, t0.item \in before'[x] PROVE Covers(frontier'[x], t0)
    <3>1. x = s
      BY Zenon, <1>3, <1>4, <1>9, <2>2
    <3> QED BY <1>3, <1>12, <1>13, <3>1 DEF Covers
  <2>3. \A e \in Events : t0.item \notin evBefore[e]
    BY Zenon, <1>3, <1>4, <1>9
  <2>4. ASSUME NEW t \in hidden, NEW e \in Events, t.item \in evBefore[e]
        PROVE  Covers(evFrontier[e], t)
    BY Zenon, <1>11, <2>4 DEF CausalCover
  <2> QED BY Zenon, <1>14, <2>1, <2>2, <2>3, <2>4 DEF CausalCover
<1>17. Accounted'
  <2>1. ASSUME NEW i \in d2h, Ordered(i)' PROVE Ordered(i)
    BY Zenon, <1>4, <1>9, <2>1, DevicePredsOrdered DEF Ordered
  <2>2. ASSUME NEW i \in d2h', Ordered(i)'
        PROVE  Visible(i)' \/ \E t \in hidden' : t.item = i
    <3>1. CASE i \in d2h
      BY Zenon, <1>1, <1>2, <2>1, <2>2, <3>1 DEF Core, Accounted, Visible
    <3>2. CASE i = new
      BY Zenon, <1>1, <1>3, <3>2
    <3> QED BY Zenon, <1>4, <3>1, <3>2
  <2> QED BY Zenon, <2>2 DEF Accounted
<1>18. RightData'
  BY Zenon, <1>2 DEF Core, RightData
<1> QED BY Zenon, <1>10, <1>15, <1>16, <1>17, <1>18 DEF Core

\* Draining one transfer: the bytes are those of the copy the buffer was
\* passed to, and the transfer leaves both tables.
LEMMA CoreConsume ==
  ASSUME TypeOK, Core, Consume
  PROVE  Core'
<1>1. PICK t \in Matching(call), x \in transfers :
          /\ x.id = t.id
          /\ hidden' = hidden \ {t}
          /\ transfers' = transfers \ {x}
          /\ written' = IF t.item \in d2h
                        THEN written \cup {[dst |-> t.item, data |-> x.item,
                                            by |-> DrainOf(call)]}
                        ELSE written
  BY Zenon DEF Consume, ClearEntry, ReleaseTransfer
<1>2. t \in hidden
  BY Zenon, MatchingHidden
<1>3. UNCHANGED <<seq, frontier, evFrontier, nextTransfer, d2h, before, evBefore>>
  BY ZenonT(30) DEF Consume, orderVars
<1>4. /\ {<<v.id, v.item>> : v \in hidden} = {<<y.id, y.item>> : y \in transfers}
      /\ \A v, u \in hidden : v.id = u.id => v = u
      /\ \A y, z \in transfers : y.id = z.id => y = z
  BY Zenon DEF Core, TablesPaired, TablesAgree
<1>5. x.item = t.item
  <2>1. <<t.id, t.item>> \in {<<y.id, y.item>> : y \in transfers}
    BY ZenonT(30), <1>2, <1>4
  <2> QED BY Zenon, <1>1, <1>4, <2>1
<1>6. SeqBound' /\ CausalCover'
  BY Zenon, <1>1, <1>3 DEF Core, SeqBound, CausalCover, Covers
<1>7. Accounted'
  <2>1. \A i : Ordered(i)' => Ordered(i)
    BY Zenon, <1>3 DEF Ordered
  <2>2. ASSUME NEW i \in d2h, Visible(i) \/ i = t.item PROVE Visible(i)'
    <3>1. CASE Visible(i)
      BY Zenon, <1>1, <3>1 DEF Visible
    <3>2. CASE i = t.item
      <4> DEFINE w == [dst |-> t.item, data |-> x.item, by |-> DrainOf(call)]
      <4>1. w \in written' /\ w.dst = i
        BY Zenon, <1>1, <3>2
      <4> QED BY Zenon, <4>1 DEF Visible
    <3> QED BY Zenon, <2>2, <3>1, <3>2
  <2>3. ASSUME NEW i \in d2h, Ordered(i)
        PROVE  Visible(i)' \/ \E v \in hidden' : v.item = i
    BY Zenon, <1>1, <2>2, <2>3 DEF Core, Accounted
  <2> QED BY Zenon, <1>3, <2>1, <2>3 DEF Accounted
<1>8. TablesPaired'
  <2>1. /\ IsFiniteSet(hidden) /\ IsFiniteSet(transfers)
        /\ Cardinality(hidden) = Cardinality(transfers)
    BY Zenon DEF Core, TablesPaired
  <2>2. /\ IsFiniteSet(hidden \ {t})
        /\ Cardinality(hidden \ {t}) = Cardinality(hidden) - 1
    BY Zenon, <1>2, <2>1, FS_RemoveElement
  <2>3. /\ IsFiniteSet(transfers \ {x})
        /\ Cardinality(transfers \ {x}) = Cardinality(transfers) - 1
    BY Zenon, <1>1, <2>1, FS_RemoveElement
  <2>4. {<<v.id, v.item>> : v \in hidden \ {t}}
          = {<<v.id, v.item>> : v \in hidden} \ {<<t.id, t.item>>}
    <3>1. \A v \in hidden : <<v.id, v.item>> = <<t.id, t.item>> <=> v = t
      BY Zenon, <1>2, <1>4
    <3> QED BY <1>2, <3>1, Zenon
  <2>5. {<<y.id, y.item>> : y \in transfers \ {x}}
          = {<<y.id, y.item>> : y \in transfers} \ {<<t.id, t.item>>}
    <3>1. \A y \in transfers : <<y.id, y.item>> = <<t.id, t.item>> <=> y = x
      BY Zenon, <1>1, <1>4, <1>5
    <3> QED BY <1>1, <3>1, ZenonT(30)
  <2>6. /\ \A v \in hidden : v.id < nextTransfer
        /\ \A y \in transfers : y.id < nextTransfer
    BY Zenon DEF Core, TablesPaired
  <2> QED BY <1>1, <1>3, <1>4, <2>1, <2>2, <2>3, <2>4, <2>5, <2>6
          DEF TablesPaired, TablesAgree
<1>9. RightData'
  BY SMTT(30), <1>1, <1>5 DEF Core, RightData
<1> QED BY Zenon, <1>6, <1>7, <1>8, <1>9 DEF Core

\* Losing the session clears the tables on both sides and all order.
LEMMA CoreSessionFails ==
  ASSUME TypeOK, Core, SessionFails
  PROVE  Core'
<1>1. /\ hidden' = {} /\ transfers' = {}
      /\ frontier' = [s \in Slots |-> ZeroFrontier]
      /\ evFrontier' = [e \in Events |-> ZeroFrontier]
      /\ before' = [s \in Slots |-> {}] /\ evBefore' = [e \in Events |-> {}]
      /\ written' = written
  BY Zenon DEF SessionFails, DropHidden
<1>2. seq' \in [Slots -> Nat]
  BY Zenon DEF SessionFails, TypeOK
<1>3. SeqBound'
  BY <1>1, <1>2 DEF SeqBound, ZeroFrontier
<1>4. CausalCover' /\ Accounted'
  BY Zenon, <1>1 DEF CausalCover, Accounted, Ordered
<1>5. TablesPaired'
  BY Zenon, <1>1, FS_EmptySet DEF TablesPaired, TablesAgree
<1>6. RightData'
  BY Zenon, <1>1 DEF Core, RightData
<1> QED BY Zenon, <1>3, <1>4, <1>5, <1>6 DEF Core


------------------------------------------------------------------------------
(* The invariant is inductive.                                             *)

\* Steps that end or begin a call without reporting a synchronisation.
LEMMA NothingReported ==
  ASSUME ret' = NoRet, call' = NoCall \/ call'.op # "callback"
  PROVE  CallbackCovered' /\ SyncMakesVisible'
  BY DEF CallbackCovered, SyncMakesVisible, NoRet, NoCall

\* Steps inside a call, and device steps: order stays, host buffers only fill.
LEMMA ReportKept ==
  ASSUME CallbackCovered, SyncMakesVisible,
         UNCHANGED <<ret, frontier, before, evBefore, d2h, streamState, nonblocking>>,
         call'.op = call.op, call'.arg = call.arg,
         hidden' \subseteq hidden, written \subseteq written'
  PROVE  CallbackCovered' /\ SyncMakesVisible'
<1>1. \A s : DevicePreds(s)' = DevicePreds(s)
  BY DEF DevicePreds
<1>2. \A i : Visible(i) => Visible(i)'
  BY Zenon DEF Visible
<1>3. CallbackCovered'
  BY Zenon, <1>1 DEF CallbackCovered, Covers
<1>4. SyncMakesVisible'
  BY Zenon, <1>1, <1>2 DEF SyncMakesVisible
<1> QED BY Zenon, <1>3, <1>4

\* A synchronisation that returns has drained every copy ordered before it.
LEMMA SyncEstablished ==
  ASSUME TypeOK, Core, CallbackCovered, FinishSync
  PROVE  SyncMakesVisible'
<1>1. /\ call.stage = "drain" /\ Matching(call) = {} /\ ret' = Reported(call)
      /\ UNCHANGED <<frontier, before, evBefore, d2h, streamState, nonblocking,
                     hidden, written>>
  BY Zenon DEF FinishSync, Drained, Return, clientVars, orderVars
<1>2. /\ \A s : DevicePreds(s)' = DevicePreds(s)
      /\ \A i : Visible(i)' = Visible(i)
  BY <1>1 DEF DevicePreds, Visible
<1>3. ASSUME NEW i \in d2h, Ordered(i), \A t \in hidden : t.item # i
      PROVE  Visible(i)
  BY Zenon, <1>3 DEF Core, Accounted
<1>4. CASE call.op \in StreamCalls /\ call.arg \in Slots
  <2>1. \A t \in hidden : ~Covers(frontier[call.arg], t)
    BY Zenon, <1>1, <1>4 DEF Matching
  <2>2. \A i \in before[call.arg] \cap d2h : Visible(i)
    <3>1. ASSUME NEW i \in before[call.arg] \cap d2h PROVE Visible(i)
      <4>1. \A t \in hidden : t.item # i
        BY Zenon, <1>4, <2>1 DEF Core, CausalCover
      <4>2. Ordered(i)
        BY Zenon, <1>4 DEF Ordered
      <4> QED BY Zenon, <1>3, <4>1, <4>2
    <3> QED BY Zenon, <3>1
  <2>3. CASE call.op = "callback"
    <3>1. ASSUME NEW i \in DevicePreds(call.arg) \cap d2h PROVE Visible(i)
      <4>1. \A t \in hidden : t.item # i
        BY Zenon, <2>1, <2>3 DEF CallbackCovered
      <4>2. Ordered(i)
        BY Zenon, <1>4, DevicePredsOrdered DEF Ordered
      <4> QED BY Zenon, <1>3, <4>1, <4>2
    <3>2. ret'.kind = "callback" /\ ret'.arg = call.arg
      BY Zenon, <1>1, <2>3 DEF Reported
    <3> QED BY Zenon, <1>1, <1>2, <3>1, <3>2 DEF SyncMakesVisible
  <2>4. CASE call.op # "callback"
    <3>1. ret'.kind = "stream" /\ ret'.arg = call.arg
      BY Zenon, <1>1, <1>4, <2>4 DEF Reported
    <3> QED BY Zenon, <1>1, <1>2, <2>2, <3>1 DEF SyncMakesVisible
  <2> QED BY Zenon, <2>3, <2>4
<1>5. CASE call.op \in EventCalls /\ call.arg \in Events
  <2>1. call.op \notin StreamCalls /\ call.op # "callback"
    BY Zenon, <1>5 DEF StreamCalls, EventCalls
  <2>2. \A t \in hidden : ~Covers(evFrontier[call.arg], t)
    BY Zenon, <1>1, <1>5, <2>1 DEF Matching
  <2>3. ASSUME NEW i \in evBefore[call.arg] \cap d2h PROVE Visible(i)
    <3>1. \A t \in hidden : t.item # i
      BY Zenon, <1>5, <2>2 DEF Core, CausalCover
    <3>2. Ordered(i)
      BY Zenon, <1>5 DEF Ordered
    <3> QED BY Zenon, <1>3, <3>1, <3>2
  <2>4. ret'.kind = "event" /\ ret'.arg = call.arg
    BY Zenon, <1>1, <1>5, <2>1 DEF Reported
  <2> QED BY Zenon, <1>1, <1>2, <2>3, <2>4 DEF SyncMakesVisible
<1>6. CASE call.op = "allSync"
  <2>1. call.op \notin StreamCalls /\ call.op \notin EventCalls /\ call.op # "callback"
        /\ call.op # "free"
    BY Zenon, <1>6 DEF StreamCalls, EventCalls
  <2>2. hidden = {} /\ ret'.kind = "all"
    BY Zenon, <1>1, <2>1 DEF Matching, Reported
  <2>3. \A s \in Slots : \A i \in before[s] \cap d2h : Visible(i)
    BY Zenon, <1>3, <2>2 DEF Ordered
  <2> QED BY Zenon, <1>1, <1>2, <2>2, <2>3 DEF SyncMakesVisible
<1>7. call.op # "free"
  BY Zenon DEF FinishSync
<1> QED BY Zenon, <1>1, <1>4, <1>5, <1>6, <1>7, CallKinds

\* The initial state satisfies the invariant.
LEMMA IInvInit == Init => IInv
<1> SUFFICES ASSUME Init PROVE IInv
  OBVIOUS
<1>1. TypeOK
  BY DEF Init, TypeOK, Items, HandleState, ZeroFrontier, Frontier, Calls, Rets
<1>2. SeqBound
  BY DEF Init, SeqBound, ZeroFrontier
<1>3. CausalCover /\ Accounted /\ RightData
  BY Zenon DEF Init, CausalCover, Accounted, RightData
<1>4. TablesPaired
  BY Zenon, FS_EmptySet DEF Init, TablesPaired, TablesAgree
<1>5. UnrecordedEmpty /\ CallbackCovered /\ SyncMakesVisible
  BY Zenon DEF Init, UnrecordedEmpty, CallbackCovered, SyncMakesVisible, NoCall, NoRet
<1> QED BY Zenon, <1>1, <1>2, <1>3, <1>4, <1>5 DEF IInv, Core

\* Every step keeps the types.
LEMMA TypeNext ==
  ASSUME IInv, Next
  PROVE  TypeOK'
  BY Zenon, TypeEntry, TypeSubmission, TypeCallStep DEF IInv, Core, Next

\* Submissions keep the rest of the invariant.
LEMMA SubmissionStep ==
  ASSUME IInv, Submission
  PROVE  Core' /\ UnrecordedEmpty' /\ CallbackCovered' /\ SyncMakesVisible'
<1>1. ret' = NoRet /\ call' = NoCall
  BY Zenon DEF Submission, MemcpyAsync, Memcpy2DAsync, StreamOp, LaunchKernel,
         FreeAsync, EventRecord, StreamWaitEvent, Entry
<1>2. CallbackCovered' /\ SyncMakesVisible'
  BY Zenon, <1>1, NothingReported
<1>3. ASSUME NEW s \in Slots, NEW isD2H \in BOOLEAN, NEW a \in Allocs,
             MemcpyAsync(s, isD2H, a) \/ Memcpy2DAsync(s, isD2H, a)
      PROVE  Core' /\ UnrecordedEmpty'
  <2>1. UNCHANGED <<recorded, evBefore>>
    BY Zenon, <1>3 DEF MemcpyAsync, Memcpy2DAsync, ServerSubmit, Enqueue
  <2> QED BY Zenon, <1>3, <2>1, CoreCopy DEF IInv, UnrecordedEmpty
<1>4. ASSUME NEW s \in Slots,
             StreamOp(s) \/ LaunchKernel(s) \/ \E a \in Allocs : FreeAsync(s, a)
      PROVE  Core' /\ UnrecordedEmpty'
  <2>1. /\ Enqueue(s, FALSE)
        /\ Sequenced(s) \/ (frontier' = LegacyOrdered(s) /\ seq' = seq)
        /\ UNCHANGED <<evFrontier, hidden, transfers, nextTransfer, written>>
        /\ UNCHANGED <<recorded, evBefore>>
    BY Zenon, <1>4 DEF StreamOp, LaunchKernel, FreeAsync, Enqueue, serverVars
  <2> QED BY Zenon, <2>1, CorePlainSubmission DEF IInv, UnrecordedEmpty
<1>5. ASSUME NEW s \in Slots, NEW e \in Events, EventRecord(e, s)
      PROVE  Core' /\ UnrecordedEmpty'
  <2>1. UnrecordedEmpty'
    BY Zenon, <1>5 DEF EventRecord, IInv, TypeOK, UnrecordedEmpty
  <2> QED BY Zenon, <1>5, <2>1, CoreEventRecord DEF IInv
<1>6. ASSUME NEW s \in Slots, NEW e \in Events, StreamWaitEvent(s, e)
      PROVE  Core' /\ UnrecordedEmpty'
  <2>1. UnrecordedEmpty'
    BY Zenon, <1>6 DEF StreamWaitEvent, IInv, UnrecordedEmpty
  <2> QED BY Zenon, <1>6, <2>1, CoreStreamWaitEvent DEF IInv
<1> QED BY Zenon, <1>2, <1>3, <1>4, <1>5, <1>6 DEF Submission

\* Calls that begin keep the rest of the invariant.
LEMMA BlockingCallStep ==
  ASSUME IInv, BlockingCall
  PROVE  Core' /\ UnrecordedEmpty' /\ CallbackCovered' /\ SyncMakesVisible'
<1>1. UnrecordedEmpty'
  BY Zenon DEF BlockingCall, StreamSynchronize, StreamQuery, HostCallback,
         DeviceSynchronize, StreamDestroy, EventSynchronize, EventQuery,
         EventDestroy, Free, Begin, orderVars, IInv, UnrecordedEmpty
<1>2. ASSUME NEW op, NEW arg, NEW stage, Begin(op, arg, stage), op # "callback",
             \/ UNCHANGED frontier
             \/ \E s \in Slots : frontier' = LegacyOrdered(s)
      PROVE  Core' /\ CallbackCovered' /\ SyncMakesVisible'
  <2>1. /\ UNCHANGED <<seq, evFrontier, hidden, transfers, nextTransfer,
                       d2h, before, evBefore, written>>
        /\ ret' = NoRet /\ call'.op # "callback"
    BY Zenon, <1>2 DEF Begin, serverVars, orderVars
  <2> QED BY Zenon, <1>2, <2>1, CoreQuiet, CoreLegacyOrdered, NothingReported DEF IInv
<1>3. ASSUME NEW s \in Slots, HostCallback(s)
      PROVE  Core' /\ CallbackCovered' /\ SyncMakesVisible'
  <2>1. /\ UNCHANGED <<seq, evFrontier, hidden, transfers, nextTransfer,
                       d2h, before, evBefore, written, streamState, nonblocking>>
        /\ ret' = NoRet /\ call'.arg = s /\ frontier' = LegacyOrdered(s)
    BY Zenon, <1>3 DEF HostCallback, Begin, serverVars, orderVars
  <2>2. Core'
    BY Zenon, <2>1, CoreLegacyOrdered DEF IInv
  <2>3. DevicePreds(s)' = DevicePreds(s)
    BY <2>1 DEF DevicePreds
  <2>4. \A t \in hidden : t.item \in DevicePreds(s) => Covers(frontier'[s], t)
    BY Zenon, <2>1, LegacyOrderedCovers DEF IInv, Core
  <2>5. CallbackCovered'
    BY Zenon, <2>1, <2>3, <2>4 DEF CallbackCovered, Covers
  <2>6. SyncMakesVisible'
    BY Zenon, <2>1 DEF SyncMakesVisible, NoRet
  <2> QED BY Zenon, <2>2, <2>5, <2>6
<1> QED BY ZenonT(30), <1>1, <1>2, <1>3
        DEF BlockingCall, StreamSynchronize, StreamQuery, DeviceSynchronize,
            StreamDestroy, EventSynchronize, EventQuery, EventDestroy, Free

\* The steps inside a call keep the rest of the invariant.
LEMMA CallStepStep ==
  ASSUME IInv, CallStep
  PROVE  Core' /\ UnrecordedEmpty' /\ CallbackCovered' /\ SyncMakesVisible'
<1> USE DEF IInv
<1>1. CASE Barrier \/ QueryAnswer \/ CheckReady
  <2>1. /\ UNCHANGED <<seq, frontier, evFrontier, hidden, transfers, nextTransfer,
                       d2h, before, evBefore, written, recorded>>
        /\ UNCHANGED <<streamState, nonblocking>>
    BY Zenon, <1>1 DEF Barrier, QueryAnswer, CheckReady, clientVars, serverVars, orderVars
  <2>2. Core' /\ UnrecordedEmpty'
    BY Zenon, <2>1, CoreQuiet DEF UnrecordedEmpty
  <2>3. \/ ret' = NoRet /\ call' = NoCall
        \/ ret' = ret /\ call'.op = call.op /\ call'.arg = call.arg
    <3>1. \A st : [call EXCEPT !.stage = st].op = call.op
                  /\ [call EXCEPT !.stage = st].arg = call.arg
      BY Zenon DEF TypeOK, Calls, NoCall
    <3> QED BY Zenon, <1>1, <3>1 DEF Barrier, QueryAnswer, CheckReady, Return
  <2>4. CallbackCovered' /\ SyncMakesVisible'
    BY Zenon, <2>1, <2>3, NothingReported, ReportKept
  <2> QED BY Zenon, <2>2, <2>4
<1>2. CASE Consume
  <2>1. /\ hidden' \subseteq hidden /\ written \subseteq written'
        /\ UNCHANGED <<ret, call, frontier, before, evBefore, d2h, streamState,
                       nonblocking, recorded>>
    BY Zenon, <1>2 DEF Consume, ClearEntry, orderVars
  <2> QED BY Zenon, <1>2, <2>1, CoreConsume, ReportKept DEF UnrecordedEmpty
<1>3. CASE FinishSync
  <2>1. /\ UNCHANGED <<seq, frontier, evFrontier, hidden, transfers, nextTransfer,
                       d2h, before, evBefore, written, recorded>>
        /\ call' = NoCall
    BY Zenon, <1>3 DEF FinishSync, Return, clientVars, serverVars, orderVars
  <2>2. CallbackCovered'
    BY Zenon, <2>1 DEF CallbackCovered, NoCall
  <2> QED BY Zenon, <1>3, <2>1, <2>2, CoreQuiet, SyncEstablished DEF UnrecordedEmpty
<1>4. CASE FinishStreamDestroy
  <2>1. /\ frontier' = [frontier EXCEPT ![call.arg] = ZeroFrontier]
        /\ before' = [before EXCEPT ![call.arg] = {}]
        /\ UNCHANGED <<seq, hidden, transfers, nextTransfer, d2h, written,
                       evFrontier, evBefore, recorded>>
        /\ ret' = NoRet /\ call' = NoCall
    BY Zenon, <1>4 DEF FinishStreamDestroy, Return, serverVars
  <2>2. frontier \in [Slots -> Frontier] /\ seq \in [Slots -> Nat]
        /\ before \in [Slots -> SUBSET Items]
    BY Zenon DEF TypeOK
  <2>3. \A x \in Slots, i \in Slots : frontier'[x][i] <= seq[i]
    <3> TAKE x \in Slots, i \in Slots
    <3>1. seq[i] \in Nat
      BY Zenon, <2>2
    <3>2. frontier[x][i] <= seq[i]
      BY Zenon DEF Core, SeqBound
    <3>3. frontier'[x] = frontier[x] \/ frontier'[x] = ZeroFrontier
      BY Zenon, <2>1, <2>2
    <3>4. ZeroFrontier[i] = 0
      BY Zenon DEF ZeroFrontier
    <3> QED BY <3>1, <3>2, <3>3, <3>4
  <2>4. CausalCover'
    BY Zenon, <2>1, <2>2 DEF Core, CausalCover, Covers
  <2>5. \A i : Ordered(i)' => Ordered(i)
    BY Zenon, <2>1, <2>2 DEF Ordered
  <2>6. \A e \in Events, i \in Slots : evFrontier'[e][i] <= seq[i]
    BY Zenon, <2>1 DEF Core, SeqBound
  <2> QED BY Zenon, <2>1, <2>3, <2>4, <2>5, <2>6, CoreReordered, NothingReported
          DEF UnrecordedEmpty
<1>5. CASE FinishEventDestroy
  <2>1. /\ evFrontier' = [evFrontier EXCEPT ![call.arg] = ZeroFrontier]
        /\ evBefore' = [evBefore EXCEPT ![call.arg] = {}]
        /\ recorded' = recorded \ {call.arg}
        /\ UNCHANGED <<seq, hidden, transfers, nextTransfer, d2h, written,
                       frontier, before>>
        /\ ret' = NoRet /\ call' = NoCall
    BY Zenon, <1>5 DEF FinishEventDestroy, Return, serverVars
  <2>2. evFrontier \in [Events -> Frontier] /\ seq \in [Slots -> Nat]
        /\ evBefore \in [Events -> SUBSET Items]
    BY Zenon DEF TypeOK
  <2>3. \A e \in Events, i \in Slots : evFrontier'[e][i] <= seq[i]
    <3> TAKE e \in Events, i \in Slots
    <3>1. seq[i] \in Nat
      BY Zenon, <2>2
    <3>2. evFrontier[e][i] <= seq[i]
      BY Zenon DEF Core, SeqBound
    <3>3. evFrontier'[e] = evFrontier[e] \/ evFrontier'[e] = ZeroFrontier
      BY Zenon, <2>1, <2>2
    <3>4. ZeroFrontier[i] = 0
      BY Zenon DEF ZeroFrontier
    <3> QED BY <3>1, <3>2, <3>3, <3>4
  <2>4. CausalCover'
    BY Zenon, <2>1, <2>2 DEF Core, CausalCover, Covers
  <2>5. \A i : Ordered(i)' => Ordered(i)
    BY Zenon, <2>1, <2>2 DEF Ordered
  <2>6. \A x, i \in Slots : frontier'[x][i] <= seq[i]
    BY Zenon, <2>1 DEF Core, SeqBound
  <2>7. UnrecordedEmpty'
    BY Zenon, <2>1, <2>2 DEF UnrecordedEmpty
  <2> QED BY Zenon, <2>1, <2>3, <2>4, <2>5, <2>6, <2>7, CoreReordered, NothingReported
<1>6. CASE FinishFree
  <2>1. /\ UNCHANGED <<seq, frontier, evFrontier, hidden, transfers, nextTransfer,
                       d2h, before, evBefore, written, recorded>>
        /\ ret' = NoRet /\ call' = NoCall
    BY Zenon, <1>6 DEF FinishFree, Return, serverVars, orderVars
  <2> QED BY Zenon, <2>1, CoreQuiet, NothingReported DEF UnrecordedEmpty
<1> QED BY Zenon, <1>1, <1>2, <1>3, <1>4, <1>5, <1>6 DEF CallStep

\* Sessions, creations, failures and the device keep the rest.
LEMMA OtherStep ==
  ASSUME IInv, EnsureRuntime \/ ConnectFails \/ Creation \/ Failure \/ Device
  PROVE  Core' /\ UnrecordedEmpty' /\ CallbackCovered' /\ SyncMakesVisible'
<1> USE DEF IInv
<1>1. CASE EnsureRuntime \/ ConnectFails \/ Creation \/ CallFails
  <2>1. /\ UNCHANGED <<seq, frontier, evFrontier, hidden, transfers, nextTransfer,
                       d2h, before, evBefore, written, recorded>>
        /\ ret' = NoRet /\ call' = NoCall
    BY Zenon, <1>1 DEF EnsureRuntime, ConnectFails, Creation, StreamCreate, EventCreate,
                Malloc, CallFails, Return, Entry, clientVars, serverVars, orderVars
  <2> QED BY Zenon, <2>1, CoreQuiet, NothingReported DEF UnrecordedEmpty
<1>2. CASE TransportFailure
  <2>1. UnrecordedEmpty'
    BY Zenon, <1>2 DEF TransportFailure, SessionFails, UnrecordedEmpty
  <2> QED BY Zenon, <1>2, <2>1, CoreSessionFails, NothingReported DEF TransportFailure
<1>3. ASSUME NEW s \in Slots, SubmitFails(s)
      PROVE  Core' /\ UnrecordedEmpty' /\ CallbackCovered' /\ SyncMakesVisible'
  <2>1. /\ UNCHANGED <<seq, evFrontier, hidden, transfers, nextTransfer,
                       d2h, before, evBefore, written, recorded>>
        /\ frontier' = LegacyOrdered(s) /\ ret' = NoRet /\ call' = NoCall
    BY Zenon, <1>3 DEF SubmitFails, Entry, serverVars, orderVars
  <2> QED BY Zenon, <2>1, CoreLegacyOrdered, NothingReported DEF UnrecordedEmpty
<1>4. CASE Device
  <2>1. /\ UNCHANGED <<seq, frontier, evFrontier, hidden, transfers, nextTransfer,
                       d2h, before, evBefore, written, recorded>>
        /\ UNCHANGED <<ret, call, streamState, nonblocking>>
    BY Zenon, <1>4 DEF Device, Complete, clientVars, serverVars, orderVars
  <2> QED BY Zenon, <2>1, CoreQuiet, ReportKept DEF UnrecordedEmpty
<1> QED BY Zenon, <1>1, <1>2, <1>3, <1>4 DEF Failure

\* Every step keeps the invariant.
LEMMA IInvNext == IInv /\ [Next]_vars => IInv'
<1>1. ASSUME IInv, Next PROVE IInv'
  <2>1. Core' /\ UnrecordedEmpty' /\ CallbackCovered' /\ SyncMakesVisible'
    BY Zenon, <1>1, SubmissionStep, BlockingCallStep, CallStepStep, OtherStep DEF Next
  <2> QED BY Zenon, <1>1, <2>1, TypeNext DEF IInv
<1>2. ASSUME IInv, UNCHANGED vars PROVE IInv'
  <2>1. /\ UNCHANGED <<seq, frontier, evFrontier, hidden, transfers, nextTransfer,
                       d2h, before, evBefore, written, recorded>>
        /\ UNCHANGED <<ret, call, streamState, nonblocking>>
    BY Zenon, <1>2 DEF vars, clientVars, serverVars, orderVars
  <2>2. Core' /\ UnrecordedEmpty' /\ CallbackCovered' /\ SyncMakesVisible'
    BY Zenon, <1>2, <2>1, CoreQuiet, ReportKept DEF IInv, UnrecordedEmpty
  <2>3. TypeOK'
    BY Zenon, <1>2 DEF IInv, TypeOK, Items, vars, clientVars, serverVars, orderVars
  <2> QED BY Zenon, <2>2, <2>3 DEF IInv
<1> QED BY Zenon, <1>1, <1>2

\* The inductive invariant holds of every reachable state.
THEOREM Invariance == Spec => []IInv
<1>1. Init => IInv
  BY Zenon, IInvInit
<1>2. IInv /\ [Next]_vars => IInv'
  BY Zenon, IInvNext
<1> QED BY <1>1, <1>2, PTL DEF Spec

------------------------------------------------------------------------------
(* The theorems.                                                           *)

\* The client, server and device state always has its type.
THEOREM TypeCorrect == Spec => []TypeOK
  BY Invariance, PTL DEF IInv

\* Whenever cudaStreamSynchronize, cudaEventSynchronize, cudaDeviceSynchronize
\* or a query succeeds, or a host function runs, every device-to-host copy
\* ordered before it is in the host buffer: for any number of streams, events,
\* transfers, sessions and failures.
THEOREM Visibility == Spec => []SyncMakesVisible
  BY Invariance, PTL DEF IInv

\* Every outstanding transfer stays covered by the frontier of each stream and
\* event that the device orders after it.
THEOREM FrontiersCover == Spec => []CausalCover
  BY Invariance, PTL DEF IInv, Core

\* No host buffer receives the bytes of another copy, although TransferIDs
\* restart at 1 in every session.
THEOREM DataIntegrity == Spec => []RightData
  BY Invariance, PTL DEF IInv, Core

\* The server's transfer table and the client's hidden transfers agree.
THEOREM Agreement == Spec => []TablesAgree
  BY Invariance, PTL DEF IInv, Core, TablesPaired


------------------------------------------------------------------------------
(* Drains keep causal order.                                               *)

\* A frontier that covers a transfer covers the transfers the device orders
\* before it, as a vector clock does.
Closed(f) ==
    \A t, u \in hidden : u.item \in preds[t.item] /\ Covers(f, t) => Covers(f, u)

AllClosed ==
    /\ \A s \in Slots : Closed(frontier[s])
    /\ \A e \in Events : Closed(evFrontier[e])

\* An outstanding transfer is ordered before the next work of its stream.
Placed ==
    \A t \in hidden : /\ t.item \in before[t.slot]
                      /\ t.seq # 0 /\ t.order <= submitOrder

\* What the device orders before an outstanding transfer was submitted before
\* it, and if it is a device-to-host copy it is visible or outstanding too.
Past ==
    /\ \A i \in Items : preds[i] \subseteq Items
    /\ \A t, u \in hidden : u.item \in preds[t.item] => u.order < t.order
    /\ \A t \in hidden : \A i \in preds[t.item] \cap d2h :
          Visible(i) \/ \E u \in hidden : u.item = i

DrainInv == Placed /\ Past /\ AllClosed /\ NoOrphanTransfer /\ DrainKeepsOrder

\* Every component of an ordered frontier is that of a frontier below it.
LEMMA LegacyOrderedAttained ==
  ASSUME TypeOK, SeqBound, NEW s \in Slots, NEW i \in Slots
  PROVE  \E x \in Slots : /\ LegacyOrdered(s)[s][i] = frontier[x][i]
                          /\ \A j \in Slots : frontier[x][j] <= LegacyOrdered(s)[s][j]
<1> DEFINE L == {x \in Slots : LiveSlot(x)}
<1>1. L \in SUBSET Slots /\ DefaultSlot \in L /\ DefaultSlot \in Slots
  BY Zenon DEF LiveSlot, Slots
<1>2. seq \in Frontier /\ frontier \in [Slots -> Frontier]
  BY Zenon DEF TypeOK, Frontier
<1>3. \A j \in Slots : frontier[s][j] \in Nat /\ frontier[DefaultSlot][j] \in Nat
  BY Zenon, <1>1, <1>2 DEF Frontier
<1>4. CASE s = DefaultSlot
  <2> HIDE DEF L
  <2>1. LegacyOrdered(s)[s] = MergeOver(L, frontier)
    BY Zenon, <1>1, <1>2, <1>4 DEF LegacyOrdered, L
  <2>2. \A x \in L, j \in Slots : frontier[x][j] <= MergeOver(L, frontier)[j]
    BY Zenon, <1>1, <1>2, MergeOverDominates DEF SeqBound
  <2> DEFINE S == {frontier[x][i] : x \in L}
  <2>3. S \in SUBSET Nat /\ S # {} /\ seq[i] \in Nat /\ \A y \in S : y <= seq[i]
    BY <1>1, <1>2 DEF Frontier, SeqBound
  <2>4. Max(S) \in S
    <3> HIDE DEF S
    <3> QED BY Zenon, <2>3, MaxOfBounded
  <2>5. MergeOver(L, frontier)[i] = Max(S)
    BY Zenon DEF MergeOver
  <2> HIDE DEF S
  <2>6. PICK x \in L : Max(S) = frontier[x][i]
    BY Zenon, <2>4 DEF S
  <2>7. x \in Slots
    BY Zenon, <1>1
  <2> QED BY Zenon, <2>1, <2>2, <2>5, <2>6, <2>7
<1>5. CASE s # DefaultSlot /\ s \in nonblocking
  BY <1>3, <1>5 DEF LegacyOrdered
<1>6. CASE s # DefaultSlot /\ s \notin nonblocking
  <2>1. LegacyOrdered(s)[s] = FrontierMerge(frontier[s], frontier[DefaultSlot])
    BY Zenon, <1>2, <1>6 DEF LegacyOrdered
  <2>2. \A j \in Slots :
          /\ frontier[s][j] <= LegacyOrdered(s)[s][j]
          /\ frontier[DefaultSlot][j] <= LegacyOrdered(s)[s][j]
          /\ \/ LegacyOrdered(s)[s][j] = frontier[s][j]
             \/ LegacyOrdered(s)[s][j] = frontier[DefaultSlot][j]
    BY <1>3, <2>1 DEF FrontierMerge
  <2> QED BY Zenon, <1>1, <2>2
<1> QED BY Zenon, <1>4, <1>5, <1>6

\* Ordering a stream keeps frontiers closed.
LEMMA ClosedOrdered ==
  ASSUME TypeOK, SeqBound, AllClosed, NEW s \in Slots
  PROVE  Closed(LegacyOrdered(s)[s])
<1>1. SUFFICES ASSUME NEW t \in hidden, NEW u \in hidden, u.item \in preds[t.item],
                      Covers(LegacyOrdered(s)[s], t)
               PROVE  Covers(LegacyOrdered(s)[s], u)
  BY Zenon DEF Closed
<1>2. /\ t.slot \in Slots /\ t.seq \in Nat /\ u.slot \in Slots /\ u.seq \in Nat
      /\ frontier \in [Slots -> Frontier]
  BY Zenon DEF TypeOK
<1>3. LegacyOrdered(s)[s][u.slot] \in Nat
  BY <1>2, LegacyOrderedGrows DEF Frontier
<1>4. PICK x \in Slots : /\ LegacyOrdered(s)[s][t.slot] = frontier[x][t.slot]
                         /\ \A j \in Slots : frontier[x][j] <= LegacyOrdered(s)[s][j]
  BY <1>2, LegacyOrderedAttained
<1>5. Covers(frontier[x], t)
  BY Zenon, <1>1, <1>4 DEF Covers
<1>6. Covers(frontier[x], u)
  BY Zenon, <1>1, <1>5 DEF AllClosed, Closed
<1>7. frontier[x][u.slot] \in Nat
  BY Zenon, <1>2 DEF Frontier
<1> QED BY <1>2, <1>3, <1>4, <1>6, <1>7 DEF Covers

\* frontier_merge keeps frontiers closed.
LEMMA ClosedMerge ==
  ASSUME TypeOK, NEW f \in Frontier, NEW g \in Frontier, Closed(f), Closed(g)
  PROVE  Closed(FrontierMerge(f, g))
<1>1. SUFFICES ASSUME NEW t \in hidden, NEW u \in hidden, u.item \in preds[t.item],
                      Covers(FrontierMerge(f, g), t)
               PROVE  Covers(FrontierMerge(f, g), u)
  BY Zenon DEF Closed
<1>2. t.slot \in Slots /\ t.seq \in Nat /\ u.slot \in Slots /\ u.seq \in Nat
  BY Zenon DEF TypeOK
<1>3. \A i \in Slots : /\ f[i] \in Nat /\ g[i] \in Nat
                       /\ FrontierMerge(f, g)[i] = IF g[i] > f[i] THEN g[i] ELSE f[i]
  BY Zenon DEF Frontier, FrontierMerge
<1>4. Covers(f, t) \/ Covers(g, t)
  BY Zenon, <1>1, <1>2, <1>3 DEF Covers
<1>5. Covers(f, u) \/ Covers(g, u)
  BY Zenon, <1>1, <1>4 DEF Closed
<1> QED BY <1>2, <1>3, <1>5 DEF Covers

\* Steps that leave the transfers, the work and the buffers alone.
LEMMA DrainQuiet ==
  ASSUME DrainInv,
         UNCHANGED <<hidden, preds, d2h, written, submitOrder>>,
         \A t \in hidden : LiveSlot(t.slot)' /\ t.item \in before'[t.slot],
         \A s \in Slots : Closed(frontier'[s]),
         \A e \in Events : Closed(evFrontier'[e])
  PROVE  DrainInv'
<1>1. Placed'
  BY Zenon DEF DrainInv, Placed
<1>2. NoOrphanTransfer'
  BY Zenon DEF NoOrphanTransfer
<1>3. Items' = Items /\ \A i : Visible(i)' <=> Visible(i)
  BY Zenon DEF Items, Visible
<1>4. Past'
  BY Zenon, <1>3 DEF DrainInv, Past
<1>5. AllClosed'
  BY Zenon DEF AllClosed, Closed, Covers
<1>6. DrainKeepsOrder'
  BY Zenon, <1>3 DEF DrainInv, DrainKeepsOrder
<1> QED BY Zenon, <1>1, <1>2, <1>4, <1>5, <1>6 DEF DrainInv

\* What a submission does to the order of the work submitted before.
LEMMA SubmittedOrder ==
  ASSUME TypeOK, DrainInv, NEW s \in Slots, NEW isD2H \in BOOLEAN, Enqueue(s, isD2H)
  PROVE  /\ \A i \in Items : preds'[i] = preds[i] /\ preds[i] \subseteq Items
         /\ preds'[Len(preds) + 1] = DevicePreds(s)
         /\ DevicePreds(s) \subseteq Items
         /\ \A x \in Slots : before[x] \subseteq before'[x]
         /\ \A i \in Items : i \in d2h' <=> i \in d2h
<1>1. preds \in Seq(SUBSET Nat) /\ Items = 1 .. Len(preds) /\ Len(preds) \in Nat
  BY DEF TypeOK, Items
<1>2. preds' = Append(preds, DevicePreds(s))
  BY Zenon DEF Enqueue
<1>3. DevicePreds(s) \in SUBSET Items
  BY Zenon, DevicePredsOrdered
<1>4. DevicePreds(s) \in SUBSET Nat
  BY <1>1, <1>3
<1>5. /\ \A i \in Items : preds'[i] = preds[i]
      /\ preds'[Len(preds) + 1] = DevicePreds(s)
  BY <1>1, <1>2, <1>4
<1>6. \A i \in Items : preds[i] \subseteq Items
  BY Zenon DEF DrainInv, Past
<1>7. before[s] \subseteq DevicePreds(s)
  BY Zenon DEF DevicePreds
<1>8. /\ Len(preds) + 1 \notin Items
      /\ d2h' = IF isD2H THEN d2h \cup {Len(preds) + 1} ELSE d2h
      /\ before'[s] = DevicePreds(s) \cup {Len(preds) + 1}
      /\ \A x \in Slots : x # s => before'[x] = before[x]
  BY Zenon, EnqueueFacts
<1> QED BY Zenon, <1>3, <1>5, <1>6, <1>7, <1>8

\* A submission that takes a sequence number covers nothing more than its
\* ordered stream did, except itself.
LEMMA SubmittedClosed ==
  ASSUME TypeOK, Core, DrainInv, NEW s \in Slots,
         Sequenced(s) \/ (frontier' = LegacyOrdered(s) /\ seq' = seq)
  PROVE  \A x \in Slots : Closed(frontier'[x])
<1> DEFINE L == LegacyOrdered(s)
<1>1. /\ L \in [Slots -> Frontier]
      /\ \A x \in Slots : x # s => L[x] = frontier[x]
      /\ \A i \in Slots : frontier[s][i] <= L[s][i]
  BY Zenon, LegacyOrderedGrows DEF Core
<1>2. /\ \A x \in Slots : x # s => frontier'[x] = frontier[x]
      /\ \A i \in Slots : i # s => frontier'[s][i] = L[s][i]
      /\ \A i \in Slots : L[s][i] <= frontier'[s][i] /\ frontier'[s][i] \in Nat
  <2>1. CASE Sequenced(s)
    <3>1. frontier' = [L EXCEPT ![s][s] = seq[s] + 1]
      BY Zenon, <2>1 DEF Sequenced
    <3>2. \A i \in Slots : i # s => frontier'[s][i] = L[s][i]
      BY Zenon, <1>1, <3>1 DEF Frontier
    <3>3. /\ \A x \in Slots : x # s => frontier'[x] = frontier[x]
          /\ \A i \in Slots : L[s][i] <= frontier'[s][i]
          /\ frontier' \in [Slots -> Frontier]
      BY Zenon, <2>1, SequencedFacts DEF Core
    <3> QED BY Zenon, <3>2, <3>3 DEF Frontier
  <2>2. CASE frontier' = L
    BY <1>1, <2>2 DEF Frontier
  <2> QED BY Zenon, <2>1, <2>2
<1>3. \A x \in Slots : Closed(frontier[x])
  BY Zenon DEF DrainInv, AllClosed
<1>4. Closed(L[s])
  BY Zenon, ClosedOrdered DEF Core, DrainInv
<1>5. \A t \in hidden : t.slot \in Slots /\ t.seq \in Nat
  BY Zenon DEF TypeOK
<1>6. \A i \in Slots : frontier[s][i] \in Nat /\ L[s][i] \in Nat
  BY <1>1 DEF TypeOK, Frontier
<1> HIDE DEF L
<1>7. ASSUME NEW t \in hidden, NEW u \in hidden, u.item \in preds[t.item],
             Covers(frontier'[s], t)
      PROVE  Covers(frontier'[s], u)
  <2>1. Covers(L[s], t)
    <3>1. CASE t.slot # s
      BY Zenon, <1>2, <1>5, <1>7, <3>1 DEF Covers
    <3>2. CASE t.slot = s
      <4>1. t.item \in before[s]
        BY Zenon, <3>2 DEF DrainInv, Placed
      <4>2. t.seq <= frontier[s][t.slot]
        BY Zenon, <4>1 DEF Core, CausalCover, Covers
      <4> QED BY <1>1, <1>5, <1>6, <4>2 DEF Covers
    <3> QED BY Zenon, <3>1, <3>2
  <2>2. Covers(L[s], u)
    BY Zenon, <1>4, <1>7, <2>1 DEF Closed
  <2> QED BY <1>2, <1>5, <1>6, <2>2 DEF Covers
<1>8. Closed(frontier'[s])
  BY Zenon, <1>7 DEF Closed
<1> QED BY Zenon, <1>2, <1>3, <1>8

\* Submissions without a hidden transfer.
LEMMA DrainPlainSubmission ==
  ASSUME TypeOK, Core, DrainInv, NEW s \in Slots, Enqueue(s, FALSE),
         Sequenced(s) \/ (frontier' = LegacyOrdered(s) /\ seq' = seq),
         UNCHANGED <<evFrontier, hidden, written, submitOrder, streamState>>
  PROVE  DrainInv'
<1>1. /\ \A i \in Items : preds'[i] = preds[i] /\ preds[i] \subseteq Items
      /\ preds'[Len(preds) + 1] \subseteq Items
      /\ \A x \in Slots : before[x] \subseteq before'[x]
      /\ \A i \in Items : i \in d2h' <=> i \in d2h
  BY Zenon, SubmittedOrder
<1>2. Items' = Items \cup {Len(preds) + 1}
  BY Zenon, EnqueueFacts
<1>3. /\ \A t \in hidden : t.item \in Items /\ t.slot \in Slots
      /\ \A w \in written : w.data \in Items
  BY Zenon DEF TypeOK
<1>4. \A i : Visible(i)' <=> Visible(i)
  BY Zenon DEF Visible
<1>5. Placed' /\ NoOrphanTransfer'
  BY Zenon, <1>1, <1>3 DEF DrainInv, Placed, NoOrphanTransfer, LiveSlot
<1>6. Past'
  <2>1. \A i \in Items' : preds'[i] \subseteq Items'
    BY Zenon, <1>1, <1>2
  <2>2. \A t, u \in hidden' : u.item \in preds'[t.item] => u.order < t.order
    BY Zenon, <1>1, <1>3 DEF DrainInv, Past
  <2>3. ASSUME NEW t \in hidden', NEW i \in preds'[t.item] \cap d2h'
        PROVE  Visible(i)' \/ \E u \in hidden' : u.item = i
    <3>1. i \in preds[t.item] \cap d2h
      BY <1>1, <1>3, <2>3
    <3> QED BY Zenon, <1>4, <3>1 DEF DrainInv, Past
  <2> QED BY Zenon, <2>1, <2>2, <2>3 DEF Past
<1>7. AllClosed'
  <2>1. \A x \in Slots : Closed(frontier'[x])
    BY Zenon, SubmittedClosed
  <2>2. \A e \in Events : Closed(evFrontier[e])
    BY Zenon DEF DrainInv, AllClosed
  <2> QED BY <1>1, <1>3, <2>1, <2>2 DEF AllClosed, Closed, Covers
<1>8. DrainKeepsOrder'
  <2>1. SUFFICES ASSUME NEW w \in written, w.by = "frontier",
                        NEW i \in preds'[w.data] \cap d2h'
                 PROVE  Visible(i)'
    BY Zenon DEF DrainKeepsOrder
  <2>2. i \in preds[w.data] \cap d2h
    BY Zenon, <1>1, <1>3, <2>1
  <2> QED BY Zenon, <1>4, <2>1, <2>2 DEF DrainInv, DrainKeepsOrder
<1> QED BY Zenon, <1>5, <1>6, <1>7, <1>8 DEF DrainInv

\* Asynchronous host/device copies.
LEMMA DrainCopy ==
  ASSUME TypeOK, Core, DrainInv, NEW s \in Slots, NEW isD2H \in BOOLEAN, NEW a \in Allocs,
         MemcpyAsync(s, isD2H, a) \/ Memcpy2DAsync(s, isD2H, a)
  PROVE  DrainInv'
<1> DEFINE new == Len(preds) + 1
<1> DEFINE t0 == NewHidden(s, a)
<1>1. hidden' = hidden \cup {t0} /\ Sequenced(s)
  BY Zenon, CopyIsRecorded
<1>2. /\ Enqueue(s, isD2H) /\ LiveSlot(s)
      /\ UNCHANGED <<evFrontier, written, streamState>>
  BY Zenon DEF MemcpyAsync, Memcpy2DAsync, ServerSubmit
<1>3. submitOrder' = submitOrder + 1 /\ submitOrder \in Nat
  <2>1. t0 \notin hidden
    BY DEF TypeOK, NewHidden, Items
  <2>2. hidden' # hidden
    BY Zenon, <1>1, <2>1
  <2> QED BY Zenon, <2>2 DEF MemcpyAsync, Memcpy2DAsync, TypeOK
<1>4. /\ t0.item = new /\ t0.slot = s /\ t0.seq = seq[s] + 1
      /\ t0.order = submitOrder + 1
  BY Zenon DEF NewHidden
<1>5. /\ \A i \in Items : preds'[i] = preds[i] /\ preds[i] \subseteq Items
      /\ preds'[new] = DevicePreds(s)
      /\ DevicePreds(s) \subseteq Items
      /\ \A x \in Slots : before[x] \subseteq before'[x]
      /\ \A i \in Items : i \in d2h' <=> i \in d2h
  BY Zenon, <1>2, SubmittedOrder
<1>6. Items' = Items \cup {new} /\ new \notin Items /\ new \in before'[s]
  BY Zenon, <1>2, EnqueueFacts
<1>7. /\ \A t \in hidden : t.item \in Items /\ t.slot \in Slots /\ t.seq \in Nat
                           /\ t.order \in Nat
      /\ \A w \in written : w.data \in Items
      /\ seq \in [Slots -> Nat]
  BY Zenon DEF TypeOK
<1>8. \A i : Visible(i)' <=> Visible(i)
  BY Zenon, <1>2 DEF Visible
<1>9. \A t \in hidden : t.order <= submitOrder
  BY Zenon DEF DrainInv, Placed
<1> HIDE DEF new, t0
<1>10. Placed'
  <2>1. ASSUME NEW t \in hidden
        PROVE  t.item \in before'[t.slot] /\ t.seq # 0 /\ t.order <= submitOrder'
    BY <1>3, <1>5, <1>7, <1>9 DEF DrainInv, Placed
  <2>2. t0.item \in before'[t0.slot] /\ t0.seq # 0 /\ t0.order <= submitOrder'
    BY <1>3, <1>4, <1>6, <1>7
  <2> QED BY Zenon, <1>1, <2>1, <2>2 DEF Placed
<1>11. NoOrphanTransfer'
  <2>1. \A x : LiveSlot(x)' <=> LiveSlot(x)
    BY Zenon, <1>2 DEF LiveSlot
  <2> QED BY Zenon, <1>1, <1>2, <1>4, <2>1 DEF DrainInv, NoOrphanTransfer
<1>12. \A t \in hidden : t0.item \notin preds'[t.item]
  BY Zenon, <1>4, <1>5, <1>6, <1>7
<1>13. t0.item \notin preds'[t0.item]
  BY <1>4, <1>5, <1>6
<1>14. Past'
  <2>1. \A i \in Items' : preds'[i] \subseteq Items'
    BY Zenon, <1>5, <1>6
  <2>2. ASSUME NEW t \in hidden', NEW u \in hidden', u.item \in preds'[t.item]
        PROVE  u.order < t.order
    <3>1. u \in hidden
      BY <1>1, <1>12, <1>13, <2>2
    <3>2. CASE t \in hidden
      BY Zenon, <1>5, <1>7, <2>2, <3>1, <3>2 DEF DrainInv, Past
    <3>3. CASE t = t0
      BY <1>3, <1>4, <1>7, <1>9, <3>1, <3>3
    <3> QED BY Zenon, <1>1, <3>2, <3>3
  <2>3. ASSUME NEW t \in hidden', NEW i \in preds'[t.item] \cap d2h'
        PROVE  Visible(i)' \/ \E u \in hidden' : u.item = i
    <3>1. CASE t \in hidden
      <4>1. i \in preds[t.item] \cap d2h
        BY <1>5, <1>7, <2>3, <3>1
      <4> QED BY Zenon, <1>1, <1>8, <3>1, <4>1 DEF DrainInv, Past
    <3>2. CASE t = t0
      <4>1. i \in DevicePreds(s) /\ i \in d2h
        BY Zenon, <1>4, <1>5, <2>3, <3>2
      <4>2. Ordered(i)
        BY Zenon, <4>1, DevicePredsOrdered DEF Ordered
      <4> QED BY Zenon, <1>1, <1>8, <4>1, <4>2 DEF Core, Accounted
    <3> QED BY Zenon, <1>1, <3>1, <3>2
  <2> QED BY Zenon, <2>1, <2>2, <2>3 DEF Past
<1>15. AllClosed'
  <2>1. \A x \in Slots : Closed(frontier'[x])
    BY Zenon, <1>1, SubmittedClosed
  <2>2. \A e \in Events : Closed(evFrontier[e])
    BY Zenon DEF DrainInv, AllClosed
  <2>3. ASSUME NEW f, Closed(f), NEW t \in hidden, NEW u \in hidden',
               u.item \in preds'[t.item], Covers(f, t)
        PROVE  Covers(f, u)
    <3>1. u \in hidden
      BY Zenon, <1>1, <1>12, <2>3
    <3>2. u.item \in preds[t.item]
      BY Zenon, <1>5, <1>7, <2>3
    <3> QED BY Zenon, <2>3, <3>1, <3>2 DEF Closed
  <2>4. ASSUME NEW x \in Slots, Covers(frontier'[x], t0), NEW u \in hidden',
               u.item \in preds'[t0.item]
        PROVE  Covers(frontier'[x], u)
    <3>1. u \in hidden /\ u.item \in DevicePreds(s)
      BY Zenon, <1>1, <1>4, <1>5, <1>13, <2>4
    <3>2. x = s
      <4>1. /\ \A y \in Slots : y # s => frontier'[y] = frontier[y]
            /\ \A y, i \in Slots : frontier[y][i] <= seq[i]
            /\ frontier \in [Slots -> Frontier]
        BY <1>1, SequencedFacts DEF Core, SeqBound, TypeOK
      <4>2. ASSUME x # s PROVE FALSE
        <5>1. frontier'[x][s] <= seq[s] /\ frontier'[x][s] \in Nat
          BY Zenon, <4>1, <4>2 DEF Frontier
        <5> QED BY <1>4, <1>7, <2>4, <5>1 DEF Covers
      <4> QED BY Zenon, <4>2
    <3>3. Covers(LegacyOrdered(s)[s], u)
      BY Zenon, <3>1, LegacyOrderedCovers DEF Core
    <3>4. /\ LegacyOrdered(s)[s][u.slot] <= frontier'[s][u.slot]
          /\ LegacyOrdered(s)[s][u.slot] \in Nat /\ frontier'[s][u.slot] \in Nat
      <4>1. u.slot \in Slots
        BY Zenon, <1>7, <3>1
      <4>2. /\ frontier' \in [Slots -> Frontier]
            /\ \A i \in Slots : LegacyOrdered(s)[s][i] <= frontier'[s][i]
        BY Zenon, <1>1, SequencedFacts DEF Core
      <4>3. LegacyOrdered(s) \in [Slots -> Frontier]
        BY Zenon, LegacyOrderedGrows DEF Core
      <4> QED BY Zenon, <4>1, <4>2, <4>3 DEF Frontier
    <3>5. u.seq \in Nat
      BY Zenon, <1>7, <3>1
    <3> QED BY <3>2, <3>3, <3>4, <3>5 DEF Covers
  <2>5. ASSUME NEW e \in Events PROVE ~Covers(evFrontier[e], t0)
    <3>1. evFrontier[e][s] <= seq[s] /\ evFrontier[e][s] \in Nat
      BY DEF Core, SeqBound, TypeOK, Frontier
    <3> QED BY <1>4, <1>7, <3>1 DEF Covers
  <2>6. ASSUME NEW x \in Slots PROVE Closed(frontier[x])'
    BY Zenon, <1>1, <2>1, <2>3, <2>4 DEF Closed, Covers
  <2>7. ASSUME NEW e \in Events PROVE Closed(evFrontier[e])'
    BY Zenon, <1>1, <1>2, <2>2, <2>3, <2>5 DEF Closed, Covers
  <2> QED BY Zenon, <2>6, <2>7 DEF AllClosed
<1>16. DrainKeepsOrder'
  <2>1. SUFFICES ASSUME NEW w \in written, w.by = "frontier",
                        NEW i \in preds'[w.data] \cap d2h'
                 PROVE  Visible(i)'
    BY Zenon, <1>2 DEF DrainKeepsOrder
  <2>2. i \in preds[w.data] \cap d2h
    BY Zenon, <1>5, <1>7, <2>1
  <2> QED BY Zenon, <1>8, <2>1, <2>2 DEF DrainInv, DrainKeepsOrder
<1> QED BY Zenon, <1>10, <1>11, <1>14, <1>15, <1>16 DEF DrainInv

\* consume_hidden_transfer: the oldest match has no outstanding predecessor
\* that the draining frontier covers, and it covers them all.
LEMMA DrainConsume ==
  ASSUME TypeOK, Core, DrainInv, Consume
  PROVE  DrainInv'
<1>1. PICK t \in Matching(call), x \in transfers :
          /\ OldestMatch(t)
          /\ x.id = t.id
          /\ hidden' = hidden \ {t}
          /\ written' = IF t.item \in d2h
                        THEN written \cup {[dst |-> t.item, data |-> x.item,
                                            by |-> DrainOf(call)]}
                        ELSE written
  BY Zenon DEF Consume, ClearEntry
<1>2. t \in hidden
  BY Zenon, MatchingHidden
<1>3. /\ UNCHANGED <<frontier, evFrontier, submitOrder, streamState>>
      /\ UNCHANGED <<preds, d2h, before, evBefore>> /\ call.stage = "drain"
  BY ZenonT(30) DEF Consume, orderVars
<1>4. x.item = t.item
  <2>1. /\ {<<v.id, v.item>> : v \in hidden} = {<<y.id, y.item>> : y \in transfers}
        /\ \A y, z \in transfers : y.id = z.id => y = z
    BY Zenon DEF Core, TablesPaired, TablesAgree
  <2>2. <<t.id, t.item>> \in {<<y.id, y.item>> : y \in transfers}
    BY Zenon, <1>2, <2>1
  <2> QED BY Zenon, <1>1, <2>1, <2>2
<1>5. \A i : Visible(i) => Visible(i)'
  BY Zenon, <1>1 DEF Visible
<1>6. t.item \in d2h => Visible(t.item)'
  <2> DEFINE w == [dst |-> t.item, data |-> x.item, by |-> DrainOf(call)]
  <2>1. ASSUME t.item \in d2h PROVE w \in written' /\ w.dst = t.item
    BY Zenon, <1>1, <2>1
  <2> QED BY Zenon, <2>1 DEF Visible
<1>7. Placed' /\ NoOrphanTransfer'
  BY Zenon, <1>1, <1>3 DEF DrainInv, Placed, NoOrphanTransfer, LiveSlot
<1>8. Past'
  <2>1. /\ \A i \in Items' : preds'[i] \subseteq Items'
        /\ \A v, u \in hidden' : u.item \in preds'[v.item] => u.order < v.order
    BY Zenon, <1>1, <1>3 DEF DrainInv, Past, Items
  <2>2. ASSUME NEW v \in hidden', NEW i \in preds[v.item] \cap d2h
        PROVE  Visible(i)' \/ \E u \in hidden' : u.item = i
    <3>1. Visible(i) \/ \E u \in hidden : u.item = i
      BY Zenon, <1>1, <2>2 DEF DrainInv, Past
    <3> QED BY Zenon, <1>1, <1>5, <1>6, <3>1
  <2> QED BY Zenon, <1>3, <2>1, <2>2 DEF Past
<1>9. AllClosed'
  BY Zenon, <1>1, <1>3 DEF DrainInv, AllClosed, Closed, Covers
<1>10. ASSUME DrainOf(call) = "frontier", NEW u \in hidden, u.item \in preds[t.item]
       PROVE  FALSE
  <2>1. u \in Matching(call)
    <3>1. CASE call.op \in StreamCalls
      <4>1. call.arg \in Slots /\ Covers(frontier[call.arg], t)
        BY <1>1, <1>3, <3>1, CallKinds DEF Matching, StreamCalls, EventCalls
      <4>2. Covers(frontier[call.arg], u)
        BY Zenon, <1>2, <1>10, <4>1 DEF DrainInv, AllClosed, Closed
      <4> QED BY Zenon, <3>1, <4>2 DEF Matching
    <3>2. CASE call.op \in EventCalls
      <4>1. call.arg \in Events /\ Covers(evFrontier[call.arg], t)
        BY Zenon, <1>1, <1>3, <3>2, CallKinds DEF Matching, StreamCalls, EventCalls
      <4>2. Covers(evFrontier[call.arg], u)
        BY Zenon, <1>2, <1>10, <4>1 DEF DrainInv, AllClosed, Closed
      <4> QED BY <3>2, <4>2 DEF Matching, StreamCalls, EventCalls
    <3>3. CASE call.op \notin StreamCalls /\ call.op \notin EventCalls
      BY Zenon, <1>10, <3>3 DEF Matching, DrainOf
    <3> QED BY Zenon, <3>1, <3>2, <3>3
  <2>2. t.order <= u.order
    BY Zenon, <1>1, <2>1 DEF OldestMatch
  <2>3. u.order < t.order
    BY Zenon, <1>2, <1>10 DEF DrainInv, Past
  <2>4. t.order \in Nat /\ u.order \in Nat
    BY Zenon, <1>2 DEF TypeOK
  <2> QED BY <2>2, <2>3, <2>4
<1>11. DrainKeepsOrder'
  <2>1. SUFFICES ASSUME NEW w \in written', w.by = "frontier",
                        NEW i \in preds[w.data] \cap d2h
                 PROVE  Visible(i)'
    BY Zenon, <1>3 DEF DrainKeepsOrder
  <2>2. CASE w \in written
    BY Zenon, <1>5, <2>1, <2>2 DEF DrainInv, DrainKeepsOrder
  <2>3. CASE w \notin written
    <3>1. w.data = t.item /\ DrainOf(call) = "frontier"
      BY <1>1, <1>4, <2>1, <2>3
    <3>2. Visible(i) \/ \E u \in hidden : u.item = i
      BY Zenon, <1>2, <2>1, <3>1 DEF DrainInv, Past
    <3> QED BY <1>5, <1>10, <2>1, <3>1, <3>2
  <2> QED BY Zenon, <2>2, <2>3
<1> QED BY Zenon, <1>7, <1>8, <1>9, <1>11 DEF DrainInv

\* cudaStreamDestroy has drained every transfer of its stream when the stream
\* goes.
LEMMA DrainStreamDestroy ==
  ASSUME TypeOK, Core, DrainInv, FinishStreamDestroy
  PROVE  DrainInv'
<1>1. /\ Drained /\ call.op = "streamDestroy"
      /\ streamState' = [streamState EXCEPT ![call.arg] = "dead"]
      /\ frontier' = [frontier EXCEPT ![call.arg] = ZeroFrontier]
      /\ before' = [before EXCEPT ![call.arg] = {}]
  BY Zenon DEF FinishStreamDestroy
<1>2. UNCHANGED <<hidden, preds, d2h, written, submitOrder, evFrontier>>
  BY Zenon DEF FinishStreamDestroy
<1>3. call.arg \in Slots /\ call.op \in StreamCalls
  BY Zenon, <1>1, CallKinds DEF Drained, StreamCalls, EventCalls
<1>4. \A t \in hidden : t.slot \in Slots /\ t.seq \in Nat
  BY Zenon DEF TypeOK
<1>5. \A t \in hidden : t.slot # call.arg
  <2>1. ASSUME NEW t \in hidden, t.slot = call.arg PROVE FALSE
    <3>1. t.item \in before[call.arg]
      BY Zenon, <2>1 DEF DrainInv, Placed
    <3>2. Covers(frontier[call.arg], t)
      BY <1>3, <3>1 DEF Core, CausalCover
    <3> QED BY Zenon, <1>1, <1>3, <3>2 DEF Drained, Matching
  <2> QED BY Zenon, <2>1
<1>6. ASSUME NEW t \in hidden PROVE LiveSlot(t.slot)' /\ t.item \in before'[t.slot]
  <2>1. LiveSlot(t.slot) /\ t.item \in before[t.slot]
    BY Zenon DEF DrainInv, Placed, NoOrphanTransfer
  <2>2. streamState \in [Streams -> HandleState] /\ before \in [Slots -> SUBSET Items]
    BY Zenon DEF TypeOK
  <2> QED BY Zenon, <1>1, <1>4, <1>5, <2>1, <2>2 DEF LiveSlot
<1>7. ASSUME NEW x \in Slots PROVE Closed(frontier'[x])
  <2>1. CASE x = call.arg
    <3>1. frontier'[x] = ZeroFrontier
      BY <1>1, <1>3, <2>1 DEF TypeOK
    <3>2. \A t \in hidden : ~Covers(ZeroFrontier, t)
      BY <1>4 DEF Covers, ZeroFrontier, DrainInv, Placed
    <3> QED BY Zenon, <3>1, <3>2 DEF Closed
  <2>2. CASE x # call.arg
    <3>1. frontier'[x] = frontier[x]
      BY Zenon, <1>1, <2>2 DEF TypeOK
    <3> QED BY Zenon, <3>1 DEF DrainInv, AllClosed
  <2> QED BY Zenon, <2>1, <2>2
<1>8. \A e \in Events : Closed(evFrontier'[e])
  BY Zenon, <1>2 DEF DrainInv, AllClosed
<1> QED BY Zenon, <1>2, <1>6, <1>7, <1>8, DrainQuiet

\* Losing the session: nothing is outstanding afterwards, and the buffers
\* keep what they have.
LEMMA DrainSessionFails ==
  ASSUME DrainInv, SessionFails
  PROVE  DrainInv'
<1>1. hidden' = {} /\ UNCHANGED <<written, preds, d2h>>
  BY Zenon DEF SessionFails, DropHidden
<1> QED BY Zenon, <1>1 DEF DrainInv, Placed, Past, AllClosed, Closed, NoOrphanTransfer,
                    DrainKeepsOrder, Visible, Items

\* Frontiers that were closed, or that ordering a stream yields, stay closed.
LEMMA OrderedAreClosed ==
  ASSUME TypeOK, Core, DrainInv,
         frontier' = frontier \/ \E s \in Slots : frontier' = LegacyOrdered(s)
  PROVE  \A x \in Slots : Closed(frontier'[x])
<1>1. \A x \in Slots : Closed(frontier[x])
  BY Zenon DEF DrainInv, AllClosed
<1>2. ASSUME NEW s \in Slots, frontier' = LegacyOrdered(s), NEW x \in Slots
      PROVE  Closed(frontier'[x])
  <2>1. Closed(LegacyOrdered(s)[s])
    BY Zenon, ClosedOrdered DEF Core, DrainInv
  <2>2. x # s => LegacyOrdered(s)[x] = frontier[x]
    BY Zenon, LegacyOrderedGrows DEF Core
  <2> QED BY Zenon, <1>1, <1>2, <2>1, <2>2
<1> QED BY Zenon, <1>1, <1>2

\* Steps that at most order a stream.
LEMMA DrainOrdering ==
  ASSUME TypeOK, Core, DrainInv,
         frontier' = frontier \/ \E s \in Slots : frontier' = LegacyOrdered(s),
         UNCHANGED <<hidden, preds, d2h, written, submitOrder, before, evFrontier>>,
         \A s \in Streams : streamState[s] = "live" => streamState'[s] = "live"
  PROVE  DrainInv'
<1>1. \A t \in hidden : LiveSlot(t.slot)' /\ t.item \in before'[t.slot]
  BY Zenon DEF DrainInv, Placed, NoOrphanTransfer, LiveSlot
<1>2. \A e \in Events : Closed(evFrontier'[e])
  BY Zenon DEF DrainInv, AllClosed
<1> QED BY Zenon, <1>1, <1>2, OrderedAreClosed, DrainQuiet

\* cudaEventRecord and cudaStreamWaitEvent.
LEMMA DrainEvents ==
  ASSUME TypeOK, Core, DrainInv, NEW s \in Slots, NEW e \in Events,
         EventRecord(e, s) \/ StreamWaitEvent(s, e)
  PROVE  DrainInv'
<1>1. UNCHANGED <<hidden, preds, d2h, written, submitOrder, streamState>>
  BY Zenon DEF EventRecord, StreamWaitEvent
<1>2. before[s] \subseteq DevicePreds(s)
  BY Zenon DEF DevicePreds
<1>3. /\ before \in [Slots -> SUBSET Items] /\ evFrontier \in [Events -> Frontier]
      /\ \A t \in hidden : t.slot \in Slots
  BY Zenon DEF TypeOK
<1>4. \/ before' = [before EXCEPT ![s] = DevicePreds(s)]
      \/ before' = [before EXCEPT ![s] = DevicePreds(s) \cup evBefore[e]]
  BY Zenon DEF EventRecord, StreamWaitEvent
<1>5. \A t \in hidden : LiveSlot(t.slot)' /\ t.item \in before'[t.slot]
  <2>1. \A x \in Slots : before[x] \subseteq before'[x]
    BY Zenon, <1>2, <1>3, <1>4
  <2> QED BY Zenon, <1>1, <1>3, <2>1 DEF DrainInv, Placed, NoOrphanTransfer, LiveSlot
<1>6. /\ Closed(LegacyOrdered(s)[s]) /\ \A y \in Events : Closed(evFrontier[y])
      /\ \A x \in Slots : Closed(frontier[x])
  BY Zenon, ClosedOrdered DEF Core, DrainInv, AllClosed
<1>7. /\ LegacyOrdered(s) \in [Slots -> Frontier]
      /\ \A x \in Slots : x # s => LegacyOrdered(s)[x] = frontier[x]
  BY LegacyOrderedGrows DEF Core
<1>8. CASE EventRecord(e, s)
  <2>1. /\ frontier' = LegacyOrdered(s)
        /\ evFrontier' = [evFrontier EXCEPT ![e] = LegacyOrdered(s)[s]]
    BY Zenon, <1>8 DEF EventRecord, Snapshot
  <2>2. \A x \in Slots : Closed(frontier'[x])
    BY Zenon, <2>1, OrderedAreClosed
  <2>3. \A y \in Events : Closed(evFrontier'[y])
    BY <1>3, <1>6, <2>1
  <2> QED BY Zenon, <1>1, <1>5, <2>2, <2>3, DrainQuiet
<1>9. CASE StreamWaitEvent(s, e)
  <2>1. frontier' = WaitMerged(s, e) /\ evFrontier' = evFrontier
    BY Zenon, <1>9 DEF StreamWaitEvent
  <2>2. /\ \A x \in Slots : x # s => frontier'[x] = frontier[x]
        /\ \/ frontier'[s] = LegacyOrdered(s)[s]
           \/ frontier'[s] = FrontierMerge(LegacyOrdered(s)[s], evFrontier[e])
    BY Zenon, <1>7, <2>1 DEF WaitMerged
  <2>3. Closed(FrontierMerge(LegacyOrdered(s)[s], evFrontier[e]))
    BY <1>3, <1>6, <1>7, ClosedMerge
  <2>4. \A x \in Slots : Closed(frontier'[x])
    BY Zenon, <1>6, <2>2, <2>3
  <2> QED BY Zenon, <1>1, <1>5, <1>6, <2>1, <2>4, DrainQuiet
<1> QED BY Zenon, <1>8, <1>9

\* cudaEventDestroy: the event's frontier becomes zero and covers nothing.
LEMMA DrainEventDestroy ==
  ASSUME TypeOK, Core, DrainInv, FinishEventDestroy
  PROVE  DrainInv'
<1>1. /\ evFrontier' = [evFrontier EXCEPT ![call.arg] = ZeroFrontier]
      /\ UNCHANGED <<hidden, preds, d2h, written, submitOrder, streamState, frontier, before>>
  BY Zenon DEF FinishEventDestroy
<1>2. \A t \in hidden : LiveSlot(t.slot)' /\ t.item \in before'[t.slot]
  BY Zenon, <1>1 DEF DrainInv, Placed, NoOrphanTransfer, LiveSlot
<1>3. \A x \in Slots : Closed(frontier'[x])
  BY Zenon, <1>1 DEF DrainInv, AllClosed
<1>4. \A t \in hidden : t.slot \in Slots /\ t.seq \in Nat
  BY Zenon DEF TypeOK
<1>5. \A t \in hidden : ~Covers(ZeroFrontier, t)
  BY <1>4 DEF Covers, ZeroFrontier, DrainInv, Placed
<1>6. Closed(ZeroFrontier)
  BY Zenon, <1>5 DEF Closed
<1>7. \A e \in Events : Closed(evFrontier[e])
  BY Zenon DEF DrainInv, AllClosed
<1>8. \A e \in Events : evFrontier'[e] = ZeroFrontier \/ evFrontier'[e] = evFrontier[e]
  BY Zenon, <1>1 DEF TypeOK
<1>9. \A e \in Events : Closed(evFrontier'[e])
  BY Zenon, <1>6, <1>7, <1>8
<1> QED BY Zenon, <1>1, <1>2, <1>3, <1>9, DrainQuiet

\* Every step keeps the drains in order.
LEMMA DrainNext ==
  ASSUME IInv, DrainInv, [Next]_vars
  PROVE  DrainInv'
<1> USE DEF IInv
<1>1. ASSUME frontier' = frontier \/ \E s \in Slots : frontier' = LegacyOrdered(s),
             UNCHANGED <<hidden, preds, d2h, written, submitOrder, before, evFrontier>>,
             \A s \in Streams : streamState[s] = "live" => streamState'[s] = "live"
      PROVE  DrainInv'
  BY Zenon, <1>1, DrainOrdering
<1>2. CASE EnsureRuntime \/ ConnectFails \/ CallFails \/ Device \/ UNCHANGED vars
  <2>1. UNCHANGED <<frontier, hidden, preds, d2h, written, submitOrder, before, evFrontier,
                    streamState>>
    BY ZenonT(30), <1>2 DEF EnsureRuntime, ConnectFails, CallFails, Device, Complete,
           clientVars, serverVars, orderVars, vars
  <2> QED BY Zenon, <1>1, <2>1
<1>3. CASE Creation
  <2>1. UNCHANGED <<frontier, hidden, preds, d2h, written, submitOrder, before, evFrontier>>
    BY ZenonT(30), <1>3 DEF Creation, StreamCreate, EventCreate, Malloc, orderVars
  <2>2. \/ streamState' = streamState
        \/ \E s \in Streams : streamState' = [streamState EXCEPT ![s] = "live"]
    BY ZenonT(30), <1>3 DEF Creation, StreamCreate, EventCreate, Malloc
  <2>3. streamState \in [Streams -> HandleState]
    BY Zenon DEF TypeOK
  <2>4. \A s \in Streams : streamState[s] = "live" => streamState'[s] = "live"
    BY Zenon, <2>2, <2>3
  <2> QED BY Zenon, <1>1, <2>1, <2>4
<1>4. CASE Submission
  <2>1. ASSUME NEW s \in Slots, NEW isD2H \in BOOLEAN, NEW a \in Allocs,
               MemcpyAsync(s, isD2H, a) \/ Memcpy2DAsync(s, isD2H, a)
        PROVE  DrainInv'
    BY Zenon, <2>1, DrainCopy
  <2>2. ASSUME NEW s \in Slots,
               StreamOp(s) \/ LaunchKernel(s) \/ \E a \in Allocs : FreeAsync(s, a)
        PROVE  DrainInv'
    <3>1. /\ Enqueue(s, FALSE)
          /\ Sequenced(s) \/ (frontier' = LegacyOrdered(s) /\ seq' = seq)
          /\ UNCHANGED <<evFrontier, hidden, written, submitOrder, streamState>>
      BY ZenonT(30), <2>2 DEF StreamOp, LaunchKernel, FreeAsync
    <3> QED BY Zenon, <3>1, DrainPlainSubmission
  <2>3. ASSUME NEW s \in Slots, NEW e \in Events, EventRecord(e, s) \/ StreamWaitEvent(s, e)
        PROVE  DrainInv'
    BY Zenon, <2>3, DrainEvents
  <2> QED BY ZenonT(30), <1>4, <2>1, <2>2, <2>3 DEF Submission
<1>5. CASE BlockingCall
  <2>1. /\ frontier' = frontier \/ \E s \in Slots : frontier' = LegacyOrdered(s)
        /\ \E op, arg, stage : Begin(op, arg, stage)
    BY ZenonT(30), <1>5
       DEF BlockingCall, StreamSynchronize, StreamQuery, HostCallback, DeviceSynchronize,
           StreamDestroy, EventSynchronize, EventQuery, EventDestroy, Free
  <2>2. UNCHANGED <<hidden, preds, d2h, written, submitOrder, before, evFrontier, streamState>>
    BY Zenon, <2>1 DEF Begin, orderVars
  <2> QED BY Zenon, <1>1, <2>1, <2>2
<1>6. CASE CallStep
  <2>1. CASE Barrier \/ QueryAnswer \/ CheckReady \/ FinishSync \/ FinishFree
    <3>1. UNCHANGED <<frontier, hidden, preds, d2h, written, submitOrder, before, evFrontier,
                      streamState>>
      BY ZenonT(30), <2>1 DEF Barrier, QueryAnswer, CheckReady, FinishSync, FinishFree,
             clientVars, orderVars
    <3> QED BY Zenon, <1>1, <3>1
  <2> QED BY <1>6, <2>1, DrainConsume, DrainStreamDestroy, DrainEventDestroy DEF CallStep
<1>7. CASE Failure
  <2>1. CASE TransportFailure
    BY Zenon, <2>1, DrainSessionFails DEF TransportFailure
  <2>2. ASSUME NEW s \in Slots, SubmitFails(s) PROVE DrainInv'
    <3>1. /\ frontier' = LegacyOrdered(s)
          /\ UNCHANGED <<hidden, preds, d2h, written, submitOrder, before, evFrontier,
                         streamState>>
      BY Zenon, <2>2 DEF SubmitFails, orderVars
    <3> QED BY Zenon, <1>1, <3>1
  <2> QED BY Zenon, <1>2, <1>7, <2>1, <2>2 DEF Failure
<1> QED BY Zenon, <1>2, <1>3, <1>4, <1>5, <1>6, <1>7 DEF Next

------------------------------------------------------------------------------
(* Queries never block.                                                    *)

\* drain_frontier_if_ready has queried every transfer it drains, and draining
\* one leaves the answers of the others valid.
LEMMA QueryNext ==
  ASSUME IInv, QueryNeverBlocks, [Next]_vars
  PROVE  QueryNeverBlocks'
<1> USE DEF IInv
<1>1. ASSUME call'.op \notin QueryCalls \/ call'.stage # "drain" PROVE QueryNeverBlocks'
  BY Zenon, <1>1 DEF QueryNeverBlocks
<1>2. CASE EnsureRuntime \/ ConnectFails \/ Creation \/ Submission \/ Failure
  <2>1. call' = NoCall
    BY ZenonT(30), <1>2
       DEF EnsureRuntime, ConnectFails, Creation, StreamCreate, EventCreate, Malloc,
           Submission, MemcpyAsync, Memcpy2DAsync, StreamOp, LaunchKernel, FreeAsync,
           EventRecord, StreamWaitEvent, Failure, TransportFailure, CallFails, SubmitFails,
           Return, Entry
  <2> QED BY Zenon, <1>1, <2>1 DEF NoCall
<1>3. CASE BlockingCall
  <2>1. ASSUME NEW op, NEW arg, NEW stage, Begin(op, arg, stage),
               stage # "drain" \/ op = "free"
        PROVE  QueryNeverBlocks'
    BY Zenon, <1>1, <2>1 DEF Begin, QueryCalls
  <2>2. "barrier" # "drain" /\ "finish" # "drain"
    OBVIOUS
  <2>3. ASSUME NEW e \in Events, EventDestroy(e) PROVE QueryNeverBlocks'
    <3>1. (IF e \in recorded THEN "barrier" ELSE "finish") # "drain"
      OBVIOUS
    <3> QED BY Zenon, <2>1, <2>3, <3>1 DEF EventDestroy
  <2> QED BY ZenonT(30), <1>3, <2>1, <2>2, <2>3
          DEF BlockingCall, StreamSynchronize, StreamQuery, HostCallback, DeviceSynchronize,
              StreamDestroy, EventSynchronize, EventQuery, Free
<1>4. CASE Device \/ UNCHANGED vars
  <2>1. UNCHANGED <<call, hidden, frontier, evFrontier, transfers>> /\ done \subseteq done'
    BY ZenonT(30), <1>4 DEF Device, Complete, vars, clientVars, serverVars
  <2>2. Matching(call)' = Matching(call)
    BY <2>1 DEF Matching, Covers
  <2> QED BY Zenon, <2>1, <2>2 DEF QueryNeverBlocks, TransferReady
<1>5. CASE CallStep
  <2>1. CASE Barrier
    <3>1. call.op \notin QueryCalls /\ call' = [call EXCEPT !.stage = "drain"]
          /\ call.stage # "none"
      BY Zenon, <2>1 DEF Barrier
    <3>2. call'.op = call.op
      BY <3>1
    <3> QED BY Zenon, <1>1, <3>1, <3>2
  <2>2. CASE QueryAnswer
    <3>1. call' = [call EXCEPT !.stage = "check"] \/ call' = NoCall
      BY Zenon, <2>2 DEF QueryAnswer, Return
    <3>2. "stage" \in DOMAIN call /\ call.stage # "none"
      BY Zenon, <2>2 DEF QueryAnswer, TypeOK, Calls, NoCall
    <3>3. call'.stage # "drain"
      BY <3>1, <3>2 DEF NoCall
    <3> QED BY Zenon, <1>1, <3>3
  <2>3. CASE CheckReady
    <3>1. \/ call' = NoCall
          \/ AllReady(call) /\ call' = [call EXCEPT !.stage = "drain"]
      BY Zenon, <2>3 DEF CheckReady, Return
    <3>2. CASE call' = NoCall
      BY Zenon, <1>1, <3>2 DEF NoCall
    <3>3. CASE AllReady(call) /\ call' = [call EXCEPT !.stage = "drain"]
      <4>1. UNCHANGED <<hidden, frontier, evFrontier, transfers, done>>
        BY Zenon, <2>3 DEF CheckReady, clientVars, serverVars
      <4>2. call'.op = call.op /\ call'.arg = call.arg
        BY <3>3
      <4>3. Matching(call)' = Matching(call)
        BY Zenon, <4>1, <4>2 DEF Matching, Covers
      <4> QED BY Zenon, <3>3, <4>1, <4>3 DEF QueryNeverBlocks, AllReady, TransferReady
    <3> QED BY Zenon, <3>1, <3>2, <3>3
  <2>4. CASE Consume
    <3>1. PICK t \in Matching(call), x \in transfers :
              /\ x.id = t.id
              /\ hidden' = hidden \ {t}
              /\ transfers' = transfers \ {x}
      BY Zenon, <2>4 DEF Consume, ClearEntry, ReleaseTransfer
    <3>2. UNCHANGED <<call, frontier, evFrontier, done>>
      BY ZenonT(30), <2>4 DEF Consume
    <3>3. t \in hidden /\ \A v, u \in hidden : v.id = u.id => v = u
      BY Zenon, MatchingHidden DEF Core, TablesPaired
    <3>4. ASSUME NEW u \in Matching(call)' PROVE u \in Matching(call) /\ u.id # x.id
      <4>1. u \in Matching(call) /\ u \in hidden'
        BY Zenon, <3>1, <3>2, <3>4 DEF Matching, Covers
      <4> QED BY Zenon, <3>1, <3>3, <4>1
    <3>5. ASSUME NEW u, TransferReady(u), u.id # x.id PROVE TransferReady(u)'
      BY Zenon, <3>1, <3>2, <3>5 DEF TransferReady
    <3> QED BY Zenon, <3>2, <3>4, <3>5 DEF QueryNeverBlocks
  <2>5. CASE FinishSync \/ FinishStreamDestroy \/ FinishEventDestroy \/ FinishFree
    <3>1. call' = NoCall
      BY Zenon, <2>5 DEF FinishSync, FinishStreamDestroy, FinishEventDestroy, FinishFree, Return
    <3> QED BY Zenon, <1>1, <3>1 DEF NoCall
  <2> QED BY Zenon, <1>5, <2>1, <2>2, <2>3, <2>4, <2>5 DEF CallStep
<1> QED BY Zenon, <1>2, <1>3, <1>4, <1>5 DEF Next

\* The drain invariant holds of every reachable state.
THEOREM DrainInvariance == Spec => [](DrainInv /\ QueryNeverBlocks)
<1>1. Init => DrainInv /\ QueryNeverBlocks
  <2>1. ASSUME Init PROVE DrainInv
    BY <2>1 DEF Init, DrainInv, Placed, Past, AllClosed, Closed, NoOrphanTransfer,
                DrainKeepsOrder, Items
  <2>2. ASSUME Init PROVE QueryNeverBlocks
    BY Zenon, <2>2 DEF Init, QueryNeverBlocks, NoCall
  <2> QED BY Zenon, <2>1, <2>2
<1>2. IInv /\ DrainInv /\ QueryNeverBlocks /\ [Next]_vars => DrainInv' /\ QueryNeverBlocks'
  BY Zenon, DrainNext, QueryNext
<1> QED BY <1>1, <1>2, Invariance, PTL DEF Spec

\* A frontier drain writes host buffers in causal order, whatever calls,
\* events and failures ordered and interrupted it.
THEOREM DrainsInOrder == Spec => []DrainKeepsOrder
  BY DrainInvariance, PTL DEF DrainInv

\* No transfer outlives the stream it was submitted to.
THEOREM NoOrphans == Spec => []NoOrphanTransfer
  BY DrainInvariance, PTL DEF DrainInv

\* A cudaStreamQuery or cudaEventQuery that starts to drain never waits.
THEOREM QueriesReturn == Spec => []QueryNeverBlocks
  BY DrainInvariance, PTL
=============================================================================
