------------------------- MODULE HostRegistryProofs --------------------------
(* Locks follow registrations and storage outlives its users, for every page *)
(* size, address space and number of entries.                                *)
EXTENDS HostRegistry, WellFoundedInduction, TLAPS

------------------------------------------------------------------------------
(* Least and greatest elements of sets of naturals.                          *)

NatLess == {p \in Nat \X Nat : p[1] < p[2]}

\* The order of the naturals is well founded.
LEMMA NatLessWellFounded == IsWellFoundedOn(NatLess, Nat)
  BY NatLessThanWellFounded, Zenon DEF OpToRel, NatLess

\* A nonempty set of naturals has a least element.
LEMMA LeastElement ==
  ASSUME NEW S \in SUBSET Nat, S # {}
  PROVE  \E x \in S : \A y \in S : x <= y
<1>1. PICK x \in S : \A y \in S : ~ (<<y, x>> \in NatLess)
  BY Zenon, NatLessWellFounded, WFMin
<1>2. \A y \in S : x <= y
  <2> TAKE y \in S
  <2>1. ~ (<<y, x>> \in NatLess)
    BY <1>1
  <2>2. x \in Nat /\ y \in Nat
    BY <1>1
  <2>3. ~(y < x)
    BY <2>1, <2>2 DEF NatLess
  <2> QED BY <2>2, <2>3
<1> QED BY <1>2

\* A nonempty bounded set of naturals contains its maximum.
LEMMA MaxOfBounded ==
  ASSUME NEW S \in SUBSET Nat, S # {}, NEW b \in Nat, \A x \in S : x <= b
  PROVE  Max(S) \in S /\ \A y \in S : y <= Max(S)
<1> DEFINE D == {d \in Nat : \E x \in S : d = b - x}
<1>1. D \in SUBSET Nat /\ D # {}
  <2>1. PICK x \in S : TRUE
    BY Zenon
  <2>2. b - x \in D
    BY x <= b
  <2> QED BY Zenon, <2>2
<1>2. PICK d \in D : \A e \in D : d <= e
  BY Zenon, <1>1, LeastElement
<1>3. PICK x \in S : d = b - x
  BY <1>2
<1>4. \A y \in S : x >= y
  <2> TAKE y \in S
  <2>1. b - y \in D
    BY y <= b
  <2> QED BY <1>2, <1>3, <2>1
<1> QED BY Zenon, <1>4 DEF Max

\* A nonempty set of naturals contains its minimum.
LEMMA MinOfNaturals ==
  ASSUME NEW S \in SUBSET Nat, S # {}
  PROVE  Min(S) \in S /\ \A y \in S : Min(S) <= y
BY Zenon, LeastElement DEF Min

------------------------------------------------------------------------------
(* Pages and bytes.                                                          *)

\* The page of a byte and the number of pages of a range are naturals.
LEMMA PageOfByte ==
  ASSUME NEW b \in Nat, NEW n \in Nat
  PROVE  b \div PageSize \in Nat /\ PagesFor(b, n) \in Nat
BY SizeAssumption DEF PagesFor

\* A byte is where its page and its offset say.
LEMMA DivMod ==
  ASSUME NEW b \in Nat
  PROVE  /\ b = PageSize * (b \div PageSize) + (b % PageSize)
         /\ b % PageSize \in Nat /\ b % PageSize < PageSize
BY SizeAssumption

\* A byte at or after the beginning of page k is on page k or a later one.
LEMMA PageAtLeast ==
  ASSUME NEW b \in Nat, NEW k \in Nat, b >= k * PageSize
  PROVE  b \div PageSize >= k
BY SizeAssumption

\* The page of the first byte of page k is k.
LEMMA PageOfFirstByte ==
  ASSUME NEW k \in Nat
  PROVE  (k * PageSize) \div PageSize = k
BY SizeAssumption

\* A range that ends before page k begins touches only pages below k.
LEMMA PagesBelow ==
  ASSUME NEW b \in Nat, NEW n \in Nat, NEW k \in Nat, b + n <= k * PageSize
  PROVE  (b \div PageSize) + PagesFor(b, n) <= k
BY SizeAssumption DEF PagesFor

------------------------------------------------------------------------------
(* The inductive invariant.                                                  *)

\* A mapping the library owns begins at a page and shares no page.
OwnedAlone ==
    \A d \in host_allocs : d.owner = "library" =>
        /\ d.base = FirstPage(d) * PageSize
        /\ \A e \in host_allocs : d # e => PagesOf(d) \cap PagesOf(e) = {}

\* Every entry ends within the address space.
EndsInside == \A e \in host_allocs : EndPage(e) <= Pages

\* Below the cursor, what is still locked of the entry being released is
\* needed by another entry; no copy is outstanding meanwhile.
LoopInvariant ==
    Running =>
        /\ pending = {}
        /\ rel.cursor >= FirstPage(rel.entry)
        /\ \A p \in locked \cap PagesOf(rel.entry) :
              p >= rel.cursor \/ \E o \in Others : p \in PagesOf(o)

IInv == /\ TypeOK /\ StorageHeld /\ LocksFollowEntries
        /\ OwnedAlone /\ EndsInside /\ LoopInvariant

\* The first page and the end of an entry are naturals.
LEMMA EntryPages ==
  ASSUME NEW e \in Entry
  PROVE  /\ FirstPage(e) \in Nat /\ EndPage(e) \in Nat /\ e.npages \in Nat
         /\ e.base \in Nat /\ e.size \in Nat
<1>1. e.base \in Nat /\ e.size \in Nat /\ e.npages \in Nat
  BY DEF Entry
<1>2. e.base \div PageSize \in Nat
  BY <1>1, PageOfByte
<1> QED BY <1>1, <1>2 DEF FirstPage, EndPage

\* Initially nothing is registered.
LEMMA InitIInv == Init => IInv
<1> SUFFICES ASSUME Init PROVE IInv
  OBVIOUS
<1>1. TypeOK
  BY SizeAssumption DEF Init, TypeOK, PageSet
<1>2. LoopInvariant
  BY DEF Init, LoopInvariant, Running
<1> QED BY <1>1, <1>2 DEF Init, IInv, StorageHeld, LocksFollowEntries,
                          OwnedAlone, EndsInside

\* A new owned mapping takes pages that were not mapped, hence nobody's.
LEMMA HostAllocIInv ==
  ASSUME IInv, NEW p \in PageSet, NEW n \in 1 .. PageSize * Pages, HostAlloc(p, n)
  PROVE  IInv'
<1> DEFINE e == [base |-> p * PageSize, size |-> n,
                 npages |-> PagesFor(0, n), owner |-> "library"]
<1>0. p \in Nat /\ n \in Nat \ {0} /\ p * PageSize \in Nat
  BY SizeAssumption DEF PageSet
<1>1. PagesFor(0, n) \in Nat
  BY <1>0, PageOfByte
<1>2. e \in Entry
  BY <1>0, <1>1 DEF Entry
<1>3. /\ rel = None /\ PagesOf(e) \subseteq PageSet \ mapped
      /\ host_allocs' = host_allocs \cup {e}
      /\ mapped' = mapped \cup PagesOf(e) /\ locked' = locked \cup PagesOf(e)
      /\ pending' = pending /\ rel' = rel /\ half' = half
  BY DEF HostAlloc, Idle
<1>4. FirstPage(e) = p
  BY <1>0, PageOfFirstByte DEF FirstPage
<1> HIDE DEF e
<1>5. TypeOK'
  BY <1>2, <1>3 DEF IInv, TypeOK
<1>6. StorageHeld'
  BY <1>3 DEF IInv, StorageHeld
<1>7. LocksFollowEntries'
  BY <1>3 DEF IInv, LocksFollowEntries, Running
<1>8. LoopInvariant'
  BY <1>3 DEF LoopInvariant, Running
<1>9. EndsInside'
  <2>1. EndPage(e) \in Nat /\ FirstPage(e) \in Nat
    BY <1>2, EntryPages
  <2>2. EndPage(e) <= Pages
    <3>1. CASE EndPage(e) > FirstPage(e)
      <4>1. EndPage(e) - 1 \in PagesOf(e)
        BY <2>1, <3>1 DEF PagesOf
      <4> QED BY <4>1, <1>3, <2>1, SizeAssumption DEF PageSet
    <3>2. CASE ~ (EndPage(e) > FirstPage(e))
      BY <3>2, <2>1, <1>4, SizeAssumption DEF PageSet
    <3> QED BY <3>1, <3>2
  <2> QED BY <2>2, <1>3 DEF IInv, EndsInside
<1>10. OwnedAlone'
  <2>1. \A d \in host_allocs : PagesOf(d) \cap PagesOf(e) = {}
    BY <1>3 DEF IInv, StorageHeld
  <2>2. e.base = FirstPage(e) * PageSize
    BY <1>4 DEF e
  <2> QED BY <2>1, <2>2, <1>3 DEF IInv, OwnedAlone
<1> QED BY <1>5, <1>6, <1>7, <1>8, <1>9, <1>10 DEF IInv

\* A registration is kept off the pages of owned mappings by the overlap
\* test, and its own pages become locked.
LEMMA HostRegisterIInv ==
  ASSUME IInv, NEW b \in Bytes, NEW n \in 1 .. PageSize * Pages, HostRegister(b, n)
  PROVE  IInv'
<1> DEFINE e == [base |-> b, size |-> n,
                 npages |-> PagesFor(b, n), owner |-> "application"]
<1>0. b \in Nat /\ n \in Nat \ {0}
  BY SizeAssumption DEF Bytes
<1>1. PagesFor(b, n) \in Nat
  BY <1>0, PageOfByte
<1>2. e \in Entry
  BY <1>0, <1>1 DEF Entry
<1>3. /\ rel = None /\ PagesOf(e) \subseteq mapped
      /\ host_allocs' = host_allocs \cup {e}
      /\ mapped' = mapped /\ locked' = locked \cup PagesOf(e)
      /\ pending' = pending /\ rel' = rel /\ half' = half
      /\ \A d \in host_allocs : ~ Overlaps(d, b, n)
  BY DEF HostRegister, Idle
<1>4. /\ FirstPage(e) = b \div PageSize
      /\ EndPage(e) = (b \div PageSize) + PagesFor(b, n)
      /\ e.owner = "application"
  BY DEF FirstPage, EndPage
<1>5. b \div PageSize \in Nat
  BY <1>0, PageOfByte
<1> HIDE DEF e
<1>6. TypeOK'
  <2>1. mapped \subseteq PageSet
    BY DEF IInv, TypeOK
  <2> QED BY <2>1, <1>2, <1>3 DEF IInv, TypeOK
<1>7. StorageHeld'
  BY <1>3 DEF IInv, StorageHeld
<1>8. LocksFollowEntries'
  BY <1>3 DEF IInv, LocksFollowEntries, Running
<1>9. LoopInvariant'
  BY <1>3 DEF LoopInvariant, Running
<1>10. EndsInside'
  <2>1. Pages \in Nat /\ PageSize \in Nat \ {0} /\ b < PageSize * Pages
    BY SizeAssumption DEF Bytes
  <2>2. FirstPage(e) <= Pages
    <3>1. ~ (b \div PageSize > Pages)
      BY <2>1, <1>5, DivMod, <1>0
    <3> QED BY <3>1, <2>1, <1>4, <1>5
  <2>3. EndPage(e) <= Pages
    <3>1. CASE EndPage(e) > FirstPage(e)
      <4>1. EndPage(e) - 1 \in PagesOf(e)
        BY <1>1, <1>4, <1>5, <3>1 DEF PagesOf
      <4>2. EndPage(e) - 1 \in PageSet
        BY <4>1, <1>3 DEF IInv, TypeOK
      <4> QED BY <4>2, <1>1, <1>4, <1>5, <2>1 DEF PageSet
    <3>2. CASE ~ (EndPage(e) > FirstPage(e))
      BY <3>2, <2>1, <2>2, <1>1, <1>4, <1>5
    <3> QED BY <3>1, <3>2
  <2> QED BY <2>3, <1>3 DEF IInv, EndsInside
<1>11. OwnedAlone'
  <2>1. ASSUME NEW d \in host_allocs, d.owner = "library"
        PROVE  PagesOf(d) \cap PagesOf(e) = {}
    <3>1. d \in Entry /\ d.base = FirstPage(d) * PageSize
      BY <2>1 DEF IInv, TypeOK, OwnedAlone
    <3>2. FirstPage(d) \in Nat /\ d.npages \in Nat /\ EndPage(d) \in Nat
      BY <3>1, EntryPages
    <3>3. b >= d.base + d.npages * PageSize \/ b + n <= d.base
      <4>1. Span(d) = d.npages * PageSize
        BY <2>1 DEF Span
      <4>2. ~ (b < d.base + Span(d) /\ d.base < b + n)
        BY <1>3 DEF Overlaps
      <4>3. d.base \in Nat /\ d.npages * PageSize \in Nat
        BY <3>1, <3>2, SizeAssumption DEF Entry
      <4> QED BY <4>1, <4>2, <4>3, <1>0
    <3>4. d.base + d.npages * PageSize = EndPage(d) * PageSize
      BY <3>1, <3>2, SizeAssumption DEF EndPage
    <3>5. CASE b >= EndPage(d) * PageSize
      <4>1. b \div PageSize >= EndPage(d)
        BY <3>5, <3>2, <1>0, PageAtLeast
      <4> QED BY <4>1, <1>1, <1>4, <1>5, <3>2 DEF PagesOf
    <3>6. CASE b + n <= FirstPage(d) * PageSize
      <4>1. EndPage(e) <= FirstPage(d)
        BY <3>6, <3>2, <1>0, <1>4, PagesBelow
      <4> QED BY <4>1, <1>1, <1>4, <1>5, <3>2 DEF PagesOf
    <3> QED BY <3>1, <3>3, <3>4, <3>5, <3>6
  <2> QED BY <2>1, <1>3, <1>4 DEF IInv, OwnedAlone
<1> QED BY <1>6, <1>7, <1>8, <1>9, <1>10, <1>11 DEF IInv

\* A release begins with everything still locked.
LEMMA ReleaseBeginIInv ==
  ASSUME IInv, NEW e \in host_allocs, ReleaseBegin(e)
  PROVE  IInv'
<1>1. /\ rel = None /\ rel' = [entry |-> e, cursor |-> FirstPage(e)]
      /\ pending' = {} /\ host_allocs' = host_allocs /\ locked' = locked
      /\ mapped' = mapped /\ half' = half
  BY DEF ReleaseBegin, Idle
<1>2. FirstPage(e) \in Nat /\ EndPage(e) \in Nat
  BY EntryPages DEF IInv, TypeOK
<1>3. TypeOK'
  BY <1>1, <1>2 DEF IInv, TypeOK
<1>4. LocksFollowEntries'
  BY <1>1 DEF IInv, LocksFollowEntries, Running
<1>5. StorageHeld' /\ OwnedAlone' /\ EndsInside'
  BY <1>1 DEF IInv, StorageHeld, OwnedAlone, EndsInside
<1>6. LoopInvariant'
  BY <1>1, <1>2 DEF LoopInvariant, Running, PagesOf
<1> QED BY <1>3, <1>4, <1>5, <1>6 DEF IInv

\* What one turn of the loop knows about the other entries.
LEMMA LoopTypes ==
  ASSUME IInv, Running
  PROVE  /\ rel \in [entry : host_allocs, cursor : Nat]
         /\ rel.entry \in Entry /\ rel.cursor \in Nat
         /\ FirstPage(rel.entry) \in Nat /\ EndPage(rel.entry) \in Nat
         /\ \A o \in Others : /\ o \in host_allocs /\ o # rel.entry
                              /\ FirstPage(o) \in Nat /\ EndPage(o) \in Nat
                              /\ EndPage(o) <= Pages
<1>1. rel \in [entry : host_allocs, cursor : Nat]
  BY DEF IInv, TypeOK, Running
<1>2. rel.entry \in host_allocs /\ rel.cursor \in Nat
  BY <1>1
<1>3. host_allocs \subseteq Entry
  BY DEF IInv, TypeOK
<1>4. \A e \in host_allocs : FirstPage(e) \in Nat /\ EndPage(e) \in Nat /\ EndPage(e) <= Pages
  BY <1>3, EntryPages DEF IInv, EndsInside
<1> QED BY <1>1, <1>2, <1>3, <1>4 DEF Others

\* Pages skipped belong to one other entry; if there is none, every entry
\* that begins at or before the cursor has ended.
LEMMA CoveredEndIs ==
  ASSUME IInv, InLoop
  PROVE  /\ CoveredEnd \in Nat
         /\ CoveredEnd > rel.cursor =>
              \E o \in Others : FirstPage(o) <= rel.cursor /\ EndPage(o) = CoveredEnd
         /\ \A o \in Others : FirstPage(o) <= rel.cursor => EndPage(o) <= CoveredEnd
<1> DEFINE S == {rel.cursor} \cup
                {EndPage(e) : e \in {o \in Others : FirstPage(o) <= rel.cursor}}
<1>0. Running
  BY DEF InLoop
<1>1. S \in SUBSET Nat /\ S # {}
  BY <1>0, LoopTypes
<1>2. rel.cursor <= Pages + rel.cursor /\ Pages + rel.cursor \in Nat
  BY <1>0, LoopTypes, SizeAssumption
<1>3. \A x \in S : x <= Pages + rel.cursor
  BY <1>0, <1>2, LoopTypes, SizeAssumption
<1>4. Max(S) \in S /\ \A y \in S : y <= Max(S)
  <2> HIDE DEF S
  <2> QED BY Zenon, <1>1, <1>2, <1>3, MaxOfBounded
<1>5. CoveredEnd = Max(S)
  BY DEF CoveredEnd
<1> QED BY <1>0, <1>1, <1>4, <1>5, LoopTypes

\* A gap ends at or before the end of the entry and before the next entry.
LEMMA NextFirstIs ==
  ASSUME IInv, InLoop
  PROVE  /\ NextFirst \in Nat /\ NextFirst > rel.cursor
         /\ NextFirst <= EndPage(rel.entry)
         /\ \A o \in Others : FirstPage(o) > rel.cursor =>
              FirstPage(o) >= NextFirst
<1> DEFINE T == {f \in {FirstPage(o) : o \in Others} :
                    f > rel.cursor /\ f < EndPage(rel.entry)}
           S == {EndPage(rel.entry)} \cup T
<1>0. Running /\ rel.cursor < EndPage(rel.entry)
  BY DEF InLoop
<1>1. S \in SUBSET Nat /\ S # {}
  BY <1>0, LoopTypes
<1>2. Min(S) \in S /\ \A y \in S : Min(S) <= y
  <2> HIDE DEF S
  <2> QED BY Zenon, <1>1, MinOfNaturals
<1>3. NextFirst = Min(S)
  BY DEF NextFirst
<1>4. EndPage(rel.entry) \in S /\ EndPage(rel.entry) \in Nat
  BY <1>0, LoopTypes
<1>5. NextFirst \in Nat /\ NextFirst > rel.cursor /\ NextFirst <= EndPage(rel.entry)
  BY <1>0, <1>1, <1>2, <1>3, <1>4, LoopTypes
<1>6. ASSUME NEW o \in Others, FirstPage(o) > rel.cursor
      PROVE  FirstPage(o) >= NextFirst
  <2>0. FirstPage(o) \in Nat
    BY <1>0, LoopTypes
  <2>1. CASE FirstPage(o) < EndPage(rel.entry)
    <3>1. FirstPage(o) \in S
      BY <1>6, <2>1
    <3> QED BY <3>1, <2>0, <1>2, <1>3, <1>5
  <2>2. CASE ~ (FirstPage(o) < EndPage(rel.entry))
    BY <2>0, <2>2, <1>4, <1>5
  <2> QED BY <2>1, <2>2
<1> QED BY <1>5, <1>6

\* Skipping moves the cursor over pages of one other entry.
LEMMA SkipCoveredIInv ==
  ASSUME IInv, SkipCovered
  PROVE  IInv'
<1> DEFINE c == IF CoveredEnd < EndPage(rel.entry) THEN CoveredEnd
                                                   ELSE EndPage(rel.entry)
<1>1. /\ InLoop /\ CoveredEnd > rel.cursor
      /\ rel' = [rel EXCEPT !.cursor = c]
      /\ host_allocs' = host_allocs /\ locked' = locked /\ mapped' = mapped
      /\ pending' = pending /\ half' = half
  BY DEF SkipCovered
<1>2. Running /\ rel.cursor < EndPage(rel.entry)
  BY <1>1 DEF InLoop
<1>3. CoveredEnd \in Nat /\ EndPage(rel.entry) \in Nat /\ rel.cursor \in Nat
  BY <1>1, <1>2, CoveredEndIs, LoopTypes
<1>4. c \in Nat /\ c <= CoveredEnd /\ c > rel.cursor
  BY <1>1, <1>2, <1>3
<1>5. PICK o \in Others : FirstPage(o) <= rel.cursor /\ EndPage(o) = CoveredEnd
  BY <1>1, CoveredEndIs
<1>6. FirstPage(o) \in Nat
  BY <1>2, LoopTypes
<1> HIDE DEF c
<1>7. rel' = [entry |-> rel.entry, cursor |-> c]
  BY <1>1, <1>2, LoopTypes
<1>8. rel' # None /\ rel'.entry = rel.entry /\ rel'.cursor = c
  <2>1. rel' \in [entry : Entry, cursor : Nat]
    BY <1>2, <1>4, <1>7, LoopTypes
  <2> QED BY <2>1, <1>7, NoneAssumption
<1>9. TypeOK'
  BY <1>1, <1>2, <1>4, <1>7, LoopTypes DEF IInv, TypeOK
<1>10. LocksFollowEntries'
  BY <1>1, <1>2, <1>8 DEF IInv, LocksFollowEntries, Running
<1>11. StorageHeld' /\ OwnedAlone' /\ EndsInside'
  BY <1>1 DEF IInv, StorageHeld, OwnedAlone, EndsInside
<1>12. LoopInvariant'
  <2>1. Others' = Others
    BY <1>1, <1>8 DEF Others
  <2>2. FirstPage(rel.entry) \in Nat /\ rel.cursor >= FirstPage(rel.entry)
    BY <1>2, LoopTypes DEF IInv, LoopInvariant
  <2>3. ASSUME NEW p \in locked \cap PagesOf(rel.entry)
        PROVE  p >= c \/ \E q \in Others : p \in PagesOf(q)
    <3>1. p \in Int
      BY <2>2, <1>3 DEF PagesOf
    <3>2. CASE p < rel.cursor
      <4>1. p >= rel.cursor \/ \E q \in Others : p \in PagesOf(q)
        BY <1>2, <2>3 DEF IInv, LoopInvariant
      <4> QED BY <4>1, <3>1, <3>2, <1>3
    <3>3. CASE p >= rel.cursor /\ p < c
      <4>1. p \in PagesOf(o)
        BY <3>1, <3>3, <1>3, <1>4, <1>5, <1>6 DEF PagesOf
      <4> QED BY <4>1
    <3> QED BY <3>1, <3>2, <3>3, <1>3, <1>4
  <2>4. pending = {}
    BY <1>2 DEF IInv, LoopInvariant
  <2>5. c >= FirstPage(rel.entry)
    BY <2>2, <1>3, <1>4
  <2>6. locked' \cap PagesOf(rel'.entry) = locked \cap PagesOf(rel.entry)
    BY <1>1, <1>8
  <2> QED BY <2>1, <2>3, <2>4, <2>5, <2>6, <1>1, <1>8 DEF LoopInvariant
<1> QED BY <1>9, <1>10, <1>11, <1>12 DEF IInv

\* Unlocking a gap takes no page of another entry.
LEMMA UnlockGapIInv ==
  ASSUME IInv, UnlockGap
  PROVE  IInv'
<1>1. /\ InLoop /\ ~ (CoveredEnd > rel.cursor)
      /\ locked' = locked \ (rel.cursor .. NextFirst - 1)
      /\ rel' = [rel EXCEPT !.cursor = NextFirst]
      /\ host_allocs' = host_allocs /\ mapped' = mapped
      /\ pending' = pending /\ half' = half
  BY DEF UnlockGap
<1>2. Running
  BY <1>1 DEF InLoop
<1>3. /\ NextFirst \in Nat /\ NextFirst > rel.cursor /\ CoveredEnd \in Nat
      /\ EndPage(rel.entry) \in Nat /\ rel.cursor \in Nat
      /\ FirstPage(rel.entry) \in Nat
  BY <1>1, <1>2, CoveredEndIs, NextFirstIs, LoopTypes
<1>4. rel' = [entry |-> rel.entry, cursor |-> NextFirst]
  BY <1>1, <1>2, LoopTypes
<1>5. rel' # None /\ rel'.entry = rel.entry /\ rel'.cursor = NextFirst
  <2>1. rel' \in [entry : Entry, cursor : Nat]
    BY <1>2, <1>3, <1>4, LoopTypes
  <2> QED BY <2>1, <1>4, NoneAssumption
<1>6. \A o \in Others : PagesOf(o) \cap (rel.cursor .. NextFirst - 1) = {}
  <2> TAKE o \in Others
  <2>1. FirstPage(o) \in Nat /\ EndPage(o) \in Nat
    BY <1>2, LoopTypes
  <2>2. CASE FirstPage(o) <= rel.cursor
    <3>1. EndPage(o) <= rel.cursor
      BY <1>1, <1>3, <2>1, <2>2, CoveredEndIs
    <3> QED BY <3>1, <2>1, <1>3 DEF PagesOf
  <2>3. CASE FirstPage(o) > rel.cursor
    <3>1. FirstPage(o) >= NextFirst
      BY <1>1, <2>3, NextFirstIs
    <3> QED BY <3>1, <2>1, <1>3 DEF PagesOf
  <2> QED BY <2>1, <2>2, <2>3, <1>3
<1>7. TypeOK'
  BY <1>1, <1>2, <1>3, <1>4, LoopTypes DEF IInv, TypeOK
<1>8. LocksFollowEntries'
  <2>1. \A e \in host_allocs : e \in half \/ e = rel.entry \/ PagesOf(e) \subseteq locked'
    BY <1>1, <1>2, <1>6 DEF IInv, LocksFollowEntries, Others
  <2>2. locked' \subseteq UNION {PagesOf(e) : e \in host_allocs}
    BY <1>1 DEF IInv, LocksFollowEntries
  <2> QED BY <2>1, <2>2, <1>1, <1>5 DEF LocksFollowEntries, Running
<1>9. StorageHeld' /\ OwnedAlone' /\ EndsInside'
  BY <1>1 DEF IInv, StorageHeld, OwnedAlone, EndsInside
<1>10. LoopInvariant'
  <2>1. Others' = Others
    BY <1>1, <1>5 DEF Others
  <2>2. pending = {} /\ rel.cursor >= FirstPage(rel.entry)
    BY <1>2 DEF IInv, LoopInvariant
  <2>3. NextFirst >= FirstPage(rel.entry)
    BY <2>2, <1>3
  <2>4. ASSUME NEW p \in locked' \cap PagesOf(rel.entry)
        PROVE  p >= NextFirst \/ \E q \in Others : p \in PagesOf(q)
    <3>1. p \in Int /\ p \in locked /\ ~ (p \in rel.cursor .. NextFirst - 1)
      BY <1>1, <1>3, <2>4 DEF PagesOf
    <3>2. p >= rel.cursor \/ \E q \in Others : p \in PagesOf(q)
      BY <1>2, <2>4, <3>1 DEF IInv, LoopInvariant
    <3> QED BY <3>1, <3>2, <1>3
  <2> QED BY <2>1, <2>2, <2>3, <2>4, <1>1, <1>5 DEF LoopInvariant
<1> QED BY <1>7, <1>8, <1>9, <1>10 DEF IInv

\* At the end of the loop only other entries need what is still locked, and
\* an owned mapping takes only its own pages along.
LEMMA ReleaseEndIInv ==
  ASSUME IInv, ReleaseEnd
  PROVE  IInv'
<1>1. /\ Running /\ ~ InLoop
      /\ mapped' = IF rel.entry.owner = "library"
                   THEN mapped \ PagesOf(rel.entry) ELSE mapped
      /\ locked' = locked \cap mapped' /\ host_allocs' = Others
      /\ half' = half \ {rel.entry} /\ rel' = None /\ pending' = pending
  BY DEF ReleaseEnd
<1>2. /\ rel.cursor >= EndPage(rel.entry) /\ rel.entry \in host_allocs
      /\ FirstPage(rel.entry) \in Nat /\ EndPage(rel.entry) \in Nat
      /\ rel.cursor \in Nat
  BY <1>1, LoopTypes DEF InLoop
<1>3. pending = {}
  BY <1>1 DEF IInv, LoopInvariant
<1>4. \A o \in Others : o \in host_allocs /\ o # rel.entry
  BY DEF Others
<1>5. \A o \in Others : PagesOf(o) \subseteq mapped'
  BY <1>1, <1>2, <1>4 DEF IInv, StorageHeld, OwnedAlone
<1>6. TypeOK'
  BY <1>1, <1>4 DEF IInv, TypeOK, Others
<1>7. StorageHeld'
  BY <1>1, <1>3, <1>5 DEF StorageHeld
<1>8. LocksFollowEntries'
  <2>1. \A o \in Others : o \in half \/ PagesOf(o) \subseteq locked
    BY <1>1, <1>4 DEF IInv, LocksFollowEntries
  <2>2. \A o \in Others : o \in half' \/ PagesOf(o) \subseteq locked'
    BY <2>1, <1>1, <1>4, <1>5
  <2>3. ASSUME NEW p \in locked
        PROVE  \E o \in Others : p \in PagesOf(o)
    <3>1. PICK e \in host_allocs : p \in PagesOf(e)
      BY <2>3 DEF IInv, LocksFollowEntries
    <3>2. CASE e = rel.entry
      <4>1. p \in Int /\ ~ (p >= rel.cursor)
        BY <3>1, <3>2, <1>2 DEF PagesOf
      <4> QED BY <4>1, <3>1, <3>2, <1>1, <2>3 DEF IInv, LoopInvariant
    <3>3. CASE e # rel.entry
      BY <3>1, <3>3 DEF Others
    <3> QED BY <3>2, <3>3
  <2>4. locked' \subseteq UNION {PagesOf(e) : e \in Others}
    BY <2>3, <1>1
  <2> QED BY <2>2, <2>4, <1>1 DEF LocksFollowEntries
<1>9. OwnedAlone' /\ EndsInside'
  BY <1>1, <1>4 DEF IInv, OwnedAlone, EndsInside
<1>10. LoopInvariant'
  BY <1>1 DEF LoopInvariant, Running
<1> QED BY <1>6, <1>7, <1>8, <1>9, <1>10 DEF IInv

\* A failed release keeps its entry, marked as half released.
LEMMA ReleaseFailsIInv ==
  ASSUME IInv, ReleaseFails
  PROVE  IInv'
<1>1. /\ Running /\ half' = half \cup {rel.entry} /\ rel' = None
      /\ host_allocs' = host_allocs /\ locked' = locked /\ mapped' = mapped
      /\ pending' = pending
  BY DEF ReleaseFails, InLoop
<1>2. rel.entry \in host_allocs
  BY <1>1, LoopTypes
<1> QED BY <1>1, <1>2 DEF IInv, TypeOK, StorageHeld, LocksFollowEntries,
                          OwnedAlone, EndsInside, LoopInvariant, Running

\* Copies come and go while no release runs.
LEMMA CopyIInv ==
  ASSUME IInv, RetireCopies \/ \E p \in PageSet : SubmitCopy(p)
  PROVE  IInv'
<1>1. /\ rel = None /\ rel' = rel /\ half' = half
      /\ host_allocs' = host_allocs /\ locked' = locked /\ mapped' = mapped
      /\ pending' = {} \/ \E p \in mapped : pending' = pending \cup {p}
  BY DEF RetireCopies, SubmitCopy, Idle
<1> QED BY <1>1 DEF IInv, TypeOK, StorageHeld, LocksFollowEntries,
                    OwnedAlone, EndsInside, LoopInvariant, Running

\* The invariant is inductive.
LEMMA NextIInv == IInv /\ [Next]_vars => IInv'
<1> SUFFICES ASSUME IInv, [Next]_vars PROVE IInv'
  OBVIOUS
<1>1. CASE \E p \in PageSet, n \in 1 .. PageSize * Pages : HostAlloc(p, n)
  BY <1>1, HostAllocIInv
<1>2. CASE \E b \in Bytes, n \in 1 .. PageSize * Pages : HostRegister(b, n)
  BY <1>2, HostRegisterIInv
<1>3. CASE \E e \in host_allocs : ReleaseBegin(e)
  BY <1>3, ReleaseBeginIInv
<1>4. CASE Release \/ ReleaseFails
  BY <1>4, SkipCoveredIInv, UnlockGapIInv, ReleaseEndIInv, ReleaseFailsIInv
     DEF Release
<1>5. CASE RetireCopies \/ \E p \in PageSet : SubmitCopy(p)
  BY <1>5, CopyIInv
<1>6. CASE UNCHANGED vars
  BY <1>6 DEF vars, IInv, TypeOK, StorageHeld, LocksFollowEntries, OwnedAlone,
              EndsInside, LoopInvariant, Running, Others
<1> QED BY <1>1, <1>2, <1>3, <1>4, <1>5, <1>6 DEF Next

\* The invariant holds in every behaviour.
LEMMA Inductive == Spec => []IInv
BY InitIInv, NextIInv, PTL DEF Spec

\* The variables keep their types.
THEOREM TypeCorrect == Spec => []TypeOK
<1>1. IInv => TypeOK
  BY DEF IInv
<1> QED BY <1>1, Inductive, PTL

\* Locks follow registrations for any page size and any number of entries:
\* releasing one never unlocks a page another one needs, and leaves no page
\* locked that nobody needs (release_host_locked).
THEOREM LocksAreRight == Spec => []LocksFollowEntries
<1>1. IInv => LocksFollowEntries
  BY DEF IInv
<1> QED BY <1>1, Inductive, PTL

\* No page is unmapped under a registration or under an outstanding copy
\* (cudaHostRegister_locked's overlap test, release_host_locked).
THEOREM StorageIsHeld == Spec => []StorageHeld
<1>1. IInv => StorageHeld
  BY DEF IInv
<1> QED BY <1>1, Inductive, PTL
==============================================================================
