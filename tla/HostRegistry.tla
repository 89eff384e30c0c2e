---------------------------- MODULE HostRegistry ----------------------------
(* The registry of page-locked host memory: cudaHostAlloc, cudaHostRegister, *)
(* cudaFreeHost and cudaHostUnregister. Registrations are ranges of bytes,   *)
(* mlock and munlock work on whole pages and do not count, so two disjoint   *)
(* registrations may depend on the same lock. The loop that unlocks what no  *)
(* other registration needs runs under the runtime mutex: while `rel' names  *)
(* an entry, no other call takes a step. Any munlock or munmap may fail.     *)
EXTENDS Integers, FiniteSets, FiniteSetsExt

CONSTANTS
    PageSize,       \* bytes of a page
    Pages,          \* pages of the address space, 0 .. Pages - 1
    AppPages,       \* pages the application has mapped itself
    MaxEntries,     \* G6A_MAX_ALLOCS
    None

ASSUME SizeAssumption ==
    /\ PageSize \in Nat \ {0}
    /\ Pages \in Nat
    /\ AppPages \subseteq 0 .. Pages - 1

VARIABLES
    host_allocs,    \* the used entries of the table
    locked,         \* pages locked by the kernel
    mapped,         \* pages of the address space that are mapped
    pending,        \* pages some hidden transfer will still write to
    rel,            \* None, or the release in progress: its entry and cursor
    half            \* entries some release of which has failed half-way

vars == <<host_allocs, locked, mapped, pending, rel, half>>

PageSet == 0 .. Pages - 1
Bytes == 0 .. PageSize * Pages - 1

\* Pages from the one of byte `base' on that `size' bytes from there touch.
PagesFor(base, size) == ((base % PageSize) + size + PageSize - 1) \div PageSize

\* HostAllocation. The code keeps locked_size in bytes, a multiple of the
\* page for a registration and the requested size for an owned mapping; both
\* are rounded up wherever they are used, so `npages' keeps the result.
Entry == [base : Nat, size : Nat \ {0}, npages : Nat,
          owner : {"library", "application"}]

ASSUME NoneAssumption == None \notin [entry : Entry, cursor : Nat]

FirstPage(e) == e.base \div PageSize
EndPage(e) == FirstPage(e) + e.npages
PagesOf(e) == FirstPage(e) .. EndPage(e) - 1

\* Fault: the overlap test takes the requested size of owned mappings too.
RequestedSpan(e) == e.size

\* The bytes an entry occupies in the overlap test: an owned mapping covers
\* its last page whole.
Span(e) == IF e.owner = "library" THEN e.npages * PageSize ELSE e.size

Overlaps(e, ptr, size) == ptr < e.base + Span(e) /\ e.base < ptr + size

\* find_host_allocation: the entry that contains a byte.
Contains(e, ptr) == ptr \in e.base .. e.base + e.size - 1

TypeOK ==
    /\ host_allocs \subseteq Entry
    /\ locked \subseteq PageSet /\ mapped \subseteq PageSet
    /\ pending \subseteq PageSet
    /\ half \subseteq host_allocs
    /\ rel # None => rel \in [entry : host_allocs, cursor : Nat]

Init ==
    /\ host_allocs = {} /\ locked = {} /\ mapped = AppPages
    /\ pending = {} /\ rel = None /\ half = {}

Idle == rel = None
HasSlot == Cardinality(host_allocs) < MaxEntries

\* cudaHostAlloc_locked. mmap picks the address, page-aligned and unmapped.
\* A call refused by mmap or mlock leaves nothing behind.
HostAlloc(first, size) ==
    /\ Idle /\ HasSlot
    /\ LET e == [base |-> first * PageSize, size |-> size,
                 npages |-> PagesFor(0, size), owner |-> "library"]
       IN  /\ PagesOf(e) \subseteq PageSet \ mapped
           /\ host_allocs' = host_allocs \cup {e}
           /\ mapped' = mapped \cup PagesOf(e)
           /\ locked' = locked \cup PagesOf(e)
    /\ UNCHANGED <<pending, rel, half>>

\* cudaHostRegister_locked. mlock refuses pages that are not mapped.
HostRegister(ptr, size) ==
    /\ Idle /\ HasSlot
    /\ ~ \E e \in host_allocs : Overlaps(e, ptr, size)
    /\ LET e == [base |-> ptr, size |-> size, npages |-> PagesFor(ptr, size),
                 owner |-> "application"]
       IN  /\ PagesOf(e) \subseteq mapped
           /\ host_allocs' = host_allocs \cup {e}
           /\ locked' = locked \cup PagesOf(e)
    /\ UNCHANGED <<mapped, pending, rel, half>>

\* cudaFreeHost and cudaHostUnregister up to the loop: the exact entry, and
\* a device synchronisation if any hidden transfer is outstanding (one that
\* fails ends the call with nothing changed).
ReleaseBegin(e) ==
    /\ Idle
    /\ rel' = [entry |-> e, cursor |-> FirstPage(e)]
    /\ pending' = {}
    /\ UNCHANGED <<host_allocs, locked, mapped, half>>

Others == host_allocs \ {rel.entry}
Running == rel # None
InLoop == Running /\ rel.cursor < EndPage(rel.entry)

\* Fault: a gap is unlocked to the end of the entry.
WholeRest == EndPage(rel.entry)

\* Fault: an entry that begins at the cursor ends the gap before it begins.
StuckAtFirst == Min({EndPage(rel.entry)} \cup
                    {f \in {FirstPage(o) : o \in host_allocs} :
                       f >= rel.cursor /\ f < EndPage(rel.entry)})

\* The ends of the other entries that begin at or before the cursor, and the
\* beginnings after it.
CoveredEnd == Max({rel.cursor} \cup
                  {EndPage(e) : e \in {o \in Others : FirstPage(o) <= rel.cursor}})
NextFirst == Min({EndPage(rel.entry)} \cup
                 {f \in {FirstPage(o) : o \in Others} :
                    f > rel.cursor /\ f < EndPage(rel.entry)})

\* One turn of the loop over pages another entry still needs.
SkipCovered ==
    /\ InLoop /\ CoveredEnd > rel.cursor
    /\ rel' = [rel EXCEPT !.cursor =
                 IF CoveredEnd < EndPage(rel.entry) THEN CoveredEnd
                                                    ELSE EndPage(rel.entry)]
    /\ UNCHANGED <<host_allocs, locked, mapped, pending, half>>

\* One turn of the loop over a gap.
UnlockGap ==
    /\ InLoop /\ ~ CoveredEnd > rel.cursor
    /\ locked' = locked \ (rel.cursor .. NextFirst - 1)
    /\ rel' = [rel EXCEPT !.cursor = NextFirst]
    /\ UNCHANGED <<host_allocs, mapped, pending, half>>

\* munlock or the final munmap fails: the call returns and keeps the entry.
ReleaseFails ==
    /\ \/ InLoop /\ ~ CoveredEnd > rel.cursor
       \/ Running /\ ~ InLoop /\ rel.entry.owner = "library"
    /\ half' = half \cup {rel.entry}
    /\ rel' = None
    /\ UNCHANGED <<host_allocs, locked, mapped, pending>>

\* The end of release_host_locked.
ReleaseEnd ==
    /\ Running /\ ~ InLoop
    /\ mapped' = IF rel.entry.owner = "library"
                 THEN mapped \ PagesOf(rel.entry) ELSE mapped
    /\ locked' = locked \cap mapped'
    /\ host_allocs' = Others
    /\ half' = half \ {rel.entry}
    /\ rel' = None
    /\ UNCHANGED pending

\* Hidden transfers (module HiddenTransfers): a copy to host memory is
\* accepted and later retired, or dropped with its session.
SubmitCopy(p) ==
    /\ Idle /\ p \in mapped \ pending
    /\ pending' = pending \cup {p}
    /\ UNCHANGED <<host_allocs, locked, mapped, rel, half>>

RetireCopies ==
    /\ Idle /\ pending # {}
    /\ pending' = {}
    /\ UNCHANGED <<host_allocs, locked, mapped, rel, half>>

Release == SkipCovered \/ UnlockGap \/ ReleaseEnd

Next ==
    \/ \E p \in PageSet, size \in 1 .. PageSize * Pages : HostAlloc(p, size)
    \/ \E ptr \in Bytes, size \in 1 .. PageSize * Pages : HostRegister(ptr, size)
    \/ \E e \in host_allocs : ReleaseBegin(e)
    \/ Release \/ ReleaseFails
    \/ \E p \in PageSet : SubmitCopy(p)
    \/ RetireCopies

Spec == Init /\ [][Next]_vars

\* A release goes on while it holds the mutex. That calls fail is not assumed.
FairSpec == Spec /\ WF_vars(Release)
-----------------------------------------------------------------------------
\* Locks follow registrations, however they share pages and however often a
\* release has failed before. Releasing one registration never takes the lock
\* from another: the pages of an entry are locked, unless it is the one being
\* released or its release failed half-way. And the loop leaves nothing locked
\* that nobody registered, so that locked memory does not pile up against the
\* process limit (release_host_locked, "unlock only pages with no remaining
\* owner").
LocksFollowEntries ==
    /\ \A e \in host_allocs :
          \/ e \in half
          \/ Running /\ e = rel.entry
          \/ PagesOf(e) \subseteq locked
    /\ locked \subseteq UNION {PagesOf(e) : e \in host_allocs}

\* Freeing an owned mapping takes no page from under another registration or
\* from under a copy still to be written ("free must not unmap a second
\* registration"; "Pending D2H destinations must be scattered before").
StorageHeld ==
    /\ \A e \in host_allocs : PagesOf(e) \subseteq mapped
    /\ pending \subseteq mapped

\* The loop moves its cursor in every turn and comes to an end
\* (release_host_locked).
ReleaseReturns == Running ~> ~Running
=============================================================================
