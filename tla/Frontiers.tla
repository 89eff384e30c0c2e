------------------------------ MODULE Frontiers ------------------------------
(***************************************************************************)
(* Causal frontiers of the client runtime (src/src/corex_remote_cuda.c).   *)
(* A frontier is a vector with one sequence number per stream slot; slot   *)
(* DefaultSlot (G6E_DEFAULT_STREAM_SLOT) is the legacy default stream.     *)
(***************************************************************************)
EXTENDS Integers, FiniteSetsExt

CONSTANTS Streams,      \* handle slots of explicit streams, never reused
          DefaultSlot   \* slot of the legacy default stream

ASSUME SlotAssumption == DefaultSlot \notin Streams

Slots == Streams \cup {DefaultSlot}

Frontier == [Slots -> Nat]

\* calloc(G6E_FRONTIER_SLOTS, sizeof(uint64_t))
ZeroFrontier == [i \in Slots |-> 0]

\* frontier_merge: the pointwise maximum.
FrontierMerge(dst, src) ==
    [i \in Slots |-> IF src[i] > dst[i] THEN src[i] ELSE dst[i]]

\* frontier_merge folded over the frontiers f[s], s \in S (S is not empty).
MergeOver(S, f) == [i \in Slots |-> Max({f[s][i] : s \in S})]

\* Fault: the bound is taken as exclusive.
CoversBelow(f, t) == t.seq < f[t.slot]

\* transfer_covered_by_frontier, for a live transfer.
Covers(f, t) == t.seq <= f[t.slot]

==============================================================================
