------------------------- MODULE MCHiddenTransfers -------------------------
(* Model-checking instances of HiddenTransfers.                            *)
EXTENDS HiddenTransfers, TLC

Symmetry == Permutations(Streams) \cup Permutations(Events)

\* The part of Next that moves causal order between streams, for an instance
\* with more streams: one kind of copy, no failures, handles stay alive.
OrderNext ==
    \/ EnsureRuntime \/ Creation \/ CallStep \/ Device
    \/ \E s \in Slots, a \in Allocs : MemcpyAsync(s, TRUE, a)
    \/ \E s \in Slots : LaunchKernel(s)
    \/ \E s \in Slots, e \in Events : EventRecord(e, s) \/ StreamWaitEvent(s, e)
    \/ \E s \in Slots : StreamSynchronize(s) \/ HostCallback(s)
    \/ \E e \in Events : EventSynchronize(e)

OrderSpec == Init /\ [][OrderNext]_vars
============================================================================
