---------------------------- MODULE PointerSpec -----------------------------
(* What device memory promises to the application. A pointer that was handed *)
(* out denotes one piece of storage, the same one and nobody else's, until   *)
(* it is freed or its session ends; and an address that was handed out once, *)
(* one past the end included, never means anything else again.               *)
EXTENDS Integers

CONSTANTS Address, Size, Storage

VARIABLES
    issued,     \* the ranges of addresses handed out so far
    denotes     \* the storage of the pointers that are valid now

pvars == <<issued, denotes>>

Range == [base : Address, size : Size]

\* Neither range contains an address of the other, or the one past its end.
Apart(r, s) == r.base + r.size < s.base \/ s.base + s.size < r.base

Storages == {denotes[p] : p \in DOMAIN denotes}

PInit == issued = {} /\ denotes = [p \in {} |-> {}]

Allocate(r, s) ==
    /\ \A i \in issued : Apart(i, r)
    /\ s \notin Storages
    /\ issued' = issued \cup {r}
    /\ denotes' = [p \in DOMAIN denotes \cup {r} |->
                     IF p = r THEN s ELSE denotes[p]]

Free(r) ==
    /\ r \in DOMAIN denotes
    /\ denotes' = [p \in DOMAIN denotes \ {r} |-> denotes[p]]
    /\ UNCHANGED issued

EndSession ==
    /\ denotes' = [p \in {} |-> {}]
    /\ UNCHANGED issued

PNext ==
    \/ \E r \in Range, s \in Storage : Allocate(r, s)
    \/ \E r \in DOMAIN denotes : Free(r)
    \/ EndSession

PSpec == PInit /\ [][PNext]_pvars
=============================================================================
