---------------------------- MODULE LegacySyncOps ----------------------------
(***************************************************************************)
(* HiddenTransfers for programs that also use the synchronous memory calls *)
(* (cudaMemcpy, cudaMemset, cudaMemcpy2D, cudaMemset2D...) and             *)
(* cudaMemset2DAsync, which the client sends as the synchronous fill.  On  *)
(* the server they are legacy default-stream operations of the device; on  *)
(* the client none of them orders a frontier.                              *)
(***************************************************************************)
EXTENDS HiddenTransfers

\* A synchronous copy or fill: the device joins the blocking streams at it,
\* the client's frontiers do not.
SyncDefaultOp ==
    /\ Entry
    /\ Enqueue(DefaultSlot, FALSE)
    /\ ret' = NoRet
    /\ UNCHANGED <<clientVars, call, serverVars, done>>

\* cudaMemset2DAsync on slot s: the fill runs on the default stream; on the
\* client only the stream's own component is counted up.
Memset2DAsync(s) ==
    /\ Entry
    /\ LiveSlot(s)
    /\ Enqueue(DefaultSlot, FALSE)
    /\ seq' = [seq EXCEPT ![s] = @ + 1]
    /\ frontier' = [frontier EXCEPT ![s][s] = seq[s] + 1]
    /\ ret' = NoRet
    /\ UNCHANGED <<gen, nextGen, streamState, nonblocking, eventState, recorded,
                   evFrontier, allocState, hidden, submitOrder, written, call,
                   serverVars, done>>

SyncNext == Next \/ SyncDefaultOp \/ \E s \in Slots : Memset2DAsync(s)

SyncSpec == Init /\ [][SyncNext]_vars

==============================================================================
