--------------------------- MODULE MCGraphCapture ---------------------------
(* Model-checking instance of GraphCapture.  The threads are exchangeable: *)
(* no definition names one, and every property checked is a safety one.    *)
EXTENDS GraphCapture, TLC

Symmetry == Permutations(Threads)
=============================================================================
