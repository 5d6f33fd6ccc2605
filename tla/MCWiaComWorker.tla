--------------------------- MODULE MCWiaComWorker ---------------------------
(* Instances of WiaComWorker for TLC. *)
EXTENDS WiaComWorker, TLC

Symmetric == Permutations(Requests)
=============================================================================
