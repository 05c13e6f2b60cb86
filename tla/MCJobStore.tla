----------------------------- MODULE MCJobStore -----------------------------
(* JobStore on small instances; the handlers are interchangeable threads. *)
EXTENDS JobStore, TLC

HandlerSymmetry == Permutations(Handler)
=============================================================================
