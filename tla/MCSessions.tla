---------------------------- MODULE MCSessions ----------------------------
(* Sessions with the identities of sessions and goroutines made symmetric. *)
EXTENDS Sessions, TLC

Symmetry == Permutations(SessionIDs) \cup Permutations(Procs)
===========================================================================
