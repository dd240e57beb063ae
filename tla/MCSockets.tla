----------------------------- MODULE MCSockets -----------------------------
(* Small instances of PostOfficeSockets. *)
EXTENDS PostOfficeSockets, TLC

CONSTANTS t1, t2, p1, p2, r1

ThreadSymmetry == Permutations({t1, t2})
=============================================================================
