------------------------------ MODULE MCDirect ------------------------------
(* Small instances of DirectSockets. *)
EXTENDS DirectSockets, TLC

CONSTANTS t1, t2, u1, u2, p1, p2, r1

KeptListener == {<<"TCP", p1>>}

ThreadSymmetry == Permutations({t1, t2})
=============================================================================
