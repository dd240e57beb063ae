------------------------------ MODULE MCEntry ------------------------------
(* Small instances of GameModeEntry: u1 hosts, and the others join.        *)
EXTENDS GameModeEntry

CONSTANTS u1, u2, u3, gA, ipA, ipB, m1, m2, m3

OwnMacOf == [u \in Users |-> CASE u = u1 -> m1 [] u = u2 -> m2 [] OTHER -> m3]

(* Those who join are behind one address. *)
GuestsBehindOne == [u \in Users |-> IF u = u1 THEN ipA ELSE ipB]

OneGame == [u \in Users |-> gA]

(* A guest may leave or lose power. *)
GuestLeaves == [u \in Users |-> IF u = u3 THEN {"Disconnect", "PowerOff"} ELSE {}]
=============================================================================
