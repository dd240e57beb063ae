----------------------------- MODULE MCGameMode -----------------------------
(* Small instances of GameModeData. *)
EXTENDS GameModeData, TLC

CONSTANTS n1, n2, n3

PlayerSymmetry == Permutations({n1, n2, n3})

Pairs(some, troubles, length) ==
    {[players |-> pair, calls |-> some, trouble |-> troubles, backlog |-> length] :
        pair \in {{n1, n2}, {n1, n3}, {n2, n3}}}

Trio == [players |-> {n1, n2, n3}, calls |-> {}, trouble |-> 0, backlog |-> 1]

(* Two players who update and lose a datagram, two who delete and create   *)
(* again, two of whom one is switched off, three who begin.                *)
Games == Pairs({"Update"}, 1, 2) \cup Pairs({"Delete", "Late"}, 0, 2)
         \cup Pairs({"Update", "PowerOff"}, 1, 2) \cup {Trio}

(* Two players who delete and create again, of whom one may be switched off. *)
Restarts ==
    {[players |-> {n1, n2}, calls |-> {"Delete", "Late", "PowerOff"}, trouble |-> 1,
      backlog |-> 1]}

Trios == {Trio}

(* Players who have no master when they create their first replica.        *)
ReplicasFirst ==
    {[players |-> {n1, n2}, calls |-> {"Late", "ReplicaFirst"}, trouble |-> 0, backlog |-> 1]}
=============================================================================
