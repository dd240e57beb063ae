------------------------------ MODULE MCWorkers ------------------------------
(* Small instances of Workers. *)
EXTENDS Workers

CONSTANTS t1, t2, t3

(* Two games' threads and one that waits for what they send; a game that   *)
(* terminates while the input thread t3 of the matching library calls.     *)
Enough ==
    {[t \in Threads |-> CASE t = t1 -> {"receive"} [] t = t2 -> {"send", "short"}
                          [] t = t3 -> {"short"}],
     [t \in Threads |-> IF t = t1 THEN {"short", "term"} ELSE {"short"}]}

(* Two receives, and the one who could end them. *)
TwoReceives == {[t \in Threads |-> IF t = t3 THEN {"send"} ELSE {"receive"}]}
=============================================================================
