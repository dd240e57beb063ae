----------------------------- MODULE MCMatching -----------------------------
(* Small instances of MatchingNet. *)
EXTENDS MatchingNet

CONSTANTS n1, n2, n3

HostAnd(children) == [n \in {n1} \cup children |-> IF n = n1 THEN "PARENT" ELSE "CHILD"]
Equals == [n \in {n1, n2} |-> "P2P"]

(* A room of three that fills up, one too small for both children in which *)
(* data is sent, a room of two with every call, a player with two rooms to *)
(* choose from, and two equal players with the calls in three portions.    *)
RoomsAndPairs ==
    {[modes |-> HostAnd({n2, n3}), calls |-> {}, maxpeers |-> 3, trouble |-> 0],
     [modes |-> HostAnd({n2, n3}), calls |-> {"Send"}, maxpeers |-> 2, trouble |-> 0],
     [modes |-> HostAnd({n2}), maxpeers |-> 3, trouble |-> 1,
      calls |-> {"Cancel", "Stop", "Delete", "PowerOff", "Send", "Abort"}],
     [modes |-> [n \in Nodes |-> IF n = n3 THEN "CHILD" ELSE "PARENT"],
      calls |-> {}, maxpeers |-> 3, trouble |-> 0],
     [modes |-> Equals, calls |-> {"Cancel", "Stop", "Delete"}, maxpeers |-> 3, trouble |-> 1],
     [modes |-> Equals, calls |-> {"PowerOff"}, maxpeers |-> 3, trouble |-> 1],
     [modes |-> Equals, calls |-> {"Send", "Abort"}, maxpeers |-> 3, trouble |-> 0]}

(* Players who change their mind.                                          *)
Refusals == {[modes |-> HostAnd({n2}), calls |-> {"Cancel"}, maxpeers |-> 3, trouble |-> 1]}

(* A room of three in which data is sent.                                  *)
BusyRoom == {[modes |-> HostAnd({n2, n3}), calls |-> {"Send"}, maxpeers |-> 3, trouble |-> 0]}
=============================================================================
