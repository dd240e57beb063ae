------------------------------- MODULE MCNet -------------------------------
(* Small instances of AdhocctlNet. *)
EXTENDS AdhocctlNet

CONSTANTS u1, u2, u3, gA, ipA, ipB, m1, m2

(* Two PSPs behind one address; u3 is the first one after a restart. *)
RestartMacOf == [u \in Users |-> IF u = u2 THEN m2 ELSE m1]
OneIp == [u \in Users |-> ipA]

(* Two PSPs with an address each. *)
TwoIps == [u \in Users |-> IF u = u2 THEN ipB ELSE ipA]

OneGame == [u \in Users |-> gA]

(* What the games call. *)
Churn ==
    [u \in Users |-> {"Init", "Create", "Term", "PowerOff"} \cup IF u = u2 THEN {"Chat"} ELSE {}]
Leave == [u \in Users |-> {"Init", "Create", "Disconnect"}]
LeaveAndChat == [u \in Users |-> {"Init", "Create", "Disconnect", "Chat"}]

(* The scan of a game that disconnects in a thread of its own could        *)
(* overtake the DISCONNECT packet of that thread.                          *)
Patience ==
    [u \in Users |-> {"Init", "Create", "Disconnect"} \cup IF u \in QuirkUsers THEN {} ELSE {"Scan"}]
=============================================================================
