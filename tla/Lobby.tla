-------------------------------- MODULE Lobby --------------------------------
(***************************************************************************)
(* What the adhocctl server promises, without lists, counters or packets:  *)
(* a player is in at most one room, and a room that has players has a host *)
(* among them, who stays the host until he leaves.  (The founder of a      *)
(* group, whose MAC the server hands out as the BSSID of the network.)     *)
(***************************************************************************)
CONSTANTS Players, Rooms, NoRoom, NoHost

VARIABLES room,   \* room[p]: the room p is in, or NoRoom
          host    \* host[r]: the host of room r, or NoHost

vars == <<room, host>>

Init ==
    /\ room = [p \in Players |-> NoRoom]
    /\ host = [r \in Rooms |-> NoHost]

Join(p, r) ==
    /\ room[p] = NoRoom
    /\ room' = [room EXCEPT ![p] = r]
    /\ host' = [host EXCEPT ![r] = IF @ = NoHost THEN p ELSE @]

Leave(p) ==
    LET r == room[p]
        others == {q \in Players \ {p} : room[q] = r}
    IN  /\ r # NoRoom
        /\ room' = [room EXCEPT ![p] = NoRoom]
        /\ \E h \in others \cup {NoHost} :
              /\ host[r] # p => h = host[r]
              /\ h = NoHost => others = {}
              /\ host' = [host EXCEPT ![r] = h]

Next == \E p \in Players : Leave(p) \/ \E r \in Rooms : Join(p, r)

Spec == Init /\ [][Next]_vars
=============================================================================
