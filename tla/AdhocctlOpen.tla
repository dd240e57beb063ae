---------------------------- MODULE AdhocctlOpen ----------------------------
(***************************************************************************)
(* The adhocctl server among clients about which nothing is assumed: they  *)
(* connect, send any packet in any state, read or do not read, close, lose *)
(* power and come back.  What holds here holds whatever the games do.      *)
(***************************************************************************)
EXTENDS AdhocctlServer

CONSTANT Sendable  \* the packets the clients send: all of C2S, or fewer in a small run

ASSUME OpenAssumption ==
    /\ Sendable \subseteq C2S
    /\ NoGame \notin Users    \* LobbyView uses it for a room without a host

openVars == <<serverVars, wireVars>>

OpenInit == ServerInit /\ WireInit

ClientConnects(u) ==
    /\ loop # "done"
    /\ WireConnect(u, <<>>)
    /\ UNCHANGED serverVars

ClientSends(u) ==
    /\ cliEnd[u] = "open"
    /\ Len(c2s[u]) < MaxC2S
    /\ \A v \in Users : Len(s2c[v]) <= MaxBacklog
    /\ \E packet \in Sendable : WireSend(u, packet)
    /\ UNCHANGED <<serverVars, s2c, cliEnd, srvEnd>>

ClientReceives(u) ==
    /\ cliEnd[u] = "open"
    /\ s2c[u] # <<>>
    /\ s2c' = [s2c EXCEPT ![u] = Tail(@)]
    /\ UNCHANGED <<serverVars, c2s, cliEnd, srvEnd>>

ClientCloses(u) ==
    /\ \E how \in {"closed", "gone"} : WireClose(u, how)
    /\ UNCHANGED serverVars

OpenServerStep ==
    \/ StartLoop \/ Interrupt \/ LeaveLoop \/ Shutdown
    \/ \E u \in Users : Visit(u) \/ TimeOut(u)

OpenClientStep ==
    \E u \in Users : ClientConnects(u) \/ ClientSends(u) \/ ClientReceives(u) \/ ClientCloses(u)

OpenNext == OpenServerStep \/ OpenClientStep

OpenSpec == OpenInit /\ [][OpenNext]_openVars

(* The loop visits every user again and again until it is told to stop,    *)
(* reaches its loop test after every pass, and the clock of a silent user  *)
(* runs out.  Nothing is assumed of the clients or of signals.             *)
OpenFairSpec ==
    /\ OpenSpec
    /\ WF_openVars(StartLoop) /\ WF_openVars(LeaveLoop) /\ WF_openVars(Shutdown)
    /\ \A u \in Users :
          WF_openVars(Visit(u)) /\ WF_openVars(cliEnd[u] = "gone" /\ TimeOut(u))

-----------------------------------------------------------------------------
OpenTypeOK == ServerTypeOK /\ WireTypeOK

(* The lists of the database say the same as the pointers: the player list *)
(* of a group holds every user whose group pointer leads to it, once; a    *)
(* group is linked into its game exactly while it has players; nobody is   *)
(* in a group of a game other than his own.  Code: connect_user,           *)
(* disconnect_user and logout_user.                                        *)
GroupListsExact ==
    /\ \A k \in Groups :
          /\ IsInjective(player[k])
          /\ ToSet(player[k]) = {u \in Users : group[u] = k}
    /\ \A g \in Games :
          /\ IsInjective(groupList[g])
          /\ ToSet(groupList[g]) = {n \in Names : player[<<g, n>>] # <<>>}
    /\ \A u \in Users : group[u] # NoGroup => game[u] = group[u][1]

(* The counters by which nodes are freed count what they stand for.  Code: *)
(* every ++ and -- on userCount, playercount and groupcount in user.c.     *)
RefCountsExact ==
    /\ userCount = Cardinality(dbUser)
    /\ \A g \in Games : gamePlayers[g] = Cardinality({u \in Users : game[u] = g})
    /\ \A g \in Games : groupCount[g] = Len(groupList[g])
    /\ \A k \in Groups : groupPlayers[k] = Len(player[k])

(* No pointer leads to a freed node and no node is left behind: a user's   *)
(* game is linked, a game without players is not, and a game is not freed  *)
(* while it has a group.  Code: logout_user.                               *)
NoDangling ==
    /\ \A u \in Users : game[u] # NoGame => u \in dbUser /\ game[u] \in dbGame
    /\ \A g \in Games : g \in dbGame => \E u \in Users : game[u] = g
    /\ \A g \in Games : g \notin dbGame => groupList[g] = <<>>

(* Every socket the server holds open belongs to a user of the database,   *)
(* every user has its socket, and there are at most SERVER_USER_MAXIMUM of *)
(* them: neither refused nor logged-out users leak a descriptor.  Code:    *)
(* login_user_stream and logout_user.                                      *)
SocketsOwned ==
    /\ {u \in Users : srvEnd[u] = "open"} = dbUser
    /\ Cardinality(dbUser) <= MaxUsers

(* The server implements the lobby: the host of a room is its founder.     *)
LobbyView ==
    INSTANCE Lobby WITH
        Players <- Users, Rooms <- Groups, NoRoom <- NoGroup, NoHost <- NoGame,
        room <- group,
        host <- [k \in Groups |-> IF player[k] = <<>> THEN NoGame ELSE Founder(k)]

ImplementsLobby == LobbyView!Spec

(* A user whose client closed the connection or lost power does not stay   *)
(* in the lists of the others for ever.  Code: server_loop lines 233-240.  *)
DepartedUsersRemoved ==
    \A u \in Users : (cliEnd[u] \in {"closed", "gone"} /\ loop = "serve")
                        ~> (u \notin dbUser \/ cliEnd[u] = "open")

(* Once asked to, the server empties its database and ends, even while     *)
(* users keep it busy.  Code: server_loop and free_database.               *)
ShutdownCompletes ==
    (loop = "serve" /\ running = 0) ~> (loop = "done" /\ dbUser = {} /\ dbGame = {})
=============================================================================
