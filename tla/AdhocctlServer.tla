--------------------------- MODULE AdhocctlServer ---------------------------
(***************************************************************************)
(* The adhocctl server (pspnet_adhocctl_server/main.c and user.c): one     *)
(* thread that accepts connections, then visits every user and handles at  *)
(* most one packet of it.  The database is three nested linked lists,      *)
(* users, games and groups, tied together by pointers and by reference     *)
(* counts that decide when a game or a group node is freed.                *)
(*                                                                         *)
(* A visit to one user is one action.  The order in which a pass over      *)
(* _db_user visits the users is left open.                                 *)
(***************************************************************************)
EXTENDS AdhocctlWire, SequencesExt, SubLists

CONSTANTS MaxUsers,          \* SERVER_USER_MAXIMUM
          NoGame, NoGroup    \* the null pointers of user->game and user->group

Groups == Games \X Names

ASSUME ServerAssumption ==
    /\ MaxUsers \in Nat
    /\ IsFiniteSet(Users)
    /\ NoGame \notin Games
    /\ NoGroup \notin Groups

VARIABLES
    running,      \* _status: 0 once a signal asked for shutdown
    loop,         \* where server_loop is: "init", "serve", "drain" (free_database), "done"
    dbUser,       \* the users linked into _db_user
    userCount,    \* _db_user_count
    game,         \* user->game
    group,        \* user->group
    dbGame,       \* the nodes linked into _db_game
    gamePlayers,  \* game->playercount
    groupCount,   \* game->groupcount
    groupList,    \* game->group, a list of group names, newest first
    groupPlayers, \* group->playercount
    player        \* group->player, a list of users, newest first

groupVars == <<group, groupCount, groupList, groupPlayers, player>>
userVars == <<dbUser, userCount, game, dbGame, gamePlayers>>
dbVars == <<groupVars, userVars>>
serverVars == <<running, loop, dbVars>>

ServerTypeOK ==
    /\ running \in {0, 1}
    /\ loop \in {"init", "serve", "drain", "done"}
    /\ dbUser \in SUBSET Users
    /\ userCount \in Nat
    /\ game \in [Users -> Games \cup {NoGame}]
    /\ group \in [Users -> Groups \cup {NoGroup}]
    /\ dbGame \in SUBSET Games
    /\ gamePlayers \in [Games -> Nat]
    /\ groupCount \in [Games -> Nat]
    /\ groupList \in [Games -> Seq(Names)]
    /\ groupPlayers \in [Groups -> Nat]
    /\ player \in [Groups -> Seq(Users)]

ServerInit ==
    /\ running = 0
    /\ loop = "init"
    /\ dbUser = {}
    /\ userCount = 0
    /\ game = [u \in Users |-> NoGame]
    /\ group = [u \in Users |-> NoGroup]
    /\ dbGame = {}
    /\ gamePlayers = [g \in Games |-> 0]
    /\ groupCount = [g \in Games |-> 0]
    /\ groupList = [g \in Games |-> <<>>]
    /\ groupPlayers = [k \in Groups |-> 0]
    /\ player = [k \in Groups |-> <<>>]

-----------------------------------------------------------------------------
(* What the server says to whom.                                           *)

(* send(): only a client that still holds its end can read the data. *)
SendTo(Packets(_)) ==
    s2c' = [v \in Users |-> IF cliEnd[v] = "open" THEN s2c[v] \o Packets(v)
                                                  ELSE s2c[v]]

ConnectPackets(users) == [i \in DOMAIN users |-> ConnectS2C(users[i])]

(* Mutant of Founder: the head of the list, who joined last. *)
FounderIsNewest(k) == Head(player[k])

(* The founder of a group is the last of its list: group_next == NULL. *)
Founder(k) == Last(player[k])

(* connect_user, to peer v and to the newcomer u: everyone learns of       *)
(* everyone, the newcomer hears the BSSID last.                            *)
JoinPackets(u, k, v) ==
    IF v = u
      THEN ConnectPackets(player[k]) \o
             <<BssidS2C(MacOf[IF player[k] = <<>> THEN u ELSE Founder(k)])>>
      ELSE IF Contains(player[k], v) THEN <<ConnectS2C(u)>> ELSE <<>>

(* The places in a list of the users behind an address. *)
Behind(users, ip) == {i \in DOMAIN users : IpOf[users[i]] = ip}

(* Mutant of LeavePackets: the players behind the leaver's address who     *)
(* stay are not introduced again.                                          *)
LeaveWithoutReconnect(u, v) ==
    IF Contains(RemoveFirst(player[group[u]], u), v)
      THEN [i \in 1..Cardinality(Behind(player[group[u]], IpOf[u])) |-> DisconnectS2C(IpOf[u])]
      ELSE <<>>

(* disconnect_user: the protocol names the leaver by its IP address alone, *)
(* so a remaining peer v gets as many DISCONNECT packets as the group held *)
(* players of that address, and then reconnect_players_with_ip introduces  *)
(* those of them that stay again.                                          *)
LeavePackets(u, v) ==
    LET old      == player[group[u]]
        rest     == RemoveFirst(old, u)
        restored == Picked(rest, {i \in Behind(rest, IpOf[u]) : rest[i] # v})
    IN  IF Contains(rest, v)
          THEN [i \in 1..Cardinality(Behind(old, IpOf[u])) |-> DisconnectS2C(IpOf[u])]
                 \o ConnectPackets(restored)
          ELSE <<>>

(* Mutant of ScanPackets: a game without groups gets no answer. *)
ScanSilentWhenEmpty(g) ==
    IF groupList[g] = <<>>
      THEN <<>>
      ELSE [i \in DOMAIN groupList[g] |->
               ScanS2C(groupList[g][i], MacOf[Founder(<<g, groupList[g][i]>>)])]
             \o <<ScanCompleteS2C>>

(* send_scan_results: every group of the game with its founder. *)
ScanPackets(g) ==
    [i \in DOMAIN groupList[g] |->
        ScanS2C(groupList[g][i], MacOf[Founder(<<g, groupList[g][i]>>)])]
      \o <<ScanCompleteS2C>>

-----------------------------------------------------------------------------
(* The database operations.                                                *)

(* Mutant of UnlinkFromGroup: groupcount is decremented with every player. *)
UnlinkUncountsAlways(u) ==
    LET k == group[u]
    IN  /\ player' = [player EXCEPT ![k] = RemoveFirst(@, u)]
        /\ groupPlayers' = [groupPlayers EXCEPT ![k] = @ - 1]
        /\ group' = [group EXCEPT ![u] = NoGroup]
        /\ groupList' = IF groupPlayers[k] = 1
                          THEN [groupList EXCEPT ![k[1]] = RemoveFirst(@, k[2])] ELSE groupList
        /\ groupCount' = [groupCount EXCEPT ![game[u]] = @ - 1]

(* Mutant of UnlinkFromGroup: the group is tested for being empty before   *)
(* playercount is decremented.                                             *)
UnlinkTestsTooEarly(u) ==
    LET k == group[u]
        empty == groupPlayers[k] = 0
    IN  /\ player' = [player EXCEPT ![k] = RemoveFirst(@, u)]
        /\ groupPlayers' = [groupPlayers EXCEPT ![k] = @ - 1]
        /\ group' = [group EXCEPT ![u] = NoGroup]
        /\ groupList' = IF empty THEN [groupList EXCEPT ![k[1]] = RemoveFirst(@, k[2])]
                                 ELSE groupList
        /\ groupCount' = IF empty THEN [groupCount EXCEPT ![game[u]] = @ - 1] ELSE groupCount

(* disconnect_user of a user in a group, without the messages. *)
UnlinkFromGroup(u) ==
    LET k == group[u]
        g == k[1]
        empty == groupPlayers[k] = 1
    IN  /\ player' = [player EXCEPT ![k] = RemoveFirst(@, u)]
        /\ groupPlayers' = [groupPlayers EXCEPT ![k] = @ - 1]
        /\ group' = [group EXCEPT ![u] = NoGroup]
        /\ groupList' = IF empty THEN [groupList EXCEPT ![g] = RemoveFirst(@, k[2])]
                                 ELSE groupList
        /\ groupCount' = IF empty THEN [groupCount EXCEPT ![game[u]] = @ - 1]
                                  ELSE groupCount

(* logout_user: leave the group, close the socket, free the user node, and *)
(* the game node with its last player.                                     *)
LogoutUser(u) ==
    /\ IF group[u] # NoGroup
         THEN UnlinkFromGroup(u) /\ SendTo(LAMBDA v : LeavePackets(u, v))
         ELSE UNCHANGED <<groupVars, s2c>>
    /\ dbUser' = dbUser \ {u}
    /\ userCount' = userCount - 1
    /\ srvEnd' = [srvEnd EXCEPT ![u] = "closed"]
    /\ c2s' = [c2s EXCEPT ![u] = <<>>]
    /\ game' = [game EXCEPT ![u] = NoGame]
    /\ IF game[u] # NoGame
         THEN /\ gamePlayers' = [gamePlayers EXCEPT ![game[u]] = @ - 1]
              /\ dbGame' = IF gamePlayers[game[u]] = 1 THEN dbGame \ {game[u]} ELSE dbGame
         ELSE UNCHANGED <<gamePlayers, dbGame>>

-----------------------------------------------------------------------------
(* server_loop.                                                            *)

(* main sets the signal handlers before server_loop sets _status to 1. *)
StartLoop ==
    /\ loop = "init"
    /\ running' = 1
    /\ loop' = "serve"
    /\ UNCHANGED <<dbVars, wireVars>>

(* interrupt: SIGINT or SIGTERM at any time. *)
Interrupt ==
    /\ loop \in {"init", "serve"}
    /\ running' = 0
    /\ UNCHANGED <<loop, dbVars, wireVars>>

(* Mutant of LoginUserStream: one user too many. *)
LoginOneTooMany(u) ==
    /\ loop = "serve"
    /\ srvEnd[u] = "backlog"
    /\ userCount <= MaxUsers
    /\ dbUser' = dbUser \cup {u}
    /\ userCount' = userCount + 1
    /\ srvEnd' = [srvEnd EXCEPT ![u] = "open"]
    /\ UNCHANGED <<running, loop, groupVars, game, dbGame, gamePlayers, c2s, s2c, cliEnd>>

(* login_user_stream: one connection of the backlog. *)
LoginUserStream(u) ==
    /\ loop = "serve"
    /\ srvEnd[u] = "backlog"
    /\ IF userCount < MaxUsers /\ u \notin dbUser
         THEN /\ dbUser' = dbUser \cup {u}
              /\ userCount' = userCount + 1
              /\ srvEnd' = [srvEnd EXCEPT ![u] = "open"]
              /\ UNCHANGED c2s
         ELSE /\ srvEnd' = [srvEnd EXCEPT ![u] = "closed"]
              /\ c2s' = [c2s EXCEPT ![u] = <<>>]
              /\ UNCHANGED <<dbUser, userCount>>
    /\ UNCHANGED <<running, loop, groupVars, game, dbGame, gamePlayers, s2c, cliEnd>>

(* Mutant of HangUp: a closed connection is noticed after the login only. *)
HangUpAfterLogin(u) ==
    /\ loop = "serve"
    /\ u \in dbUser
    /\ game[u] # NoGame
    /\ cliEnd[u] = "closed"
    /\ LogoutUser(u)
    /\ UNCHANGED <<running, loop, cliEnd>>

(* recv fails or returns 0: data already received but not yet handled is   *)
(* dropped with the user.                                                  *)
HangUp(u) ==
    /\ loop = "serve"
    /\ u \in dbUser
    /\ cliEnd[u] = "closed"
    /\ LogoutUser(u)
    /\ UNCHANGED <<running, loop, cliEnd>>

(* No data for SERVER_USER_TIMEOUT seconds.  The clock is read before a    *)
(* late packet can reset it, so a waiting packet does not save the user.   *)
TimeOut(u) ==
    /\ loop = "serve"
    /\ u \in dbUser
    /\ LogoutUser(u)
    /\ UNCHANGED <<running, loop, cliEnd>>

(* The packet at the head of u's queue is handled; the state of the user   *)
(* is USER_STATE_WAITING until it has a game.                              *)
Handle(u, op) ==
    /\ loop = "serve"
    /\ u \in dbUser
    /\ c2s[u] # <<>>
    /\ Head(c2s[u]).op = op
    /\ UNCHANGED <<running, loop, cliEnd>>

Consume(u) == c2s' = [c2s EXCEPT ![u] = Tail(@)]

LoggedIn(u) == game[u] # NoGame

(* Mutant of LoginUserData: playercount counts the user who brought the    *)
(* game and nobody after him.                                              *)
LoginCountsFirstOnly(u) ==
    /\ Handle(u, "LOGIN")
    /\ ~LoggedIn(u)
    /\ LET g == Head(c2s[u]).game
       IN  IF g \in Games
             THEN /\ Consume(u)
                  /\ dbGame' = dbGame \cup {g}
                  /\ gamePlayers' = [gamePlayers EXCEPT ![g] = IF g \in dbGame THEN @ ELSE 1]
                  /\ game' = [game EXCEPT ![u] = g]
                  /\ UNCHANGED <<groupVars, dbUser, userCount, s2c, srvEnd>>
             ELSE LogoutUser(u)

(* login_user_data. *)
LoginUserData(u) ==
    /\ Handle(u, "LOGIN")
    /\ ~LoggedIn(u)
    /\ LET g == Head(c2s[u]).game
       IN  IF g \in Games
             THEN /\ Consume(u)
                  /\ dbGame' = dbGame \cup {g}
                  /\ gamePlayers' = [gamePlayers EXCEPT ![g] = @ + 1]
                  /\ game' = [game EXCEPT ![u] = g]
                  /\ UNCHANGED <<groupVars, dbUser, userCount, s2c, srvEnd>>
             ELSE LogoutUser(u)

PingUser(u) ==
    /\ Handle(u, "PING")
    /\ LoggedIn(u)
    /\ Consume(u)
    /\ UNCHANGED <<dbVars, s2c, srvEnd>>

(* connect_user. *)
ConnectUser(u) ==
    /\ Handle(u, "CONNECT")
    /\ LoggedIn(u)
    /\ LET n == Head(c2s[u]).group
           g == game[u]
           k == <<g, n>>
           new == ~Contains(groupList[g], n)
       IN  IF n \in Names /\ group[u] = NoGroup
             THEN /\ Consume(u)
                  /\ groupList' = IF new THEN [groupList EXCEPT ![g] = Cons(n, @)] ELSE groupList
                  /\ groupCount' = IF new THEN [groupCount EXCEPT ![g] = @ + 1] ELSE groupCount
                  /\ player' = [player EXCEPT ![k] = Cons(u, @)]
                  /\ groupPlayers' = [groupPlayers EXCEPT ![k] = @ + 1]
                  /\ group' = [group EXCEPT ![u] = k]
                  /\ SendTo(LAMBDA v : JoinPackets(u, k, v))
                  /\ UNCHANGED <<userVars, srvEnd>>
             ELSE LogoutUser(u)

(* disconnect_user. *)
DisconnectUser(u) ==
    /\ Handle(u, "DISCONNECT")
    /\ LoggedIn(u)
    /\ IF group[u] # NoGroup
         THEN /\ Consume(u)
              /\ UnlinkFromGroup(u)
              /\ SendTo(LAMBDA v : LeavePackets(u, v))
              /\ UNCHANGED <<userVars, srvEnd>>
         ELSE LogoutUser(u)

(* send_scan_results. *)
SendScanResults(u) ==
    /\ Handle(u, "SCAN")
    /\ LoggedIn(u)
    /\ IF group[u] = NoGroup
         THEN /\ Consume(u)
              /\ SendTo(LAMBDA v : IF v = u THEN ScanPackets(game[u]) ELSE <<>>)
              /\ UNCHANGED <<dbVars, srvEnd>>
         ELSE LogoutUser(u)

(* spread_message: chat to everyone else in the group. *)
SpreadMessage(u) ==
    /\ Handle(u, "CHAT")
    /\ LoggedIn(u)
    /\ IF group[u] # NoGroup
         THEN /\ Consume(u)
              /\ SendTo(LAMBDA v : IF v # u /\ Contains(player[group[u]], v)
                                     THEN <<ChatS2C>> ELSE <<>>)
              /\ UNCHANGED <<dbVars, srvEnd>>
         ELSE LogoutUser(u)

(* Anything but LOGIN before the login, LOGIN or an unknown opcode after. *)
InvalidOpcode(u) ==
    \E op \in BareOps \cup {"LOGIN", "CONNECT"} :
        /\ Handle(u, op)
        /\ IF LoggedIn(u) THEN op \in {"LOGIN", "GARBAGE"} ELSE op # "LOGIN"
        /\ LogoutUser(u)

(* The loop test fails: free_database first sends the shutdown notice to   *)
(* every user in a group.                                                  *)
LeaveLoop ==
    /\ loop = "serve"
    /\ running = 0
    /\ loop' = "drain"
    /\ SendTo(LAMBDA v : IF v \in dbUser /\ group[v] # NoGroup
                           THEN <<ChatS2C>> ELSE <<>>)
    /\ UNCHANGED <<running, dbVars, c2s, cliEnd, srvEnd>>

(* Mutant of FreeUser: users who are still to log in are forgotten. *)
FreeLoggedIn(u) ==
    /\ loop = "drain"
    /\ u \in dbUser
    /\ game[u] # NoGame
    /\ LogoutUser(u)
    /\ UNCHANGED <<running, loop, cliEnd>>

(* free_database logs the users out one after the other. *)
FreeUser(u) ==
    /\ loop = "drain"
    /\ u \in dbUser
    /\ LogoutUser(u)
    /\ UNCHANGED <<running, loop, cliEnd>>

(* The process ends; whoever waits in the backlog is reset. *)
Shutdown ==
    /\ loop = "drain"
    /\ dbUser = {}
    /\ loop' = "done"
    /\ srvEnd' = [u \in Users |-> IF srvEnd[u] = "backlog" THEN "closed" ELSE srvEnd[u]]
    /\ UNCHANGED <<running, dbVars, c2s, s2c, cliEnd>>

ServeUser(u) ==
    \/ LoginUserData(u) \/ PingUser(u) \/ ConnectUser(u) \/ DisconnectUser(u)
    \/ SendScanResults(u) \/ SpreadMessage(u) \/ InvalidOpcode(u)

Visit(u) == LoginUserStream(u) \/ HangUp(u) \/ ServeUser(u) \/ FreeUser(u)
=============================================================================
