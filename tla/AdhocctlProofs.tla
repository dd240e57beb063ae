--------------------------- MODULE AdhocctlProofs ---------------------------
(***************************************************************************)
(* First the adhocctl server among arbitrary clients, for every number of  *)
(* users, games and group names.  Its invariant has two halves.  GroupInv  *)
(* is about the lists of groups and players, UserInv about users, games    *)
(* and sockets; the only link between them is that a group belongs to its  *)
(* players' game.  Each half is shown to survive the few database          *)
(* operations, and the actions of the server are then combinations of      *)
(* these operations.  It ends in ServerImplementsLobby.                    *)
(*                                                                         *)
(* Then PSPs and server together: a considerate game is never logged out   *)
(* by the server while it is there, library and server agree on its group  *)
(* once all is settled, in game mode the members of a group agree on who   *)
(* they are, and a peer list names the others of the player's group.       *)
(*                                                                         *)
(* This is about one connection at a time.  The others only send packets   *)
(* that answer nothing the game has asked for, so the invariant says for   *)
(* every connection what its queues, its library and the server's pointers *)
(* have to do with each other.  Game mode adds what a player knows of his  *)
(* group and whom the queue to him still introduces; the peer lists, what  *)
(* such a queue makes of a list once it has been read.                     *)
(***************************************************************************)
EXTENDS AdhocctlOpen, GameModeEntry, ListTheorems, FiniteSetTheorems

LoopInv ==
    /\ running \in {0, 1}
    /\ loop \in {"init", "serve", "drain", "done"}

GroupTypes ==
    /\ group \in [Users -> Groups \cup {NoGroup}]
    /\ groupCount \in [Games -> Nat]
    /\ groupList \in [Games -> Seq(Names)]
    /\ groupPlayers \in [Groups -> Nat]
    /\ player \in [Groups -> Seq(Users)]

GroupCounts ==
    /\ \A g \in Games : groupCount[g] = Len(groupList[g])
    /\ \A k \in Groups : groupPlayers[k] = Len(player[k])

GroupInv == GroupTypes /\ GroupListsExact /\ GroupCounts

UserTypes ==
    /\ dbUser \in SUBSET Users
    /\ userCount \in Nat
    /\ game \in [Users -> Games \cup {NoGame}]
    /\ dbGame \in SUBSET Games
    /\ gamePlayers \in [Games -> Nat]
    /\ srvEnd \in [Users -> {"none", "backlog", "open", "closed"}]

UserCounts ==
    /\ userCount = Cardinality(dbUser)
    /\ \A g \in Games : gamePlayers[g] = Cardinality({u \in Users : game[u] = g})

GamesLinked ==
    /\ \A u \in Users : game[u] # NoGame => u \in dbUser /\ game[u] \in dbGame
    /\ \A g \in Games : g \in dbGame => \E u \in Users : game[u] = g

UserInv == UserTypes /\ UserCounts /\ GamesLinked /\ SocketsOwned

IInv == LoopInv /\ GroupInv /\ UserInv

-----------------------------------------------------------------------------
(* A user in a group is in its player list, and the group is in the list   *)
(* of the user's game.                                                     *)
LEMMA OwnGroup ==
    ASSUME GroupInv, NEW u \in Users, group[u] # NoGroup
    PROVE  /\ group[u] \in Groups
           /\ group[u][1] \in Games /\ group[u][2] \in Names
           /\ group[u] = <<group[u][1], group[u][2]>>
           /\ game[u] = group[u][1]
           /\ u \in ToSet(player[group[u]])
           /\ player[group[u]] # <<>>
           /\ group[u][2] \in ToSet(groupList[group[u][1]])
<1> USE DEF GroupInv
<1>1. group[u] \in Groups
  BY DEF GroupTypes
<1>2. /\ group[u][1] \in Games /\ group[u][2] \in Names
      /\ group[u] = <<group[u][1], group[u][2]>>
  BY <1>1 DEF Groups
<1>3. game[u] = group[u][1] /\ u \in ToSet(player[group[u]])
  BY <1>1 DEF GroupListsExact
<1>4. player[group[u]] # <<>>
  <2>1. player[group[u]] \in Seq(Users)
    BY <1>1 DEF GroupTypes
  <2>2. QED
    BY <1>3, <2>1, EmptyIffNoElement
<1>5. group[u][2] \in ToSet(groupList[group[u][1]])
  BY <1>2, <1>4 DEF GroupListsExact
<1>6. QED
  BY <1>1, <1>2, <1>3, <1>4, <1>5

(* disconnect_user keeps lists, pointers and counters of the groups in     *)
(* step; the game pointer of the leaving user may change at the same time. *)
LEMMA UnlinkKeepsGroupInv ==
    ASSUME GroupInv, NEW u \in Users, group[u] # NoGroup, UnlinkFromGroup(u),
           \A v \in Users \ {u} : game'[v] = game[v]
    PROVE  GroupInv'
<1> DEFINE k == group[u]
           g == k[1]
           n == k[2]
           rest == RemoveFirst(player[k], u)
           others == RemoveFirst(groupList[g], n)
           empty == groupPlayers[k] = 1
<1>1. /\ k \in Groups /\ g \in Games /\ n \in Names /\ k = <<g, n>> /\ game[u] = g
      /\ u \in ToSet(player[k]) /\ n \in ToSet(groupList[g])
  BY OwnGroup
<1>2. /\ player[k] \in Seq(Users) /\ groupList[g] \in Seq(Names)
      /\ IsInjective(player[k]) /\ IsInjective(groupList[g])
      /\ groupCount[g] = Len(groupList[g]) /\ groupPlayers[k] = Len(player[k])
  BY <1>1 DEF GroupInv, GroupTypes, GroupListsExact, GroupCounts
<1>3. /\ rest \in Seq(Users) /\ Len(rest) = Len(player[k]) - 1
      /\ IsInjective(rest) /\ ToSet(rest) = ToSet(player[k]) \ {u}
  BY <1>1, <1>2, RemoveFirstFacts
<1>4. /\ others \in Seq(Names) /\ Len(others) = Len(groupList[g]) - 1
      /\ IsInjective(others) /\ ToSet(others) = ToSet(groupList[g]) \ {n}
  BY <1>1, <1>2, RemoveFirstFacts
<1>5. /\ player' = [player EXCEPT ![k] = rest]
      /\ groupPlayers' = [groupPlayers EXCEPT ![k] = @ - 1]
      /\ group' = [group EXCEPT ![u] = NoGroup]
      /\ groupList' = IF empty THEN [groupList EXCEPT ![g] = others] ELSE groupList
      /\ groupCount' = IF empty THEN [groupCount EXCEPT ![g] = @ - 1] ELSE groupCount
  BY <1>1 DEF UnlinkFromGroup
<1>6. empty <=> rest = <<>>
  <2>1. rest = <<>> <=> Len(rest) = 0
    BY <1>3, EmptyIffNoElement
  <2>2. QED
    BY <1>2, <1>3, <2>1
<1> HIDE DEF k, g, n, rest, others, empty
<1>7. GroupTypes'
  <2>1. player' \in [Groups -> Seq(Users)] /\ group' \in [Users -> Groups \cup {NoGroup}]
    BY <1>1, <1>3, <1>5 DEF GroupInv, GroupTypes
  <2>2. Len(rest) \in Nat /\ Len(others) \in Nat
    BY <1>3, <1>4
  <2>3. groupPlayers' \in [Groups -> Nat]
    BY <1>1, <1>2, <1>3, <1>5, <2>2 DEF GroupInv, GroupTypes
  <2>4. groupCount' \in [Games -> Nat] /\ groupList' \in [Games -> Seq(Names)]
    BY <1>1, <1>2, <1>4, <1>5, <2>2 DEF GroupInv, GroupTypes
  <2>5. QED
    BY <2>1, <2>3, <2>4 DEF GroupTypes
<1>8. \A j \in Groups : player'[j] = IF j = k THEN rest ELSE player[j]
  BY <1>1, <1>5 DEF GroupInv, GroupTypes
<1>9. \A h \in Games : groupList'[h] = IF empty /\ h = g THEN others ELSE groupList[h]
  BY <1>1, <1>5 DEF GroupInv, GroupTypes
<1>10. \A v \in Users : group'[v] = IF v = u THEN NoGroup ELSE group[v]
  BY <1>5 DEF GroupInv, GroupTypes
<1>11. GroupCounts'
  <2>1. ASSUME NEW j \in Groups PROVE groupPlayers'[j] = Len(player'[j])
    BY <1>1, <1>2, <1>3, <1>5, <1>8 DEF GroupInv, GroupTypes, GroupCounts
  <2>2. ASSUME NEW h \in Games PROVE groupCount'[h] = Len(groupList'[h])
    BY <1>1, <1>2, <1>4, <1>5, <1>9 DEF GroupInv, GroupTypes, GroupCounts
  <2>3. QED
    BY <2>1, <2>2 DEF GroupCounts
<1>12. GroupListsExact'
  <2>1. ASSUME NEW j \in Groups
        PROVE  /\ IsInjective(player'[j])
               /\ ToSet(player'[j]) = {v \in Users : group'[v] = j}
    <3>1. ToSet(player[j]) = {v \in Users : group[v] = j} /\ IsInjective(player[j])
      BY DEF GroupInv, GroupListsExact
    <3>2. j # NoGroup
      BY ServerAssumption
    <3>3. group[u] = k
      BY DEF k
    <3>4. QED
      BY <1>3, <1>8, <1>10, <3>1, <3>2, <3>3
  <2>2. ASSUME NEW h \in Games
        PROVE  /\ IsInjective(groupList'[h])
               /\ ToSet(groupList'[h]) = {m \in Names : player'[<<h, m>>] # <<>>}
    <3>1. /\ ToSet(groupList[h]) = {m \in Names : player[<<h, m>>] # <<>>}
          /\ IsInjective(groupList[h])
      BY DEF GroupInv, GroupListsExact
    <3>2. \A m \in Names : <<h, m>> \in Groups /\ (<<h, m>> = k <=> h = g /\ m = n)
      BY <1>1 DEF Groups
    <3>3. \A m \in Names : player'[<<h, m>>] = IF h = g /\ m = n THEN rest ELSE player[<<h, m>>]
      BY <1>8, <3>2
    <3>4. QED
      BY <1>1, <1>4, <1>6, <1>9, <3>1, <3>3
  <2>3. ASSUME NEW v \in Users, group'[v] # NoGroup PROVE game'[v] = group'[v][1]
    <3>1. v # u /\ group'[v] = group[v]
      BY <1>10, <2>3
    <3>2. QED
      BY <2>3, <3>1 DEF GroupInv, GroupListsExact
  <2>4. QED
    BY <2>1, <2>2, <2>3 DEF GroupListsExact
<1>13. QED
  BY <1>7, <1>11, <1>12 DEF GroupInv

(* connect_user, without the messages: u joins the group called n. *)
JoinGroup(u, n) ==
    LET g == game[u]
        k == <<g, n>>
        new == ~Contains(groupList[g], n)
    IN  /\ groupList' = IF new THEN [groupList EXCEPT ![g] = Cons(n, @)] ELSE groupList
        /\ groupCount' = IF new THEN [groupCount EXCEPT ![g] = @ + 1] ELSE groupCount
        /\ player' = [player EXCEPT ![k] = Cons(u, @)]
        /\ groupPlayers' = [groupPlayers EXCEPT ![k] = @ + 1]
        /\ group' = [group EXCEPT ![u] = k]

LEMMA JoinKeepsGroupInv ==
    ASSUME GroupInv, NEW u \in Users, group[u] = NoGroup,
           NEW n \in Names, game[u] \in Games, JoinGroup(u, n), game' = game
    PROVE  GroupInv'
<1> DEFINE g == game[u]
           k == <<g, n>>
           new == ~Contains(groupList[g], n)
           players == Cons(u, player[k])
           names == Cons(n, groupList[g])
<1>1. k \in Groups
  BY DEF Groups
<1>2. /\ player[k] \in Seq(Users) /\ groupList[g] \in Seq(Names)
      /\ IsInjective(player[k]) /\ IsInjective(groupList[g])
      /\ groupCount[g] = Len(groupList[g]) /\ groupPlayers[k] = Len(player[k])
      /\ ToSet(player[k]) = {v \in Users : group[v] = k}
  BY <1>1 DEF GroupInv, GroupTypes, GroupListsExact, GroupCounts
<1>3. u \notin ToSet(player[k])
  BY <1>1, <1>2, ServerAssumption
<1>4. /\ players \in Seq(Users) /\ Len(players) = Len(player[k]) + 1
      /\ IsInjective(players) /\ ToSet(players) = ToSet(player[k]) \cup {u}
      /\ players # <<>>
  <2> HIDE DEF k
  <2> DEFINE old == player[k]
  <2>1. old \in Seq(Users) /\ IsInjective(old) /\ u \notin ToSet(old)
    BY <1>2, <1>3
  <2> HIDE DEF old
  <2>2. /\ Cons(u, old) \in Seq(Users) /\ Len(Cons(u, old)) = Len(old) + 1
        /\ IsInjective(Cons(u, old)) /\ ToSet(Cons(u, old)) = ToSet(old) \cup {u}
        /\ Cons(u, old) # <<>>
    BY <2>1, ConsFacts
  <2>3. QED
    BY <2>2 DEF old
<1>5. new <=> n \notin ToSet(groupList[g])
  BY <1>2, EmptyIffNoElement
<1>6. new => /\ names \in Seq(Names) /\ Len(names) = Len(groupList[g]) + 1
             /\ IsInjective(names) /\ ToSet(names) = ToSet(groupList[g]) \cup {n}
  BY <1>2, <1>5, ConsFacts
<1>7. /\ player' = [player EXCEPT ![k] = players]
      /\ groupPlayers' = [groupPlayers EXCEPT ![k] = @ + 1]
      /\ group' = [group EXCEPT ![u] = k]
      /\ groupList' = IF new THEN [groupList EXCEPT ![g] = names] ELSE groupList
      /\ groupCount' = IF new THEN [groupCount EXCEPT ![g] = @ + 1] ELSE groupCount
  BY DEF JoinGroup
<1>8. g \in Games /\ group[u] = NoGroup /\ k = <<g, n>> /\ game[u] = g
  OBVIOUS
<1> HIDE DEF g, k, new, players, names
<1>9. GroupTypes'
  <2>1. player' \in [Groups -> Seq(Users)] /\ group' \in [Users -> Groups \cup {NoGroup}]
    BY <1>1, <1>4, <1>7 DEF GroupInv, GroupTypes
  <2>2. groupPlayers' \in [Groups -> Nat] /\ groupCount' \in [Games -> Nat]
    BY <1>1, <1>7, <1>8 DEF GroupInv, GroupTypes
  <2>3. groupList' \in [Games -> Seq(Names)]
    BY <1>6, <1>7, <1>8 DEF GroupInv, GroupTypes
  <2>4. QED
    BY <2>1, <2>2, <2>3 DEF GroupTypes
<1>10. \A j \in Groups : player'[j] = IF j = k THEN players ELSE player[j]
  BY <1>1, <1>7 DEF GroupInv, GroupTypes
<1>11. \A h \in Games : groupList'[h] = IF new /\ h = g THEN names ELSE groupList[h]
  BY <1>7, <1>8 DEF GroupInv, GroupTypes
<1>12. \A v \in Users : group'[v] = IF v = u THEN k ELSE group[v]
  BY <1>7 DEF GroupInv, GroupTypes
<1>13. GroupCounts'
  <2>1. ASSUME NEW j \in Groups PROVE groupPlayers'[j] = Len(player'[j])
    BY <1>1, <1>2, <1>4, <1>7, <1>10 DEF GroupInv, GroupTypes, GroupCounts
  <2>2. ASSUME NEW h \in Games PROVE groupCount'[h] = Len(groupList'[h])
    BY <1>2, <1>6, <1>7, <1>8, <1>11 DEF GroupInv, GroupTypes, GroupCounts
  <2>3. QED
    BY <2>1, <2>2 DEF GroupCounts
<1>14. GroupListsExact'
  <2>1. ASSUME NEW j \in Groups
        PROVE  /\ IsInjective(player'[j])
               /\ ToSet(player'[j]) = {v \in Users : group'[v] = j}
    <3>1. ToSet(player[j]) = {v \in Users : group[v] = j} /\ IsInjective(player[j])
      BY DEF GroupInv, GroupListsExact
    <3>2. j # NoGroup
      BY ServerAssumption
    <3>3. QED
      BY <1>4, <1>8, <1>10, <1>12, <3>1, <3>2
  <2>2. ASSUME NEW h \in Games
        PROVE  /\ IsInjective(groupList'[h])
               /\ ToSet(groupList'[h]) = {m \in Names : player'[<<h, m>>] # <<>>}
    <3>1. /\ ToSet(groupList[h]) = {m \in Names : player[<<h, m>>] # <<>>}
          /\ IsInjective(groupList[h])
      BY DEF GroupInv, GroupListsExact
    <3>2. \A m \in Names : <<h, m>> \in Groups /\ (<<h, m>> = k <=> h = g /\ m = n)
      BY <1>8 DEF Groups
    <3>3. \A m \in Names : player'[<<h, m>>] = IF h = g /\ m = n THEN players ELSE player[<<h, m>>]
      BY <1>10, <3>2
    <3>4. QED
      BY <1>4, <1>5, <1>6, <1>11, <3>1, <3>3
  <2>3. ASSUME NEW v \in Users, group'[v] # NoGroup PROVE game'[v] = group'[v][1]
    <3>1. CASE v = u
      BY <1>8, <1>12, <3>1
    <3>2. CASE v # u
      BY <1>12, <2>3, <3>2 DEF GroupInv, GroupListsExact
    <3>3. QED
      BY <3>1, <3>2
  <2>4. QED
    BY <2>1, <2>2, <2>3 DEF GroupListsExact
<1>15. QED
  BY <1>9, <1>13, <1>14 DEF GroupInv

(* What does not touch the groups and the game pointers keeps GroupInv. *)
LEMMA GroupInvStable ==
    ASSUME GroupInv, UNCHANGED groupVars,
           \A v \in Users : group[v] # NoGroup => game'[v] = game[v]
    PROVE  GroupInv'
<1>1. GroupTypes' /\ GroupCounts'
  BY DEF GroupInv, GroupTypes, GroupCounts, groupVars
<1>2. GroupListsExact'
  BY DEF GroupInv, GroupListsExact, groupVars
<1>3. QED
  BY <1>1, <1>2 DEF GroupInv

-----------------------------------------------------------------------------
(* login_user_stream: the new user has no game yet, and there is room. *)
LEMMA StreamKeepsUserInv ==
    ASSUME UserInv, NEW u \in Users, LoginUserStream(u)
    PROVE  UserInv'
<1> USE DEF UserInv
<1>1. UNCHANGED <<game, dbGame, gamePlayers>>
  BY DEF LoginUserStream
<1>2. IsFiniteSet(dbUser)
  BY ServerAssumption, FS_Subset DEF UserTypes
<1>3. srvEnd[u] = "backlog" /\ u \notin dbUser
  BY DEF LoginUserStream, SocketsOwned
<1>4. CASE userCount < MaxUsers
  <2>1. /\ dbUser' = dbUser \cup {u} /\ userCount' = userCount + 1
        /\ srvEnd' = [srvEnd EXCEPT ![u] = "open"]
    BY <1>3, <1>4 DEF LoginUserStream
  <2>2. Cardinality(dbUser') = userCount'
    BY <1>2, <1>3, <2>1, FS_AddElement DEF UserCounts
  <2>3. UserTypes'
    BY <1>1, <2>1 DEF UserTypes
  <2>4. UserCounts'
    BY <1>1, <2>2 DEF UserCounts
  <2>5. GamesLinked'
    BY <1>1, <2>1 DEF GamesLinked
  <2>6. SocketsOwned'
    <3>1. {v \in Users : srvEnd'[v] = "open"} = dbUser'
      BY <2>1 DEF UserTypes, SocketsOwned
    <3>2. Cardinality(dbUser') <= MaxUsers
      BY <1>4, <2>1, <2>2, ServerAssumption DEF UserTypes
    <3>3. QED
      BY <3>1, <3>2 DEF SocketsOwned
  <2>7. QED
    BY <2>3, <2>4, <2>5, <2>6
<1>5. CASE ~(userCount < MaxUsers)
  <2>1. /\ dbUser' = dbUser /\ userCount' = userCount
        /\ srvEnd' = [srvEnd EXCEPT ![u] = "closed"]
    BY <1>5 DEF LoginUserStream
  <2>2. UserTypes' /\ UserCounts' /\ GamesLinked'
    BY <1>1, <2>1 DEF UserTypes, UserCounts, GamesLinked
  <2>3. SocketsOwned'
    BY <1>3, <2>1 DEF UserTypes, SocketsOwned
  <2>4. QED
    BY <2>2, <2>3
<1>6. QED
  BY <1>4, <1>5

(* login_user_data: the user gets his game, which is linked if it was not. *)
LEMMA LoginKeepsUserInv ==
    ASSUME UserInv, NEW u \in dbUser, game[u] = NoGame, NEW g \in Games,
           dbGame' = dbGame \cup {g},
           gamePlayers' = [gamePlayers EXCEPT ![g] = @ + 1],
           game' = [game EXCEPT ![u] = g],
           UNCHANGED <<dbUser, userCount, srvEnd>>
    PROVE  UserInv'
<1> USE DEF UserInv
<1> DEFINE Playing(h) == {v \in Users : game[v] = h}
<1>1. u \in Users
  BY DEF UserTypes
<1>2. UserTypes' /\ SocketsOwned'
  BY <1>1 DEF UserTypes, SocketsOwned
<1>3. ASSUME NEW h \in Games
      PROVE  gamePlayers'[h] = Cardinality({v \in Users : game'[v] = h})
  <2>1. IsFiniteSet(Playing(h))
    BY ServerAssumption, FS_Subset
  <2>2. gamePlayers[h] = Cardinality(Playing(h)) /\ u \notin Playing(h)
    BY ServerAssumption DEF UserCounts
  <2>3. CASE h = g
    <3>1. {v \in Users : game'[v] = h} = Playing(h) \cup {u}
      BY <1>1, <2>3 DEF UserTypes
    <3>2. gamePlayers'[h] = gamePlayers[h] + 1
      BY <2>3 DEF UserTypes
    <3>3. Cardinality(Playing(h) \cup {u}) = Cardinality(Playing(h)) + 1
      BY <2>1, <2>2, FS_AddElement
    <3>4. QED
      BY <2>2, <3>1, <3>2, <3>3
  <2>4. CASE h # g
    <3>1. {v \in Users : game'[v] = h} = Playing(h)
      BY <1>1, <2>2, <2>4 DEF UserTypes
    <3>2. gamePlayers'[h] = gamePlayers[h]
      BY <2>4 DEF UserTypes
    <3>3. QED
      BY <2>2, <3>1, <3>2
  <2>5. QED
    BY <2>3, <2>4
<1>4. UserCounts'
  BY <1>3 DEF UserCounts
<1>5. GamesLinked'
  <2>1. ASSUME NEW v \in Users, game'[v] # NoGame PROVE v \in dbUser' /\ game'[v] \in dbGame'
    BY <1>1, <2>1 DEF UserTypes, GamesLinked
  <2>2. ASSUME NEW h \in Games, h \in dbGame' PROVE \E v \in Users : game'[v] = h
    <3>1. CASE h = g
      BY <1>1, <3>1 DEF UserTypes
    <3>2. CASE h # g
      <4>1. PICK v \in Users : game[v] = h
        BY <2>2, <3>2 DEF GamesLinked
      <4>2. game'[v] = h
        BY <4>1, ServerAssumption DEF UserTypes
      <4>3. QED
        BY <4>2
    <3>3. QED
      BY <3>1, <3>2
  <2>3. QED
    BY <2>1, <2>2 DEF GamesLinked
<1>6. QED
  BY <1>2, <1>4, <1>5

(* logout_user: the user, his socket and, with its last player, his game   *)
(* are freed.                                                              *)
LEMMA LogoutKeepsUserInv ==
    ASSUME UserInv, NEW u \in dbUser, LogoutUser(u)
    PROVE  UserInv'
<1> USE DEF UserInv
<1> DEFINE Playing(h) == {v \in Users : game[v] = h}
<1>1. /\ dbUser' = dbUser \ {u}
      /\ userCount' = userCount - 1
      /\ srvEnd' = [srvEnd EXCEPT ![u] = "closed"]
      /\ game' = [game EXCEPT ![u] = NoGame]
      /\ IF game[u] # NoGame
           THEN /\ gamePlayers' = [gamePlayers EXCEPT ![game[u]] = @ - 1]
                /\ dbGame' = IF gamePlayers[game[u]] = 1 THEN dbGame \ {game[u]} ELSE dbGame
           ELSE UNCHANGED <<gamePlayers, dbGame>>
  BY DEF LogoutUser
<1>2. u \in Users
  BY DEF UserTypes
<1>3. IsFiniteSet(dbUser) /\ \A h : IsFiniteSet(Playing(h))
  BY ServerAssumption, FS_Subset DEF UserTypes
<1>4. Cardinality(dbUser') = Cardinality(dbUser) - 1 /\ IsFiniteSet(dbUser')
  BY <1>1, <1>3, FS_RemoveElement
<1>5. userCount' = Cardinality(dbUser') /\ userCount' \in Nat
  BY <1>1, <1>4, FS_CardinalityType DEF UserCounts
<1>6. \A v \in Users : game'[v] = IF v = u THEN NoGame ELSE game[v]
  BY <1>1 DEF UserTypes
<1>7. ASSUME NEW h \in Games
      PROVE  /\ gamePlayers'[h] = Cardinality({v \in Users : game'[v] = h})
             /\ gamePlayers'[h] \in Nat
             /\ h \in dbGame' <=> {v \in Users : game'[v] = h} # {}
  <2>1. gamePlayers[h] = Cardinality(Playing(h)) /\ (h \in dbGame <=> Playing(h) # {})
    <3>1. gamePlayers[h] = Cardinality(Playing(h))
      BY DEF UserCounts
    <3>2. h \in dbGame => Playing(h) # {}
      BY DEF GamesLinked
    <3>3. Playing(h) # {} => h \in dbGame
      BY ServerAssumption DEF GamesLinked
    <3>4. QED
      BY <3>1, <3>2, <3>3
  <2>2. {v \in Users : game'[v] = h} = Playing(h) \ {u}
    BY <1>6, ServerAssumption
  <2>3. CASE game[u] = h
    <3>1. h # NoGame
      BY ServerAssumption
    <3>2. gamePlayers'[h] = gamePlayers[h] - 1
      BY <1>1, <2>3, <3>1 DEF UserTypes
    <3>3. /\ Cardinality(Playing(h) \ {u}) = Cardinality(Playing(h)) - 1
          /\ IsFiniteSet(Playing(h) \ {u})
      <4>1. u \in Playing(h) /\ IsFiniteSet(Playing(h))
        BY <1>2, <1>3, <2>3
      <4> HIDE DEF Playing
      <4>2. QED
        BY <4>1, FS_RemoveElement
    <3>4. Cardinality(Playing(h) \ {u}) \in Nat
      BY <3>3, FS_CardinalityType
    <3>5. Playing(h) \ {u} = {} <=> gamePlayers[h] = 1
      BY <2>1, <3>3, <3>4, FS_EmptySet, UserInv DEF UserTypes
    <3>6. h \in dbGame
      BY <1>2, <2>1, <2>3
    <3>7. h \in dbGame' <=> gamePlayers[h] # 1
      BY <1>1, <2>3, <3>1, <3>6
    <3>8. QED
      BY <2>1, <2>2, <3>2, <3>3, <3>4, <3>5, <3>7
  <2>4. CASE game[u] # h
    <3>1. Playing(h) \ {u} = Playing(h)
      BY <2>4
    <3>2. gamePlayers'[h] = gamePlayers[h] /\ (h \in dbGame' <=> h \in dbGame)
      BY <1>1, <1>2, <2>4 DEF UserTypes
    <3>3. gamePlayers[h] \in Nat
      BY DEF UserTypes
    <3>4. QED
      BY <2>1, <2>2, <3>1, <3>2, <3>3
  <2>5. QED
    BY <2>3, <2>4
<1>8. UserTypes'
  <2>1. gamePlayers' \in [Games -> Nat]
    <3>1. gamePlayers' \in [Games -> Int]
      BY <1>1, <1>2 DEF UserTypes
    <3>2. QED
      BY <1>7, <3>1
  <2>2. QED
    BY <1>1, <1>2, <1>5, <2>1 DEF UserTypes
<1>9. UserCounts'
  BY <1>5, <1>7 DEF UserCounts
<1>10. GamesLinked'
  <2>1. ASSUME NEW v \in Users, game'[v] # NoGame PROVE v \in dbUser' /\ game'[v] \in dbGame'
    <3>1. v # u /\ game'[v] = game[v] /\ game[v] \in Games
      BY <1>6, <2>1 DEF UserTypes
    <3>2. v \in dbUser'
      BY <1>1, <2>1, <3>1 DEF GamesLinked
    <3>3. QED
      BY <1>7, <3>1, <3>2
  <2>2. ASSUME NEW h \in Games, h \in dbGame' PROVE \E v \in Users : game'[v] = h
    BY <1>7, <2>2
  <2>3. QED
    BY <2>1, <2>2 DEF GamesLinked
<1>11. SocketsOwned'
  <2>1. {v \in Users : srvEnd'[v] = "open"} = dbUser'
    BY <1>1 DEF UserTypes, SocketsOwned
  <2>2. Cardinality(dbUser') <= MaxUsers
    BY <1>4, <1>3, FS_CardinalityType, ServerAssumption DEF SocketsOwned
  <2>3. QED
    BY <2>1, <2>2 DEF SocketsOwned
<1>12. QED
  BY <1>8, <1>9, <1>10, <1>11

(* logout_user as a whole. *)
LEMMA LogoutKeepsInv ==
    ASSUME GroupInv, UserInv, NEW u \in dbUser, LogoutUser(u)
    PROVE  GroupInv' /\ UserInv'
<1>1. UserInv'
  BY LogoutKeepsUserInv
<1>2. u \in Users /\ \A v \in Users \ {u} : game'[v] = game[v]
  BY DEF UserInv, UserTypes, LogoutUser
<1>3. CASE group[u] # NoGroup
  <2>1. UnlinkFromGroup(u)
    BY <1>3 DEF LogoutUser
  <2>2. QED
    BY <1>1, <1>2, <1>3, <2>1, UnlinkKeepsGroupInv
<1>4. CASE group[u] = NoGroup
  <2>1. UNCHANGED groupVars
    BY <1>4 DEF LogoutUser
  <2>2. QED
    BY <1>1, <1>2, <1>4, <2>1, GroupInvStable
<1>5. QED
  BY <1>3, <1>4

(* What does not touch users and games keeps UserInv, if sockets are only  *)
(* closed or opened outside the database.                                  *)
LEMMA UserInvStable ==
    ASSUME UserInv, UNCHANGED userVars,
           srvEnd' \in [Users -> {"none", "backlog", "open", "closed"}],
           \A v \in Users : srvEnd'[v] = "open" <=> srvEnd[v] = "open"
    PROVE  UserInv'
<1>1. UserTypes' /\ UserCounts' /\ GamesLinked'
  BY DEF UserInv, UserTypes, UserCounts, GamesLinked, userVars
<1>2. SocketsOwned'
  BY DEF UserInv, SocketsOwned, userVars
<1>3. QED
  BY <1>1, <1>2 DEF UserInv

-----------------------------------------------------------------------------
LEMMA InitEstablishesInv == OpenInit => IInv
<1> SUFFICES ASSUME OpenInit PROVE IInv
  OBVIOUS
<1> USE DEF OpenInit, ServerInit, WireInit
<1>1. LoopInv
  BY DEF LoopInv
<1>2. GroupInv
  <2>1. GroupTypes
    BY DEF GroupTypes
  <2>2. GroupCounts
    BY DEF GroupCounts
  <2>3. GroupListsExact
    <3>1. ASSUME NEW k \in Groups
          PROVE  IsInjective(player[k]) /\ ToSet(player[k]) = {u \in Users : group[u] = k}
      BY ServerAssumption DEF IsInjective, ToSet
    <3>2. ASSUME NEW g \in Games
          PROVE  /\ IsInjective(groupList[g])
                 /\ ToSet(groupList[g]) = {n \in Names : player[<<g, n>>] # <<>>}
      BY DEF IsInjective, ToSet, Groups
    <3>3. QED
      BY <3>1, <3>2 DEF GroupListsExact
  <2>4. QED
    BY <2>1, <2>2, <2>3 DEF GroupInv
<1>3. UserInv
  <2>1. UserTypes /\ GamesLinked
    BY DEF UserTypes, GamesLinked
  <2>2. UserCounts
    <3>1. \A g \in Games : {u \in Users : game[u] = g} = {}
      BY ServerAssumption
    <3>2. QED
      BY <3>1, FS_EmptySet DEF UserCounts
  <2>3. SocketsOwned
    BY FS_EmptySet, ServerAssumption DEF SocketsOwned
  <2>4. QED
    BY <2>1, <2>2, <2>3 DEF UserInv
<1>4. QED
  BY <1>1, <1>2, <1>3 DEF IInv

(* A visit to a user whose packet ends in a logout, or changes only the    *)
(* queues.                                                                 *)
LEMMA LogoutStep ==
    ASSUME IInv, NEW u \in dbUser, LogoutUser(u), UNCHANGED <<running, loop>>
    PROVE  IInv'
  BY LogoutKeepsInv DEF IInv, LoopInv

LEMMA QueueStep ==
    ASSUME IInv, UNCHANGED <<running, loop, dbVars, srvEnd>>
    PROVE  IInv'
<1>1. GroupInv'
  BY GroupInvStable DEF IInv, dbVars, userVars
<1>2. UserInv'
  BY UserInvStable DEF IInv, dbVars, UserInv, UserTypes
<1>3. QED
  BY <1>1, <1>2 DEF IInv, LoopInv

(* Every visit of the loop to a user keeps the invariant. *)
LEMMA VisitKeepsInv ==
    ASSUME IInv, NEW u \in Users, Visit(u) \/ TimeOut(u)
    PROVE  IInv'
<1> USE DEF Handle
<1>1. CASE LoginUserStream(u)
  <2>1. UserInv'
    BY <1>1, StreamKeepsUserInv DEF IInv
  <2>2. UNCHANGED <<running, loop, groupVars, game>>
    BY <1>1 DEF LoginUserStream
  <2>3. GroupInv'
    BY <2>2, GroupInvStable DEF IInv
  <2>4. QED
    BY <2>1, <2>2, <2>3 DEF IInv, LoopInv
<1>2. CASE HangUp(u)
  BY <1>2, LogoutStep DEF HangUp
<1>3. CASE TimeOut(u)
  BY <1>3, LogoutStep DEF TimeOut
<1>4. CASE FreeUser(u)
  BY <1>4, LogoutStep DEF FreeUser
<1>5. CASE LoginUserData(u)
  <2> DEFINE g == Head(c2s[u]).game
  <2>1. u \in dbUser /\ game[u] = NoGame /\ UNCHANGED <<running, loop>>
    BY <1>5 DEF LoginUserData, LoggedIn
  <2>2. CASE g \in Games
    <3>1. /\ dbGame' = dbGame \cup {g}
          /\ gamePlayers' = [gamePlayers EXCEPT ![g] = @ + 1]
          /\ game' = [game EXCEPT ![u] = g]
          /\ UNCHANGED <<groupVars, dbUser, userCount, srvEnd>>
      BY <1>5, <2>2 DEF LoginUserData
    <3>2. UserInv'
      BY <2>1, <2>2, <3>1, LoginKeepsUserInv DEF IInv
    <3>3. ASSUME NEW v \in Users, group[v] # NoGroup PROVE game'[v] = game[v]
      <4>1. game[v] # NoGame
        BY <3>3, OwnGroup, ServerAssumption DEF IInv
      <4>2. QED
        BY <2>1, <3>1, <4>1 DEF IInv, UserInv, UserTypes
    <3>4. GroupInv'
      BY <3>1, <3>3, GroupInvStable DEF IInv
    <3>5. QED
      BY <2>1, <3>2, <3>4 DEF IInv, LoopInv
  <2>3. CASE g \notin Games
    BY <1>5, <2>1, <2>3, LogoutStep DEF LoginUserData
  <2>4. QED
    BY <2>2, <2>3
<1>6. CASE PingUser(u)
  BY <1>6, QueueStep DEF PingUser
<1>7. CASE ConnectUser(u)
  <2> DEFINE n == Head(c2s[u]).group
  <2>1. /\ u \in dbUser /\ game[u] \in Games /\ UNCHANGED <<running, loop>>
    BY <1>7 DEF ConnectUser, LoggedIn, IInv, UserInv, UserTypes
  <2>2. CASE n \in Names /\ group[u] = NoGroup
    <3>1. JoinGroup(u, n) /\ UNCHANGED <<userVars, srvEnd>>
      BY <1>7, <2>2 DEF ConnectUser, JoinGroup
    <3>2. GroupInv'
      BY <2>1, <2>2, <3>1, JoinKeepsGroupInv DEF IInv, userVars
    <3>3. UserInv'
      BY <3>1, UserInvStable DEF IInv, UserInv, UserTypes
    <3>4. QED
      BY <2>1, <3>2, <3>3 DEF IInv, LoopInv
  <2>3. CASE ~(n \in Names /\ group[u] = NoGroup)
    BY <1>7, <2>1, <2>3, LogoutStep DEF ConnectUser
  <2>4. QED
    BY <2>2, <2>3
<1>8. CASE DisconnectUser(u)
  <2>1. u \in dbUser /\ UNCHANGED <<running, loop>>
    BY <1>8 DEF DisconnectUser
  <2>2. CASE group[u] # NoGroup
    <3>1. UnlinkFromGroup(u) /\ UNCHANGED <<userVars, srvEnd>>
      BY <1>8, <2>2 DEF DisconnectUser
    <3>2. GroupInv'
      BY <2>2, <3>1, UnlinkKeepsGroupInv DEF IInv, userVars
    <3>3. UserInv'
      BY <3>1, UserInvStable DEF IInv, UserInv, UserTypes
    <3>4. QED
      BY <2>1, <3>2, <3>3 DEF IInv, LoopInv
  <2>3. CASE group[u] = NoGroup
    BY <1>8, <2>1, <2>3, LogoutStep DEF DisconnectUser
  <2>4. QED
    BY <2>2, <2>3
<1>9. CASE SendScanResults(u)
  BY <1>9, QueueStep, LogoutStep DEF SendScanResults
<1>10. CASE SpreadMessage(u)
  BY <1>10, QueueStep, LogoutStep DEF SpreadMessage
<1>11. CASE InvalidOpcode(u)
  BY <1>11, LogoutStep DEF InvalidOpcode
<1>12. QED
  BY <1>1, <1>2, <1>3, <1>4, <1>5, <1>6, <1>7, <1>8, <1>9, <1>10, <1>11
  DEF Visit, ServeUser

(* Every step of the server and of the clients keeps the invariant. *)
LEMMA NextKeepsInv == IInv /\ [OpenNext]_openVars => IInv'
<1> SUFFICES ASSUME IInv, [OpenNext]_openVars PROVE IInv'
  OBVIOUS
<1>1. CASE StartLoop
  <2>1. UNCHANGED <<dbVars, srvEnd>> /\ LoopInv'
    BY <1>1 DEF StartLoop, wireVars, LoopInv
  <2>2. QED
    BY <2>1, GroupInvStable, UserInvStable
    DEF IInv, dbVars, userVars, UserInv, UserTypes
<1>2. CASE Interrupt
  <2>1. UNCHANGED <<dbVars, srvEnd>> /\ LoopInv'
    BY <1>2 DEF Interrupt, wireVars, LoopInv, IInv
  <2>2. QED
    BY <2>1, GroupInvStable, UserInvStable
    DEF IInv, dbVars, userVars, UserInv, UserTypes
<1>3. CASE LeaveLoop
  <2>1. UNCHANGED <<dbVars, srvEnd>> /\ LoopInv'
    BY <1>3 DEF LeaveLoop, LoopInv, IInv
  <2>2. QED
    BY <2>1, GroupInvStable, UserInvStable
    DEF IInv, dbVars, userVars, UserInv, UserTypes
<1>4. CASE Shutdown
  <2>1. /\ UNCHANGED dbVars /\ LoopInv'
        /\ srvEnd' = [u \in Users |-> IF srvEnd[u] = "backlog" THEN "closed" ELSE srvEnd[u]]
    BY <1>4 DEF Shutdown, LoopInv, IInv
  <2>2. /\ srvEnd' \in [Users -> {"none", "backlog", "open", "closed"}]
        /\ \A v \in Users : srvEnd'[v] = "open" <=> srvEnd[v] = "open"
    BY <2>1 DEF IInv, UserInv, UserTypes
  <2>3. QED
    BY <2>1, <2>2, GroupInvStable, UserInvStable DEF IInv, dbVars, userVars
<1>5. ASSUME NEW u \in Users, Visit(u) \/ TimeOut(u) PROVE IInv'
  BY <1>5, VisitKeepsInv
<1>6. ASSUME NEW u \in Users, ClientConnects(u) PROVE IInv'
  <2>1. /\ UNCHANGED serverVars
        /\ srvEnd[u] # "open" /\ srvEnd' = [srvEnd EXCEPT ![u] = "backlog"]
    BY <1>6 DEF ClientConnects, WireConnect
  <2>2. /\ srvEnd' \in [Users -> {"none", "backlog", "open", "closed"}]
        /\ \A v \in Users : srvEnd'[v] = "open" <=> srvEnd[v] = "open"
    BY <2>1 DEF IInv, UserInv, UserTypes
  <2>3. QED
    BY <2>1, <2>2, GroupInvStable, UserInvStable
    DEF IInv, LoopInv, serverVars, dbVars, userVars
<1>7. ASSUME NEW u \in Users, ClientSends(u) \/ ClientReceives(u) \/ ClientCloses(u)
      PROVE  IInv'
  <2>1. UNCHANGED <<serverVars, srvEnd>>
    BY <1>7 DEF ClientSends, ClientReceives, ClientCloses, WireClose
  <2>2. QED
    BY <2>1, QueueStep DEF serverVars
<1>8. CASE UNCHANGED openVars
  BY <1>8, QueueStep DEF openVars, serverVars, wireVars
<1>9. QED
  BY <1>1, <1>2, <1>3, <1>4, <1>5, <1>6, <1>7, <1>8
  DEF OpenNext, OpenServerStep, OpenClientStep

(* In every reachable state the whole invariant holds. *)
THEOREM ServerInvariant == OpenSpec => []IInv
  BY InitEstablishesInv, NextKeepsInv, PTL DEF OpenSpec

-----------------------------------------------------------------------------
(* What the server sends are packets of the protocol: the founder it names *)
(* is a user, and a list it walks holds users.                             *)
LEMMA PacketsOfUsers ==
    ASSUME NEW users \in Seq(Users)
    PROVE  ConnectPackets(users) \in Seq(S2C)
<1>1. \A v \in Users : ConnectS2C(v) \in S2C
  BY DEF S2C
<1>2. \A i \in 1..Len(users) : users[i] \in Users
  OBVIOUS
<1>3. DOMAIN users = 1..Len(users) /\ Len(users) \in Nat
  OBVIOUS
<1>4. [i \in 1..Len(users) |-> ConnectS2C(users[i])] \in [1..Len(users) -> S2C]
  BY <1>1, <1>2
<1> QED
  BY <1>3, <1>4 DEF ConnectPackets

LEMMA FounderIsUser ==
    ASSUME GroupInv, NEW k \in Groups, player[k] # <<>>
    PROVE  Founder(k) \in Users
  BY EmptyIffNoElement DEF GroupInv, GroupTypes, Founder

LEMMA JoinPacketsTyped ==
    ASSUME GroupInv, NEW u \in Users, NEW k \in Groups, NEW v \in Users
    PROVE  JoinPackets(u, k, v) \in Seq(S2C)
<1> DEFINE first == IF player[k] = <<>> THEN u ELSE Founder(k)
<1>1. first \in Users
  BY FounderIsUser
<1>2. BssidS2C(MacOf[first]) \in S2C /\ ConnectS2C(u) \in S2C
  BY <1>1, WireAssumption DEF S2C
<1>3. player[k] \in Seq(Users)
  BY DEF GroupInv, GroupTypes
<1>4. ConnectPackets(player[k]) \in Seq(S2C)
  BY <1>3, PacketsOfUsers
<1> HIDE DEF first
<1>5. ConnectPackets(player[k]) \o <<BssidS2C(MacOf[first])>> \in Seq(S2C)
  BY <1>2, <1>4
<1>6. JoinPackets(u, k, v) = IF v = u THEN ConnectPackets(player[k]) \o <<BssidS2C(MacOf[first])>>
                             ELSE IF Contains(player[k], v) THEN <<ConnectS2C(u)>> ELSE <<>>
  BY DEF JoinPackets, first
<1>7. <<ConnectS2C(u)>> \in Seq(S2C) /\ <<>> \in Seq(S2C)
  BY <1>2
<1> QED
  BY <1>5, <1>6, <1>7

LEMMA LeavePacketsTyped ==
    ASSUME GroupInv, NEW u \in Users, group[u] # NoGroup, NEW v \in Users
    PROVE  LeavePackets(u, v) \in Seq(S2C)
<1> DEFINE old == player[group[u]]
           rest == RemoveFirst(old, u)
           places == {i \in Behind(rest, IpOf[u]) : rest[i] # v}
           purge == [i \in 1..Cardinality(Behind(old, IpOf[u])) |-> DisconnectS2C(IpOf[u])]
           back == ConnectPackets(Picked(rest, places))
<1>1. /\ old \in Seq(Users) /\ IsInjective(old) /\ u \in ToSet(old)
  BY OwnGroup DEF GroupInv, GroupTypes, GroupListsExact
<1>2. rest \in Seq(Users)
  BY <1>1, RemoveFirstFacts
<1> HIDE DEF old, rest
<1>3. places \in SUBSET DOMAIN rest /\ Behind(old, IpOf[u]) \in SUBSET DOMAIN old
  BY DEF Behind
<1>4. Picked(rest, places) \in Seq(Users)
  BY <1>2, <1>3, PickedFacts
<1>5. back \in Seq(S2C)
  BY <1>4, PacketsOfUsers
<1>6. Cardinality(Behind(old, IpOf[u])) \in Nat
  BY <1>1, <1>3, PickedFacts
<1>7. DisconnectS2C(IpOf[u]) \in S2C
  BY WireAssumption DEF S2C
<1>8. purge \in Seq(S2C)
  BY <1>6, <1>7
<1>9. LeavePackets(u, v) = IF Contains(rest, v) THEN purge \o back ELSE <<>>
  BY DEF LeavePackets, old, rest
<1> HIDE DEF purge, back
<1>10. purge \o back \in Seq(S2C) /\ <<>> \in Seq(S2C)
  BY <1>5, <1>8
<1> QED
  BY <1>9, <1>10

LEMMA ScanPacketsTyped ==
    ASSUME GroupInv, NEW g \in Games
    PROVE  ScanPackets(g) \in Seq(S2C)
<1> DEFINE list == groupList[g]
           n == Len(list)
           found == [i \in 1..n |-> ScanS2C(list[i], MacOf[Founder(<<g, list[i]>>)])]
<1>1. list \in Seq(Names) /\ ToSet(list) = {m \in Names : player[<<g, m>>] # <<>>}
  BY DEF GroupInv, GroupTypes, GroupListsExact
<1>2. n \in Nat /\ DOMAIN list = 1..n /\ \A i \in 1..n : list[i] \in Names /\ list[i] \in ToSet(list)
  BY <1>1 DEF ToSet
<1>3. ASSUME NEW i \in 1..n
      PROVE  ScanS2C(list[i], MacOf[Founder(<<g, list[i]>>)]) \in S2C
  <2>1. list[i] \in Names /\ player[<<g, list[i]>>] # <<>>
    BY <1>1, <1>2
  <2>2. <<g, list[i]>> \in Groups
    BY <2>1 DEF Groups
  <2>3. MacOf[Founder(<<g, list[i]>>)] \in Macs
    BY <2>1, <2>2, FounderIsUser, WireAssumption
  <2>4. \A m \in Names, mac \in Macs : ScanS2C(m, mac) \in S2C
    BY DEF S2C
  <2> DEFINE name == list[i]
             mac == MacOf[Founder(<<g, list[i]>>)]
  <2>5. name \in Names /\ mac \in Macs
    BY <2>1, <2>3
  <2>6. ScanS2C(list[i], MacOf[Founder(<<g, list[i]>>)]) = ScanS2C(name, mac)
    OBVIOUS
  <2> HIDE DEF name, mac, list
  <2>7. ScanS2C(name, mac) \in S2C
    BY <2>4, <2>5
  <2> QED
    BY <2>6, <2>7
<1>4. found \in Seq(S2C)
  <2>1. found \in [1..n -> S2C] /\ n \in Nat
    BY <1>2, <1>3
  <2> HIDE DEF found, n
  <2> QED
    BY <1>2, <2>1
<1>5. ScanCompleteS2C \in S2C
  BY DEF S2C
<1>6. ScanPackets(g) = found \o <<ScanCompleteS2C>>
  BY <1>2 DEF ScanPackets
<1> HIDE DEF found
<1> QED
  BY <1>4, <1>5, <1>6

(* send(): what is appended to typed queues leaves typed queues. *)
LEMMA SentTyped ==
    ASSUME s2c \in [Users -> Seq(S2C)], NEW f \in [Users -> Seq(S2C)],
           s2c' = [v \in Users |-> IF cliEnd[v] = "open" THEN s2c[v] \o f[v] ELSE s2c[v]]
    PROVE  s2c' \in [Users -> Seq(S2C)]
  OBVIOUS

LEMMA LogoutKeepsWireTypes ==
    ASSUME GroupInv, WireTypeOK, NEW u \in Users, LogoutUser(u), UNCHANGED cliEnd
    PROVE  WireTypeOK'
<1>1. c2s' \in [Users -> Seq(C2S)] /\ srvEnd' \in [Users -> {"none", "backlog", "open", "closed"}]
  BY DEF WireTypeOK, LogoutUser
<1>2. s2c' \in [Users -> Seq(S2C)]
  <2>1. CASE group[u] # NoGroup
    <3> DEFINE f == [v \in Users |-> LeavePackets(u, v)]
    <3>1. f \in [Users -> Seq(S2C)]
      BY <2>1, LeavePacketsTyped
    <3>2. s2c' = [v \in Users |-> IF cliEnd[v] = "open" THEN s2c[v] \o f[v] ELSE s2c[v]]
      BY <2>1 DEF LogoutUser, SendTo
    <3> HIDE DEF f
    <3> QED
      BY <3>1, <3>2, SentTyped DEF WireTypeOK
  <2>2. CASE group[u] = NoGroup
    BY <2>2 DEF LogoutUser, WireTypeOK
  <2> QED
    BY <2>1, <2>2
<1> QED
  BY <1>1, <1>2 DEF WireTypeOK

(* Every visit of the loop to a user keeps the queues typed. *)
LEMMA VisitKeepsWireTypes ==
    ASSUME IInv, WireTypeOK, NEW u \in Users, Visit(u) \/ TimeOut(u)
    PROVE  WireTypeOK'
<1> DEFINE Sent(f) == s2c' = [v \in Users |-> IF cliEnd[v] = "open" THEN s2c[v] \o f[v] ELSE s2c[v]]
           Rest == /\ u \in dbUser /\ LoggedIn(u) /\ Consume(u) /\ UNCHANGED <<srvEnd, cliEnd>>
                   /\ c2s[u] # <<>>
<1>1. GroupInv
  BY DEF IInv
<1>2. CASE LogoutUser(u) /\ UNCHANGED cliEnd
  BY <1>1, <1>2, LogoutKeepsWireTypes
<1>3. CASE LoginUserStream(u)
  <2>1. srvEnd' \in [Users -> {"none", "backlog", "open", "closed"}] /\ UNCHANGED <<s2c, cliEnd>>
    BY <1>3 DEF LoginUserStream, WireTypeOK
  <2>2. <<>> \in Seq(C2S)
    OBVIOUS
  <2>3. c2s' = c2s \/ c2s' = [c2s EXCEPT ![u] = <<>>]
    BY <1>3 DEF LoginUserStream
  <2>4. c2s' \in [Users -> Seq(C2S)]
    BY <2>2, <2>3 DEF WireTypeOK
  <2> QED
    BY <2>1, <2>4 DEF WireTypeOK
<1>4. ASSUME Consume(u), c2s[u] # <<>> PROVE c2s' \in [Users -> Seq(C2S)]
  <2>1. c2s[u] \in Seq(C2S)
    BY DEF WireTypeOK
  <2>2. Tail(c2s[u]) \in Seq(C2S)
    BY <1>4, <2>1
  <2> QED
    BY <1>4, <2>2 DEF Consume, WireTypeOK
<1>5. ASSUME Rest, NEW f \in [Users -> Seq(S2C)], Sent(f) PROVE WireTypeOK'
  <2>1. c2s' \in [Users -> Seq(C2S)]
    BY <1>4, <1>5
  <2>2. s2c' \in [Users -> Seq(S2C)]
    BY <1>5, SentTyped DEF WireTypeOK
  <2> QED
    BY <1>5, <2>1, <2>2 DEF WireTypeOK
<1>6. CASE Consume(u) /\ c2s[u] # <<>> /\ UNCHANGED <<s2c, srvEnd, cliEnd>>
  <2>1. c2s' \in [Users -> Seq(C2S)]
    BY <1>4, <1>6
  <2> QED
    BY <1>6, <2>1 DEF WireTypeOK
<1>7. CASE ConnectUser(u) /\ ~LogoutUser(u)
  <2> DEFINE n == Head(c2s[u]).group
             k == <<game[u], n>>
             f == [v \in Users |-> JoinPackets(u, k, v)]
  <2>1. n \in Names /\ game[u] \in Games
    BY <1>7 DEF ConnectUser, LoggedIn, IInv, UserInv, UserTypes
  <2>2. k \in Groups
    BY <2>1 DEF Groups
  <2>3. Rest /\ Sent(f)
    BY <1>7 DEF ConnectUser, Handle, SendTo
  <2> HIDE DEF k
  <2>4. f \in [Users -> Seq(S2C)]
    BY <1>1, <2>2, JoinPacketsTyped
  <2> HIDE DEF f
  <2> QED
    BY <1>5, <2>3, <2>4
<1>8. CASE DisconnectUser(u) /\ ~LogoutUser(u)
  <2> DEFINE f == [v \in Users |-> LeavePackets(u, v)]
  <2>1. group[u] # NoGroup /\ Rest /\ Sent(f)
    BY <1>8 DEF DisconnectUser, Handle, SendTo
  <2>2. f \in [Users -> Seq(S2C)]
    BY <1>1, <2>1, LeavePacketsTyped
  <2> HIDE DEF f
  <2> QED
    BY <1>5, <2>1, <2>2
<1>9. CASE SendScanResults(u) /\ ~LogoutUser(u)
  <2> DEFINE f == [v \in Users |-> IF v = u THEN ScanPackets(game[u]) ELSE <<>>]
  <2>1. Rest /\ Sent(f) /\ game[u] \in Games
    BY <1>9 DEF SendScanResults, Handle, SendTo, LoggedIn, IInv, UserInv, UserTypes
  <2>2. f \in [Users -> Seq(S2C)]
    BY <1>1, <2>1, ScanPacketsTyped
  <2> HIDE DEF f
  <2> QED
    BY <1>5, <2>1, <2>2
<1>10. CASE SpreadMessage(u) /\ ~LogoutUser(u)
  <2> DEFINE f == [v \in Users |-> IF v # u /\ Contains(player[group[u]], v) THEN <<ChatS2C>> ELSE <<>>]
  <2>1. Rest /\ Sent(f)
    BY <1>10 DEF SpreadMessage, Handle, SendTo
  <2>2. f \in [Users -> Seq(S2C)]
    <3>1. ChatS2C \in S2C
      BY DEF S2C
    <3>2. <<ChatS2C>> \in Seq(S2C) /\ <<>> \in Seq(S2C)
      BY <3>1
    <3> QED
      BY <3>2
  <2> HIDE DEF f
  <2> QED
    BY <1>5, <2>1, <2>2
<1>11. CASE HangUp(u) \/ TimeOut(u) \/ FreeUser(u) \/ InvalidOpcode(u)
  BY <1>2, <1>11 DEF HangUp, TimeOut, FreeUser, InvalidOpcode, Handle
<1>12. CASE LoginUserData(u) \/ PingUser(u)
  BY <1>2, <1>6, <1>12 DEF LoginUserData, PingUser, Handle
<1>13. ConnectUser(u) \/ DisconnectUser(u) \/ SendScanResults(u) \/ SpreadMessage(u) => UNCHANGED cliEnd
  BY DEF ConnectUser, DisconnectUser, SendScanResults, SpreadMessage, Handle
<1> QED
  BY <1>2, <1>3, <1>7, <1>8, <1>9, <1>10, <1>11, <1>12, <1>13 DEF Visit, ServeUser

-----------------------------------------------------------------------------
(* The database of the server keeps its types: no counter goes below zero. *)
THEOREM ServerTypes == OpenSpec => []ServerTypeOK
<1>1. IInv => ServerTypeOK
  BY DEF IInv, LoopInv, GroupInv, GroupTypes, UserInv, UserTypes, ServerTypeOK
<1>2. QED
  BY <1>1, ServerInvariant, PTL

(* All queues hold packets of the protocol, and the database its types:    *)
(* the server never names a founder or a group that is not there.          *)
THEOREM PacketsAreTyped == OpenSpec => []OpenTypeOK
<1>1. OpenInit => WireTypeOK
  BY DEF OpenInit, WireInit, WireTypeOK
<1>2. ASSUME IInv, WireTypeOK, [OpenNext]_openVars PROVE WireTypeOK'
  <2>1. ASSUME NEW u \in Users, Visit(u) \/ TimeOut(u) PROVE WireTypeOK'
    BY <1>2, <2>1, VisitKeepsWireTypes
  <2>2. CASE StartLoop \/ Interrupt
    BY <1>2, <2>2 DEF StartLoop, Interrupt, wireVars, WireTypeOK
  <2>3. CASE LeaveLoop
    <3> DEFINE f == [v \in Users |-> IF v \in dbUser /\ group[v] # NoGroup THEN <<ChatS2C>> ELSE <<>>]
    <3>1. s2c' = [v \in Users |-> IF cliEnd[v] = "open" THEN s2c[v] \o f[v] ELSE s2c[v]]
      BY <2>3 DEF LeaveLoop, SendTo
    <3>2. f \in [Users -> Seq(S2C)]
      <4>1. ChatS2C \in S2C
        BY DEF S2C
      <4>2. <<ChatS2C>> \in Seq(S2C) /\ <<>> \in Seq(S2C)
        BY <4>1
      <4> QED
        BY <4>2
    <3> HIDE DEF f
    <3>3. s2c' \in [Users -> Seq(S2C)]
      BY <1>2, <3>1, <3>2, SentTyped DEF WireTypeOK
    <3> QED
      BY <1>2, <2>3, <3>3 DEF LeaveLoop, WireTypeOK
  <2>4. CASE Shutdown
    BY <1>2, <2>4 DEF Shutdown, WireTypeOK
  <2>5. ASSUME NEW u \in Users, ClientConnects(u) \/ ClientCloses(u) PROVE WireTypeOK'
    <3>1. <<>> \in Seq(S2C) /\ <<>> \in Seq(C2S)
      OBVIOUS
    <3>2. CASE ClientConnects(u)
      BY <1>2, <3>1, <3>2 DEF ClientConnects, WireConnect, WireTypeOK
    <3>3. CASE ClientCloses(u)
      <4>1. PICK how \in {"closed", "gone"} : WireClose(u, how)
        BY <3>3 DEF ClientCloses
      <4> QED
        BY <1>2, <3>1, <4>1 DEF WireClose, WireTypeOK
    <3> QED
      BY <2>5, <3>2, <3>3
  <2>6. ASSUME NEW u \in Users, ClientSends(u) PROVE WireTypeOK'
    BY <1>2, <2>6, OpenAssumption DEF ClientSends, WireSend, WireTypeOK
  <2>7. ASSUME NEW u \in Users, ClientReceives(u) PROVE WireTypeOK'
    <3>1. Tail(s2c[u]) \in Seq(S2C)
      BY <1>2, <2>7 DEF ClientReceives, WireTypeOK
    <3> QED
      BY <1>2, <2>7, <3>1 DEF ClientReceives, WireTypeOK
  <2>8. CASE UNCHANGED openVars
    BY <1>2, <2>8 DEF openVars, wireVars, WireTypeOK
  <2> QED
    BY <1>2, <2>1, <2>2, <2>3, <2>4, <2>5, <2>6, <2>7, <2>8
    DEF OpenNext, OpenServerStep, OpenClientStep
<1>3. ServerTypeOK /\ WireTypeOK => OpenTypeOK
  BY DEF OpenTypeOK
<1> QED
  BY <1>1, <1>2, <1>3, ServerInvariant, ServerTypes, PTL DEF OpenSpec

(* The lists of groups and players agree with the pointers of the users,   *)
(* whatever the clients send and however often they come and go.           *)
THEOREM ListsExact == OpenSpec => []GroupListsExact
<1>1. IInv => GroupListsExact
  BY DEF IInv, GroupInv
<1>2. QED
  BY <1>1, ServerInvariant, PTL

(* The reference counts, by which logout_user and disconnect_user free     *)
(* nodes, are exact.                                                       *)
THEOREM CountsExact == OpenSpec => []RefCountsExact
<1>1. IInv => RefCountsExact
  BY DEF IInv, GroupInv, GroupCounts, UserInv, UserCounts, RefCountsExact
<1>2. QED
  BY <1>1, ServerInvariant, PTL

(* No user points to a freed game, no game without players stays, and none *)
(* is freed under a group.                                                 *)
THEOREM NothingDangles == OpenSpec => []NoDangling
<1>1. ASSUME IInv, NEW g \in Games, g \notin dbGame PROVE groupList[g] = <<>>
  <2>1. SUFFICES ASSUME groupList[g] # <<>> PROVE FALSE
    OBVIOUS
  <2>2. PICK n \in Names : player[<<g, n>>] # <<>>
    <3>1. groupList[g] \in Seq(Names) /\ ToSet(groupList[g]) = {n \in Names : player[<<g, n>>] # <<>>}
      BY <1>1 DEF IInv, GroupInv, GroupTypes, GroupListsExact
    <3>2. groupList[g] \in Seq(Names)
      BY <3>1
    <3>3. ToSet(groupList[g]) # {}
      BY <2>1, <3>2, EmptyIffNoElement
    <3>4. QED
      BY <3>1, <3>3
  <2> DEFINE k == <<g, n>>
  <2>3. k \in Groups /\ player[k] \in Seq(Users)
    BY <1>1 DEF Groups, IInv, GroupInv, GroupTypes
  <2>4. PICK u \in Users : group[u] = k
    <3>1. ToSet(player[k]) # {}
      BY <2>2, <2>3, EmptyIffNoElement
    <3>2. QED
      BY <1>1, <2>3, <3>1 DEF IInv, GroupInv, GroupListsExact
  <2>5. group[u] # NoGroup
    BY <2>3, <2>4, ServerAssumption
  <2>6. game[u] = g
    <3>1. game[u] = group[u][1]
      BY <1>1, <2>5 DEF IInv, GroupInv, GroupListsExact
    <3>2. QED
      BY <2>4, <3>1
  <2>7. QED
    BY <1>1, <2>6, ServerAssumption DEF IInv, UserInv, GamesLinked
<1>2. IInv => NoDangling
  BY <1>1 DEF IInv, UserInv, GamesLinked, NoDangling
<1>3. QED
  BY <1>2, ServerInvariant, PTL

(* The server holds exactly the sockets of its users, and never more than  *)
(* SERVER_USER_MAXIMUM.                                                    *)
THEOREM SocketsAreOwned == OpenSpec => []SocketsOwned
<1>1. IInv => SocketsOwned
  BY DEF IInv, UserInv
<1>2. QED
  BY <1>1, ServerInvariant, PTL

-----------------------------------------------------------------------------
(* The server implements the lobby: the linked lists, counters and packets *)
(* are invisible to a reader of rooms and hosts, and the host of a room    *)
(* changes only when he leaves.                                            *)

HostOf(k) == IF player[k] = <<>> THEN NoGame ELSE Founder(k)
RoomHosts == [k \in Groups |-> HostOf(k)]

(* Leaving a group is leaving a room: the founder of what is left is the   *)
(* old one, unless it was he who left.                                     *)
LEMMA UnlinkIsLeave ==
    ASSUME GroupInv, NEW u \in Users, group[u] # NoGroup, UnlinkFromGroup(u)
    PROVE  LobbyView!Leave(u)
<1> DEFINE r == group[u]
           old == player[r]
           rest == RemoveFirst(old, u)
           others == {q \in Users \ {u} : group[q] = r}
           h == IF rest = <<>> THEN NoGame ELSE Last(rest)
<1>1. r \in Groups /\ r # NoGroup /\ u \in ToSet(old) /\ old # <<>>
  BY OwnGroup
<1>2. old \in Seq(Users) /\ IsInjective(old) /\ ToSet(old) = {v \in Users : group[v] = r}
  BY <1>1 DEF GroupInv, GroupTypes, GroupListsExact
<1>3. /\ rest \in Seq(Users) /\ ToSet(rest) = ToSet(old) \ {u}
      /\ u # Last(old) => rest # <<>> /\ Last(rest) = Last(old)
  BY <1>1, <1>2, RemoveFirstFacts
<1>4. player' = [player EXCEPT ![r] = rest] /\ group' = [group EXCEPT ![u] = NoGroup]
  BY DEF UnlinkFromGroup
<1>5. RoomHosts[r] = Last(old)
  BY <1>1 DEF RoomHosts, HostOf, Founder
<1>6. \A k \in Groups : RoomHosts'[k] = IF k = r THEN h ELSE RoomHosts[k]
  <2>1. \A k \in Groups : player'[k] = IF k = r THEN rest ELSE player[k]
    BY <1>1, <1>4 DEF GroupInv, GroupTypes
  <2> HIDE DEF r, old, rest
  <2>2. \A k \in Groups : RoomHosts'[k] = IF player'[k] = <<>> THEN NoGame ELSE Last(player'[k])
    BY DEF RoomHosts, HostOf, Founder
  <2>3. \A k \in Groups : RoomHosts[k] = IF player[k] = <<>> THEN NoGame ELSE Last(player[k])
    BY DEF RoomHosts, HostOf, Founder
  <2>4. QED
    BY <2>1, <2>2, <2>3
<1>7. others = ToSet(rest)
  BY <1>2, <1>3
<1>8. ToSet(rest) = {} <=> rest = <<>>
  BY <1>3, EmptyIffNoElement
<1>9. rest # <<>> => Last(rest) \in ToSet(rest) /\ Last(rest) \in Users
  BY <1>3, EmptyIffNoElement
<1> HIDE DEF r, old, rest, others, h
<1>10. h \in others \cup {NoGame} /\ (h = NoGame => others = {})
  BY <1>7, <1>8, <1>9, OpenAssumption DEF h
<1>11. RoomHosts[r] # u => h = RoomHosts[r]
  BY <1>3, <1>5 DEF h
<1>12. RoomHosts' = [RoomHosts EXCEPT ![r] = h]
  <2>1. RoomHosts = [k \in Groups |-> RoomHosts[k]] /\ RoomHosts' = [k \in Groups |-> RoomHosts'[k]]
    BY DEF RoomHosts
  <2>2. QED
    BY <1>1, <1>6, <2>1
<1>13. QED
  BY <1>1, <1>4, <1>10, <1>11, <1>12 DEF LobbyView!Leave, RoomHosts, HostOf, r, others

(* Joining a group is joining a room: the newcomer is the host only of an  *)
(* empty room.                                                             *)
LEMMA JoinIsJoin ==
    ASSUME GroupInv, NEW u \in Users, group[u] = NoGroup,
           NEW n \in Names, game[u] \in Games, JoinGroup(u, n)
    PROVE  LobbyView!Join(u, <<game[u], n>>)
<1> DEFINE r == <<game[u], n>>
           old == player[r]
           all == Cons(u, old)
<1>1. r \in Groups
  BY DEF Groups
<1>2. old \in Seq(Users) /\ IsInjective(old) /\ u \notin ToSet(old)
  BY <1>1, ServerAssumption DEF GroupInv, GroupTypes, GroupListsExact
<1>3. player' = [player EXCEPT ![r] = all] /\ group' = [group EXCEPT ![u] = r]
  BY DEF JoinGroup
<1>4. \A k \in Groups : player'[k] = IF k = r THEN all ELSE player[k]
  BY <1>1, <1>3 DEF GroupInv, GroupTypes
<1>5. old # <<>> => Last(old) \in Users
  BY <1>2, EmptyIffNoElement
<1> HIDE DEF r, old
<1>6. all # <<>> /\ Last(all) = IF old = <<>> THEN u ELSE Last(old)
  BY <1>2, ConsFacts
<1> HIDE DEF all
<1>7. RoomHosts[r] = IF old = <<>> THEN NoGame ELSE Last(old)
  BY <1>1 DEF RoomHosts, HostOf, Founder, old
<1>8. old # <<>> => Last(old) # NoGame
  BY <1>5, OpenAssumption
<1>9. \A k \in Groups : RoomHosts'[k] = IF k = r THEN Last(all) ELSE RoomHosts[k]
  <2>1. \A k \in Groups : RoomHosts'[k] = IF player'[k] = <<>> THEN NoGame ELSE Last(player'[k])
    BY DEF RoomHosts, HostOf, Founder
  <2>2. \A k \in Groups : RoomHosts[k] = IF player[k] = <<>> THEN NoGame ELSE Last(player[k])
    BY DEF RoomHosts, HostOf, Founder
  <2>3. QED
    BY <1>4, <1>6, <2>1, <2>2
<1>10. RoomHosts' = [RoomHosts EXCEPT ![r] = IF @ = NoGame THEN u ELSE @]
  <2>1. RoomHosts = [k \in Groups |-> RoomHosts[k]] /\ RoomHosts' = [k \in Groups |-> RoomHosts'[k]]
    BY DEF RoomHosts
  <2>2. Last(all) = IF RoomHosts[r] = NoGame THEN u ELSE RoomHosts[r]
    BY <1>6, <1>7, <1>8
  <2>3. QED
    BY <1>1, <1>9, <2>1, <2>2
<1>11. QED
  BY <1>3, <1>10 DEF LobbyView!Join, RoomHosts, HostOf, r

LEMMA LobbyStutters ==
    ASSUME UNCHANGED groupVars
    PROVE  UNCHANGED LobbyView!vars
  BY DEF groupVars, LobbyView!vars, Founder

(* A logout is a departure if the user was in a group, and else invisible. *)
LEMMA LogoutIsLeave ==
    ASSUME GroupInv, NEW u \in Users, LogoutUser(u)
    PROVE  [LobbyView!Next]_LobbyView!vars
<1>1. CASE group[u] # NoGroup
  <2>1. UnlinkFromGroup(u)
    BY <1>1 DEF LogoutUser
  <2>2. QED
    BY <1>1, <2>1, UnlinkIsLeave DEF LobbyView!Next
<1>2. CASE group[u] = NoGroup
  <2>1. UNCHANGED groupVars
    BY <1>2 DEF LogoutUser
  <2>2. QED
    BY <2>1, LobbyStutters
<1>3. QED
  BY <1>1, <1>2

(* Every step is a step of the lobby or leaves rooms and hosts alone. *)
LEMMA StepRefines ==
    ASSUME IInv, [OpenNext]_openVars
    PROVE  [LobbyView!Next]_LobbyView!vars
<1>1. GroupInv
  BY DEF IInv
<1>2. ASSUME NEW u \in Users, ConnectUser(u) PROVE [LobbyView!Next]_LobbyView!vars
  <2> DEFINE n == Head(c2s[u]).group
  <2>1. CASE n \in Names /\ group[u] = NoGroup
    <3>1. JoinGroup(u, n)
      BY <1>2, <2>1 DEF ConnectUser, JoinGroup
    <3>2. game[u] \in Games
      BY <1>2 DEF ConnectUser, LoggedIn, IInv, UserInv, UserTypes
    <3> HIDE DEF n
    <3>3. LobbyView!Join(u, <<game[u], n>>)
      BY <1>1, <2>1, <3>1, <3>2, JoinIsJoin
    <3>4. <<game[u], n>> \in Groups
      BY <2>1, <3>2 DEF Groups
    <3>5. \E r \in Groups : LobbyView!Join(u, r)
      BY <3>3, <3>4 DEF LobbyView!Join
    <3>6. QED
      BY <3>5 DEF LobbyView!Next
  <2>2. CASE ~(n \in Names /\ group[u] = NoGroup)
    BY <1>1, <1>2, <2>2, LogoutIsLeave DEF ConnectUser
  <2>3. QED
    BY <2>1, <2>2
<1>3. ASSUME NEW u \in Users, DisconnectUser(u) PROVE [LobbyView!Next]_LobbyView!vars
  <2>1. CASE group[u] # NoGroup
    BY <1>1, <1>3, <2>1, UnlinkIsLeave DEF DisconnectUser, LobbyView!Next
  <2>2. CASE group[u] = NoGroup
    BY <1>1, <1>3, <2>2, LogoutIsLeave DEF DisconnectUser
  <2>3. QED
    BY <2>1, <2>2
<1>4. ASSUME NEW u \in Users, Visit(u) \/ TimeOut(u)
      PROVE  [LobbyView!Next]_LobbyView!vars
  <2>1. LogoutUser(u) \/ UNCHANGED groupVars \/ ConnectUser(u) \/ DisconnectUser(u)
    BY <1>4 DEF Visit, ServeUser, TimeOut, HangUp, FreeUser, LoginUserStream,
                LoginUserData, PingUser, SendScanResults, SpreadMessage, InvalidOpcode,
                dbVars
  <2>2. QED
    BY <1>1, <1>2, <1>3, <2>1, LogoutIsLeave, LobbyStutters
<1>5. CASE StartLoop \/ Interrupt \/ LeaveLoop \/ Shutdown
  BY <1>5, LobbyStutters DEF StartLoop, Interrupt, LeaveLoop, Shutdown, dbVars
<1>6. CASE OpenClientStep
  BY <1>6, LobbyStutters
  DEF OpenClientStep, ClientConnects, ClientSends, ClientReceives, ClientCloses,
      serverVars, dbVars
<1>7. CASE UNCHANGED openVars
  BY <1>7, LobbyStutters DEF openVars, serverVars, dbVars
<1>8. QED
  BY <1>4, <1>5, <1>6, <1>7 DEF OpenNext, OpenServerStep

(* The server implements the lobby. *)
THEOREM ServerImplementsLobby == OpenSpec => ImplementsLobby
<1>1. OpenInit => LobbyView!Init
  BY DEF OpenInit, ServerInit, LobbyView!Init
<1>2. IInv /\ [OpenNext]_openVars => [LobbyView!Next]_LobbyView!vars
  BY StepRefines
<1>3. QED
  BY <1>1, <1>2, ServerInvariant, PTL DEF OpenSpec, ImplementsLobby, LobbyView!Spec

-----------------------------------------------------------------------------
(* Library and server.                                                     *)

(* What the games are asked for: to wait for events, not to leave a group  *)
(* in which they chat, and not to scan while a thread of theirs leaves.    *)
Considerate ==
    /\ Patient
    /\ \A u \in Users : "Disconnect" \in Calls[u] =>
          "Chat" \notin Calls[u] /\ (u \in QuirkUsers => "Scan" \notin Calls[u])

(* The library and the game of u, while the connection is in use, while it *)
(* is given up, and without one.                                           *)
Running(u) ==
    /\ app[u].pc \in {"idle", "create", "disconnect"}
    /\ cliEnd[u] = "open"
    /\ ~app[u].answered => app[u].pc = "idle"
    /\ lib[u].discPending => app[u].call = "Disconnect" /\ ~app[u].answered
    /\ lib[u].discThread # "none" => app[u].pc = "disconnect" \/ u \in QuirkUsers
    /\ lib[u].discThread # "none" \/ app[u].pc = "disconnect" => "Disconnect" \in Calls[u]
    /\ app[u].pc = "create" => lib[u].status = "DISCONNECTED"
    /\ lib[u].outbox > 0 \/ lib[u].chat => "Chat" \in Calls[u]

Terminating(u) ==
    /\ app[u].pc = "term" /\ cliEnd[u] = "open"
    /\ app[u].answered /\ ~lib[u].discPending /\ lib[u].discThread = "none"
    /\ lib[u].connected = 0 /\ lib[u].outbox = 0
    /\ lib[u].chat => "Chat" \in Calls[u]

Ended(u) == Terminating(u) /\ lib[u].status = "DISCONNECTED" /\ ~lib[u].chat

Off(u) ==
    /\ app[u].pc = "idle" /\ cliEnd[u] # "open"
    /\ lib[u].status = "DISCONNECTED" /\ lib[u].discThread = "none" /\ ~lib[u].discPending
    /\ lib[u].connected = 0 /\ lib[u].outbox = 0 /\ ~lib[u].chat

Library(u) ==
    /\ lib[u].init = 1 => Running(u)
    /\ lib[u].init = -1 => Ended(u)
    /\ lib[u].init = 0 => Terminating(u) \/ Off(u)

(* The packets under way to the server: none is an offence when its turn   *)
(* comes.  g and k are the game and the group the server has u in.         *)
Sends(q, op) == \E i \in DOMAIN q : q[i].op = op
Asks(q, n) == \E i \in DOMAIN q : q[i].op = "CONNECT" /\ q[i].group = n

Admits(q, i, g, k) ==
    \/ i = 1 /\ g # NoGame /\ k = NoGroup
    \/ i = 2 /\ q[1].op \in {"LOGIN", "DISCONNECT"}

LawfulAt(u, q, i, g, k) ==
    \/ q[i].op = "LOGIN" /\ i = 1 /\ g = NoGame /\ q[i].game = GameOf[u]
    \/ q[i].op = "CONNECT" /\ Admits(q, i, g, k) /\ q[i].group \in Names
    \/ q[i].op = "SCAN" /\ Admits(q, i, g, k)
    \/ q[i].op = "DISCONNECT" /\ i = 1 /\ k # NoGroup /\ "Disconnect" \in Calls[u]
    \/ /\ q[i].op = "CHAT" /\ "Chat" \in Calls[u]
       /\ k # NoGroup \/ \E j \in DOMAIN q : j < i /\ q[j].op = "CONNECT"

Lawful(u, q, g, k) ==
    /\ g \in {NoGame, GameOf[u]}
    /\ g = NoGame => q # <<>> /\ k = NoGroup
    /\ \A i \in DOMAIN q : LawfulAt(u, q, i, g, k)

Served(u) == srvEnd[u] \in {"backlog", "open"}

Line(u) == IF Served(u) THEN Lawful(u, c2s[u], game[u], group[u]) ELSE c2s[u] = <<>>

(* The answers under way to a game.                                        *)
Answers == {"CONNECT_BSSID", "SCAN_COMPLETE"}
NoAnswer(s) == \A i \in DOMAIN s : s[i].op \notin Answers
OneAnswer(s, op) ==
    \E i \in DOMAIN s : s[i].op = op /\ \A j \in DOMAIN s : j # i => s[j].op \notin Answers

(* Where a user stands: he waits to be in the group he has asked for, or   *)
(* for the end of a scan, he is in a group, or in none but for a farewell  *)
(* that is still to be sent or to be handled.                              *)
Creating(u) == app[u].call = "Create" /\ ~app[u].answered
Scanning(u) == app[u].call = "Scan" /\ ~app[u].answered

InGroup(u) == group[u] = <<GameOf[u], lib[u].name>> /\ group[u] # NoGroup

Joins(u) ==
    /\ lib[u].status = "DISCONNECTED" /\ lib[u].discThread = "none"
    /\ ~Sends(c2s[u], "SCAN")
    /\ \/ Asks(c2s[u], lib[u].name) /\ NoAnswer(s2c[u])
       \/ /\ ~Sends(c2s[u], "CONNECT") /\ ~Sends(c2s[u], "DISCONNECT") /\ InGroup(u)
          /\ OneAnswer(s2c[u], "CONNECT_BSSID")

Listing(u) ==
    /\ ~Sends(c2s[u], "CONNECT")
    /\ \/ Sends(c2s[u], "SCAN") /\ NoAnswer(s2c[u])
       \/ /\ ~Sends(c2s[u], "SCAN") /\ game[u] # NoGame /\ group[u] = NoGroup
          /\ OneAnswer(s2c[u], "SCAN_COMPLETE")

Scans(u) == lib[u].status = "SCANNING" /\ lib[u].discThread = "none" /\ Listing(u)

Stays(u) ==
    /\ lib[u].status = "CONNECTED"
    /\ InGroup(u) /\ NoAnswer(s2c[u])
    /\ ~Sends(c2s[u], "CONNECT") /\ ~Sends(c2s[u], "SCAN") /\ ~Sends(c2s[u], "DISCONNECT")
    /\ \/ app[u].call = "Create" /\ app[u].pc # "disconnect" /\ lib[u].discThread = "none"
       \/ lib[u].discThread = "start"

Apart(u) ==
    /\ lib[u].status = "DISCONNECTED" /\ NoAnswer(s2c[u])
    /\ ~Sends(c2s[u], "CONNECT") /\ ~Sends(c2s[u], "SCAN")
    /\ group[u] # NoGroup <=> lib[u].discThread = "grace" \/ Sends(c2s[u], "DISCONNECT")
    /\ lib[u].discThread = "grace" => ~Sends(c2s[u], "DISCONNECT")

Phase(u) ==
    IF ~Served(u) THEN NoAnswer(s2c[u])
    ELSE IF Creating(u) THEN Joins(u)
    ELSE IF Scanning(u) THEN Scans(u)
    ELSE IF lib[u].init = -1
      THEN NoAnswer(s2c[u]) /\ ~Sends(c2s[u], "CONNECT") /\ ~Sends(c2s[u], "SCAN")
    ELSE Stays(u) \/ Apart(u)

(* Who may chat is in his group, or will be when his message arrives.      *)
Chats(u) ==
    Served(u) /\ "Chat" \in Calls[u] /\ (lib[u].connected = 1 \/ lib[u].outbox > 0 \/ lib[u].chat)
        => Sends(c2s[u], "CONNECT") \/ group[u] # NoGroup

Sound(u) == Library(u) /\ Line(u) /\ (cliEnd[u] = "open" => Phase(u) /\ Chats(u))

NetTypes ==
    /\ WireTypeOK /\ ClientTypeOK
    /\ \A u \in Users : app[u].pc = "create" => app[u].arg \in Names

(* The server has a place for everyone. *)
RoomForAll == Cardinality(Users) <= MaxUsers
Kept(u) == cliEnd[u] = "open" => Served(u)

NetInv == IInv /\ NetTypes /\ (\A u \in Users : Sound(u)) /\ (RoomForAll => \A u \in Users : Kept(u))

-----------------------------------------------------------------------------
(* Queues: what a packet at the head, or one more at the end, changes.     *)
LEMMA TailPlaces ==
    ASSUME NEW S, NEW q \in Seq(S), q # <<>>
    PROVE  /\ Tail(q) \in Seq(S) /\ DOMAIN q = 1..Len(q) /\ Len(q) \in Nat \ {0}
           /\ DOMAIN Tail(q) = 1..(Len(q) - 1)
           /\ Head(q) = q[1] /\ 1 \in DOMAIN q
           /\ \A i \in DOMAIN Tail(q) : i + 1 \in DOMAIN q /\ Tail(q)[i] = q[i + 1]
           /\ \A i \in DOMAIN q : i # 1 => i - 1 \in DOMAIN Tail(q) /\ Tail(q)[i - 1] = q[i]
<1>1. /\ Tail(q) \in Seq(S) /\ Len(Tail(q)) = Len(q) - 1 /\ Len(q) \in Nat \ {0}
      /\ DOMAIN q = 1..Len(q) /\ DOMAIN Tail(q) = 1..Len(Tail(q)) /\ Head(q) = q[1]
  OBVIOUS
<1>2. \A i \in 1..(Len(q) - 1) : Tail(q)[i] = q[i + 1]
  OBVIOUS
<1>3. ASSUME NEW i \in DOMAIN q, i # 1
      PROVE  i - 1 \in DOMAIN Tail(q) /\ Tail(q)[i - 1] = q[i]
  <2>1. i - 1 \in 1..(Len(q) - 1) /\ (i - 1) + 1 = i
    BY <1>1, <1>3
  <2>2. Tail(q)[i - 1] = q[(i - 1) + 1]
    BY <1>2, <2>1
  <2> QED
    BY <1>1, <2>1, <2>2
<1>4. \A i \in 1..(Len(q) - 1) : i + 1 \in 1..Len(q)
  BY <1>1
<1> QED
  BY <1>1, <1>2, <1>3, <1>4

LEMMA AppendPlaces ==
    ASSUME NEW S, NEW q \in Seq(S), NEW p \in S
    PROVE  /\ Append(q, p) \in Seq(S) /\ Len(q) \in Nat /\ DOMAIN q = 1..Len(q)
           /\ DOMAIN Append(q, p) = 1..(Len(q) + 1)
           /\ Append(q, p)[Len(q) + 1] = p /\ Append(q, p) # <<>>
           /\ \A i \in DOMAIN q : Append(q, p)[i] = q[i] /\ i \in DOMAIN Append(q, p)
           /\ \A i \in DOMAIN Append(q, p) : i = Len(q) + 1 \/ i \in DOMAIN q
<1>1. /\ Append(q, p) \in Seq(S) /\ Len(q) \in Nat /\ DOMAIN q = 1..Len(q)
      /\ DOMAIN Append(q, p) = 1..(Len(q) + 1)
      /\ Append(q, p)[Len(q) + 1] = p
      /\ \A i \in 1..Len(q) : Append(q, p)[i] = q[i]
  OBVIOUS
<1>2. Append(q, p) # <<>>
  BY <1>1
<1>3. \A i \in 1..(Len(q) + 1) : i = Len(q) + 1 \/ i \in 1..Len(q)
  BY <1>1
<1> QED
  BY <1>1, <1>2, <1>3

LEMMA TailSends ==
    ASSUME NEW S, NEW q \in Seq(S), q # <<>>, NEW op, NEW n
    PROVE  /\ Sends(q, op) <=> Head(q).op = op \/ Sends(Tail(q), op)
           /\ Asks(q, n) <=> (Head(q).op = "CONNECT" /\ Head(q).group = n) \/ Asks(Tail(q), n)
<1>1. /\ Head(q) = q[1] /\ 1 \in DOMAIN q
      /\ \A i \in DOMAIN Tail(q) : i + 1 \in DOMAIN q /\ Tail(q)[i] = q[i + 1]
      /\ \A i \in DOMAIN q : i # 1 => i - 1 \in DOMAIN Tail(q) /\ Tail(q)[i - 1] = q[i]
  BY TailPlaces
<1>2. Sends(q, op) <=> Head(q).op = op \/ Sends(Tail(q), op)
  <2>1. ASSUME Sends(q, op) PROVE Head(q).op = op \/ Sends(Tail(q), op)
    BY <1>1, <2>1 DEF Sends
  <2>2. ASSUME Head(q).op = op \/ Sends(Tail(q), op) PROVE Sends(q, op)
    BY <1>1, <2>2 DEF Sends
  <2> QED
    BY <2>1, <2>2
<1>3. ASSUME Asks(q, n)
      PROVE  (Head(q).op = "CONNECT" /\ Head(q).group = n) \/ Asks(Tail(q), n)
  BY <1>1, <1>3 DEF Asks
<1>4. ASSUME (Head(q).op = "CONNECT" /\ Head(q).group = n) \/ Asks(Tail(q), n)
      PROVE  Asks(q, n)
  BY <1>1, <1>4 DEF Asks
<1> QED
  BY <1>2, <1>3, <1>4

LEMMA AppendSends ==
    ASSUME NEW S, NEW q \in Seq(S), NEW p \in S, NEW op, NEW n
    PROVE  /\ Sends(Append(q, p), op) <=> Sends(q, op) \/ p.op = op
           /\ Asks(q, n) => Asks(Append(q, p), n)
           /\ p.op = "CONNECT" /\ p.group = n => Asks(Append(q, p), n)
<1> DEFINE t == Append(q, p)
<1>1. /\ Len(q) \in Nat /\ t[Len(q) + 1] = p /\ Len(q) + 1 \in DOMAIN t
      /\ \A i \in DOMAIN q : t[i] = q[i] /\ i \in DOMAIN t
      /\ \A i \in DOMAIN t : i = Len(q) + 1 \/ i \in DOMAIN q
  BY AppendPlaces
<1> HIDE DEF t
<1>2. ASSUME Sends(t, op) PROVE Sends(q, op) \/ p.op = op
  BY <1>1, <1>2 DEF Sends
<1>3. ASSUME Sends(q, op) \/ p.op = op PROVE Sends(t, op)
  BY <1>1, <1>3 DEF Sends
<1>4. Asks(q, n) \/ (p.op = "CONNECT" /\ p.group = n) => Asks(t, n)
  BY <1>1 DEF Asks
<1> QED
  BY <1>2, <1>3, <1>4 DEF t

(* The answers in a queue to which something is added, or which is read.   *)
LEMMA ConcatAnswers ==
    ASSUME NEW s \in Seq(S2C), NEW t \in Seq(S2C), NEW op
    PROVE  /\ NoAnswer(s) /\ NoAnswer(t) => NoAnswer(s \o t)
           /\ OneAnswer(s, op) /\ NoAnswer(t) => OneAnswer(s \o t, op)
           /\ NoAnswer(s) /\ OneAnswer(t, op) => OneAnswer(s \o t, op)
<1> DEFINE c == s \o t
           m == Len(s)
<1>1. /\ m \in Nat /\ Len(t) \in Nat /\ DOMAIN s = 1..m /\ DOMAIN t = 1..Len(t)
      /\ DOMAIN c = 1..(m + Len(t))
      /\ \A i \in 1..(m + Len(t)) : c[i] = IF i <= m THEN s[i] ELSE t[i - m]
  BY ConcatProperties
<1> HIDE DEF c, m
<1>2. \A i \in DOMAIN c : (i \in DOMAIN s /\ c[i] = s[i]) \/ (i - m \in DOMAIN t /\ c[i] = t[i - m] /\ i > m)
  BY <1>1
<1>3. \A i \in DOMAIN s : i \in DOMAIN c /\ c[i] = s[i] /\ i <= m
  BY <1>1
<1>4. \A i \in DOMAIN t : i + m \in DOMAIN c /\ c[i + m] = t[i] /\ i + m > m
  <2> SUFFICES ASSUME NEW i \in DOMAIN t
               PROVE  i + m \in DOMAIN c /\ c[i + m] = t[i] /\ i + m > m
    OBVIOUS
  <2>1. i + m \in 1..(m + Len(t)) /\ ~(i + m <= m) /\ (i + m) - m = i
    BY <1>1
  <2> QED
    BY <1>1, <2>1
<1>5. NoAnswer(s) /\ NoAnswer(t) => NoAnswer(c)
  BY <1>2 DEF NoAnswer
<1>6. ASSUME OneAnswer(s, op), NoAnswer(t) PROVE OneAnswer(c, op)
  <2>1. PICK i \in DOMAIN s : s[i].op = op /\ \A j \in DOMAIN s : j # i => s[j].op \notin Answers
    BY <1>6 DEF OneAnswer
  <2>2. i \in DOMAIN c /\ c[i].op = op
    BY <1>3, <2>1
  <2>3. \A j \in DOMAIN c : j # i => c[j].op \notin Answers
    BY <1>2, <1>6, <2>1 DEF NoAnswer
  <2> QED
    BY <2>2, <2>3 DEF OneAnswer
<1>7. ASSUME NoAnswer(s), OneAnswer(t, op) PROVE OneAnswer(c, op)
  <2>1. PICK i \in DOMAIN t : t[i].op = op /\ \A j \in DOMAIN t : j # i => t[j].op \notin Answers
    BY <1>7 DEF OneAnswer
  <2>2. i + m \in DOMAIN c /\ c[i + m].op = op
    BY <1>4, <2>1
  <2>3. \A j \in DOMAIN c : j # i + m => j - m # i
    BY <1>1
  <2>4. \A j \in DOMAIN c : j # i + m => c[j].op \notin Answers
    BY <1>2, <1>7, <2>1, <2>3 DEF NoAnswer
  <2> QED
    BY <2>2, <2>4 DEF OneAnswer
<1> QED
  BY <1>5, <1>6, <1>7 DEF c

LEMMA TailAnswers ==
    ASSUME NEW s \in Seq(S2C), s # <<>>, NEW op
    PROVE  /\ NoAnswer(s) => NoAnswer(Tail(s)) /\ Head(s).op \notin Answers
           /\ OneAnswer(s, op) /\ Head(s).op \notin Answers /\ op \in Answers => OneAnswer(Tail(s), op)
           /\ OneAnswer(s, op) /\ Head(s).op \in Answers => Head(s).op = op /\ NoAnswer(Tail(s))
<1> DEFINE t == Tail(s)
<1>1. /\ Head(s) = s[1] /\ 1 \in DOMAIN s
      /\ \A i \in DOMAIN t : i + 1 \in DOMAIN s /\ t[i] = s[i + 1] /\ i \in Nat /\ i # 0
      /\ \A i \in DOMAIN s : i # 1 => i - 1 \in DOMAIN t /\ t[i - 1] = s[i]
      /\ DOMAIN s \subseteq Nat
  BY TailPlaces
<1> HIDE DEF t
<1>2. NoAnswer(s) => NoAnswer(t) /\ Head(s).op \notin Answers
  BY <1>1 DEF NoAnswer
<1>3. ASSUME OneAnswer(s, op), op \in Answers, Head(s).op \notin Answers PROVE OneAnswer(t, op)
  <2>1. PICK i \in DOMAIN s : s[i].op = op /\ \A j \in DOMAIN s : j # i => s[j].op \notin Answers
    BY <1>3 DEF OneAnswer
  <2>2. i # 1
    BY <1>1, <1>3, <2>1
  <2>3. i - 1 \in DOMAIN t /\ t[i - 1].op = op
    BY <1>1, <2>1, <2>2
  <2>4. ASSUME NEW j \in DOMAIN t, j # i - 1 PROVE t[j].op \notin Answers
    <3>1. j + 1 \in DOMAIN s /\ t[j] = s[j + 1] /\ j \in Nat /\ i \in Nat
      BY <1>1, <2>1
    <3>2. j + 1 # i
      BY <2>4, <3>1
    <3> QED
      BY <2>1, <3>1, <3>2
  <2> QED
    BY <2>3, <2>4 DEF OneAnswer
<1>4. ASSUME OneAnswer(s, op), Head(s).op \in Answers PROVE Head(s).op = op /\ NoAnswer(t)
  <2>1. PICK i \in DOMAIN s : s[i].op = op /\ \A j \in DOMAIN s : j # i => s[j].op \notin Answers
    BY <1>4 DEF OneAnswer
  <2>2. i = 1
    BY <1>1, <1>4, <2>1
  <2>3. ASSUME NEW j \in DOMAIN t PROVE t[j].op \notin Answers
    <3>1. j + 1 \in DOMAIN s /\ t[j] = s[j + 1] /\ j + 1 # 1
      BY <1>1
    <3> QED
      BY <2>1, <2>2, <3>1
  <2> QED
    BY <1>1, <2>1, <2>2, <2>3 DEF NoAnswer
<1> QED
  BY <1>2, <1>3, <1>4 DEF t

-----------------------------------------------------------------------------
(* The queue to the server: what its head may be, what is left behind the  *)
(* head, and what may be added to it.                                      *)
LEMMA HeadIsLawful ==
    ASSUME NEW u, NEW q \in Seq(C2S), q # <<>>, NEW g, NEW k, Lawful(u, q, g, k)
    PROVE  \/ Head(q).op = "LOGIN" /\ g = NoGame /\ k = NoGroup /\ Head(q).game = GameOf[u]
           \/ Head(q).op = "CONNECT" /\ g # NoGame /\ k = NoGroup /\ Head(q).group \in Names
           \/ Head(q).op = "SCAN" /\ g # NoGame /\ k = NoGroup
           \/ Head(q).op = "DISCONNECT" /\ g # NoGame /\ k # NoGroup /\ "Disconnect" \in Calls[u]
           \/ Head(q).op = "CHAT" /\ g # NoGame /\ k # NoGroup /\ "Chat" \in Calls[u]
<1>1. Head(q) = q[1] /\ 1 \in DOMAIN q /\ \A j \in DOMAIN q : ~(j < 1)
  BY TailPlaces
<1>2. LawfulAt(u, q, 1, g, k) /\ (g = NoGame => k = NoGroup)
  BY <1>1 DEF Lawful
<1> QED
  BY <1>1, <1>2 DEF LawfulAt, Admits

LEMMA BehindTheHead ==
    ASSUME NEW u, NEW q \in Seq(C2S), q # <<>>, NEW g, NEW k, Lawful(u, q, g, k)
    PROVE  /\ ~Sends(Tail(q), "LOGIN") /\ ~Sends(Tail(q), "DISCONNECT")
           /\ Head(q).op \notin {"LOGIN", "DISCONNECT"}
                => ~Sends(Tail(q), "CONNECT") /\ ~Sends(Tail(q), "SCAN")
<1>1. /\ Head(q) = q[1] /\ DOMAIN Tail(q) = 1..(Len(q) - 1)
      /\ \A i \in DOMAIN Tail(q) : i + 1 \in DOMAIN q /\ Tail(q)[i] = q[i + 1]
  BY TailPlaces
<1>2. ASSUME NEW i \in DOMAIN Tail(q)
      PROVE  /\ Tail(q)[i].op \notin {"LOGIN", "DISCONNECT"}
             /\ Tail(q)[i].op \in {"CONNECT", "SCAN"} => Head(q).op \in {"LOGIN", "DISCONNECT"}
  <2>1. i + 1 # 1
    BY <1>1
  <2>2. LawfulAt(u, q, i + 1, g, k)
    BY <1>1 DEF Lawful
  <2> QED
    BY <1>1, <2>1, <2>2 DEF LawfulAt, Admits
<1> QED
  BY <1>2 DEF Sends

LEMMA TailIsLawful ==
    ASSUME Considerate, NEW u \in Users, NEW q \in Seq(C2S), q # <<>>, NEW g, NEW k,
           Lawful(u, q, g, k), NEW g2, NEW k2,
           \/ Head(q).op = "LOGIN" /\ g2 = GameOf[u] /\ k2 = k
           \/ Head(q).op = "CONNECT" /\ g2 = g /\ k2 # NoGroup
           \/ Head(q).op = "DISCONNECT" /\ g2 = g /\ k2 = NoGroup
           \/ Head(q).op \in {"SCAN", "CHAT"} /\ g2 = g /\ k2 = k
    PROVE  Lawful(u, Tail(q), g2, k2)
<1> DEFINE t == Tail(q)
<1>1. /\ DOMAIN t = 1..(Len(q) - 1) /\ Head(q) = q[1] /\ 1 \in DOMAIN q /\ DOMAIN q = 1..Len(q)
      /\ \A i \in DOMAIN t : i + 1 \in DOMAIN q /\ t[i] = q[i + 1]
      /\ \A i \in DOMAIN q : i # 1 => i - 1 \in DOMAIN t /\ t[i - 1] = q[i]
      /\ Len(q) \in Nat
  BY TailPlaces
<1>2. GameOf[u] # NoGame
  BY ClientAssumption, ServerAssumption
<1>3. /\ g2 = GameOf[u] /\ g2 # NoGame
      /\ Head(q).op \in {"LOGIN", "DISCONNECT"} => k2 = NoGroup
      /\ Head(q).op \in {"LOGIN", "SCAN"} => k = NoGroup
      /\ Head(q).op \in {"CONNECT", "CHAT"} => k2 # NoGroup
      /\ Head(q).op = "DISCONNECT" => "Chat" \notin Calls[u]
      /\ Head(q).op \in {"LOGIN", "CONNECT", "SCAN", "DISCONNECT", "CHAT"}
  <2>1. g \in {NoGame, GameOf[u]}
    BY DEF Lawful
  <2>2. "Disconnect" \in Calls[u] => "Chat" \notin Calls[u]
    BY DEF Considerate
  <2>3. \/ Head(q).op = "LOGIN" /\ g = NoGame /\ k = NoGroup
        \/ Head(q).op = "CONNECT" /\ g # NoGame /\ k = NoGroup
        \/ Head(q).op = "SCAN" /\ g # NoGame /\ k = NoGroup
        \/ Head(q).op = "DISCONNECT" /\ g # NoGame /\ k # NoGroup /\ "Disconnect" \in Calls[u]
        \/ Head(q).op = "CHAT" /\ g # NoGame /\ k # NoGroup
    BY HeadIsLawful
  <2> DEFINE op == Head(q).op
  <2> HIDE DEF op
  <2> QED
    BY <1>2, <2>1, <2>2, <2>3 DEF op
<1>4. ~Sends(t, "LOGIN") /\ ~Sends(t, "DISCONNECT")
  BY BehindTheHead
<1> HIDE DEF t
<1>5. ASSUME NEW j \in DOMAIN t PROVE LawfulAt(u, t, j, g2, k2)
  <2>1. /\ j + 1 \in DOMAIN q /\ t[j] = q[j + 1] /\ j \in Nat /\ j # 0
        /\ t[j].op \notin {"LOGIN", "DISCONNECT"}
    BY <1>1, <1>4 DEF Sends
  <2>2. LawfulAt(u, q, j + 1, g, k)
    BY <2>1 DEF Lawful
  <2>3. Admits(q, j + 1, g, k) => Admits(t, j, g2, k2)
    BY <1>1, <1>3, <2>1 DEF Admits
  <2>4. ASSUME t[j].op = "CHAT"
        PROVE  k2 # NoGroup \/ \E l \in DOMAIN t : l < j /\ t[l].op = "CONNECT"
    <3>1. CASE Head(q).op \in {"CONNECT", "CHAT"}
      BY <1>3, <3>1
    <3>2. CASE Head(q).op \in {"LOGIN", "SCAN"}
      <4>1. PICK i \in DOMAIN q : i < j + 1 /\ q[i].op = "CONNECT"
        BY <1>3, <2>1, <2>2, <2>4, <3>2 DEF LawfulAt
      <4>2. i # 1
        BY <1>1, <3>2, <4>1
      <4>3. i - 1 \in DOMAIN t /\ t[i - 1].op = "CONNECT" /\ i - 1 < j
        BY <1>1, <2>1, <4>1, <4>2
      <4> QED
        BY <4>3
    <3>3. CASE Head(q).op = "DISCONNECT"
      BY <1>3, <2>1, <2>2, <2>4, <3>3 DEF LawfulAt
    <3> QED
      BY <1>3, <3>1, <3>2, <3>3
  <2>5. \/ q[j + 1].op = "CONNECT" /\ Admits(q, j + 1, g, k) /\ q[j + 1].group \in Names
        \/ q[j + 1].op = "SCAN" /\ Admits(q, j + 1, g, k)
        \/ q[j + 1].op = "CHAT" /\ "Chat" \in Calls[u]
    BY <2>1, <2>2 DEF LawfulAt
  <2>6. \/ t[j].op = "CONNECT" /\ Admits(t, j, g2, k2) /\ t[j].group \in Names
        \/ t[j].op = "SCAN" /\ Admits(t, j, g2, k2)
        \/ t[j].op = "CHAT" /\ "Chat" \in Calls[u]
    BY <2>1, <2>3, <2>5
  <2> QED
    BY <2>4, <2>6 DEF LawfulAt
<1> QED
  BY <1>3, <1>5 DEF Lawful, t

LEMMA AppendIsLawful ==
    ASSUME NEW u, NEW q \in Seq(C2S), NEW p \in C2S, NEW g, NEW k, Lawful(u, q, g, k),
           LawfulAt(u, Append(q, p), Len(q) + 1, g, k)
    PROVE  Lawful(u, Append(q, p), g, k)
<1> DEFINE t == Append(q, p)
<1>1. /\ Len(q) \in Nat /\ DOMAIN q = 1..Len(q)
      /\ \A i \in DOMAIN q : t[i] = q[i] /\ i \in DOMAIN t
      /\ \A i \in DOMAIN t : i = Len(q) + 1 \/ i \in DOMAIN q
      /\ t # <<>>
  BY AppendPlaces
<1>2. LawfulAt(u, t, Len(q) + 1, g, k)
  OBVIOUS
<1> HIDE DEF t
<1>3. ASSUME NEW i \in DOMAIN q PROVE LawfulAt(u, t, i, g, k)
  <2>1. LawfulAt(u, q, i, g, k) /\ t[i] = q[i]
    BY <1>1 DEF Lawful
  <2>2. Admits(q, i, g, k) => Admits(t, i, g, k)
    BY <1>1 DEF Admits
  <2>3. (\E j \in DOMAIN q : j < i /\ q[j].op = "CONNECT")
          => \E j \in DOMAIN t : j < i /\ t[j].op = "CONNECT"
    BY <1>1
  <2> QED
    BY <2>1, <2>2, <2>3 DEF LawfulAt
<1>4. \A i \in DOMAIN t : LawfulAt(u, t, i, g, k)
  BY <1>1, <1>2, <1>3
<1> QED
  BY <1>1, <1>4 DEF Lawful, t

(* Who waits for nothing and is leaving his group, if he is in one, has at *)
(* most the farewell or the login under way.                               *)
LEMMA RoomForEntry ==
    ASSUME Considerate, NEW u \in Users, NEW q \in Seq(C2S), NEW p \in C2S, NEW g, NEW k,
           Lawful(u, q, g, k), ~Sends(q, "CONNECT"), ~Sends(q, "SCAN"),
           k # NoGroup => Sends(q, "DISCONNECT")
    PROVE  Admits(Append(q, p), Len(q) + 1, g, k)
<1>1. /\ Len(q) \in Nat /\ DOMAIN q = 1..Len(q)
      /\ \A i \in DOMAIN q : Append(q, p)[i] = q[i]
  BY AppendPlaces
<1>2. "Disconnect" \in Calls[u] => "Chat" \notin Calls[u]
  BY DEF Considerate
<1>3. ASSUME NEW i \in DOMAIN q PROVE i = 1 /\ q[i].op \in {"LOGIN", "DISCONNECT"}
  <2>1. LawfulAt(u, q, i, g, k) /\ q[i].op \notin {"CONNECT", "SCAN"}
    BY DEF Lawful, Sends
  <2>2. q[i].op # "CHAT"
    <3>1. SUFFICES ASSUME q[i].op = "CHAT" PROVE FALSE
      OBVIOUS
    <3>2. "Chat" \in Calls[u] /\ k # NoGroup
      BY <2>1, <3>1 DEF LawfulAt, Sends
    <3>3. PICK j \in DOMAIN q : q[j].op = "DISCONNECT"
      BY <3>2 DEF Sends
    <3>4. LawfulAt(u, q, j, g, k)
      BY DEF Lawful
    <3> QED
      BY <1>2, <3>2, <3>3, <3>4 DEF LawfulAt
  <2> QED
    BY <2>1, <2>2 DEF LawfulAt
<1>4. CASE q = <<>>
  <2>1. g # NoGame /\ k = NoGroup /\ Len(q) + 1 = 1
    BY <1>4 DEF Lawful, Sends
  <2> QED
    BY <2>1 DEF Admits
<1>5. CASE q # <<>>
  <2>1. Len(q) = 1 /\ 1 \in DOMAIN q
    <3>1. Len(q) # 0
      BY <1>5
    <3>2. Len(q) \in DOMAIN q /\ 1 \in DOMAIN q
      BY <1>1, <3>1
    <3> QED
      BY <1>3, <3>2
  <2> QED
    BY <1>1, <1>3, <2>1 DEF Admits
<1> QED
  BY <1>4, <1>5

-----------------------------------------------------------------------------
(* What the server sends: a newcomer hears the BSSID once, who scans hears *)
(* the end of the list once, and nobody else hears an answer.              *)
SameAnswers(s, t) ==
    /\ NoAnswer(s) => NoAnswer(t)
    /\ \A op \in Answers : OneAnswer(s, op) => OneAnswer(t, op)

LEMMA ConnectPacketsAnswer ==
    ASSUME NEW users \in Seq(Users)
    PROVE  ConnectPackets(users) \in Seq(S2C) /\ NoAnswer(ConnectPackets(users))
<1>1. \A v : ConnectS2C(v).op = "CONNECT"
  BY DEF ConnectS2C
<1>2. \A i \in DOMAIN users : ConnectPackets(users)[i].op = "CONNECT"
  BY <1>1 DEF ConnectPackets
<1>3. DOMAIN ConnectPackets(users) = DOMAIN users
  BY DEF ConnectPackets
<1> QED
  BY <1>2, <1>3, PacketsOfUsers DEF NoAnswer, Answers

LEMMA OneAnswered ==
    ASSUME NEW p \in S2C, NEW op, p.op = op
    PROVE  <<p>> \in Seq(S2C) /\ OneAnswer(<<p>>, op) /\ (op \notin Answers => NoAnswer(<<p>>))
<1>1. <<p>> \in Seq(S2C) /\ DOMAIN <<p>> = {1} /\ <<p>>[1] = p
  OBVIOUS
<1> DEFINE s == <<p>>
<1>2. DOMAIN s = {1} /\ s[1] = p
  BY <1>1
<1> HIDE DEF s
<1>3. OneAnswer(s, op) /\ (op \notin Answers => NoAnswer(s))
  BY <1>2 DEF OneAnswer, NoAnswer
<1> QED
  BY <1>1, <1>3 DEF s

LEMMA JoinAnswers ==
    ASSUME GroupInv, NEW u \in Users, NEW k \in Groups, NEW v \in Users
    PROVE  IF v = u THEN OneAnswer(JoinPackets(u, k, v), "CONNECT_BSSID")
                    ELSE NoAnswer(JoinPackets(u, k, v))
<1> DEFINE first == IF player[k] = <<>> THEN u ELSE Founder(k)
<1>1. first \in Users
  BY FounderIsUser
<1> HIDE DEF first
<1>2. BssidS2C(MacOf[first]) \in S2C /\ ConnectS2C(u) \in S2C
  BY <1>1, WireAssumption DEF S2C
<1>3. player[k] \in Seq(Users)
  BY DEF GroupInv, GroupTypes
<1>4. ConnectPackets(player[k]) \in Seq(S2C) /\ NoAnswer(ConnectPackets(player[k]))
  BY <1>3, ConnectPacketsAnswer
<1>5. BssidS2C(MacOf[first]).op = "CONNECT_BSSID" /\ ConnectS2C(u).op = "CONNECT"
  BY DEF BssidS2C, ConnectS2C
<1>6. /\ <<BssidS2C(MacOf[first])>> \in Seq(S2C)
      /\ OneAnswer(<<BssidS2C(MacOf[first])>>, "CONNECT_BSSID")
  BY <1>2, <1>5, OneAnswered
<1>7. OneAnswer(ConnectPackets(player[k]) \o <<BssidS2C(MacOf[first])>>, "CONNECT_BSSID")
  BY <1>4, <1>6, ConcatAnswers
<1>8. NoAnswer(<<ConnectS2C(u)>>)
  BY <1>2, <1>5, OneAnswered DEF Answers
<1>9. NoAnswer(<<>>)
  BY DEF NoAnswer
<1>10. JoinPackets(u, k, v) = IF v = u THEN ConnectPackets(player[k]) \o <<BssidS2C(MacOf[first])>>
                              ELSE IF Contains(player[k], v) THEN <<ConnectS2C(u)>> ELSE <<>>
  BY DEF JoinPackets, first
<1> QED
  BY <1>7, <1>8, <1>9, <1>10

LEMMA LeaveAnswers ==
    ASSUME GroupInv, NEW u \in Users, group[u] # NoGroup, NEW v \in Users
    PROVE  NoAnswer(LeavePackets(u, v))
<1> DEFINE old == player[group[u]]
           rest == RemoveFirst(old, u)
           places == {i \in Behind(rest, IpOf[u]) : rest[i] # v}
           purge == [i \in 1..Cardinality(Behind(old, IpOf[u])) |-> DisconnectS2C(IpOf[u])]
           back == ConnectPackets(Picked(rest, places))
<1>1. /\ old \in Seq(Users) /\ IsInjective(old) /\ u \in ToSet(old)
  BY OwnGroup DEF GroupInv, GroupTypes, GroupListsExact
<1>2. rest \in Seq(Users)
  BY <1>1, RemoveFirstFacts
<1> HIDE DEF old, rest
<1>3. places \in SUBSET DOMAIN rest /\ Behind(old, IpOf[u]) \in SUBSET DOMAIN old
  BY DEF Behind
<1>4. Picked(rest, places) \in Seq(Users)
  BY <1>2, <1>3, PickedFacts
<1>5. back \in Seq(S2C) /\ NoAnswer(back)
  BY <1>4, ConnectPacketsAnswer
<1>6. Cardinality(Behind(old, IpOf[u])) \in Nat
  BY <1>1, <1>3, PickedFacts
<1>7. DisconnectS2C(IpOf[u]) \in S2C /\ DisconnectS2C(IpOf[u]).op = "DISCONNECT"
  BY WireAssumption DEF S2C, DisconnectS2C
<1>8. purge \in Seq(S2C)
  BY <1>6, <1>7
<1>9. NoAnswer(purge)
  BY <1>7 DEF NoAnswer, Answers
<1>10. LeavePackets(u, v) = IF Contains(rest, v) THEN purge \o back ELSE <<>>
  BY DEF LeavePackets, old, rest
<1> HIDE DEF purge, back
<1>11. NoAnswer(purge \o back)
  BY <1>5, <1>8, <1>9, ConcatAnswers
<1>12. NoAnswer(<<>>)
  BY DEF NoAnswer
<1> QED
  BY <1>10, <1>11, <1>12

LEMMA ScanAnswers ==
    ASSUME GroupInv, NEW g \in Games
    PROVE  OneAnswer(ScanPackets(g), "SCAN_COMPLETE")
<1> DEFINE list == groupList[g]
           n == Len(list)
           found == [i \in DOMAIN list |-> ScanS2C(list[i], MacOf[Founder(<<g, list[i]>>)])]
           all == ScanPackets(g)
<1>1. n \in Nat /\ DOMAIN list = 1..n
  BY DEF GroupInv, GroupTypes
<1>2. \A i \in DOMAIN found : found[i].op = "SCAN"
  BY DEF ScanS2C
<1>3. DOMAIN found = 1..n /\ Len(found) = n
  BY <1>1
<1>4. ScanPackets(g) = found \o <<ScanCompleteS2C>>
  BY DEF ScanPackets
<1> HIDE DEF found, n
<1>5. /\ DOMAIN all = 1..(n + 1) /\ all[n + 1] = ScanCompleteS2C
      /\ \A i \in 1..n : all[i] = found[i]
  BY <1>1, <1>3, <1>4
<1> HIDE DEF all
<1>6. n + 1 \in DOMAIN all /\ all[n + 1].op = "SCAN_COMPLETE"
  BY <1>1, <1>5 DEF ScanCompleteS2C
<1>7. \A i \in DOMAIN all : i # n + 1 => all[i].op \notin Answers
  BY <1>1, <1>2, <1>3, <1>5 DEF Answers
<1> QED
  BY <1>6, <1>7 DEF OneAnswer, all

LEMMA QuietPackets ==
    ASSUME NEW s \in Seq(S2C), NEW t \in Seq(S2C), NoAnswer(t)
    PROVE  SameAnswers(s, s \o t)
  BY ConcatAnswers DEF SameAnswers

-----------------------------------------------------------------------------
(* A connection is not disturbed by what happens elsewhere: the same       *)
(* library but for its lists, the same queue to the server, and nothing    *)
(* that answers in the other.                                              *)
SameLibrary(u) ==
    /\ lib'[u].init = lib[u].init /\ lib'[u].status = lib[u].status /\ lib'[u].name = lib[u].name
    /\ lib'[u].discPending = lib[u].discPending /\ lib'[u].discThread = lib[u].discThread
    /\ lib'[u].connected = lib[u].connected /\ lib'[u].outbox = lib[u].outbox
    /\ lib'[u].chat = lib[u].chat

LEMMA SoundStable ==
    ASSUME NEW u \in Users, Sound(u), SameLibrary(u), app'[u] = app[u],
           c2s'[u] = c2s[u], cliEnd'[u] = cliEnd[u], srvEnd'[u] = srvEnd[u],
           game'[u] = game[u], group'[u] = group[u], SameAnswers(s2c[u], s2c'[u])
    PROVE  Sound(u)'
<1>1. Library(u)'
  BY DEF Sound, SameLibrary, Library, Running, Terminating, Ended, Off
<1>2. Line(u)'
  BY DEF Sound, Line, Served
<1>3. SUFFICES ASSUME cliEnd[u] = "open" PROVE Phase(u)' /\ Chats(u)'
  BY <1>1, <1>2 DEF Sound
<1>4. Chats(u)'
  BY <1>3 DEF Sound, Chats, SameLibrary, Served
<1>5. Phase(u)
  BY <1>3 DEF Sound
<1>6. /\ NoAnswer(s2c[u]) => NoAnswer(s2c'[u])
      /\ OneAnswer(s2c[u], "CONNECT_BSSID") => OneAnswer(s2c'[u], "CONNECT_BSSID")
      /\ OneAnswer(s2c[u], "SCAN_COMPLETE") => OneAnswer(s2c'[u], "SCAN_COMPLETE")
  BY DEF SameAnswers, Answers
<1>7. /\ Joins(u) => Joins(u)'
      /\ Scans(u) => Scans(u)'
      /\ Stays(u) => Stays(u)'
      /\ Apart(u) => Apart(u)'
      /\ Served(u)' <=> Served(u)
      /\ Creating(u)' <=> Creating(u)
      /\ Scanning(u)' <=> Scanning(u)
  BY <1>6 DEF Joins, Scans, Listing, Stays, Apart, InGroup, SameLibrary, Served, Creating, Scanning
<1>8. Phase(u)'
  BY <1>5, <1>6, <1>7 DEF Phase, SameLibrary
<1> QED
  BY <1>4, <1>8

-----------------------------------------------------------------------------
(* The client keeps its types.                                             *)
LEMMA LibrarySet ==
    ASSUME ClientTypeOK, NEW u \in Users, NEW r \in LibState, lib' = [lib EXCEPT ![u] = r],
           app' \in [Users -> AppState]
    PROVE  ClientTypeOK'
  BY DEF ClientTypeOK

LEMMA NotifyTyped ==
    ASSUME ClientTypeOK, NEW u \in Users, NEW event, Notify(u, event)
    PROVE  /\ app' \in [Users -> AppState]
           /\ \A v \in Users : app'[v].pc = app[v].pc /\ app'[v].arg = app[v].arg
<1> DEFINE r == [app[u] EXCEPT !.answered = TRUE]
<1>1. app \in [Users -> AppState] /\ app[u] \in AppState
  BY DEF ClientTypeOK
<1>2. r \in AppState /\ r.pc = app[u].pc /\ r.arg = app[u].arg
  BY <1>1 DEF AppState
<1>3. app' = [app EXCEPT ![u] = r] \/ app' = app
  BY <1>1 DEF Notify
<1> HIDE DEF r
<1> QED
  BY <1>1, <1>2, <1>3

LEMMA SendTyped ==
    ASSUME WireTypeOK, NEW u \in Users, NEW p \in C2S, WireSend(u, p),
           UNCHANGED <<s2c, cliEnd, srvEnd>>
    PROVE  WireTypeOK'
<1>1. Append(c2s[u], p) \in Seq(C2S)
  BY DEF WireTypeOK
<1> QED
  BY <1>1 DEF WireTypeOK, WireSend

LEMMA ReceiveTyped ==
    ASSUME WireTypeOK, NEW u \in Users, NEW op, Receive(u, op)
    PROVE  WireTypeOK' /\ Head(s2c[u]) \in S2C
<1>1. s2c[u] \in Seq(S2C) /\ s2c[u] # <<>>
  BY DEF WireTypeOK, Receive
<1>2. Tail(s2c[u]) \in Seq(S2C) /\ Head(s2c[u]) \in S2C
  BY <1>1
<1> QED
  BY <1>2 DEF WireTypeOK, Receive

LEMMA AddFriendTyped ==
    ASSUME NEW friends \in Seq(Peers), NEW peer \in Peers
    PROVE  AddFriend(friends, peer) \in Seq(Peers)
<1> DEFINE I == {i \in 1..Len(friends) : friends[i].mac = peer.mac}
           i == Min(I)
<1>1. DOMAIN friends = 1..Len(friends) /\ I \in SUBSET Nat
  OBVIOUS
<1>2. I # {} => i \in I
  BY <1>1, MinIn
<1>3. I # {} => i \in DOMAIN friends
  BY <1>1, <1>2
<1>4. AddFriend(friends, peer) = IF I # {} THEN [friends EXCEPT ![i] = peer]
                                 ELSE Cons(peer, friends)
  BY <1>1 DEF AddFriend, SelectInSeq
<1> HIDE DEF i
<1>5. i \in DOMAIN friends => [friends EXCEPT ![i] = peer] \in Seq(Peers)
  OBVIOUS
<1>6. Cons(peer, friends) \in Seq(Peers)
  BY DEF Cons
<1> HIDE DEF I
<1> QED
  BY <1>3, <1>4, <1>5, <1>6

LEMMA DeleteFriendTyped ==
    ASSUME NEW friends \in Seq(Peers), NEW ip
    PROVE  DeleteFriendByIP(friends, ip) \in Seq(Peers)
<1> DEFINE I == {i \in 1..Len(friends) : friends[i].ip = ip}
           i == Min(I)
<1>1. DOMAIN friends = 1..Len(friends) /\ I \in SUBSET Nat
  OBVIOUS
<1>2. I # {} => i \in I
  BY <1>1, MinIn
<1>3. I # {} => i \in DOMAIN friends
  BY <1>1, <1>2
<1>4. DeleteFriendByIP(friends, ip) = IF I # {} THEN RemoveAt(friends, i) ELSE friends
  BY <1>1 DEF DeleteFriendByIP, SelectInSeq
<1> HIDE DEF i
<1>5. i \in DOMAIN friends => RemoveAt(friends, i) \in Seq(Peers)
  BY RemoveAtFacts
<1> HIDE DEF I
<1> QED
  BY <1>3, <1>4, <1>5

(* What the threads of a library may do, whether or not the game calls it. *)
GameActs(u) ==
    \/ InitLibrary(u) \/ (\E name \in Names : CreateCalled(u, name)) \/ CreateSends(u)
    \/ Scan(u) \/ DisconnectCalled(u) \/ DisconnectReturns(u) \/ TermCalled(u) \/ TermReturns(u)

LibraryActs(u) == GameActs(u) \/ PlayerStep(u) \/ DiscStep(u) \/ FinderStep(u)

LEMMA ClientActs ==
    ASSUME NEW u, ClientStep(u)
    PROVE  LibraryActs(u) /\ UNCHANGED serverVars
  BY DEF ClientStep, GameStep, LibraryActs, GameActs

LEMMA GameKeepsTypes ==
    ASSUME NetTypes, NEW u \in Users, GameActs(u)
    PROVE  NetTypes'
<1> USE ClientAssumption DEF NetTypes
<1>0. /\ lib[u] \in LibState /\ 0 \in 0..OutboxSize /\ NoName \in Names \cup {NoName}
      /\ <<>> \in Seq(Peers) /\ <<>> \in Seq(Networks)
      /\ lib[u].newnetworks \in Seq(Networks)
  BY DEF ClientTypeOK, LibState
<1>1. CASE InitLibrary(u)
  <2> DEFINE r == [lib[u] EXCEPT !.init = 1, !.name = NoName]
  <2>1. <<LoginC2S(GameOf[u])>> \in Seq(C2S) /\ <<>> \in Seq(S2C)
    <3>1. LoginC2S(GameOf[u]) \in C2S
      BY DEF C2S
    <3> QED
      BY <3>1
  <2>2. r \in LibState
    <3>1. ASSUME NEW i \in {0, 1, -1}, NEW n \in Names \cup {NoName}
          PROVE  [lib[u] EXCEPT !.init = i, !.name = n] \in LibState
      BY <1>0 DEF LibState
    <3> QED
      BY <1>0, <2>1, <3>1
  <2>3. lib' = [lib EXCEPT ![u] = r]
    BY <1>1 DEF InitLibrary, ClientTypeOK
  <2>4. app' \in [Users -> AppState] /\ \A v \in Users : app'[v].pc = "create" => app'[v].arg \in Names
    BY <1>1 DEF InitLibrary, ClientTypeOK, AppState
  <2>5. WireTypeOK'
    BY <1>1, <2>1 DEF InitLibrary, WireConnect, WireTypeOK
  <2> HIDE DEF r
  <2> QED
    BY <2>2, <2>3, <2>4, <2>5, LibrarySet
<1>2. ASSUME NEW name \in Names, CreateCalled(u, name) PROVE NetTypes'
  <2>1. WireTypeOK' /\ lib' \in [Users -> LibState]
    BY <1>2 DEF CreateCalled, ClientTypeOK, wireVars, WireTypeOK
  <2>2. app' \in [Users -> AppState] /\ \A v \in Users : app'[v].pc = "create" => app'[v].arg \in Names
    BY <1>2 DEF CreateCalled, ClientTypeOK, AppState
  <2> QED
    BY <2>1, <2>2 DEF ClientTypeOK
<1>3. CASE CreateSends(u)
  <2> DEFINE r == [lib[u] EXCEPT !.name = app[u].arg, !.connected = 1]
  <2>1. app[u].arg \in Names
    BY <1>3 DEF CreateSends
  <2>2. ConnectC2S(app[u].arg) \in C2S
    BY <2>1 DEF C2S
  <2>3. r \in LibState
    <3>1. ASSUME NEW n \in Names \cup {NoName}, NEW c \in {0, 1}
          PROVE  [lib[u] EXCEPT !.name = n, !.connected = c] \in LibState
      BY <1>0 DEF LibState
    <3> QED
      BY <1>0, <2>1, <2>2, <3>1
  <2>4. lib' = [lib EXCEPT ![u] = r]
    BY <1>3 DEF CreateSends, ClientTypeOK
  <2>5. app' \in [Users -> AppState] /\ \A v \in Users : app'[v].pc = "create" => app'[v].arg \in Names
    BY <1>3 DEF CreateSends, ClientTypeOK, AppState
  <2>6. WireTypeOK'
    BY <1>3, <2>2, SendTyped DEF CreateSends
  <2> HIDE DEF r
  <2> QED
    BY <2>3, <2>4, <2>5, <2>6, LibrarySet
<1>4. CASE Scan(u)
  <2> DEFINE r == [lib[u] EXCEPT !.status = "SCANNING"]
  <2>1. BareC2S("SCAN") \in C2S
    BY DEF C2S, BareOps
  <2>2. r \in LibState
    <3>1. ASSUME NEW s \in {"DISCONNECTED", "CONNECTED", "SCANNING"}
          PROVE  [lib[u] EXCEPT !.status = s] \in LibState
      BY <1>0 DEF LibState
    <3> QED
      BY <1>0, <2>1, <3>1
  <2>3. lib' = [lib EXCEPT ![u] = r]
    BY <1>4 DEF Scan, ClientTypeOK
  <2>4. app' \in [Users -> AppState] /\ \A v \in Users : app'[v].pc = "create" => app'[v].arg \in Names
    BY <1>4 DEF Scan, ClientTypeOK, AppState
  <2>5. WireTypeOK'
    BY <1>4, <2>1, SendTyped DEF Scan
  <2> HIDE DEF r
  <2> QED
    BY <2>2, <2>3, <2>4, <2>5, LibrarySet
<1>5. CASE DisconnectCalled(u)
  <2> DEFINE r == [lib[u] EXCEPT !.discThread = "start"]
  <2>1. r \in LibState
    <3>1. ASSUME NEW d \in {"none", "start", "grace", "sent"}
          PROVE  [lib[u] EXCEPT !.discThread = d] \in LibState
      BY <1>0 DEF LibState
    <3> QED
      BY <1>0, <3>1
  <2>2. lib' = [lib EXCEPT ![u] = r]
    BY <1>5 DEF DisconnectCalled, ClientTypeOK
  <2>3. app' \in [Users -> AppState] /\ \A v \in Users : app'[v].pc = "create" => app'[v].arg \in Names
    BY <1>5 DEF DisconnectCalled, ClientTypeOK, AppState
  <2>4. WireTypeOK'
    BY <1>5 DEF DisconnectCalled, wireVars, WireTypeOK
  <2> HIDE DEF r
  <2> QED
    BY <2>1, <2>2, <2>3, <2>4, LibrarySet
<1>6. CASE DisconnectReturns(u)
  <2> DEFINE r == [lib[u] EXCEPT !.discPending = TRUE]
  <2>1. r \in LibState
    <3>1. ASSUME NEW p \in BOOLEAN
          PROVE  [lib[u] EXCEPT !.discPending = p] \in LibState
      BY <1>0 DEF LibState
    <3> QED
      BY <1>0, <3>1
  <2>2. lib' = [lib EXCEPT ![u] = r]
    BY <1>6 DEF DisconnectReturns, ClientTypeOK
  <2>3. app' \in [Users -> AppState] /\ \A v \in Users : app'[v].pc = "create" => app'[v].arg \in Names
    BY <1>6 DEF DisconnectReturns, ClientTypeOK, AppState
  <2>4. WireTypeOK'
    BY <1>6 DEF DisconnectReturns, wireVars, WireTypeOK
  <2> HIDE DEF r
  <2> QED
    BY <2>1, <2>2, <2>3, <2>4, LibrarySet
<1>7. CASE TermCalled(u)
  <2> DEFINE r == [lib[u] EXCEPT !.init = 0, !.connected = 0, !.outbox = 0]
  <2>1. r \in LibState
    <3>1. ASSUME NEW i \in {0, 1, -1}, NEW c \in {0, 1}, NEW o \in 0..OutboxSize
          PROVE  [lib[u] EXCEPT !.init = i, !.connected = c, !.outbox = o] \in LibState
      BY <1>0 DEF LibState
    <3> QED
      BY <1>0, <3>1
  <2>2. lib' = [lib EXCEPT ![u] = r]
    BY <1>7 DEF TermCalled, ClientTypeOK
  <2>3. app' \in [Users -> AppState] /\ \A v \in Users : app'[v].pc = "create" => app'[v].arg \in Names
    BY <1>7 DEF TermCalled, ClientTypeOK, AppState
  <2>4. WireTypeOK'
    BY <1>7 DEF TermCalled, wireVars, WireTypeOK
  <2> HIDE DEF r
  <2> QED
    BY <2>1, <2>2, <2>3, <2>4, LibrarySet
<1>8. CASE TermReturns(u)
  <2> DEFINE r == [lib[u] EXCEPT !.init = 0, !.friends = <<>>, !.networks = <<>>,
                                  !.newnetworks = <<>>, !.discPending = FALSE]
  <2>1. <<>> \in Seq(S2C)
    OBVIOUS
  <2>2. r \in LibState
    <3>1. ASSUME NEW i \in {0, 1, -1}, NEW f \in Seq(Peers), NEW w \in Seq(Networks),
                 NEW x \in Seq(Networks), NEW p \in BOOLEAN
          PROVE  [lib[u] EXCEPT !.init = i, !.friends = f, !.networks = w,
                                    !.newnetworks = x, !.discPending = p] \in LibState
      BY <1>0 DEF LibState
    <3> QED
      BY <1>0, <2>1, <3>1
  <2>3. lib' = [lib EXCEPT ![u] = r]
    BY <1>8 DEF TermReturns, ClientTypeOK
  <2>4. app' \in [Users -> AppState] /\ \A v \in Users : app'[v].pc = "create" => app'[v].arg \in Names
    BY <1>8 DEF TermReturns, ClientTypeOK, AppState
  <2>5. WireTypeOK'
    BY <1>8, <2>1 DEF TermReturns, WireClose, WireTypeOK
  <2> HIDE DEF r
  <2> QED
    BY <2>2, <2>3, <2>4, <2>5, LibrarySet
<1> QED
  BY <1>1, <1>2, <1>3, <1>4, <1>5, <1>6, <1>7, <1>8 DEF GameActs

LEMMA PlayerKeepsTypes ==
    ASSUME NetTypes, NEW u \in Users, PlayerStep(u) \/ DiscStep(u)
    PROVE  NetTypes'
<1> USE ClientAssumption DEF NetTypes
<1>0. /\ lib[u] \in LibState /\ 0 \in 0..OutboxSize /\ NoName \in Names \cup {NoName}
      /\ <<>> \in Seq(Peers) /\ <<>> \in Seq(Networks)
      /\ lib[u].newnetworks \in Seq(Networks)
  BY DEF ClientTypeOK, LibState
<1>1. CASE TypeMessage(u)
  <2> DEFINE r == [lib[u] EXCEPT !.outbox = @ + 1]
  <2>1. lib[u].outbox + 1 \in 0..OutboxSize
    BY <1>1 DEF TypeMessage, ClientTypeOK, LibState
  <2>2. r \in LibState
    <3>1. ASSUME NEW o \in 0..OutboxSize
          PROVE  [lib[u] EXCEPT !.outbox = o] \in LibState
      BY <1>0 DEF LibState
    <3> QED
      BY <1>0, <2>1, <3>1
  <2>3. lib' = [lib EXCEPT ![u] = r]
    BY <1>1 DEF TypeMessage, ClientTypeOK
  <2>4. app' \in [Users -> AppState] /\ \A v \in Users : app'[v].pc = "create" => app'[v].arg \in Names
    BY <1>1 DEF TypeMessage, ClientTypeOK, AppState
  <2>5. WireTypeOK'
    BY <1>1 DEF TypeMessage, wireVars, WireTypeOK
  <2> HIDE DEF r
  <2> QED
    BY <2>2, <2>3, <2>4, <2>5, LibrarySet
<1>2. CASE PowerOff(u)
  <2>1. <<>> \in Seq(S2C)
    OBVIOUS
  <2>2. WireTypeOK'
    BY <1>2, <2>1 DEF PowerOff, WireClose, WireTypeOK
  <2>3. FreshLib \in LibState /\ FreshApp \in AppState
    BY <1>0 DEF FreshLib, LibState, FreshApp, AppState
  <2>4. app' \in [Users -> AppState] /\ \A v \in Users : app'[v].pc = "create" => app'[v].arg \in Names
    BY <1>2, <2>3 DEF PowerOff, ClientTypeOK, FreshApp
  <2> QED
    BY <1>2, <2>2, <2>3, <2>4, LibrarySet DEF PowerOff
<1>3. CASE DiscStarts(u) /\ lib[u].status = "CONNECTED"
  <2> DEFINE r == [lib[u] EXCEPT !.discThread = "grace", !.status = "DISCONNECTED", !.name = NoName,
                                  !.connected = 0, !.outbox = 0]
  <2>1. r \in LibState
    <3>1. ASSUME NEW d \in {"none", "start", "grace", "sent"},
                 NEW s \in {"DISCONNECTED", "CONNECTED", "SCANNING"},
                 NEW n \in Names \cup {NoName}, NEW c \in {0, 1}, NEW o \in 0..OutboxSize
          PROVE  [lib[u] EXCEPT !.discThread = d, !.status = s, !.name = n,
                                    !.connected = c, !.outbox = o] \in LibState
      BY <1>0 DEF LibState
    <3> QED
      BY <1>0, <3>1
  <2>2. lib' = [lib EXCEPT ![u] = r]
    BY <1>3 DEF DiscStarts, ClientTypeOK
  <2>3. app' \in [Users -> AppState] /\ \A v \in Users : app'[v].pc = "create" => app'[v].arg \in Names
    BY <1>3 DEF DiscStarts, ClientTypeOK, AppState
  <2>4. WireTypeOK'
    BY <1>3 DEF DiscStarts, wireVars, WireTypeOK
  <2> HIDE DEF r
  <2> QED
    BY <2>1, <2>2, <2>3, <2>4, LibrarySet
<1>4. CASE DiscStarts(u) /\ lib[u].status # "CONNECTED"
  <2> DEFINE r == [lib[u] EXCEPT !.discThread = "none"]
  <2>1. r \in LibState
    <3>1. ASSUME NEW d \in {"none", "start", "grace", "sent"}
          PROVE  [lib[u] EXCEPT !.discThread = d] \in LibState
      BY <1>0 DEF LibState
    <3> QED
      BY <1>0, <3>1
  <2>2. lib' = [lib EXCEPT ![u] = r]
    BY <1>4 DEF DiscStarts, ClientTypeOK
  <2>3. app' \in [Users -> AppState] /\ \A v \in Users : app'[v].pc = "create" => app'[v].arg \in Names
    BY <1>4 DEF DiscStarts, ClientTypeOK, AppState
  <2>4. WireTypeOK'
    BY <1>4 DEF DiscStarts, wireVars, WireTypeOK
  <2> HIDE DEF r
  <2> QED
    BY <2>1, <2>2, <2>3, <2>4, LibrarySet
<1>5. CASE DiscSends(u)
  <2> DEFINE r == [lib[u] EXCEPT !.discThread = "sent"]
  <2>1. BareC2S("DISCONNECT") \in C2S
    BY DEF C2S, BareOps
  <2>2. r \in LibState
    <3>1. ASSUME NEW d \in {"none", "start", "grace", "sent"}
          PROVE  [lib[u] EXCEPT !.discThread = d] \in LibState
      BY <1>0 DEF LibState
    <3> QED
      BY <1>0, <2>1, <3>1
  <2>3. lib' = [lib EXCEPT ![u] = r]
    BY <1>5 DEF DiscSends, ClientTypeOK
  <2>4. app' \in [Users -> AppState] /\ \A v \in Users : app'[v].pc = "create" => app'[v].arg \in Names
    BY <1>5 DEF DiscSends, ClientTypeOK, AppState
  <2>5. WireTypeOK'
    BY <1>5, <2>1, SendTyped DEF DiscSends
  <2> HIDE DEF r
  <2> QED
    BY <2>2, <2>3, <2>4, <2>5, LibrarySet
<1>6. CASE DiscEnds(u)
  <2> DEFINE r == [lib[u] EXCEPT !.discThread = "none", !.friends = <<>>]
  <2>1. r \in LibState
    <3>1. ASSUME NEW d \in {"none", "start", "grace", "sent"}, NEW f \in Seq(Peers)
          PROVE  [lib[u] EXCEPT !.discThread = d, !.friends = f] \in LibState
      BY <1>0 DEF LibState
    <3> QED
      BY <1>0, <3>1
  <2>2. lib' = [lib EXCEPT ![u] = r]
    BY <1>6 DEF DiscEnds, ClientTypeOK
  <2>3. app' \in [Users -> AppState] /\ \A v \in Users : app'[v].pc = "create" => app'[v].arg \in Names
    BY <1>6 DEF DiscEnds, ClientTypeOK, AppState
  <2>4. WireTypeOK'
    BY <1>6 DEF DiscEnds, wireVars, WireTypeOK
  <2> HIDE DEF r
  <2> QED
    BY <2>1, <2>2, <2>3, <2>4, LibrarySet
<1> QED
  BY <1>1, <1>2, <1>3, <1>4, <1>5, <1>6 DEF PlayerStep, DiscStep

LEMMA FinderKeepsTypes ==
    ASSUME NetTypes, NEW u \in Users, FinderStep(u)
    PROVE  NetTypes'
<1> USE ClientAssumption DEF NetTypes
<1>0. /\ lib[u] \in LibState /\ 0 \in 0..OutboxSize /\ NoName \in Names \cup {NoName}
      /\ <<>> \in Seq(Peers) /\ <<>> \in Seq(Networks)
      /\ lib[u].newnetworks \in Seq(Networks)
  BY DEF ClientTypeOK, LibState
<1>1. CASE PopMessage(u)
  <2> DEFINE r == [lib[u] EXCEPT !.outbox = @ - 1, !.chat = TRUE]
  <2>1. lib[u].outbox - 1 \in 0..OutboxSize
    BY <1>1 DEF PopMessage, ClientTypeOK, LibState
  <2>2. r \in LibState
    <3>1. ASSUME NEW o \in 0..OutboxSize, NEW h \in BOOLEAN
          PROVE  [lib[u] EXCEPT !.outbox = o, !.chat = h] \in LibState
      BY <1>0 DEF LibState
    <3> QED
      BY <1>0, <2>1, <3>1
  <2>3. lib' = [lib EXCEPT ![u] = r]
    BY <1>1 DEF PopMessage, ClientTypeOK
  <2>4. app' \in [Users -> AppState] /\ \A v \in Users : app'[v].pc = "create" => app'[v].arg \in Names
    BY <1>1 DEF PopMessage, ClientTypeOK, AppState
  <2>5. WireTypeOK'
    BY <1>1 DEF PopMessage, wireVars, WireTypeOK
  <2> HIDE DEF r
  <2> QED
    BY <2>2, <2>3, <2>4, <2>5, LibrarySet
<1>2. CASE SendMessage(u)
  <2> DEFINE r == [lib[u] EXCEPT !.chat = FALSE]
  <2>1. BareC2S("CHAT") \in C2S
    BY DEF C2S, BareOps
  <2>2. r \in LibState
    <3>1. ASSUME NEW h \in BOOLEAN
          PROVE  [lib[u] EXCEPT !.chat = h] \in LibState
      BY <1>0 DEF LibState
    <3> QED
      BY <1>0, <2>1, <3>1
  <2>3. lib' = [lib EXCEPT ![u] = r]
    BY <1>2 DEF SendMessage, ClientTypeOK
  <2>4. app' \in [Users -> AppState] /\ \A v \in Users : app'[v].pc = "create" => app'[v].arg \in Names
    BY <1>2 DEF SendMessage, ClientTypeOK, AppState
  <2>5. WireTypeOK'
    BY <1>2, <2>1, SendTyped DEF SendMessage
  <2> HIDE DEF r
  <2> QED
    BY <2>2, <2>3, <2>4, <2>5, LibrarySet
<1>3. CASE NotifyDisconnect(u)
  <2> DEFINE r == [lib[u] EXCEPT !.discPending = FALSE]
  <2>1. r \in LibState
    <3>1. ASSUME NEW p \in BOOLEAN
          PROVE  [lib[u] EXCEPT !.discPending = p] \in LibState
      BY <1>0 DEF LibState
    <3> QED
      BY <1>0, <3>1
  <2>2. lib' = [lib EXCEPT ![u] = r]
    BY <1>3 DEF NotifyDisconnect, ClientTypeOK
  <2>3. app' \in [Users -> AppState] /\ \A v \in Users : app'[v].pc = "create" => app'[v].arg \in Names
    BY <1>3, NotifyTyped DEF NotifyDisconnect
  <2>4. WireTypeOK'
    BY <1>3 DEF NotifyDisconnect, wireVars, WireTypeOK
  <2> HIDE DEF r
  <2> QED
    BY <2>1, <2>2, <2>3, <2>4, LibrarySet
<1>4. CASE ReceiveBssid(u)
  <2> DEFINE r == [lib[u] EXCEPT !.status = "CONNECTED"]
  <2>1. r \in LibState
    <3>1. ASSUME NEW s \in {"DISCONNECTED", "CONNECTED", "SCANNING"}
          PROVE  [lib[u] EXCEPT !.status = s] \in LibState
      BY <1>0 DEF LibState
    <3> QED
      BY <1>0, <3>1
  <2>2. lib' = [lib EXCEPT ![u] = r]
    BY <1>4 DEF ReceiveBssid, ClientTypeOK
  <2>3. app' \in [Users -> AppState] /\ \A v \in Users : app'[v].pc = "create" => app'[v].arg \in Names
    BY <1>4, NotifyTyped DEF ReceiveBssid
  <2>4. WireTypeOK'
    BY <1>4, ReceiveTyped DEF ReceiveBssid
  <2> HIDE DEF r
  <2> QED
    BY <2>1, <2>2, <2>3, <2>4, LibrarySet
<1>5. CASE ReceiveChat(u)
  <2>1. WireTypeOK'
    BY <1>5, ReceiveTyped DEF ReceiveChat
  <2> QED
    BY <1>5, <2>1 DEF ReceiveChat, clientVars, ClientTypeOK
<1>6. CASE ReceiveConnect(u)
  <2> DEFINE peer == [mac |-> Head(s2c[u]).mac, ip |-> Head(s2c[u]).ip]
             friends == AddFriend(lib[u].friends, peer)
  <2>1. WireTypeOK' /\ Head(s2c[u]) \in S2C /\ Head(s2c[u]).op = "CONNECT"
    BY <1>6, ReceiveTyped DEF ReceiveConnect, Receive
  <2>2. peer \in Peers
    BY <2>1, WireAssumption
    DEF S2C, ConnectS2C, DisconnectS2C, ScanS2C, BssidS2C, ScanCompleteS2C, ChatS2C, Peers
  <2> HIDE DEF peer
  <2>3. lib[u].friends \in Seq(Peers)
    BY DEF ClientTypeOK, LibState
  <2>4. friends \in Seq(Peers)
    BY <2>2, <2>3, AddFriendTyped
  <2>5. /\ lib' = [lib EXCEPT ![u].friends = friends, ![u].usercount = Len(friends) + 1]
        /\ app' = app
    BY <1>6 DEF ReceiveConnect, peer
  <2> HIDE DEF friends
  <2>6. Len(friends) + 1 \in Nat
    BY <2>4
  <2> DEFINE m == Len(friends) + 1
             r == [lib[u] EXCEPT !.friends = friends, !.usercount = m]
  <2>7. lib' = [lib EXCEPT ![u] = r]
    BY <2>5 DEF ClientTypeOK
  <2>8. m \in Nat
    BY <2>6
  <2> HIDE DEF m
  <2>9. r \in LibState
    <3>1. ASSUME NEW f \in Seq(Peers), NEW c \in Nat
          PROVE  [lib[u] EXCEPT !.friends = f, !.usercount = c] \in LibState
      BY <1>0 DEF LibState
    <3> QED
      BY <1>0, <2>4, <2>8, <3>1
  <2> HIDE DEF r
  <2>10. ClientTypeOK'
    BY <2>5, <2>7, <2>9, LibrarySet DEF ClientTypeOK
  <2> QED
    BY <2>1, <2>5, <2>10
<1>7. CASE ReceiveDisconnect(u)
  <2> DEFINE friends == DeleteFriendByIP(lib[u].friends, Head(s2c[u]).ip)
  <2>1. WireTypeOK'
    BY <1>7, ReceiveTyped DEF ReceiveDisconnect
  <2>2. lib[u].friends \in Seq(Peers)
    BY DEF ClientTypeOK, LibState
  <2>3. friends \in Seq(Peers)
    BY <2>2, DeleteFriendTyped
  <2>4. /\ lib' = [lib EXCEPT ![u].friends = friends, ![u].usercount = Len(friends) + 1]
        /\ app' = app
    BY <1>7 DEF ReceiveDisconnect
  <2> HIDE DEF friends
  <2>5. Len(friends) + 1 \in Nat
    BY <2>3
  <2> DEFINE m == Len(friends) + 1
             r == [lib[u] EXCEPT !.friends = friends, !.usercount = m]
  <2>6. lib' = [lib EXCEPT ![u] = r]
    BY <2>4 DEF ClientTypeOK
  <2>7. m \in Nat
    BY <2>5
  <2> HIDE DEF m
  <2>8. r \in LibState
    <3>1. ASSUME NEW f \in Seq(Peers), NEW c \in Nat
          PROVE  [lib[u] EXCEPT !.friends = f, !.usercount = c] \in LibState
      BY <1>0 DEF LibState
    <3> QED
      BY <1>0, <2>3, <2>7, <3>1
  <2> HIDE DEF r
  <2>9. ClientTypeOK'
    BY <2>4, <2>6, <2>8, LibrarySet DEF ClientTypeOK
  <2> QED
    BY <2>1, <2>4, <2>9
<1>8. CASE ReceiveScan(u)
  <2> DEFINE network == [group |-> Head(s2c[u]).group, mac |-> Head(s2c[u]).mac]
             found == Cons(network, lib[u].newnetworks)
             r == [lib[u] EXCEPT !.newnetworks = found]
  <2>1. WireTypeOK' /\ Head(s2c[u]) \in S2C /\ Head(s2c[u]).op = "SCAN"
    BY <1>8, ReceiveTyped DEF ReceiveScan, Receive
  <2>2. network \in Networks
    BY <2>1, WireAssumption
    DEF S2C, ConnectS2C, DisconnectS2C, ScanS2C, BssidS2C, ScanCompleteS2C, ChatS2C, Networks
  <2> HIDE DEF network
  <2>3. found \in Seq(Networks)
    BY <1>0, <2>2 DEF Cons
  <2>4. lib' = [lib EXCEPT ![u] = r] /\ app' = app
    BY <1>8 DEF ReceiveScan, ClientTypeOK, network
  <2> HIDE DEF found
  <2>5. r \in LibState
    <3>1. ASSUME NEW x \in Seq(Networks)
          PROVE  [lib[u] EXCEPT !.newnetworks = x] \in LibState
      BY <1>0 DEF LibState
    <3> QED
      BY <1>0, <2>3, <3>1
  <2> HIDE DEF r
  <2>6. ClientTypeOK'
    BY <2>4, <2>5, LibrarySet DEF ClientTypeOK
  <2> QED
    BY <2>1, <2>4, <2>6
<1>9. CASE ReceiveScanComplete(u)
  <2> DEFINE r == [lib[u] EXCEPT !.networks = lib[u].newnetworks, !.newnetworks = <<>>,
                                  !.status = "DISCONNECTED"]
  <2>1. r \in LibState
    <3>1. ASSUME NEW w \in Seq(Networks), NEW x \in Seq(Networks),
                 NEW s \in {"DISCONNECTED", "CONNECTED", "SCANNING"}
          PROVE  [lib[u] EXCEPT !.networks = w, !.newnetworks = x, !.status = s] \in LibState
      BY <1>0 DEF LibState
    <3> QED
      BY <1>0, <3>1
  <2>2. lib' = [lib EXCEPT ![u] = r]
    BY <1>9 DEF ReceiveScanComplete, ClientTypeOK
  <2>3. app' \in [Users -> AppState] /\ \A v \in Users : app'[v].pc = "create" => app'[v].arg \in Names
    BY <1>9, NotifyTyped DEF ReceiveScanComplete
  <2>4. WireTypeOK'
    BY <1>9, ReceiveTyped DEF ReceiveScanComplete
  <2> HIDE DEF r
  <2> QED
    BY <2>1, <2>2, <2>3, <2>4, LibrarySet
<1>10. CASE FinderLeaves(u)
  <2> DEFINE r == [lib[u] EXCEPT !.init = -1, !.status = "DISCONNECTED"]
  <2>1. r \in LibState
    <3>1. ASSUME NEW i \in {0, 1, -1}, NEW s \in {"DISCONNECTED", "CONNECTED", "SCANNING"}
          PROVE  [lib[u] EXCEPT !.init = i, !.status = s] \in LibState
      BY <1>0 DEF LibState
    <3> QED
      BY <1>0, <3>1
  <2>2. lib' = [lib EXCEPT ![u] = r]
    BY <1>10 DEF FinderLeaves, ClientTypeOK
  <2>3. app' \in [Users -> AppState] /\ \A v \in Users : app'[v].pc = "create" => app'[v].arg \in Names
    BY <1>10 DEF FinderLeaves, ClientTypeOK, AppState
  <2>4. WireTypeOK'
    BY <1>10 DEF FinderLeaves, wireVars, WireTypeOK
  <2> HIDE DEF r
  <2> QED
    BY <2>1, <2>2, <2>3, <2>4, LibrarySet
<1> QED
  BY <1>1, <1>2, <1>3, <1>4, <1>5, <1>6, <1>7, <1>8, <1>9, <1>10 DEF FinderStep

-----------------------------------------------------------------------------
(* The server's invariant holds here as it does among arbitrary clients,   *)
(* and everything keeps its types.                                         *)
LEMMA ActsKeepInv ==
    ASSUME IInv, NEW u \in Users, LibraryActs(u), UNCHANGED serverVars
    PROVE  IInv'
<1>1. UNCHANGED serverVars
  OBVIOUS
<1>2. \/ UNCHANGED srvEnd
      \/ srvEnd[u] # "open" /\ srvEnd' = [srvEnd EXCEPT ![u] = "backlog"]
  <2>1. CASE GameActs(u)
    BY <2>1 DEF GameActs, InitLibrary, CreateCalled, Scan, DisconnectCalled, TermCalled,
       CreateSends, DisconnectReturns, TermReturns, WireConnect, WireClose, wireVars
  <2>2. CASE PlayerStep(u)
    BY <2>2 DEF PlayerStep, TypeMessage, PowerOff, WireClose, wireVars
  <2>3. CASE DiscStep(u)
    BY <2>3 DEF DiscStep, DiscStarts, DiscSends, DiscEnds, wireVars
  <2>4. CASE FinderStep(u)
    BY <2>4 DEF FinderStep, PopMessage, SendMessage, NotifyDisconnect, ReceiveBssid, ReceiveChat,
       ReceiveConnect, ReceiveDisconnect, ReceiveScan, ReceiveScanComplete, FinderLeaves,
       Receive, wireVars
  <2> QED
    BY <2>1, <2>2, <2>3, <2>4 DEF LibraryActs
<1>3. CASE UNCHANGED srvEnd
  BY <1>1, <1>3, QueueStep DEF serverVars
<1>4. CASE srvEnd[u] # "open" /\ srvEnd' = [srvEnd EXCEPT ![u] = "backlog"]
  <2>1. /\ srvEnd' \in [Users -> {"none", "backlog", "open", "closed"}]
        /\ \A v \in Users : srvEnd'[v] = "open" <=> srvEnd[v] = "open"
    BY <1>4 DEF IInv, UserInv, UserTypes
  <2> QED
    BY <1>1, <2>1, GroupInvStable, UserInvStable
    DEF IInv, LoopInv, serverVars, dbVars, userVars
<1> QED
  BY <1>2, <1>3, <1>4

LEMMA ActsKeepTypes ==
    ASSUME NetTypes, NEW u \in Users, LibraryActs(u)
    PROVE  NetTypes'
  BY GameKeepsTypes, PlayerKeepsTypes, FinderKeepsTypes DEF LibraryActs

LEMMA StartKeepsAll ==
    ASSUME IInv, NetTypes, StartLoop, UNCHANGED clientVars
    PROVE  IInv' /\ NetTypes'
<1>1. UNCHANGED <<dbVars, srvEnd>> /\ LoopInv'
  BY DEF StartLoop, wireVars, LoopInv
<1>2. IInv'
  BY <1>1, GroupInvStable, UserInvStable DEF IInv, dbVars, userVars, UserInv, UserTypes
<1>3. NetTypes'
  BY DEF StartLoop, wireVars, clientVars, NetTypes, WireTypeOK, ClientTypeOK
<1> QED
  BY <1>2, <1>3

LEMMA ServerVisits ==
    ASSUME NEW u \in Users, ServerVisit(u)
    PROVE  Visit(u) \/ TimeOut(u)
  BY DEF ServerVisit, Visit

LEMMA VisitKeepsAll ==
    ASSUME IInv, NetTypes, NEW u \in Users, ServerVisit(u), UNCHANGED clientVars
    PROVE  IInv' /\ NetTypes'
<1>1. Visit(u) \/ TimeOut(u)
  BY ServerVisits
<1>2. IInv' /\ WireTypeOK'
  BY <1>1, VisitKeepsInv, VisitKeepsWireTypes DEF NetTypes
<1> QED
  BY <1>2 DEF NetTypes, clientVars, ClientTypeOK

Basics == IInv /\ NetTypes

LEMMA InitBasics == Init => Basics
<1> SUFFICES ASSUME Init PROVE Basics
  OBVIOUS
<1>1. IInv
  BY InitEstablishesInv DEF Init, OpenInit
<1>2. <<>> \in Seq(S2C) /\ <<>> \in Seq(C2S) /\ <<>> \in Seq(Peers) /\ <<>> \in Seq(Networks)
  OBVIOUS
<1>3. WireTypeOK
  BY <1>2 DEF Init, WireInit, WireTypeOK
<1>4. FreshLib \in LibState /\ FreshApp \in AppState /\ FreshApp.pc = "idle"
  BY <1>2, ClientAssumption DEF FreshLib, FreshApp, LibState, AppState
<1> QED
  BY <1>1, <1>3, <1>4 DEF Init, ClientInit, ClientTypeOK, NetTypes, Basics

LEMMA NextKeepsBasics == Basics /\ [Next]_vars => Basics'
<1> SUFFICES ASSUME Basics, [Next]_vars PROVE Basics'
  OBVIOUS
<1> USE DEF Basics
<1>1. ASSUME NEW u \in Users, ClientStep(u) PROVE Basics'
  BY <1>1, ClientActs, ActsKeepInv, ActsKeepTypes
<1>2. CASE ServerStep /\ UNCHANGED clientVars
  BY <1>2, StartKeepsAll, VisitKeepsAll DEF ServerStep
<1>3. CASE UNCHANGED vars
  <2>1. IInv'
    BY <1>3, QueueStep DEF vars, serverVars, wireVars
  <2> QED
    BY <1>3, <2>1 DEF vars, wireVars, clientVars, NetTypes, WireTypeOK, ClientTypeOK
<1> QED
  BY <1>1, <1>2, <1>3 DEF Next

(* The variables of server, library and game, and all queues keep their    *)
(* types, whatever the games call: no counter goes below zero, no message  *)
(* is popped from an empty outbox, and nobody in the peer lists is made up.*)
THEOREM TypesHold == Spec => [](IInv /\ TypeOK)
<1>1. Basics => IInv /\ TypeOK
  BY DEF Basics, IInv, LoopInv, GroupInv, GroupTypes, UserInv, UserTypes, ServerTypeOK, NetTypes, TypeOK
<1> QED
  BY <1>1, InitBasics, NextKeepsBasics, PTL DEF Spec

-----------------------------------------------------------------------------
(* The game's thread keeps its own connection sound.                       *)
LEMMA Unserved ==
    ASSUME IInv, NEW u \in Users, srvEnd[u] # "open"
    PROVE  u \notin dbUser /\ game[u] = NoGame /\ group[u] = NoGroup
<1>1. u \notin dbUser
  BY DEF IInv, UserInv, SocketsOwned
<1>2. game[u] = NoGame
  BY <1>1 DEF IInv, UserInv, GamesLinked
<1>3. group[u] = NoGroup
  BY <1>2, OwnGroup, ServerAssumption DEF IInv
<1> QED
  BY <1>1, <1>2, <1>3

LEMMA LibraryIs ==
    ASSUME NetTypes, NEW u \in Users
    PROVE  /\ lib[u] \in LibState /\ app[u] \in AppState
           /\ c2s[u] \in Seq(C2S) /\ s2c[u] \in Seq(S2C)
  BY DEF NetTypes, ClientTypeOK, WireTypeOK

LEMMA InitKeepsSound ==
    ASSUME NetTypes, IInv, NEW u \in Users, Sound(u), InitLibrary(u), UNCHANGED serverVars
    PROVE  Sound(u)'
<1>1. /\ lib[u].init = 0 /\ app[u].pc = "idle" /\ srvEnd[u] \in {"none", "closed"}
      /\ cliEnd'[u] = "open" /\ srvEnd'[u] = "backlog"
      /\ c2s'[u] = <<LoginC2S(GameOf[u])>> /\ s2c'[u] = <<>>
  BY DEF InitLibrary, WireConnect, NetTypes, WireTypeOK
<1>2. Off(u)
  BY <1>1 DEF Sound, Library, Terminating
<1>3. /\ lib'[u].init = 1 /\ lib'[u].status = "DISCONNECTED" /\ lib'[u].discThread = "none"
      /\ ~lib'[u].discPending /\ lib'[u].connected = 0 /\ lib'[u].outbox = 0 /\ ~lib'[u].chat
      /\ app'[u].pc = "idle" /\ app'[u].call = "none" /\ app'[u].answered
  BY <1>2 DEF InitLibrary, Off, NetTypes, ClientTypeOK, LibState, AppState
<1>4. game'[u] = NoGame /\ group'[u] = NoGroup
  BY <1>1, Unserved DEF serverVars, dbVars, groupVars, userVars
<1>5. Library(u)'
  BY <1>1, <1>3 DEF Library, Running
<1> DEFINE q == <<LoginC2S(GameOf[u])>>
<1>6. /\ DOMAIN q = {1} /\ q[1].op = "LOGIN" /\ q[1].game = GameOf[u] /\ q # <<>>
  BY DEF LoginC2S
<1> HIDE DEF q
<1>7. Line(u)'
  BY <1>1, <1>4, <1>6 DEF Line, Served, Lawful, LawfulAt, q
<1>8. NoAnswer(<<>>)
  BY DEF NoAnswer
<1>9. ~Sends(q, "CONNECT") /\ ~Sends(q, "SCAN") /\ ~Sends(q, "DISCONNECT")
  BY <1>6 DEF Sends
<1>10. Phase(u)'
  BY <1>1, <1>3, <1>4, <1>8, <1>9 DEF Phase, Apart, Creating, Scanning, Served, q
<1>11. Chats(u)'
  BY <1>3 DEF Chats
<1> QED
  BY <1>5, <1>7, <1>10, <1>11 DEF Sound

(* Steps of the library that say nothing to the server.                    *)
LEMMA LineStable ==
    ASSUME NEW u \in Users, Sound(u), UNCHANGED <<wireVars, serverVars>>
    PROVE  Line(u)' /\ (Served(u)' <=> Served(u))
  BY DEF Sound, Line, Served, wireVars, serverVars, dbVars, groupVars, userVars

LEMMA CallsKeepSound ==
    ASSUME Considerate, NetTypes, IInv, NEW u \in Users, Sound(u), UNCHANGED serverVars,
           \/ MayCall(u, "Create") /\ \E name \in Names : CreateCalled(u, name)
           \/ MayCall(u, "Disconnect") /\ DisconnectCalled(u)
           \/ MayCall(u, "Term") /\ TermCalled(u)
           \/ DisconnectReturns(u)
    PROVE  Sound(u)'
<1>1. UNCHANGED wireVars
  BY DEF CreateCalled, DisconnectCalled, TermCalled, DisconnectReturns
<1>2. Line(u)' /\ (Served(u)' <=> Served(u)) /\ cliEnd' = cliEnd
      /\ s2c' = s2c /\ c2s' = c2s /\ group' = group /\ game' = game
  BY <1>1, LineStable DEF wireVars, serverVars, dbVars, groupVars, userVars
<1>3. /\ lib[u].init = 1 /\ Running(u) /\ cliEnd[u] = "open"
  <2>1. lib[u].init = 1 \/ app[u].pc = "disconnect"
    BY DEF CreateCalled, DisconnectCalled, TermCalled, DisconnectReturns
  <2>2. lib[u].init \in {0, 1, -1}
    BY LibraryIs DEF LibState
  <2>3. lib[u].init = 1
    BY <2>1, <2>2 DEF Sound, Library, Terminating, Ended, Off
  <2> QED
    BY <2>3 DEF Sound, Library, Running
<1>4. Phase(u) /\ Chats(u)
  BY <1>3 DEF Sound
<1>5. CASE MayCall(u, "Create") /\ \E name \in Names : CreateCalled(u, name)
  <2>1. PICK name \in Names : CreateCalled(u, name)
    BY <1>5
  <2>2. app[u].answered /\ app[u].pc = "idle" /\ lib[u].status = "DISCONNECTED"
    BY <1>5, <2>1 DEF MayCall, Considerate, CreateCalled
  <2>3. /\ lib' = lib /\ app'[u].pc = "create" /\ app'[u].answered /\ app'[u].call = app[u].call
    BY <2>1, <2>2 DEF CreateCalled, NetTypes, ClientTypeOK, AppState
  <2>4. Library(u)'
    BY <1>2, <1>3, <2>2, <2>3 DEF Library, Running
  <2>5. Phase(u)'
    BY <1>2, <1>4, <2>2, <2>3 DEF Phase, Creating, Scanning, Stays, Apart, InGroup
  <2>6. Chats(u)'
    BY <1>2, <1>4, <2>3 DEF Chats
  <2> QED
    BY <1>2, <2>4, <2>5, <2>6 DEF Sound
<1>6. CASE MayCall(u, "Disconnect") /\ DisconnectCalled(u)
  <2>1. /\ app[u].answered /\ app[u].pc = "idle" /\ lib[u].discThread = "none"
        /\ "Disconnect" \in Calls[u]
    BY <1>6 DEF MayCall, Considerate, DisconnectCalled
  <2>2. /\ app'[u].pc = "disconnect" /\ app'[u].answered /\ app'[u].call = app[u].call
        /\ lib'[u].discThread = "start" /\ lib'[u].init = 1 /\ lib'[u].status = lib[u].status
        /\ lib'[u].name = lib[u].name /\ lib'[u].discPending = lib[u].discPending
        /\ lib'[u].connected = lib[u].connected /\ lib'[u].outbox = lib[u].outbox
        /\ lib'[u].chat = lib[u].chat
    BY <1>3, <1>6, <2>1 DEF DisconnectCalled, NetTypes, ClientTypeOK, LibState, AppState
  <2>3. Library(u)'
    BY <1>2, <1>3, <2>1, <2>2 DEF Library, Running
  <2>4. Phase(u)'
    <3>1. /\ Stays(u) => Stays(u)'
          /\ Apart(u) => Apart(u)'
          /\ ~Creating(u) /\ ~Scanning(u) /\ ~Creating(u)' /\ ~Scanning(u)'
      BY <1>2, <2>1, <2>2 DEF Creating, Scanning, Stays, Apart, InGroup
    <3> QED
      BY <1>2, <1>3, <1>4, <2>2, <3>1 DEF Phase
  <2>5. Chats(u)'
    BY <1>2, <1>4, <2>2 DEF Chats
  <2> QED
    BY <1>2, <2>3, <2>4, <2>5 DEF Sound
<1>7. CASE MayCall(u, "Term") /\ TermCalled(u)
  <2>1. app[u].answered /\ app[u].pc = "idle" /\ lib[u].discThread = "none"
    BY <1>7 DEF MayCall, Considerate, TermCalled
  <2>2. /\ app'[u].pc = "term" /\ app'[u].answered /\ app'[u].call = app[u].call
        /\ lib'[u].discThread = "none" /\ lib'[u].init = 0 /\ lib'[u].status = lib[u].status
        /\ lib'[u].name = lib[u].name /\ lib'[u].discPending = lib[u].discPending
        /\ lib'[u].connected = 0 /\ lib'[u].outbox = 0 /\ lib'[u].chat = lib[u].chat
    BY <1>3, <1>7, <2>1 DEF TermCalled, NetTypes, ClientTypeOK, LibState, AppState
  <2>3. Library(u)'
    BY <1>2, <1>3, <2>1, <2>2 DEF Library, Running, Terminating
  <2>4. Phase(u)'
    <3>1. /\ Stays(u) => Stays(u)'
          /\ Apart(u) => Apart(u)'
          /\ ~Creating(u) /\ ~Scanning(u) /\ ~Creating(u)' /\ ~Scanning(u)'
      BY <1>2, <2>1, <2>2 DEF Creating, Scanning, Stays, Apart, InGroup
    <3> QED
      BY <1>2, <1>3, <1>4, <2>2, <3>1 DEF Phase
  <2>5. Chats(u)'
    BY <1>2, <1>4, <2>2 DEF Chats
  <2> QED
    BY <1>2, <2>3, <2>4, <2>5 DEF Sound
<1>8. CASE DisconnectReturns(u)
  <2>1. /\ app[u].pc = "disconnect" /\ (lib[u].discThread = "none" \/ u \in QuirkUsers)
        /\ app[u].answered
    BY <1>3, <1>8 DEF DisconnectReturns, Running
  <2>2. /\ app'[u].pc = "idle" /\ ~app'[u].answered /\ app'[u].call = "Disconnect"
        /\ lib'[u].discThread = lib[u].discThread /\ lib'[u].init = 1
        /\ lib'[u].status = lib[u].status
        /\ lib'[u].name = lib[u].name /\ lib'[u].discPending = TRUE
        /\ lib'[u].connected = lib[u].connected /\ lib'[u].outbox = lib[u].outbox
        /\ lib'[u].chat = lib[u].chat
    BY <1>3, <1>8 DEF DisconnectReturns, NetTypes, ClientTypeOK, LibState, AppState
  <2>3. Library(u)'
    BY <1>2, <1>3, <2>1, <2>2 DEF Library, Running
  <2>4. Phase(u)'
    <3>1. /\ Stays(u) => Stays(u)'
          /\ Apart(u) => Apart(u)'
          /\ ~Creating(u) /\ ~Scanning(u) /\ ~Creating(u)' /\ ~Scanning(u)'
      BY <1>2, <2>1, <2>2 DEF Creating, Scanning, Stays, Apart, InGroup
    <3> QED
      BY <1>2, <1>3, <1>4, <2>2, <3>1 DEF Phase
  <2>5. Chats(u)'
    BY <1>2, <1>4, <2>2 DEF Chats
  <2> QED
    BY <1>2, <2>3, <2>4, <2>5 DEF Sound
<1> QED
  BY <1>5, <1>6, <1>7, <1>8

(* Steps of the library that tell the server something.                    *)
LEMMA SendLine ==
    ASSUME NetTypes, NEW u \in Users, Line(u), NEW p \in C2S, WireSend(u, p),
           cliEnd[u] = "open", UNCHANGED <<s2c, cliEnd, srvEnd>>, UNCHANGED serverVars,
           Served(u) => LawfulAt(u, Append(c2s[u], p), Len(c2s[u]) + 1, game[u], group[u])
    PROVE  /\ Line(u)' /\ (Served(u)' <=> Served(u))
           /\ c2s'[u] = IF Served(u) THEN Append(c2s[u], p) ELSE c2s[u]
           /\ group' = group /\ game' = game
<1> DEFINE q == c2s[u]
<1>1. q \in Seq(C2S) /\ c2s \in [Users -> Seq(C2S)]
  BY DEF NetTypes, WireTypeOK
<1>2. /\ c2s'[u] = IF Served(u) THEN Append(q, p) ELSE q
      /\ (Served(u)' <=> Served(u)) /\ group' = group /\ game' = game
  BY <1>1 DEF WireSend, Served, serverVars, dbVars, groupVars, userVars
<1>3. CASE Served(u)
  <2>1. Lawful(u, q, game[u], group[u])
    BY <1>3 DEF Line
  <2>2. Lawful(u, Append(q, p), game[u], group[u])
    BY <1>1, <1>3, <2>1, AppendIsLawful
  <2> QED
    BY <1>2, <1>3, <2>2 DEF Line
<1>4. CASE ~Served(u)
  BY <1>2, <1>4 DEF Line
<1> QED
  BY <1>2, <1>3, <1>4

LEMMA CreateKeepsSound ==
    ASSUME Considerate, NetTypes, IInv, NEW u \in Users, Sound(u), CreateSends(u),
           UNCHANGED serverVars
    PROVE  Sound(u)'
<1> DEFINE p == ConnectC2S(app[u].arg)
           q == c2s[u]
<1>1. /\ app[u].pc = "create" /\ lib[u].discThread = "none" /\ ~lib[u].discPending
      /\ app[u].arg \in Names /\ WireSend(u, p) /\ UNCHANGED <<s2c, cliEnd, srvEnd>>
  BY DEF CreateSends, NetTypes
<1>2. lib[u].init = 1
  BY <1>1, LibraryIs DEF Sound, Library, Terminating, Ended, Off, LibState
<1>3. Running(u) /\ cliEnd[u] = "open" /\ app[u].answered /\ lib[u].status = "DISCONNECTED"
  BY <1>1, <1>2 DEF Sound, Library, Running
<1>4. /\ app'[u].pc = "idle" /\ app'[u].call = "Create" /\ ~app'[u].answered
      /\ lib'[u].init = 1 /\ lib'[u].status = "DISCONNECTED" /\ lib'[u].name = app[u].arg
      /\ lib'[u].discPending = lib[u].discPending /\ lib'[u].discThread = "none"
      /\ lib'[u].outbox = lib[u].outbox /\ lib'[u].chat = lib[u].chat
  BY <1>1, <1>2, <1>3 DEF CreateSends, NetTypes, ClientTypeOK, LibState, AppState
<1>5. Phase(u)
  BY <1>3 DEF Sound
<1>6. p \in C2S /\ p.op = "CONNECT" /\ p.group = app[u].arg
  BY <1>1 DEF C2S, ConnectC2S
<1>7. q \in Seq(C2S)
  BY LibraryIs
<1>8. Library(u)'
  BY <1>1, <1>3, <1>4 DEF Library, Running
<1> HIDE DEF p
<1>9. CASE Served(u)
  <2>1. Apart(u)
    BY <1>2, <1>3, <1>5, <1>9 DEF Phase, Creating, Scanning, Stays
  <2>2. ~Sends(q, "CONNECT") /\ ~Sends(q, "SCAN") /\ (group[u] # NoGroup => Sends(q, "DISCONNECT"))
        /\ NoAnswer(s2c[u])
    BY <1>1, <2>1 DEF Apart
  <2>3. Lawful(u, q, game[u], group[u])
    BY <1>9 DEF Sound, Line
  <2>4. Admits(Append(q, p), Len(q) + 1, game[u], group[u])
    BY <1>6, <1>7, <2>2, <2>3, RoomForEntry
  <2>5. Append(q, p)[Len(q) + 1] = p
    BY <1>6, <1>7, AppendPlaces
  <2>6. LawfulAt(u, Append(q, p), Len(q) + 1, game[u], group[u])
    BY <1>1, <1>6, <2>4, <2>5 DEF LawfulAt
  <2>7. Line(u)' /\ (Served(u)' <=> Served(u)) /\ c2s'[u] = Append(q, p)
    BY <1>1, <1>3, <1>6, <1>9, <2>6, SendLine DEF Sound
  <2>8. ~Sends(Append(q, p), "SCAN")
    BY <1>6, <1>7, <2>2, AppendSends
  <2>9. Asks(Append(q, p), app[u].arg)
    BY <1>6, <1>7, AppendSends
  <2>10. Sends(Append(q, p), "CONNECT")
    BY <1>6, <1>7, AppendSends
  <2> HIDE DEF q
  <2>11. Joins(u)' /\ Creating(u)'
    BY <1>1, <1>4, <2>2, <2>7, <2>8, <2>9 DEF Joins, Creating
  <2>12. Phase(u)' /\ Chats(u)'
    BY <1>9, <2>7, <2>10, <2>11 DEF Phase, Chats
  <2> QED
    BY <1>8, <2>7, <2>12 DEF Sound
<1>10. CASE ~Served(u)
  <2>1. Line(u)' /\ (Served(u)' <=> Served(u))
    BY <1>1, <1>3, <1>6, <1>10, SendLine DEF Sound
  <2>2. Phase(u)' /\ Chats(u)'
    BY <1>1, <1>5, <1>10, <2>1 DEF Phase, Chats
  <2> QED
    BY <1>8, <2>1, <2>2 DEF Sound
<1> QED
  BY <1>9, <1>10

LEMMA ScanKeepsSound ==
    ASSUME Considerate, NetTypes, IInv, NEW u \in Users, Sound(u), MayCall(u, "Scan"), Scan(u),
           UNCHANGED serverVars
    PROVE  Sound(u)'
<1> DEFINE p == BareC2S("SCAN")
           q == c2s[u]
<1>1. /\ app[u].pc = "idle" /\ lib[u].init = 1 /\ lib[u].status = "DISCONNECTED"
      /\ app[u].answered /\ "Scan" \in Calls[u]
      /\ WireSend(u, p) /\ UNCHANGED <<s2c, cliEnd, srvEnd>>
  BY DEF Scan, MayCall, Considerate
<1>2. Running(u) /\ cliEnd[u] = "open" /\ ~lib[u].discPending /\ lib[u].discThread = "none"
  BY <1>1 DEF Sound, Library, Running, Considerate
<1>3. /\ app'[u].pc = "idle" /\ app'[u].call = "Scan" /\ ~app'[u].answered
      /\ lib'[u].init = 1 /\ lib'[u].status = "SCANNING"
      /\ lib'[u].discPending = lib[u].discPending /\ lib'[u].discThread = "none"
      /\ lib'[u].outbox = lib[u].outbox /\ lib'[u].chat = lib[u].chat
      /\ lib'[u].connected = lib[u].connected
  BY <1>1, <1>2 DEF Scan, NetTypes, ClientTypeOK, LibState, AppState
<1>4. Phase(u) /\ Chats(u)
  BY <1>2 DEF Sound
<1>5. p \in C2S /\ p.op = "SCAN"
  BY DEF C2S, BareC2S, BareOps
<1>6. q \in Seq(C2S)
  BY LibraryIs
<1>7. Library(u)'
  BY <1>1, <1>2, <1>3 DEF Library, Running
<1> HIDE DEF p
<1>8. CASE Served(u)
  <2>1. Apart(u)
    BY <1>1, <1>2, <1>4, <1>8 DEF Phase, Creating, Scanning, Stays
  <2>2. ~Sends(q, "CONNECT") /\ ~Sends(q, "SCAN") /\ (group[u] # NoGroup => Sends(q, "DISCONNECT"))
        /\ NoAnswer(s2c[u])
    BY <1>2, <2>1 DEF Apart
  <2>3. Lawful(u, q, game[u], group[u])
    BY <1>8 DEF Sound, Line
  <2>4. Admits(Append(q, p), Len(q) + 1, game[u], group[u])
    BY <1>5, <1>6, <2>2, <2>3, RoomForEntry
  <2>5. Append(q, p)[Len(q) + 1] = p
    BY <1>5, <1>6, AppendPlaces
  <2>6. LawfulAt(u, Append(q, p), Len(q) + 1, game[u], group[u])
    BY <1>5, <2>4, <2>5 DEF LawfulAt
  <2>7. Line(u)' /\ (Served(u)' <=> Served(u)) /\ c2s'[u] = Append(q, p) /\ group' = group
    BY <1>1, <1>2, <1>5, <1>8, <2>6, SendLine DEF Sound
  <2>8. Sends(Append(q, p), "SCAN")
    BY <1>5, <1>6, AppendSends
  <2>9. ~Sends(Append(q, p), "CONNECT")
    BY <1>5, <1>6, <2>2, AppendSends
  <2> HIDE DEF q
  <2>10. Scans(u)' /\ Scanning(u)' /\ ~Creating(u)'
    BY <1>1, <1>3, <2>2, <2>7, <2>8, <2>9 DEF Scans, Listing, Scanning, Creating
  <2>11. Chats(u)'
    BY <1>3, <1>4, <1>8, <2>2, <2>7 DEF Chats, q
  <2>12. Phase(u)'
    BY <1>8, <2>7, <2>10 DEF Phase
  <2> QED
    BY <1>7, <2>7, <2>11, <2>12 DEF Sound
<1>9. CASE ~Served(u)
  <2>1. Line(u)' /\ (Served(u)' <=> Served(u))
    BY <1>1, <1>2, <1>5, <1>9, SendLine DEF Sound
  <2>2. Phase(u)' /\ Chats(u)'
    BY <1>1, <1>4, <1>9, <2>1 DEF Phase, Chats
  <2> QED
    BY <1>7, <2>1, <2>2 DEF Sound
<1> QED
  BY <1>8, <1>9

LEMMA TermKeepsSound ==
    ASSUME NetTypes, NEW u \in Users, Sound(u), TermReturns(u), UNCHANGED serverVars
    PROVE  Sound(u)'
<1>1. Ended(u)
  BY DEF TermReturns, Sound, Library
<1>2. /\ app'[u].pc = "idle" /\ cliEnd'[u] = "closed" /\ lib'[u].init = 0
      /\ lib'[u].status = "DISCONNECTED" /\ lib'[u].discThread = "none" /\ ~lib'[u].discPending
      /\ lib'[u].connected = 0 /\ lib'[u].outbox = 0 /\ ~lib'[u].chat
      /\ UNCHANGED <<c2s, srvEnd, game, group>>
  BY <1>1 DEF TermReturns, WireClose, Ended, Terminating, NetTypes, ClientTypeOK, WireTypeOK,
     LibState, AppState, serverVars, dbVars, groupVars, userVars
<1>3. Library(u)' /\ Line(u)'
  BY <1>2 DEF Library, Off, Sound, Line, Served
<1> QED
  BY <1>2, <1>3 DEF Sound

LEMMA GameKeepsSound ==
    ASSUME Considerate, NetTypes, IInv, NEW u \in Users, Sound(u), GameStep(u),
           UNCHANGED serverVars
    PROVE  Sound(u)'
  BY InitKeepsSound, CallsKeepSound, CreateKeepsSound, ScanKeepsSound, TermKeepsSound DEF GameStep

LEMMA PlayerKeepsSound ==
    ASSUME NetTypes, NEW u \in Users, Sound(u), PlayerStep(u), UNCHANGED serverVars
    PROVE  Sound(u)'
<1>1. CASE "Chat" \in Calls[u] /\ TypeMessage(u)
  <2>1. /\ lib[u].connected = 1 /\ UNCHANGED <<app, wireVars>>
        /\ lib'[u].init = lib[u].init /\ lib'[u].status = lib[u].status
        /\ lib'[u].name = lib[u].name /\ lib'[u].discPending = lib[u].discPending
        /\ lib'[u].discThread = lib[u].discThread /\ lib'[u].connected = lib[u].connected
        /\ lib'[u].chat = lib[u].chat
    BY <1>1 DEF TypeMessage, NetTypes, ClientTypeOK, LibState
  <2>2. lib[u].init = 1
    BY <2>1, LibraryIs DEF Sound, Library, Terminating, Ended, Off, LibState
  <2>3. Running(u)
    BY <2>2 DEF Sound, Library
  <2>4. Library(u)'
    BY <1>1, <2>1, <2>2, <2>3 DEF Library, Running, wireVars
  <2>5. Line(u)' /\ (Served(u)' <=> Served(u)) /\ UNCHANGED <<c2s, s2c, cliEnd, group, game>>
    BY <2>1, LineStable DEF wireVars, serverVars, dbVars, groupVars, userVars
  <2>6. Phase(u) /\ Chats(u)
    BY <2>3 DEF Running, Sound
  <2>7. /\ Joins(u) => Joins(u)'
        /\ Scans(u) => Scans(u)'
        /\ Stays(u) => Stays(u)'
        /\ Apart(u) => Apart(u)'
        /\ Creating(u)' <=> Creating(u)
        /\ Scanning(u)' <=> Scanning(u)
    BY <2>1, <2>5 DEF Joins, Scans, Listing, Stays, Apart, InGroup, Creating, Scanning
  <2>8. Phase(u)'
    BY <2>1, <2>5, <2>6, <2>7 DEF Phase
  <2>9. Chats(u)'
    BY <2>1, <2>5, <2>6 DEF Chats
  <2> QED
    BY <2>4, <2>5, <2>8, <2>9 DEF Sound
<1>2. CASE PowerOff(u)
  <2>1. /\ cliEnd'[u] = "gone" /\ UNCHANGED <<c2s, srvEnd, game, group>>
        /\ lib'[u] = FreshLib /\ app'[u] = FreshApp
    BY <1>2 DEF PowerOff, WireClose, NetTypes, ClientTypeOK, WireTypeOK, serverVars, dbVars,
       groupVars, userVars
  <2>2. Library(u)' /\ Line(u)'
    BY <2>1 DEF Library, Off, FreshLib, FreshApp, Sound, Line, Served
  <2> QED
    BY <2>1, <2>2 DEF Sound
<1> QED
  BY <1>1, <1>2 DEF PlayerStep

(* The thread that leaves the group, and the friend finder.                *)
LEMMA DiscKeepsSound ==
    ASSUME Considerate, NetTypes, NEW u \in Users, Sound(u), DiscStep(u), UNCHANGED serverVars
    PROVE  Sound(u)'
<1>1. lib[u].discThread # "none" /\ app' = app
  BY DEF DiscStep, DiscStarts, DiscSends, DiscEnds
<1>2. lib[u].init = 1
  BY <1>1, LibraryIs DEF Sound, Library, Terminating, Ended, Off, LibState
<1>3. Running(u) /\ Phase(u) /\ Chats(u) /\ cliEnd[u] = "open"
  BY <1>2 DEF Sound, Library, Running
<1>4. "Disconnect" \in Calls[u] /\ "Chat" \notin Calls[u]
  BY <1>1, <1>3 DEF Running, Considerate
<1>5. Served(u) => ~Creating(u) /\ ~Scanning(u) /\ (Stays(u) \/ Apart(u))
  BY <1>1, <1>2, <1>3 DEF Phase, Joins, Scans, Listing
<1>6. ~Served(u) => NoAnswer(s2c[u])
  BY <1>3 DEF Phase
<1>7. CASE DiscStarts(u)
  <2>1. /\ lib[u].discThread = "start" /\ UNCHANGED wireVars
        /\ lib'[u].init = 1 /\ lib'[u].discPending = lib[u].discPending
        /\ lib'[u].chat = lib[u].chat
        /\ lib'[u].status = "CONNECTED" <=> FALSE
    BY <1>2, <1>7 DEF DiscStarts, NetTypes, ClientTypeOK, LibState
  <2>2. IF lib[u].status = "CONNECTED"
          THEN lib'[u].discThread = "grace" /\ lib'[u].status = "DISCONNECTED" /\ lib'[u].outbox = 0
          ELSE /\ lib'[u].discThread = "none" /\ lib'[u].status = lib[u].status
               /\ lib'[u].outbox = lib[u].outbox
    BY <1>7 DEF DiscStarts, NetTypes, ClientTypeOK, LibState
  <2>3. Line(u)' /\ (Served(u)' <=> Served(u)) /\ UNCHANGED <<c2s, s2c, cliEnd, group, game>>
    BY <2>1, LineStable DEF wireVars, serverVars, dbVars, groupVars, userVars
  <2>4. Library(u)'
    BY <1>1, <1>3, <1>4, <2>1, <2>2, <2>3 DEF Library, Running
  <2>5. Creating(u)' = Creating(u) /\ Scanning(u)' = Scanning(u)
    BY <1>1 DEF Creating, Scanning
  <2>6. Stays(u) \/ Apart(u) => Apart(u)'
    <3>1. CASE Stays(u)
      BY <2>1, <2>2, <2>3, <3>1 DEF Stays, Apart, InGroup
    <3>2. CASE Apart(u)
      BY <2>1, <2>2, <2>3, <3>2 DEF Apart
    <3> QED
      BY <3>1, <3>2
  <2>7. Phase(u)'
    BY <1>5, <1>6, <2>1, <2>3, <2>5, <2>6 DEF Phase
  <2>8. Chats(u)'
    BY <1>4 DEF Chats
  <2> QED
    BY <2>3, <2>4, <2>7, <2>8 DEF Sound
<1>8. CASE DiscEnds(u)
  <2>1. /\ lib[u].discThread = "sent" /\ UNCHANGED wireVars
        /\ lib'[u].init = 1 /\ lib'[u].discPending = lib[u].discPending
        /\ lib'[u].chat = lib[u].chat /\ lib'[u].status = lib[u].status
        /\ lib'[u].discThread = "none" /\ lib'[u].outbox = lib[u].outbox
    BY <1>2, <1>8 DEF DiscEnds, NetTypes, ClientTypeOK, LibState
  <2>2. Line(u)' /\ (Served(u)' <=> Served(u)) /\ UNCHANGED <<c2s, s2c, cliEnd, group, game>>
    BY <2>1, LineStable DEF wireVars, serverVars, dbVars, groupVars, userVars
  <2>3. Library(u)'
    BY <1>1, <1>3, <1>4, <2>1, <2>2 DEF Library, Running
  <2>4. Creating(u)' = Creating(u) /\ Scanning(u)' = Scanning(u)
    BY <1>1 DEF Creating, Scanning
  <2>5. ~Stays(u) /\ (Apart(u) => Apart(u)')
    BY <2>1, <2>2 DEF Stays, Apart
  <2>6. Phase(u)'
    BY <1>5, <1>6, <2>1, <2>2, <2>4, <2>5 DEF Phase
  <2>7. Chats(u)'
    BY <1>4 DEF Chats
  <2> QED
    BY <2>2, <2>3, <2>6, <2>7 DEF Sound
<1>9. CASE DiscSends(u)
  <2> DEFINE p == BareC2S("DISCONNECT")
             q == c2s[u]
  <2>1. /\ lib[u].discThread = "grace" /\ WireSend(u, p) /\ UNCHANGED <<s2c, cliEnd, srvEnd>>
        /\ lib'[u].init = 1 /\ lib'[u].discPending = lib[u].discPending
        /\ lib'[u].chat = lib[u].chat /\ lib'[u].status = lib[u].status
        /\ lib'[u].discThread = "sent" /\ lib'[u].outbox = lib[u].outbox
    BY <1>2, <1>9 DEF DiscSends, NetTypes, ClientTypeOK, LibState
  <2>2. p \in C2S /\ p.op = "DISCONNECT"
    BY DEF C2S, BareC2S, BareOps
  <2>3. q \in Seq(C2S)
    BY LibraryIs
  <2>4. Library(u)'
    BY <1>1, <1>3, <1>4, <2>1 DEF Library, Running
  <2>5. Creating(u)' = Creating(u) /\ Scanning(u)' = Scanning(u)
    BY <1>1 DEF Creating, Scanning
  <2>6. Chats(u)'
    BY <1>4 DEF Chats
  <2> HIDE DEF p
  <2>7. CASE Served(u)
    <3>1. Apart(u)
      BY <1>5, <2>1, <2>7 DEF Stays
    <3>2. /\ group[u] # NoGroup /\ NoAnswer(s2c[u]) /\ lib[u].status = "DISCONNECTED"
          /\ ~Sends(q, "CONNECT") /\ ~Sends(q, "SCAN") /\ ~Sends(q, "DISCONNECT")
      BY <2>1, <3>1 DEF Apart
    <3>3. Lawful(u, q, game[u], group[u])
      BY <2>7 DEF Sound, Line
    <3>4. q = <<>>
      <4>1. ASSUME NEW i \in DOMAIN q PROVE FALSE
        <5>1. LawfulAt(u, q, i, game[u], group[u]) /\ game[u] # NoGame
          BY <3>2, <3>3 DEF Lawful
        <5> QED
          BY <1>4, <3>2, <5>1 DEF LawfulAt, Sends
      <4>2. DOMAIN q = 1..Len(q) /\ Len(q) \in Nat
        BY <2>3
      <4>3. Len(q) = 0
        BY <4>1, <4>2
      <4> QED
        BY <2>3, <4>3, EmptyIffNoElement
    <3>5. Append(q, p)[1] = p /\ Len(q) + 1 = 1
      BY <2>2, <3>4
    <3>6. LawfulAt(u, Append(q, p), Len(q) + 1, game[u], group[u])
      BY <1>4, <2>2, <3>2, <3>5 DEF LawfulAt
    <3>7. Line(u)' /\ (Served(u)' <=> Served(u)) /\ c2s'[u] = Append(q, p) /\ group' = group
      BY <1>3, <2>1, <2>2, <2>7, <3>6, SendLine DEF Sound
    <3>8. /\ Sends(Append(q, p), "DISCONNECT")
          /\ ~Sends(Append(q, p), "SCAN") /\ ~Sends(Append(q, p), "CONNECT")
      BY <2>2, <2>3, <3>2, AppendSends
    <3> HIDE DEF q
    <3>9. Apart(u)'
      BY <2>1, <3>2, <3>7, <3>8 DEF Apart
    <3>10. Phase(u)'
      BY <1>5, <2>1, <2>5, <2>7, <3>7, <3>9 DEF Phase
    <3> QED
      BY <2>4, <2>6, <3>7, <3>10 DEF Sound
  <2>8. CASE ~Served(u)
    <3>1. Line(u)' /\ (Served(u)' <=> Served(u))
      BY <1>3, <2>1, <2>2, <2>8, SendLine DEF Sound
    <3>2. Phase(u)'
      BY <1>6, <2>1, <2>8, <3>1 DEF Phase
    <3> QED
      BY <2>4, <2>6, <3>1, <3>2 DEF Sound
  <2> QED
    BY <2>7, <2>8
<1> QED
  BY <1>7, <1>8, <1>9 DEF DiscStep

(* A packet that answers nothing is read. *)
LEMMA QuietReceive ==
    ASSUME NetTypes, NEW u \in Users, Sound(u), NEW op, op \notin Answers, Receive(u, op),
           UNCHANGED <<serverVars, app>>, SameLibrary(u)
    PROVE  Sound(u)'
<1>1. s2c[u] \in Seq(S2C) /\ s2c[u] # <<>> /\ Head(s2c[u]).op \notin Answers
  BY LibraryIs DEF Receive
<1>2. SameAnswers(s2c[u], Tail(s2c[u]))
  BY <1>1, TailAnswers DEF SameAnswers
<1>3. /\ s2c'[u] = Tail(s2c[u]) /\ UNCHANGED <<c2s, cliEnd, srvEnd, game, group>>
  BY DEF Receive, NetTypes, WireTypeOK, serverVars, dbVars, groupVars, userVars
<1> QED
  BY <1>2, <1>3, SoundStable

LEMMA FinderAlive ==
    ASSUME NetTypes, NEW u \in Users, Sound(u), FinderRuns(u)
    PROVE  /\ cliEnd[u] = "open" /\ Phase(u) /\ Chats(u)
           /\ \/ lib[u].init = 1 /\ Running(u)
              \/ lib[u].init = 0 /\ Terminating(u)
<1>1. \/ lib[u].init = 1 /\ Running(u)
      \/ lib[u].init = 0 /\ Terminating(u)
  BY DEF FinderRuns, Sound, Library, Off
<1> QED
  BY <1>1 DEF Running, Terminating, Sound

LEMMA BssidKeepsSound ==
    ASSUME NetTypes, NEW u \in Users, Sound(u), ReceiveBssid(u), UNCHANGED serverVars
    PROVE  Sound(u)'
<1>1. FinderRuns(u) /\ s2c[u] # <<>> /\ Head(s2c[u]).op = "CONNECT_BSSID" /\ s2c[u] \in Seq(S2C)
  BY LibraryIs DEF ReceiveBssid, Receive
<1>2. cliEnd[u] = "open" /\ Phase(u) /\ Chats(u)
  BY <1>1, FinderAlive
<1>3. /\ s2c'[u] = Tail(s2c[u]) /\ UNCHANGED <<c2s, cliEnd, srvEnd, game, group>>
  BY DEF ReceiveBssid, Receive, NetTypes, WireTypeOK, serverVars, dbVars, groupVars, userVars
<1>4. Head(s2c[u]).op \in Answers /\ "CONNECT_BSSID" # "SCAN_COMPLETE"
  BY <1>1 DEF Answers
<1>5. /\ ~NoAnswer(s2c[u]) /\ ~OneAnswer(s2c[u], "SCAN_COMPLETE")
      /\ OneAnswer(s2c[u], "CONNECT_BSSID") => NoAnswer(Tail(s2c[u]))
  BY <1>1, <1>4, TailAnswers
<1>6. /\ Served(u) /\ Creating(u) /\ Joins(u)
  BY <1>2, <1>5 DEF Phase, Scans, Listing, Stays, Apart
<1>7. /\ lib[u].status = "DISCONNECTED" /\ lib[u].discThread = "none"
      /\ ~Sends(c2s[u], "SCAN") /\ ~Sends(c2s[u], "CONNECT") /\ ~Sends(c2s[u], "DISCONNECT")
      /\ InGroup(u) /\ NoAnswer(Tail(s2c[u]))
  BY <1>5, <1>6 DEF Joins
<1>8. lib[u].init = 1 /\ Running(u) /\ app[u].pc = "idle" /\ app[u].call = "Create" /\ ~lib[u].discPending
  BY <1>1, <1>6, FinderAlive DEF Creating, Terminating, Running
<1>9. /\ app'[u].pc = "idle" /\ app'[u].call = "Create" /\ app'[u].answered
      /\ lib'[u].init = 1 /\ lib'[u].status = "CONNECTED" /\ lib'[u].name = lib[u].name
      /\ lib'[u].discPending = lib[u].discPending /\ lib'[u].discThread = "none"
      /\ lib'[u].connected = lib[u].connected /\ lib'[u].outbox = lib[u].outbox
      /\ lib'[u].chat = lib[u].chat
  BY <1>7, <1>8 DEF ReceiveBssid, Notify, NetTypes, ClientTypeOK, LibState, AppState
<1>10. Library(u)'
  BY <1>3, <1>8, <1>9 DEF Library, Running
<1>11. Line(u)' /\ (Served(u)' <=> Served(u))
  BY <1>3 DEF Sound, Line, Served
<1>12. Stays(u)' /\ ~Creating(u)' /\ ~Scanning(u)'
  BY <1>3, <1>7, <1>9 DEF Stays, InGroup, Creating, Scanning
<1>13. Phase(u)'
  BY <1>6, <1>9, <1>11, <1>12 DEF Phase
<1>14. Chats(u)'
  BY <1>2, <1>3, <1>9, <1>11 DEF Chats
<1> QED
  BY <1>10, <1>11, <1>13, <1>14 DEF Sound

LEMMA ScannedKeepsSound ==
    ASSUME NetTypes, NEW u \in Users, Sound(u), ReceiveScanComplete(u), UNCHANGED serverVars
    PROVE  Sound(u)'
<1>1. FinderRuns(u) /\ s2c[u] # <<>> /\ Head(s2c[u]).op = "SCAN_COMPLETE" /\ s2c[u] \in Seq(S2C)
  BY LibraryIs DEF ReceiveScanComplete, Receive
<1>2. cliEnd[u] = "open" /\ Phase(u) /\ Chats(u)
  BY <1>1, FinderAlive
<1>3. /\ s2c'[u] = Tail(s2c[u]) /\ UNCHANGED <<c2s, cliEnd, srvEnd, game, group>>
  BY DEF ReceiveScanComplete, Receive, NetTypes, WireTypeOK, serverVars, dbVars, groupVars, userVars
<1>4. Head(s2c[u]).op \in Answers /\ "CONNECT_BSSID" # "SCAN_COMPLETE"
  BY <1>1 DEF Answers
<1>5. /\ ~NoAnswer(s2c[u]) /\ ~OneAnswer(s2c[u], "CONNECT_BSSID")
      /\ OneAnswer(s2c[u], "SCAN_COMPLETE") => NoAnswer(Tail(s2c[u]))
  BY <1>1, <1>4, TailAnswers
<1>6. /\ Served(u) /\ ~Creating(u) /\ Scanning(u) /\ Scans(u)
  BY <1>2, <1>5 DEF Phase, Joins, Stays, Apart
<1>7. /\ lib[u].discThread = "none"
      /\ ~Sends(c2s[u], "SCAN") /\ ~Sends(c2s[u], "CONNECT")
      /\ group[u] = NoGroup /\ NoAnswer(Tail(s2c[u]))
  BY <1>5, <1>6 DEF Scans, Listing
<1>8. ~Sends(c2s[u], "DISCONNECT")
  BY <1>6, <1>7 DEF Sound, Line, Lawful, LawfulAt, Sends
<1>9. lib[u].init = 1 /\ Running(u) /\ app[u].pc = "idle" /\ app[u].call = "Scan" /\ ~lib[u].discPending
  BY <1>1, <1>6, FinderAlive DEF Scanning, Terminating, Running
<1>10. /\ app'[u].pc = "idle" /\ app'[u].call = "Scan" /\ app'[u].answered
       /\ lib'[u].init = 1 /\ lib'[u].status = "DISCONNECTED" /\ lib'[u].name = lib[u].name
       /\ lib'[u].discPending = lib[u].discPending /\ lib'[u].discThread = "none"
       /\ lib'[u].connected = lib[u].connected /\ lib'[u].outbox = lib[u].outbox
       /\ lib'[u].chat = lib[u].chat
  BY <1>7, <1>9 DEF ReceiveScanComplete, Notify, NetTypes, ClientTypeOK, LibState, AppState
<1>11. Library(u)'
  BY <1>3, <1>9, <1>10 DEF Library, Running
<1>12. Line(u)' /\ (Served(u)' <=> Served(u))
  BY <1>3 DEF Sound, Line, Served
<1>13. Apart(u)' /\ ~Creating(u)' /\ ~Scanning(u)'
  BY <1>3, <1>7, <1>8, <1>10 DEF Apart, Creating, Scanning
<1>14. Phase(u)'
  BY <1>6, <1>10, <1>12, <1>13 DEF Phase
<1>15. Chats(u)'
  BY <1>2, <1>3, <1>10, <1>12 DEF Chats
<1> QED
  BY <1>11, <1>12, <1>14, <1>15 DEF Sound

LEMMA ChatKeepsSound ==
    ASSUME NetTypes, NEW u \in Users, Sound(u), SendMessage(u), UNCHANGED serverVars
    PROVE  Sound(u)'
<1> DEFINE p == BareC2S("CHAT")
           q == c2s[u]
<1>1. /\ lib[u].chat /\ WireSend(u, p) /\ UNCHANGED <<app, s2c, cliEnd, srvEnd>>
      /\ lib'[u].init = lib[u].init /\ lib'[u].status = lib[u].status
      /\ lib'[u].name = lib[u].name /\ lib'[u].discPending = lib[u].discPending
      /\ lib'[u].discThread = lib[u].discThread /\ lib'[u].connected = lib[u].connected
      /\ lib'[u].outbox = lib[u].outbox /\ ~lib'[u].chat
  BY DEF SendMessage, NetTypes, ClientTypeOK, LibState
<1>2. \/ lib[u].init = 1 /\ Running(u)
      \/ lib[u].init = 0 /\ Terminating(u)
  BY <1>1, LibraryIs DEF Sound, Library, Ended, Off, LibState
<1>3. "Chat" \in Calls[u] /\ cliEnd[u] = "open" /\ Phase(u) /\ Chats(u)
  BY <1>1, <1>2 DEF Running, Terminating, Sound
<1>4. p \in C2S /\ p.op = "CHAT"
  BY DEF C2S, BareC2S, BareOps
<1>5. q \in Seq(C2S)
  BY LibraryIs
<1>6. Library(u)'
  BY <1>1, <1>2 DEF Library, Running, Terminating
<1> HIDE DEF p
<1>7. CASE Served(u)
  <2>1. Append(q, p)[Len(q) + 1] = p /\ Len(q) \in Nat /\ DOMAIN q = 1..Len(q)
        /\ \A i \in DOMAIN q : Append(q, p)[i] = q[i] /\ i \in DOMAIN Append(q, p)
    BY <1>4, <1>5, AppendPlaces
  <2>2. group[u] # NoGroup \/ Sends(q, "CONNECT")
    BY <1>1, <1>3, <1>7 DEF Chats
  <2>3. group[u] # NoGroup \/ \E j \in DOMAIN Append(q, p) : j < Len(q) + 1 /\ Append(q, p)[j].op = "CONNECT"
    BY <2>1, <2>2 DEF Sends
  <2>4. LawfulAt(u, Append(q, p), Len(q) + 1, game[u], group[u])
    BY <1>3, <1>4, <2>1, <2>3 DEF LawfulAt
  <2>5. Line(u)' /\ (Served(u)' <=> Served(u)) /\ c2s'[u] = Append(q, p) /\ group' = group /\ game' = game
    BY <1>1, <1>3, <1>4, <1>7, <2>4, SendLine DEF Sound
  <2>6. \A op \in {"CONNECT", "SCAN", "DISCONNECT"} : Sends(Append(q, p), op) <=> Sends(q, op)
    BY <1>4, <1>5, AppendSends
  <2>7. \A n : Asks(q, n) => Asks(Append(q, p), n)
    BY <1>4, <1>5, AppendSends
  <2> DEFINE t == Append(q, p)
  <2>8. /\ c2s'[u] = t
        /\ Sends(t, "CONNECT") <=> Sends(c2s[u], "CONNECT")
        /\ Sends(t, "SCAN") <=> Sends(c2s[u], "SCAN")
        /\ Sends(t, "DISCONNECT") <=> Sends(c2s[u], "DISCONNECT")
        /\ Asks(c2s[u], lib[u].name) => Asks(t, lib[u].name)
    BY <2>5, <2>6, <2>7
  <2> HIDE DEF q, t
  <2>9. /\ Joins(u) => Joins(u)'
        /\ Scans(u) => Scans(u)'
        /\ Stays(u) => Stays(u)'
        /\ Apart(u) => Apart(u)'
        /\ Creating(u)' <=> Creating(u)
        /\ Scanning(u)' <=> Scanning(u)
    BY <1>1, <2>5, <2>8 DEF Joins, Scans, Listing, Stays, Apart, InGroup, Creating, Scanning
  <2>10. Phase(u)'
    BY <1>1, <1>3, <1>7, <2>5, <2>8, <2>9 DEF Phase
  <2>11. Chats(u)'
    BY <1>1, <1>3, <2>5, <2>8 DEF Chats
  <2> QED
    BY <1>6, <2>5, <2>10, <2>11 DEF Sound
<1>8. CASE ~Served(u)
  <2>1. Line(u)' /\ (Served(u)' <=> Served(u))
    BY <1>1, <1>3, <1>4, <1>8, SendLine DEF Sound
  <2>2. Phase(u)' /\ Chats(u)'
    BY <1>1, <1>3, <1>8, <2>1 DEF Phase, Chats
  <2> QED
    BY <1>6, <2>1, <2>2 DEF Sound
<1> QED
  BY <1>7, <1>8

LEMMA FinderKeepsSound ==
    ASSUME NetTypes, NEW u \in Users, Sound(u), FinderStep(u), UNCHANGED serverVars
    PROVE  Sound(u)'
<1> DEFINE SamePhases == /\ Joins(u) => Joins(u)'
                         /\ Scans(u) => Scans(u)'
                         /\ Stays(u) => Stays(u)'
                         /\ Apart(u) => Apart(u)'
<1>1. CASE PopMessage(u)
  <2>1. /\ FinderRuns(u) /\ lib[u].outbox > 0 /\ UNCHANGED <<app, wireVars>>
        /\ lib'[u].init = lib[u].init /\ lib'[u].status = lib[u].status
        /\ lib'[u].name = lib[u].name /\ lib'[u].discPending = lib[u].discPending
        /\ lib'[u].discThread = lib[u].discThread /\ lib'[u].connected = lib[u].connected
    BY <1>1 DEF PopMessage, NetTypes, ClientTypeOK, LibState
  <2>2. lib[u].init = 1 /\ Running(u) /\ Phase(u) /\ Chats(u)
    BY <2>1, FinderAlive DEF Terminating
  <2>3. "Chat" \in Calls[u]
    BY <2>1, <2>2 DEF Running
  <2>4. Line(u)' /\ (Served(u)' <=> Served(u)) /\ UNCHANGED <<c2s, s2c, cliEnd, group, game>>
    BY <2>1, LineStable DEF wireVars, serverVars, dbVars, groupVars, userVars
  <2>5. Library(u)'
    BY <2>1, <2>2, <2>3, <2>4 DEF Library, Running
  <2>6. SamePhases /\ (Creating(u)' <=> Creating(u)) /\ (Scanning(u)' <=> Scanning(u))
    BY <2>1, <2>4 DEF Joins, Scans, Listing, Stays, Apart, InGroup, Creating, Scanning
  <2>7. Phase(u)'
    BY <2>1, <2>2, <2>4, <2>6 DEF Phase
  <2>8. Chats(u)'
    BY <2>1, <2>2, <2>4 DEF Chats
  <2> QED
    BY <2>4, <2>5, <2>7, <2>8 DEF Sound
<1>2. CASE SendMessage(u)
  BY <1>2, ChatKeepsSound
<1>3. CASE NotifyDisconnect(u)
  <2>1. /\ FinderRuns(u) /\ lib[u].discPending /\ UNCHANGED wireVars
        /\ lib'[u].init = lib[u].init /\ lib'[u].status = lib[u].status
        /\ lib'[u].name = lib[u].name /\ ~lib'[u].discPending
        /\ lib'[u].discThread = lib[u].discThread /\ lib'[u].connected = lib[u].connected
        /\ lib'[u].outbox = lib[u].outbox /\ lib'[u].chat = lib[u].chat
    BY <1>3 DEF NotifyDisconnect, NetTypes, ClientTypeOK, LibState
  <2>2. lib[u].init = 1 /\ Running(u) /\ Phase(u) /\ Chats(u)
    BY <2>1, FinderAlive DEF Terminating
  <2>3. app[u].call = "Disconnect" /\ ~app[u].answered
    BY <2>1, <2>2 DEF Running
  <2>4. app'[u].pc = app[u].pc /\ app'[u].call = "Disconnect" /\ app'[u].answered
    BY <1>3, <2>3 DEF NotifyDisconnect, Notify, NetTypes, ClientTypeOK, AppState
  <2>5. Line(u)' /\ (Served(u)' <=> Served(u)) /\ UNCHANGED <<c2s, s2c, cliEnd, group, game>>
    BY <2>1, LineStable DEF wireVars, serverVars, dbVars, groupVars, userVars
  <2>6. Library(u)'
    BY <2>1, <2>2, <2>3, <2>4, <2>5 DEF Library, Running
  <2>7. SamePhases /\ ~Creating(u)' /\ ~Creating(u) /\ ~Scanning(u)' /\ ~Scanning(u)
    BY <2>1, <2>3, <2>4, <2>5 DEF Joins, Scans, Listing, Stays, Apart, InGroup, Creating, Scanning
  <2>8. Phase(u)'
    BY <2>1, <2>2, <2>5, <2>7 DEF Phase
  <2>9. Chats(u)'
    BY <2>1, <2>2, <2>5 DEF Chats
  <2> QED
    BY <2>5, <2>6, <2>8, <2>9 DEF Sound
<1>4. CASE ReceiveBssid(u)
  BY <1>4, BssidKeepsSound
<1>5. CASE ReceiveChat(u)
  BY <1>5, QuietReceive DEF ReceiveChat, clientVars, SameLibrary, Answers
<1>6. CASE ReceiveConnect(u)
  <2>1. Receive(u, "CONNECT") /\ UNCHANGED app /\ SameLibrary(u)
    BY <1>6 DEF ReceiveConnect, SameLibrary, NetTypes, ClientTypeOK, LibState
  <2> QED
    BY <2>1, QuietReceive DEF Answers
<1>7. CASE ReceiveDisconnect(u)
  <2>1. Receive(u, "DISCONNECT") /\ UNCHANGED app /\ SameLibrary(u)
    BY <1>7 DEF ReceiveDisconnect, SameLibrary, NetTypes, ClientTypeOK, LibState
  <2> QED
    BY <2>1, QuietReceive DEF Answers
<1>8. CASE ReceiveScan(u)
  <2>1. Receive(u, "SCAN") /\ UNCHANGED app /\ SameLibrary(u)
    BY <1>8 DEF ReceiveScan, SameLibrary, NetTypes, ClientTypeOK, LibState
  <2> QED
    BY <2>1, QuietReceive DEF Answers
<1>9. CASE ReceiveScanComplete(u)
  BY <1>9, ScannedKeepsSound
<1>10. CASE FinderLeaves(u)
  <2>1. /\ lib[u].init = 0 /\ app[u].pc = "term" /\ ~lib[u].chat /\ UNCHANGED <<app, wireVars>>
        /\ lib'[u].init = -1 /\ lib'[u].status = "DISCONNECTED"
        /\ lib'[u].name = lib[u].name /\ lib'[u].discPending = lib[u].discPending
        /\ lib'[u].discThread = lib[u].discThread /\ lib'[u].connected = lib[u].connected
        /\ lib'[u].outbox = lib[u].outbox /\ ~lib'[u].chat
    BY <1>10 DEF FinderLeaves, NetTypes, ClientTypeOK, LibState
  <2>2. Terminating(u) /\ Phase(u) /\ Chats(u)
    BY <2>1, FinderAlive DEF FinderRuns
  <2>3. Line(u)' /\ (Served(u)' <=> Served(u)) /\ UNCHANGED <<c2s, s2c, cliEnd, group, game>>
    BY <2>1, LineStable DEF wireVars, serverVars, dbVars, groupVars, userVars
  <2>4. Library(u)'
    BY <2>1, <2>2, <2>3 DEF Library, Ended, Terminating
  <2>5. ~Creating(u) /\ ~Scanning(u) /\ ~Creating(u)' /\ ~Scanning(u)'
    BY <2>1, <2>2 DEF Terminating, Creating, Scanning
  <2>6. Phase(u)'
    BY <2>1, <2>2, <2>3, <2>5 DEF Phase, Stays, Apart
  <2>7. Chats(u)'
    BY <2>1, <2>2 DEF Chats, Terminating
  <2> QED
    BY <2>3, <2>4, <2>6, <2>7 DEF Sound
<1> QED
  BY <1>1, <1>2, <1>3, <1>4, <1>5, <1>6, <1>7, <1>8, <1>9, <1>10 DEF FinderStep

(* Neither the client nor the server's pointers of v are touched, and v is *)
(* sent no answer.                                                         *)
Undisturbed(v) ==
    /\ lib'[v] = lib[v] /\ app'[v] = app[v] /\ cliEnd'[v] = cliEnd[v]
    /\ c2s'[v] = c2s[v] /\ srvEnd'[v] = srvEnd[v] /\ game'[v] = game[v] /\ group'[v] = group[v]
    /\ SameAnswers(s2c[v], s2c'[v])

LEMMA UndisturbedSound ==
    ASSUME NEW v \in Users, Sound(v), Undisturbed(v)
    PROVE  Sound(v)'
<1>1. SameLibrary(v)
  BY DEF Undisturbed, SameLibrary
<1> QED
  BY <1>1, SoundStable DEF Undisturbed

(* What one client does is no matter of another's connection. *)
LEMMA ActsLeaveOthers ==
    ASSUME NetTypes, NEW u \in Users, LibraryActs(u), UNCHANGED serverVars, NEW v \in Users, v # u
    PROVE  Undisturbed(v) /\ s2c'[v] = s2c[v]
<1>1. UNCHANGED <<game, group>>
  BY DEF serverVars, dbVars, groupVars, userVars
<1>2. lib'[v] = lib[v] /\ app'[v] = app[v] /\ UNCHANGED <<c2s[v], s2c[v], cliEnd[v], srvEnd[v]>>
  <2> USE DEF NetTypes, ClientTypeOK, WireTypeOK, wireVars, WireSend, WireClose
  <2>1. CASE InitLibrary(u)
    BY <2>1 DEF InitLibrary, WireConnect
  <2>2. ASSUME NEW name \in Names, CreateCalled(u, name)
        PROVE  lib'[v] = lib[v] /\ app'[v] = app[v] /\ UNCHANGED <<c2s[v], s2c[v], cliEnd[v], srvEnd[v]>>
    BY <2>2 DEF CreateCalled
  <2>3. CASE Scan(u) \/ DisconnectCalled(u) \/ TermCalled(u) \/ CreateSends(u) \/ DisconnectReturns(u)
             \/ TermReturns(u)
    BY <2>3 DEF Scan, DisconnectCalled, TermCalled, CreateSends, DisconnectReturns, TermReturns
  <2>4. CASE PlayerStep(u) \/ DiscStep(u)
    BY <2>4 DEF PlayerStep, TypeMessage, PowerOff, DiscStep, DiscStarts, DiscSends, DiscEnds
  <2>5. CASE PopMessage(u) \/ SendMessage(u) \/ NotifyDisconnect(u) \/ FinderLeaves(u)
    BY <2>5 DEF PopMessage, SendMessage, NotifyDisconnect, FinderLeaves, Notify
  <2>6. CASE ReceiveBssid(u) \/ ReceiveChat(u) \/ ReceiveConnect(u) \/ ReceiveDisconnect(u)
             \/ ReceiveScan(u) \/ ReceiveScanComplete(u)
    BY <2>6 DEF ReceiveBssid, ReceiveChat, ReceiveConnect, ReceiveDisconnect, ReceiveScan,
       ReceiveScanComplete, Receive, Notify, clientVars
  <2> QED
    BY <2>1, <2>2, <2>3, <2>4, <2>5, <2>6 DEF LibraryActs, GameActs, FinderStep
<1> QED
  BY <1>1, <1>2 DEF Undisturbed, SameAnswers

LEMMA ClientLeavesOthers ==
    ASSUME NetTypes, NEW u \in Users, ClientStep(u), NEW v \in Users, v # u
    PROVE  Undisturbed(v)
  BY ClientActs, ActsLeaveOthers

-----------------------------------------------------------------------------
(* What the server does for one user is no matter of another's connection: *)
(* the packets that he is sent answer nothing he has asked for.            *)
LEMMA SentQuietly ==
    ASSUME NetTypes, NEW v \in Users, NEW f \in Seq(S2C), NoAnswer(f),
           s2c'[v] = IF cliEnd[v] = "open" THEN s2c[v] \o f ELSE s2c[v]
    PROVE  SameAnswers(s2c[v], s2c'[v])
<1>1. SameAnswers(s2c[v], s2c[v] \o f) /\ SameAnswers(s2c[v], s2c[v])
  BY LibraryIs, QuietPackets DEF SameAnswers
<1> QED
  BY <1>1

LEMMA LeftBehind ==
    ASSUME IInv, NetTypes, NEW u \in Users, group[u] # NoGroup, NEW v \in Users,
           SendTo(LAMBDA w : LeavePackets(u, w))
    PROVE  SameAnswers(s2c[v], s2c'[v])
<1>1. s2c'[v] = IF cliEnd[v] = "open" THEN s2c[v] \o LeavePackets(u, v) ELSE s2c[v]
  BY DEF SendTo
<1>2. LeavePackets(u, v) \in Seq(S2C) /\ NoAnswer(LeavePackets(u, v))
  BY LeavePacketsTyped, LeaveAnswers DEF IInv
<1> QED
  BY <1>1, <1>2, SentQuietly

LEMMA LogoutLeavesOthers ==
    ASSUME IInv, NetTypes, NEW u \in Users, LogoutUser(u), UNCHANGED cliEnd,
           UNCHANGED clientVars, NEW v \in Users, v # u
    PROVE  Undisturbed(v)
<1>1. /\ lib'[v] = lib[v] /\ app'[v] = app[v] /\ cliEnd'[v] = cliEnd[v]
      /\ c2s'[v] = c2s[v] /\ srvEnd'[v] = srvEnd[v] /\ game'[v] = game[v]
  BY DEF LogoutUser, clientVars, NetTypes, WireTypeOK, IInv, UserInv, UserTypes
<1>2. group'[v] = group[v]
  BY DEF LogoutUser, UnlinkFromGroup, groupVars, IInv, GroupInv, GroupTypes
<1>3. SameAnswers(s2c[v], s2c'[v])
  <2>1. CASE group[u] # NoGroup
    BY <2>1, LeftBehind DEF LogoutUser
  <2>2. CASE group[u] = NoGroup
    BY <2>2 DEF LogoutUser, SameAnswers
  <2> QED
    BY <2>1, <2>2
<1> QED
  BY <1>1, <1>2, <1>3 DEF Undisturbed

LEMMA VisitLeavesOthers ==
    ASSUME IInv, NetTypes, NEW u \in Users, ServerVisit(u), UNCHANGED clientVars,
           NEW v \in Users, v # u
    PROVE  Undisturbed(v)
<1> DEFINE Elsewhere == /\ cliEnd'[v] = cliEnd[v] /\ c2s'[v] = c2s[v] /\ srvEnd'[v] = srvEnd[v]
                        /\ game'[v] = game[v] /\ group'[v] = group[v]
           Types == /\ c2s \in [Users -> Seq(C2S)]
                    /\ srvEnd \in [Users -> {"none", "backlog", "open", "closed"}]
                    /\ game \in [Users -> Games \cup {NoGame}]
                    /\ group \in [Users -> Groups \cup {NoGroup}]
<1>1. Types
  BY DEF NetTypes, WireTypeOK, IInv, UserInv, UserTypes, GroupInv, GroupTypes
<1>2. lib'[v] = lib[v] /\ app'[v] = app[v]
  BY DEF clientVars
<1>3. ASSUME Elsewhere, SameAnswers(s2c[v], s2c'[v]) PROVE Undisturbed(v)
  BY <1>2, <1>3 DEF Undisturbed
<1>4. SameAnswers(s2c[v], s2c[v])
  BY DEF SameAnswers
<1>5. CASE LogoutUser(u) /\ UNCHANGED cliEnd
  BY <1>5, LogoutLeavesOthers
<1>6. CASE LoginUserStream(u)
  <2>1. Elsewhere /\ s2c' = s2c
    BY <1>1, <1>6 DEF LoginUserStream, groupVars
  <2> QED
    BY <1>3, <1>4, <2>1
<1>7. CASE (LoginUserData(u) \/ PingUser(u)) /\ ~LogoutUser(u)
  <2>1. Elsewhere /\ s2c' = s2c
    BY <1>1, <1>7 DEF LoginUserData, PingUser, Handle, Consume, dbVars, groupVars, userVars
  <2> QED
    BY <1>3, <1>4, <2>1
<1>8. CASE ConnectUser(u) /\ ~LogoutUser(u)
  <2> DEFINE k == <<game[u], Head(c2s[u]).group>>
  <2>1. /\ game[u] \in Games /\ Head(c2s[u]).group \in Names /\ Elsewhere
        /\ SendTo(LAMBDA w : JoinPackets(u, k, w))
    BY <1>1, <1>8 DEF ConnectUser, Handle, Consume, LoggedIn, groupVars, userVars
  <2>2. s2c'[v] = IF cliEnd[v] = "open" THEN s2c[v] \o JoinPackets(u, k, v) ELSE s2c[v]
    BY <2>1 DEF SendTo
  <2>3. k \in Groups
    BY <2>1 DEF Groups
  <2> HIDE DEF k
  <2>4. JoinPackets(u, k, v) \in Seq(S2C) /\ NoAnswer(JoinPackets(u, k, v))
    BY <2>3, JoinPacketsTyped, JoinAnswers DEF IInv
  <2>5. SameAnswers(s2c[v], s2c'[v])
    BY <2>2, <2>4, SentQuietly
  <2> QED
    BY <1>3, <2>1, <2>5
<1>9. CASE DisconnectUser(u) /\ ~LogoutUser(u)
  <2>1. Elsewhere /\ group[u] # NoGroup /\ SendTo(LAMBDA w : LeavePackets(u, w))
    BY <1>1, <1>9 DEF DisconnectUser, Handle, Consume, UnlinkFromGroup, userVars
  <2>2. SameAnswers(s2c[v], s2c'[v])
    BY <2>1, LeftBehind
  <2> QED
    BY <1>3, <2>1, <2>2
<1>10. CASE SendScanResults(u) /\ ~LogoutUser(u)
  <2>1. Elsewhere /\ s2c'[v] = IF cliEnd[v] = "open" THEN s2c[v] \o <<>> ELSE s2c[v]
    BY <1>1, <1>10 DEF SendScanResults, Handle, Consume, SendTo, dbVars, groupVars, userVars
  <2>2. NoAnswer(<<>>) /\ <<>> \in Seq(S2C)
    BY DEF NoAnswer
  <2>3. SameAnswers(s2c[v], s2c'[v])
    BY <2>1, <2>2, SentQuietly
  <2> QED
    BY <1>3, <2>1, <2>3
<1>11. CASE SpreadMessage(u) /\ ~LogoutUser(u)
  <2> DEFINE f == IF Contains(player[group[u]], v) THEN <<ChatS2C>> ELSE <<>>
  <2>1. Elsewhere /\ s2c'[v] = IF cliEnd[v] = "open" THEN s2c[v] \o f ELSE s2c[v]
    BY <1>1, <1>11 DEF SpreadMessage, Handle, Consume, SendTo, dbVars, groupVars, userVars
  <2>2. ChatS2C \in S2C /\ ChatS2C.op = "CHAT"
    BY DEF S2C, ChatS2C
  <2>3. <<ChatS2C>> \in Seq(S2C) /\ NoAnswer(<<ChatS2C>>)
    BY <2>2, OneAnswered DEF Answers
  <2>4. f \in Seq(S2C) /\ NoAnswer(f)
    BY <2>3 DEF NoAnswer
  <2> HIDE DEF f
  <2>5. SameAnswers(s2c[v], s2c'[v])
    BY <2>1, <2>4, SentQuietly
  <2> QED
    BY <1>3, <2>1, <2>5
<1>12. CASE HangUp(u) \/ TimeOut(u) \/ InvalidOpcode(u)
  BY <1>5, <1>12 DEF HangUp, TimeOut, InvalidOpcode, Handle
<1>13. ServeUser(u) => UNCHANGED cliEnd
  BY DEF ServeUser, LoginUserData, PingUser, ConnectUser, DisconnectUser, SendScanResults,
     SpreadMessage, InvalidOpcode, Handle
<1> QED
  BY <1>5, <1>6, <1>7, <1>8, <1>9, <1>10, <1>11, <1>12, <1>13 DEF ServerVisit, ServeUser

-----------------------------------------------------------------------------
(* What the server finds at the head of a queue is never an offence.       *)
LEMMA HeadOfLine ==
    ASSUME IInv, NetTypes, NEW u \in Users, Line(u), NEW op, Handle(u, op)
    PROVE  /\ c2s[u] \in Seq(C2S) /\ c2s[u] # <<>> /\ Head(c2s[u]).op = op
           /\ srvEnd[u] = "open" /\ Served(u) /\ Lawful(u, c2s[u], game[u], group[u])
           /\ op \in {"LOGIN", "CONNECT", "SCAN", "DISCONNECT", "CHAT"}
           /\ op = "LOGIN" <=> game[u] = NoGame
           /\ op = "LOGIN" => Head(c2s[u]).game = GameOf[u]
           /\ op # "LOGIN" => game[u] = GameOf[u]
           /\ op = "CONNECT" => Head(c2s[u]).group \in Names
           /\ op \in {"LOGIN", "CONNECT", "SCAN"} <=> group[u] = NoGroup
           /\ op = "DISCONNECT" => "Disconnect" \in Calls[u]
           /\ op = "CHAT" => "Chat" \in Calls[u]
<1>1. c2s[u] \in Seq(C2S) /\ c2s[u] # <<>> /\ Head(c2s[u]).op = op /\ u \in dbUser
  BY LibraryIs DEF Handle
<1>2. srvEnd[u] = "open"
  BY <1>1 DEF IInv, UserInv, SocketsOwned
<1>3. Served(u) /\ Lawful(u, c2s[u], game[u], group[u])
  BY <1>2 DEF Line, Served
<1>4. \/ op = "LOGIN" /\ game[u] = NoGame /\ group[u] = NoGroup /\ Head(c2s[u]).game = GameOf[u]
      \/ op = "CONNECT" /\ game[u] # NoGame /\ group[u] = NoGroup /\ Head(c2s[u]).group \in Names
      \/ op = "SCAN" /\ game[u] # NoGame /\ group[u] = NoGroup
      \/ op = "DISCONNECT" /\ game[u] # NoGame /\ group[u] # NoGroup /\ "Disconnect" \in Calls[u]
      \/ op = "CHAT" /\ game[u] # NoGame /\ group[u] # NoGroup /\ "Chat" \in Calls[u]
  BY <1>1, <1>3, HeadIsLawful
<1>5. game[u] \in {NoGame, GameOf[u]}
  BY <1>3 DEF Lawful
<1> QED
  BY <1>1, <1>2, <1>3, <1>4, <1>5

(* What a visit of the server leaves true of a connection that is in use.  *)
Rests(u) == NoAnswer(s2c[u]) /\ ~Sends(c2s[u], "CONNECT") /\ ~Sends(c2s[u], "SCAN")
MayChat(u) == Sends(c2s[u], "CONNECT") \/ group[u] # NoGroup

Moves(u) ==
    /\ Joins(u) => Joins(u)'
    /\ Listing(u) => Listing(u)'
    /\ Stays(u) => Stays(u)'
    /\ Apart(u) => Apart(u)'
    /\ Rests(u) => Rests(u)'
    /\ "Chat" \in Calls[u] /\ MayChat(u) => MayChat(u)'

(* The connection goes on after the visit.                                 *)
GoesOn(u) ==
    /\ Line(u)' /\ Served(u) /\ srvEnd'[u] = "open"
    /\ game[u] # NoGame => game'[u] = game[u]
    /\ Sends(c2s'[u], "DISCONNECT") => Sends(c2s[u], "DISCONNECT")
    /\ cliEnd[u] = "open" => Moves(u)

(* The connection has ended with the visit.                                *)
IsDropped(u) == srvEnd'[u] = "closed" /\ c2s'[u] = <<>>

(* Nothing is taken from the queue but a LOGIN or a message of the chat.   *)
LEMMA QueueMoves ==
    ASSUME NEW u \in Users, UNCHANGED clientVars, group'[u] = group[u],
           game[u] # NoGame => game'[u] # NoGame,
           \A op \in {"CONNECT", "SCAN", "DISCONNECT"} : Sends(c2s[u], op) <=> Sends(c2s'[u], op),
           \A n : Asks(c2s[u], n) => Asks(c2s'[u], n),
           SameAnswers(s2c[u], s2c'[u])
    PROVE  Moves(u)
<1>1. /\ NoAnswer(s2c[u]) => NoAnswer(s2c'[u])
      /\ OneAnswer(s2c[u], "CONNECT_BSSID") => OneAnswer(s2c'[u], "CONNECT_BSSID")
      /\ OneAnswer(s2c[u], "SCAN_COMPLETE") => OneAnswer(s2c'[u], "SCAN_COMPLETE")
  BY DEF SameAnswers, Answers
<1>2. lib'[u] = lib[u] /\ app'[u] = app[u]
  BY DEF clientVars
<1>3. /\ Sends(c2s[u], "CONNECT") <=> Sends(c2s'[u], "CONNECT")
      /\ Sends(c2s[u], "SCAN") <=> Sends(c2s'[u], "SCAN")
      /\ Sends(c2s[u], "DISCONNECT") <=> Sends(c2s'[u], "DISCONNECT")
      /\ Asks(c2s[u], lib[u].name) => Asks(c2s'[u], lib[u].name)
  OBVIOUS
<1>4. InGroup(u) <=> InGroup(u)'
  BY <1>2 DEF InGroup
<1>5. Joins(u) => Joins(u)'
  BY <1>1, <1>2, <1>3, <1>4 DEF Joins
<1>6. Listing(u) => Listing(u)'
  BY <1>1, <1>3 DEF Listing
<1>7. Stays(u) => Stays(u)'
  BY <1>1, <1>2, <1>3, <1>4 DEF Stays
<1>8. Apart(u) => Apart(u)'
  BY <1>1, <1>2, <1>3 DEF Apart
<1>9. (Rests(u) => Rests(u)') /\ (MayChat(u) => MayChat(u)')
  BY <1>1, <1>3 DEF Rests, MayChat
<1> QED
  BY <1>5, <1>6, <1>7, <1>8, <1>9 DEF Moves

LEMMA AcceptMoves ==
    ASSUME IInv, NetTypes, NEW u \in Users, Line(u), LoginUserStream(u), UNCHANGED clientVars
    PROVE  GoesOn(u) \/ (srvEnd[u] = "backlog" /\ s2c' = s2c /\ IsDropped(u))
<1>1. srvEnd[u] = "backlog" /\ UNCHANGED <<group, game, s2c, cliEnd>> /\ Served(u)
  BY DEF LoginUserStream, groupVars, Served
<1>2. CASE userCount < MaxUsers /\ u \notin dbUser
  <2>1. srvEnd'[u] = "open" /\ c2s' = c2s
    BY <1>2 DEF LoginUserStream, NetTypes, WireTypeOK
  <2>2. Line(u)'
    BY <1>1, <2>1 DEF Line, Served
  <2>3. SameAnswers(s2c[u], s2c'[u])
    BY <1>1 DEF SameAnswers
  <2>4. Moves(u)
    BY <1>1, <2>1, <2>3, QueueMoves
  <2> QED
    BY <1>1, <2>1, <2>2, <2>4 DEF GoesOn
<1>3. CASE ~(userCount < MaxUsers /\ u \notin dbUser)
  BY <1>1, <1>3 DEF LoginUserStream, NetTypes, WireTypeOK, IsDropped
<1> QED
  BY <1>2, <1>3

LEMMA PassingMoves ==
    ASSUME Considerate, IInv, NetTypes, NEW u \in Users, Line(u), NEW op \in {"LOGIN", "CHAT"},
           Handle(u, op), Consume(u), UNCHANGED clientVars, UNCHANGED <<group, srvEnd>>,
           game'[u] = GameOf[u], SameAnswers(s2c[u], s2c'[u])
    PROVE  GoesOn(u)
<1> DEFINE q == c2s[u]
           t == Tail(q)
<1>1. /\ q \in Seq(C2S) /\ q # <<>> /\ Head(q).op = op /\ Served(u) /\ srvEnd[u] = "open"
      /\ Lawful(u, q, game[u], group[u]) /\ (op = "CHAT" => game[u] = GameOf[u])
      /\ (op = "LOGIN" => game[u] = NoGame)
  BY HeadOfLine
<1>2. c2s'[u] = t
  BY DEF Consume, NetTypes, WireTypeOK
<1>3. \A o \in {"CONNECT", "SCAN", "DISCONNECT"} : Sends(q, o) <=> Sends(t, o)
  BY <1>1, TailSends
<1>4. \A n : Asks(q, n) <=> Asks(t, n)
  BY <1>1, TailSends
<1>5. GameOf[u] # NoGame
  BY ClientAssumption, ServerAssumption
<1>6. Lawful(u, t, GameOf[u], group[u])
  BY <1>1, TailIsLawful
<1>7. Line(u)'
  BY <1>1, <1>2, <1>6 DEF Line, Served
<1>8. Moves(u)
  BY <1>2, <1>3, <1>4, <1>5, QueueMoves
<1> QED
  BY <1>1, <1>2, <1>3, <1>7, <1>8 DEF GoesOn

LEMMA LoginMoves ==
    ASSUME Considerate, IInv, NetTypes, NEW u \in Users, Line(u), LoginUserData(u), UNCHANGED clientVars
    PROVE  GoesOn(u)
<1>1. Handle(u, "LOGIN") /\ Head(c2s[u]).game = GameOf[u]
  BY HeadOfLine DEF LoginUserData
<1>2. GameOf[u] \in Games
  BY ClientAssumption
<1>3. Consume(u) /\ UNCHANGED <<group, srvEnd, s2c>> /\ game' = [game EXCEPT ![u] = GameOf[u]]
  BY <1>1, <1>2 DEF LoginUserData, groupVars
<1>4. game'[u] = GameOf[u]
  BY <1>3 DEF IInv, UserInv, UserTypes
<1>5. SameAnswers(s2c[u], s2c'[u])
  BY <1>3 DEF SameAnswers
<1> QED
  BY <1>1, <1>3, <1>4, <1>5, PassingMoves

LEMMA SpreadMoves ==
    ASSUME Considerate, IInv, NetTypes, NEW u \in Users, Line(u), SpreadMessage(u), UNCHANGED clientVars
    PROVE  GoesOn(u)
<1>1. Handle(u, "CHAT")
  BY DEF SpreadMessage
<1>2. group[u] # NoGroup /\ game[u] = GameOf[u]
  BY <1>1, HeadOfLine
<1>3. /\ Consume(u) /\ UNCHANGED <<group, srvEnd, game>>
      /\ s2c'[u] = IF cliEnd[u] = "open" THEN s2c[u] \o <<>> ELSE s2c[u]
  BY <1>2 DEF SpreadMessage, SendTo, dbVars, groupVars, userVars
<1>4. NoAnswer(<<>>) /\ <<>> \in Seq(S2C)
  BY DEF NoAnswer
<1>5. SameAnswers(s2c[u], s2c'[u])
  BY <1>3, <1>4, SentQuietly
<1> QED
  BY <1>1, <1>2, <1>3, <1>5, PassingMoves

(* connect_user puts the newcomer in the group he has asked for, and sends *)
(* him its BSSID.                                                          *)
LEMMA ConnectMoves ==
    ASSUME Considerate, IInv, NetTypes, NEW u \in Users, Line(u), ConnectUser(u), UNCHANGED clientVars
    PROVE  GoesOn(u)
<1> DEFINE q == c2s[u]
           t == Tail(q)
           n == Head(q).group
           k == <<GameOf[u], n>>
<1>1. Handle(u, "CONNECT")
  BY DEF ConnectUser
<1>2. /\ q \in Seq(C2S) /\ q # <<>> /\ Head(q).op = "CONNECT" /\ Served(u) /\ srvEnd[u] = "open"
      /\ Lawful(u, q, game[u], group[u]) /\ game[u] = GameOf[u] /\ n \in Names
      /\ group[u] = NoGroup
  BY <1>1, HeadOfLine
<1>3. k \in Groups /\ k # NoGroup
  BY <1>2, ClientAssumption, ServerAssumption DEF Groups
<1>4. /\ Consume(u) /\ group' = [group EXCEPT ![u] = k] /\ UNCHANGED <<game, srvEnd>>
      /\ SendTo(LAMBDA v : JoinPackets(u, k, v))
  BY <1>2 DEF ConnectUser, userVars
<1>5. c2s'[u] = t /\ group'[u] = k
  BY <1>4 DEF Consume, NetTypes, WireTypeOK, IInv, GroupInv, GroupTypes
<1>6. /\ ~Sends(t, "CONNECT") /\ ~Sends(t, "SCAN") /\ ~Sends(t, "DISCONNECT")
      /\ Sends(q, "CONNECT")
  BY <1>2, BehindTheHead, TailSends
<1>7. Lawful(u, t, game[u], k)
  BY <1>2, <1>3, TailIsLawful
<1>8. ASSUME NEW m, Asks(q, m) PROVE m = n
  <2>1. (Head(q).op = "CONNECT" /\ Head(q).group = m) \/ Asks(t, m)
    BY <1>2, <1>8, TailSends
  <2>2. ~Asks(t, m)
    BY <1>6 DEF Asks, Sends
  <2> QED
    BY <2>1, <2>2
<1>9. s2c'[u] = IF cliEnd[u] = "open" THEN s2c[u] \o JoinPackets(u, k, u) ELSE s2c[u]
  BY <1>4 DEF SendTo
<1> HIDE DEF k, t
<1>10. JoinPackets(u, k, u) \in Seq(S2C) /\ OneAnswer(JoinPackets(u, k, u), "CONNECT_BSSID")
  BY <1>3, JoinPacketsTyped, JoinAnswers DEF IInv
<1>11. Line(u)'
  BY <1>2, <1>4, <1>5, <1>7 DEF Line, Served
<1>12. ASSUME cliEnd[u] = "open", Joins(u) PROVE Joins(u)'
  <2>1. Asks(q, lib[u].name) /\ NoAnswer(s2c[u]) /\ lib'[u] = lib[u]
    BY <1>6, <1>12 DEF Joins, clientVars
  <2>2. lib[u].name = n
    BY <1>8, <2>1
  <2>3. s2c[u] \in Seq(S2C)
    BY LibraryIs
  <2>4. OneAnswer(s2c'[u], "CONNECT_BSSID")
    BY <1>9, <1>10, <1>12, <2>1, <2>3, ConcatAnswers
  <2>5. InGroup(u)'
    BY <1>3, <1>5, <2>1, <2>2 DEF InGroup, k
  <2> QED
    BY <1>5, <1>6, <1>12, <2>1, <2>4, <2>5 DEF Joins
<1>13. cliEnd[u] = "open" => Moves(u)
  BY <1>3, <1>5, <1>6, <1>12 DEF Moves, Listing, Stays, Apart, Rests, MayChat
<1> QED
  BY <1>2, <1>4, <1>5, <1>6, <1>11, <1>13 DEF GoesOn

(* disconnect_user, and no packet behind the farewell is lost.             *)
LEMMA LeftMoves ==
    ASSUME Considerate, IInv, NetTypes, NEW u \in Users, Line(u), DisconnectUser(u),
           UNCHANGED clientVars
    PROVE  GoesOn(u)
<1> DEFINE q == c2s[u]
           t == Tail(q)
<1>1. Handle(u, "DISCONNECT")
  BY DEF DisconnectUser
<1>2. /\ q \in Seq(C2S) /\ q # <<>> /\ Head(q).op = "DISCONNECT" /\ Served(u) /\ srvEnd[u] = "open"
      /\ Lawful(u, q, game[u], group[u]) /\ group[u] # NoGroup /\ "Disconnect" \in Calls[u]
  BY <1>1, HeadOfLine
<1>3. /\ Consume(u) /\ UnlinkFromGroup(u) /\ UNCHANGED <<game, srvEnd>>
      /\ SendTo(LAMBDA v : LeavePackets(u, v))
  BY <1>2 DEF DisconnectUser, userVars
<1>4. c2s'[u] = t /\ group'[u] = NoGroup
  BY <1>3 DEF Consume, UnlinkFromGroup, NetTypes, WireTypeOK, IInv, GroupInv, GroupTypes
<1>5. /\ ~Sends(t, "DISCONNECT") /\ Sends(q, "DISCONNECT")
      /\ (Sends(q, "CONNECT") <=> Sends(t, "CONNECT"))
      /\ (Sends(q, "SCAN") <=> Sends(t, "SCAN"))
  BY <1>2, BehindTheHead, TailSends
<1>6. \A m : Asks(q, m) <=> Asks(t, m)
  BY <1>2, TailSends
<1>7. Lawful(u, t, game[u], NoGroup)
  BY <1>2, TailIsLawful
<1>8. SameAnswers(s2c[u], s2c'[u])
  BY <1>2, <1>3, LeftBehind
<1>9. /\ NoAnswer(s2c[u]) => NoAnswer(s2c'[u])
      /\ OneAnswer(s2c[u], "CONNECT_BSSID") => OneAnswer(s2c'[u], "CONNECT_BSSID")
      /\ OneAnswer(s2c[u], "SCAN_COMPLETE") => OneAnswer(s2c'[u], "SCAN_COMPLETE")
  BY <1>8 DEF SameAnswers, Answers
<1>10. "Chat" \notin Calls[u]
  BY <1>2 DEF Considerate
<1>11. lib'[u] = lib[u] /\ app'[u] = app[u]
  BY DEF clientVars
<1> HIDE DEF t
<1>12. Line(u)'
  BY <1>2, <1>3, <1>4, <1>7 DEF Line, Served
<1>13. ~Stays(u)
  BY <1>5 DEF Stays
<1>14. Joins(u) => Joins(u)'
  BY <1>4, <1>5, <1>6, <1>9, <1>11 DEF Joins
<1>15. Listing(u) => Listing(u)'
  BY <1>2, <1>3, <1>4, <1>5, <1>9 DEF Listing
<1>16. Apart(u) => Apart(u)'
  BY <1>4, <1>5, <1>9, <1>11 DEF Apart
<1>17. Rests(u) => Rests(u)'
  BY <1>4, <1>5, <1>9 DEF Rests
<1>18. Moves(u)
  BY <1>10, <1>13, <1>14, <1>15, <1>16, <1>17 DEF Moves
<1> QED
  BY <1>2, <1>3, <1>4, <1>5, <1>12, <1>18 DEF GoesOn

(* send_scan_results answers the scan.                                     *)
LEMMA ListedMoves ==
    ASSUME Considerate, IInv, NetTypes, NEW u \in Users, Line(u), SendScanResults(u),
           UNCHANGED clientVars
    PROVE  GoesOn(u)
<1> DEFINE q == c2s[u]
           t == Tail(q)
<1>1. Handle(u, "SCAN")
  BY DEF SendScanResults
<1>2. /\ q \in Seq(C2S) /\ q # <<>> /\ Head(q).op = "SCAN" /\ Served(u) /\ srvEnd[u] = "open"
      /\ Lawful(u, q, game[u], group[u]) /\ group[u] = NoGroup /\ game[u] # NoGame
      /\ game[u] \in Games
  BY <1>1, HeadOfLine DEF IInv, UserInv, UserTypes
<1>3. /\ Consume(u) /\ UNCHANGED <<game, group, srvEnd>>
      /\ s2c'[u] = IF cliEnd[u] = "open" THEN s2c[u] \o ScanPackets(game[u]) ELSE s2c[u]
  BY <1>2 DEF SendScanResults, SendTo, dbVars, groupVars, userVars
<1>4. c2s'[u] = t
  BY <1>3 DEF Consume, NetTypes, WireTypeOK
<1>5. ~Sends(t, "SCAN") /\ ~Sends(t, "CONNECT") /\ ~Sends(t, "DISCONNECT") /\ Sends(q, "SCAN")
      /\ ~Sends(q, "CONNECT")
  BY <1>2, BehindTheHead, TailSends
<1>6. Lawful(u, t, game[u], group[u])
  BY <1>2, TailIsLawful
<1>7. ScanPackets(game[u]) \in Seq(S2C) /\ OneAnswer(ScanPackets(game[u]), "SCAN_COMPLETE")
  BY <1>2, ScanPacketsTyped, ScanAnswers DEF IInv
<1> HIDE DEF t
<1>8. Line(u)'
  BY <1>2, <1>3, <1>4, <1>6 DEF Line, Served
<1>9. ASSUME cliEnd[u] = "open", Listing(u) PROVE Listing(u)'
  <2>1. NoAnswer(s2c[u]) /\ s2c[u] \in Seq(S2C)
    BY <1>5, <1>9, LibraryIs DEF Listing
  <2>2. OneAnswer(s2c'[u], "SCAN_COMPLETE")
    BY <1>3, <1>7, <1>9, <2>1, ConcatAnswers
  <2> QED
    BY <1>2, <1>3, <1>4, <1>5, <2>2 DEF Listing
<1>10. cliEnd[u] = "open" => Moves(u)
  BY <1>2, <1>5, <1>9 DEF Moves, Joins, Stays, Apart, Rests, MayChat
<1> QED
  BY <1>2, <1>3, <1>4, <1>5, <1>8, <1>10 DEF GoesOn

(* A visit handles a packet as it is meant, or ends a connection that was  *)
(* refused at once or that the client has given up.                        *)
LEMMA VisitMoves ==
    ASSUME Considerate, IInv, NetTypes, NEW u \in Users, Line(u), ServerVisit(u),
           UNCHANGED clientVars
    PROVE  \/ GoesOn(u)
           \/ IsDropped(u) /\ (cliEnd[u] = "open" => srvEnd[u] = "backlog" /\ s2c' = s2c)
<1>1. CASE LoginUserStream(u)
  BY <1>1, AcceptMoves
<1>2. CASE HangUp(u) \/ (cliEnd[u] = "gone" /\ TimeOut(u))
  <2>1. LogoutUser(u) /\ cliEnd[u] # "open"
    BY <1>2 DEF HangUp, TimeOut
  <2>2. IsDropped(u)
    BY <2>1 DEF LogoutUser, NetTypes, WireTypeOK, IsDropped
  <2> QED
    BY <2>1, <2>2
<1>3. ~PingUser(u)
  <2>1. ~Handle(u, "PING")
    BY HeadOfLine
  <2> QED
    BY <2>1 DEF PingUser
<1>4. ~InvalidOpcode(u)
  <2> SUFFICES ASSUME NEW op, Handle(u, op),
                      IF LoggedIn(u) THEN op \in {"LOGIN", "GARBAGE"} ELSE op # "LOGIN"
               PROVE  FALSE
    BY DEF InvalidOpcode
  <2> QED
    BY HeadOfLine DEF LoggedIn
<1>5. CASE ServeUser(u)
  BY <1>3, <1>4, <1>5, LoginMoves, SpreadMoves, ConnectMoves, LeftMoves, ListedMoves DEF ServeUser
<1> QED
  BY <1>1, <1>2, <1>5 DEF ServerVisit

(* The library and the game do not notice a visit of the server.           *)
LEMMA VisitKeepsSound ==
    ASSUME Considerate, IInv, NetTypes, NEW u \in Users, Sound(u), ServerVisit(u),
           UNCHANGED clientVars
    PROVE  Sound(u)'
<1>1. /\ lib' = lib /\ app' = app /\ cliEnd' = cliEnd
      /\ (Creating(u)' <=> Creating(u)) /\ (Scanning(u)' <=> Scanning(u))
  <2>1. cliEnd' = cliEnd
    BY DEF ServerVisit, LoginUserStream, HangUp, TimeOut, ServeUser, LoginUserData, PingUser,
       ConnectUser, DisconnectUser, SendScanResults, SpreadMessage, InvalidOpcode, Handle
  <2> QED
    BY <2>1 DEF clientVars, Creating, Scanning
<1>2. Library(u)'
  BY <1>1 DEF Sound, Library, Running, Terminating, Ended, Off
<1>3. Line(u)
  BY DEF Sound
<1>4. CASE GoesOn(u)
  <2>1. Line(u)' /\ Served(u) /\ Served(u)' /\ (cliEnd[u] = "open" => Moves(u))
    BY <1>4 DEF GoesOn, Served
  <2>2. ASSUME cliEnd[u] = "open" PROVE Phase(u)' /\ Chats(u)'
    <3>1. Phase(u) /\ Chats(u)
      BY <2>2 DEF Sound
    <3>2. Phase(u)'
      BY <1>1, <2>1, <2>2, <3>1 DEF Phase, Moves, Scans, Rests
    <3>3. Chats(u)'
      BY <1>1, <2>1, <2>2, <3>1 DEF Chats, Moves, MayChat
    <3> QED
      BY <3>2, <3>3
  <2> QED
    BY <1>1, <1>2, <2>1, <2>2 DEF Sound
<1>5. CASE IsDropped(u) /\ (cliEnd[u] = "open" => srvEnd[u] = "backlog" /\ s2c' = s2c)
  <2>1. Line(u)' /\ ~Served(u)'
    BY <1>5 DEF IsDropped, Line, Served
  <2>2. ASSUME cliEnd[u] = "open" PROVE NoAnswer(s2c[u]) /\ s2c'[u] = s2c[u]
    <3>1. game[u] = NoGame /\ group[u] = NoGroup
      BY <1>5, <2>2, Unserved
    <3>2. Phase(u)
      BY <2>2 DEF Sound
    <3>3. Joins(u) \/ Scans(u) \/ Stays(u) \/ Apart(u) => NoAnswer(s2c[u])
      BY <3>1 DEF Joins, Scans, Listing, Stays, Apart, InGroup
    <3> QED
      BY <1>5, <2>2, <3>2, <3>3 DEF Phase
  <2>3. cliEnd[u] = "open" => Phase(u)' /\ Chats(u)'
    BY <2>1, <2>2 DEF Phase, Chats
  <2> QED
    BY <1>1, <1>2, <2>1, <2>3 DEF Sound
<1> QED
  BY <1>3, <1>4, <1>5, VisitMoves

(* The ends of a connection change by what its own player and the server   *)
(* do with it.                                                             *)
LEMMA EndsElsewhere ==
    ASSUME NetTypes, NEW u \in Users, ServerVisit(u), NEW v \in Users, v # u
    PROVE  cliEnd'[v] = cliEnd[v] /\ srvEnd'[v] = srvEnd[v]
<1>1. srvEnd \in [Users -> {"none", "backlog", "open", "closed"}]
  BY DEF NetTypes, WireTypeOK
<1>2. CASE LogoutUser(u) /\ cliEnd' = cliEnd
  BY <1>1, <1>2 DEF LogoutUser
<1>3. CASE LoginUserStream(u)
  BY <1>1, <1>3 DEF LoginUserStream
<1>4. CASE ServeUser(u) /\ ~LogoutUser(u)
  BY <1>4 DEF ServeUser, LoginUserData, PingUser, ConnectUser, DisconnectUser, SendScanResults,
     SpreadMessage, InvalidOpcode, Handle
<1>5. ServeUser(u) => cliEnd' = cliEnd
  BY DEF ServeUser, LoginUserData, PingUser, ConnectUser, DisconnectUser, SendScanResults,
     SpreadMessage, InvalidOpcode, Handle
<1>6. HangUp(u) \/ TimeOut(u) => LogoutUser(u) /\ cliEnd' = cliEnd
  BY DEF HangUp, TimeOut
<1> QED
  BY <1>2, <1>3, <1>4, <1>5, <1>6 DEF ServerVisit

(* A user who is not logged in finds a place when there is one for all.    *)
LEMMA PlaceLeft ==
    ASSUME IInv, RoomForAll, NEW u \in Users, u \notin dbUser
    PROVE  userCount < MaxUsers
<1>1. IsFiniteSet(Users) /\ MaxUsers \in Nat /\ Cardinality(Users) \in Nat
  BY ServerAssumption, FS_CardinalityType
<1>2. IsFiniteSet(Users \ {u}) /\ Cardinality(Users \ {u}) = Cardinality(Users) - 1
  BY <1>1, FS_RemoveElement
<1>3. dbUser \in SUBSET (Users \ {u}) /\ userCount = Cardinality(dbUser)
  BY DEF IInv, UserInv, UserTypes, UserCounts
<1>4. IsFiniteSet(dbUser) /\ Cardinality(dbUser) <= Cardinality(Users \ {u})
  BY <1>2, <1>3, FS_Subset
<1>5. Cardinality(dbUser) \in Nat
  BY <1>4, FS_CardinalityType
<1> QED
  BY <1>1, <1>2, <1>3, <1>4, <1>5 DEF RoomForAll

LEMMA VisitKeepsUsers ==
    ASSUME Considerate, RoomForAll, IInv, NetTypes, NEW u \in Users, ServerVisit(u),
           Sound(u), NEW v \in Users, Kept(v)
    PROVE  Kept(v)'
<1>1. CASE v # u
  BY <1>1, EndsElsewhere DEF Kept, Served
<1>2. CASE v = u /\ LoginUserStream(u)
  <2>1. u \notin dbUser
    BY <1>2, Unserved DEF LoginUserStream
  <2>2. srvEnd' = [srvEnd EXCEPT ![u] = "open"]
    BY <1>2, <2>1, PlaceLeft DEF LoginUserStream
  <2> QED
    BY <1>2, <2>2 DEF NetTypes, WireTypeOK, Kept, Served
<1>3. CASE v = u /\ (HangUp(u) \/ (cliEnd[u] = "gone" /\ TimeOut(u)))
  BY <1>3 DEF HangUp, TimeOut, Kept
<1>4. CASE v = u /\ ServeUser(u)
  <2>1. PICK op : Handle(u, op)
    BY <1>4 DEF ServeUser, LoginUserData, PingUser, ConnectUser, DisconnectUser,
       SendScanResults, SpreadMessage, InvalidOpcode
  <2>2. /\ op \in {"LOGIN", "CONNECT", "SCAN", "DISCONNECT", "CHAT"} /\ srvEnd[u] = "open"
        /\ op = "LOGIN" <=> ~LoggedIn(u)
        /\ op = "LOGIN" => Head(c2s[u]).game = GameOf[u]
        /\ op = "CONNECT" => Head(c2s[u]).group \in Names
        /\ op \in {"LOGIN", "CONNECT", "SCAN"} <=> group[u] = NoGroup
        /\ Head(c2s[u]).op = op
    BY <2>1, HeadOfLine DEF LoggedIn, Sound
  <2>3. GameOf[u] \in Games
    BY ClientAssumption
  <2>4. ~InvalidOpcode(u)
    BY <2>2 DEF InvalidOpcode, Handle, LoggedIn
  <2>5. srvEnd' = srvEnd
    BY <1>4, <2>2, <2>3, <2>4 DEF ServeUser, LoginUserData, PingUser, ConnectUser, DisconnectUser,
       SendScanResults, SpreadMessage, Handle
  <2> QED
    BY <1>4, <2>2, <2>5 DEF Kept, Served
<1> QED
  BY <1>1, <1>2, <1>3, <1>4 DEF ServerVisit

LEMMA ClientKeepsUsers ==
    ASSUME NetTypes, NEW u \in Users, ClientStep(u), NEW v \in Users, Kept(v)
    PROVE  Kept(v)'
<1> DEFINE Same == UNCHANGED <<cliEnd, srvEnd>>
<1>1. Same => Kept(v)'
  BY DEF Kept, Served
<1>2. CASE \E how \in {"closed", "gone"} : WireClose(u, how)
  BY <1>2 DEF WireClose, Kept, Served, NetTypes, WireTypeOK
<1>3. CASE InitLibrary(u)
  BY <1>3 DEF InitLibrary, WireConnect, Kept, Served, NetTypes, WireTypeOK
<1>4. CASE PlayerStep(u)
  <2>1. TypeMessage(u) => Same
    BY DEF TypeMessage, wireVars
  <2>2. PowerOff(u) => WireClose(u, "gone")
    BY DEF PowerOff
  <2> QED
    BY <1>1, <1>2, <1>4, <2>1, <2>2 DEF PlayerStep
<1>5. CASE DiscStep(u)
  BY <1>1, <1>5 DEF DiscStep, DiscStarts, DiscSends, DiscEnds, wireVars
<1>6. CASE FinderStep(u)
  <2>1. Same
    BY <1>6 DEF FinderStep, PopMessage, SendMessage, NotifyDisconnect, ReceiveBssid, ReceiveChat,
       ReceiveConnect, ReceiveDisconnect, ReceiveScan, ReceiveScanComplete, FinderLeaves, Receive, wireVars
  <2> QED
    BY <1>1, <2>1
<1>7. CASE GameStep(u)
  <2>1. Scan(u) \/ DisconnectCalled(u) \/ TermCalled(u) \/ CreateSends(u) \/ DisconnectReturns(u)
          \/ (\E name \in Names : CreateCalled(u, name)) => Same
    BY DEF Scan, DisconnectCalled, TermCalled, CreateSends, DisconnectReturns, CreateCalled, wireVars
  <2>2. TermReturns(u) => WireClose(u, "closed")
    BY DEF TermReturns
  <2> QED
    BY <1>1, <1>2, <1>3, <1>7, <2>1, <2>2 DEF GameStep
<1> QED
  BY <1>4, <1>5, <1>6, <1>7 DEF ClientStep

LEMMA InitSound ==
    ASSUME Init, NEW u \in Users
    PROVE  Sound(u) /\ Kept(u)
<1>1. /\ lib[u] = FreshLib /\ app[u] = FreshApp /\ c2s[u] = <<>>
      /\ cliEnd[u] = "none" /\ srvEnd[u] = "none"
  BY DEF Init, ClientInit, WireInit
<1>2. Off(u) /\ lib[u].init = 0
  BY <1>1 DEF FreshLib, FreshApp, Off
<1> QED
  BY <1>1, <1>2 DEF Sound, Library, Line, Served, Kept

LEMMA StepKeepsSound ==
    ASSUME Considerate, Basics, \A u \in Users : Sound(u), [Next]_vars
    PROVE  \A u \in Users : Sound(u)'
<1> USE DEF Basics
<1>1. ASSUME NEW u \in Users, ClientStep(u), NEW v \in Users PROVE Sound(v)'
  <2>1. Sound(u)'
    BY <1>1, GameKeepsSound, PlayerKeepsSound, DiscKeepsSound, FinderKeepsSound DEF ClientStep
  <2> QED
    BY <1>1, <2>1, ClientLeavesOthers, UndisturbedSound
<1>2. ASSUME NEW u \in Users, ServerVisit(u), UNCHANGED clientVars, NEW v \in Users PROVE Sound(v)'
  BY <1>2, VisitKeepsSound, VisitLeavesOthers, UndisturbedSound
<1>3. ASSUME (StartLoop /\ UNCHANGED clientVars) \/ UNCHANGED vars, NEW v \in Users PROVE Sound(v)'
  <2>1. UNCHANGED <<lib, app, c2s, s2c, cliEnd, srvEnd, game, group>>
    BY <1>3 DEF StartLoop, vars, serverVars, clientVars, wireVars, dbVars, groupVars, userVars
  <2>2. SameLibrary(v) /\ SameAnswers(s2c[v], s2c'[v])
    BY <2>1 DEF SameLibrary, SameAnswers
  <2> QED
    BY <2>1, <2>2, SoundStable
<1> QED
  BY <1>1, <1>2, <1>3 DEF Next, ServerStep

LEMMA StepKeepsUsers ==
    ASSUME Considerate, RoomForAll, Basics, \A u \in Users : Sound(u) /\ Kept(u), [Next]_vars
    PROVE  \A u \in Users : Kept(u)'
<1>1. ASSUME StartLoop \/ UNCHANGED vars, NEW v \in Users PROVE Kept(v)'
  BY <1>1 DEF StartLoop, vars, wireVars, Kept, Served
<1> QED
  BY <1>1, VisitKeepsUsers, ClientKeepsUsers DEF Next, ServerStep, Basics

-----------------------------------------------------------------------------
(* Between PSPs that wait for their events and the server, what lies in    *)
(* the queues always fits what library, game and server take it for.       *)
THEOREM NetInvariant == ASSUME Considerate PROVE Spec => []NetInv
<1>1. Init => NetInv
  BY InitBasics, InitSound DEF NetInv, Basics
<1>2. NetInv /\ [Next]_vars => NetInv'
  <2> SUFFICES ASSUME NetInv, [Next]_vars PROVE NetInv'
    OBVIOUS
  <2>1. Basics' /\ \A u \in Users : Sound(u)'
    BY NextKeepsBasics, StepKeepsSound DEF NetInv, Basics
  <2>2. RoomForAll => \A u \in Users : Kept(u)'
    BY StepKeepsUsers DEF NetInv, Basics
  <2> QED
    BY <2>1, <2>2 DEF NetInv, Basics, RoomForAll
<1> QED
  BY <1>1, <1>2, PTL DEF Spec

(* NeverKicked: the server logs no PSP out that is still there, when there *)
(* is room for all and the games wait for their events.                    *)
THEOREM NobodyIsKicked == ASSUME Considerate, RoomForAll PROVE Spec => []NeverKicked
<1>1. NetInv => NeverKicked
  BY DEF NetInv, NeverKicked, Kept, Served
<1> QED
  BY <1>1, NetInvariant, PTL

LEMMA SettledPhase ==
    ASSUME NetInv, Settled, NEW u \in Users, Online(u)
    PROVE  Stays(u) \/ Apart(u)
<1>1. /\ Sound(u) /\ lib[u].init = 1 /\ Served(u) /\ cliEnd[u] = "open"
      /\ c2s[u] = <<>> /\ s2c[u] = <<>>
  BY DEF NetInv, Settled, Online, Served
<1>2. Phase(u)
  BY <1>1 DEF Sound
<1>3. ~Asks(<<>>, lib[u].name) /\ ~Sends(<<>>, "SCAN")
  BY DEF Asks, Sends
<1>4. \A op : ~OneAnswer(<<>>, op)
  BY DEF OneAnswer
<1>5. ~Joins(u) /\ ~Scans(u)
  BY <1>1, <1>3, <1>4 DEF Joins, Scans, Listing
<1> QED
  BY <1>1, <1>2, <1>5 DEF Phase

(* StatusAgrees: library and server agree on the network of a player once  *)
(* all is settled.                                                         *)
THEOREM NetworksAgree == ASSUME Considerate PROVE Spec => []StatusAgrees
<1>1. NetInv => StatusAgrees
  <2> SUFFICES ASSUME NetInv, Settled, NEW u \in Users, Online(u)
               PROVE  /\ lib[u].status = "CONNECTED" <=> group[u] # NoGroup
                      /\ group[u] # NoGroup => group[u] = <<GameOf[u], lib[u].name>>
    BY DEF StatusAgrees
  <2>1. ~Sends(c2s[u], "DISCONNECT") /\ lib[u].discThread = "none"
    BY DEF Settled, Sends
  <2> QED
    BY <2>1, SettledPhase DEF Stays, Apart, InGroup
<1> QED
  BY <1>1, NetInvariant, PTL

(* LeaveWorks: who has left and was told so is in no group once all is     *)
(* settled.                                                                *)
THEOREM LeaversAreOut == ASSUME Considerate PROVE Spec => []LeaveWorks
<1>1. NetInv => LeaveWorks
  <2> SUFFICES ASSUME NetInv, Settled, NEW u \in Users, Online(u), app[u].call = "Disconnect"
               PROVE  group[u] = NoGroup
    BY DEF LeaveWorks
  <2>1. ~Sends(c2s[u], "DISCONNECT") /\ lib[u].discThread = "none"
    BY DEF Settled, Sends
  <2> QED
    BY <2>1, SettledPhase DEF Stays, Apart
<1> QED
  BY <1>1, NetInvariant, PTL

(* ChatOnlyInGroup: a message of the chat reaches the server while it has  *)
(* its sender in a group.                                                  *)
THEOREM ChatsAreHeard == ASSUME Considerate PROVE Spec => []ChatOnlyInGroup
<1>1. NetInv => ChatOnlyInGroup
  <2> SUFFICES ASSUME NetInv, NEW u \in Users, u \in dbUser, c2s[u] # <<>>,
                      Head(c2s[u]).op = "CHAT"
               PROVE  group[u] # NoGroup
    BY DEF ChatOnlyInGroup
  <2>1. srvEnd[u] = "open"
    BY DEF NetInv, IInv, UserInv, SocketsOwned
  <2>2. Lawful(u, c2s[u], game[u], group[u]) /\ c2s[u] \in Seq(C2S)
    BY <2>1, LibraryIs DEF NetInv, Sound, Line, Served
  <2> QED
    BY <2>2, HeadIsLawful
<1> QED
  BY <1>1, NetInvariant, PTL

-----------------------------------------------------------------------------
(* Game mode.  Nobody's device is another's, and nobody leaves by a thread *)
(* of its own.                                                             *)
OwnMacs == \A u, v \in Users : MacOf[u] = MacOf[v] => u = v
CalmEntry == Considerate /\ \A u \in QuirkUsers : "Disconnect" \notin Calls[u]

(* The entry of u: its library, its game and the game mode globals.        *)
Playing(u) ==
    /\ lib[u].init = 1 /\ app[u].pc \in {"idle", "create", "disconnect"}
    /\ ~lib[u].chat
    /\ app[u].pc = "create" <=> gm[u].at = "create"
    /\ app[u].pc = "disconnect" => "Disconnect" \in Calls[u] /\ gm[u].at = "idle"
    /\ lib[u].discThread # "none" => app[u].pc = "disconnect"
    /\ gm[u].in = -1 <=> gm[u].told = "waiting"
    /\ gm[u].in = 1 => gm[u].selfArrived
    /\ gm[u].at \in {"search", "create"} => lib[u].status = "DISCONNECTED"
    /\ gm[u].at \in {"search", "scanning", "create"} =>
          gm[u].told = "waiting" /\ lib[u].status # "CONNECTED"
    /\ gm[u].told = "waiting" /\ gm[u].at \in {"wait", "idle"} => gm[u].stamped
    /\ gm[u].in # 0 /\ gm[u].selfArrived =>
          lib[u].status = "CONNECTED" \/ app[u].pc = "disconnect"

(* The CONNECT is sent, and the answer has not been read.                  *)
Waits(u) ==
    /\ gm[u].told = "waiting" /\ gm[u].at \in {"stamp", "wait", "idle"}
    /\ app[u].pc # "disconnect" /\ lib[u].status # "CONNECTED"

(* As Scans, but a game that gave up its search may leave meanwhile.       *)
Looks(u) == lib[u].discThread \in {"none", "start"} /\ Listing(u)

EntryPhase(u) ==
    IF Waits(u) THEN Joins(u) /\ app[u].call = "Create"
    ELSE IF lib[u].status = "SCANNING" THEN Looks(u)
    ELSE Stays(u) \/ Apart(u)

(* The players whom a queue introduces.                                    *)
Introduced(s) == {s[i].mac : i \in {j \in DOMAIN s : s[j].op = "CONNECT"}}
Once(s) ==
    \A i, j \in DOMAIN s :
        s[i].op = "CONNECT" /\ s[j].op = "CONNECT" /\ s[i].mac = s[j].mac => i = j

Entry(u) ==
    /\ Line(u) /\ srvEnd[u] \in {"open", "closed"}
    /\ srvEnd[u] = "open" => game[u] = GameOf[u]
    /\ IF cliEnd[u] = "open"
       THEN /\ Playing(u) /\ srvEnd[u] = "open" /\ EntryPhase(u)
            /\ MacOf[u] \notin Introduced(s2c[u])
       ELSE Off(u) /\ lib[u].init = 0 /\ gm[u].at = "idle"

(* As long as nobody leaves: who is in the group of u beside him, and what *)
(* he knows of them.                                                       *)
Mates(u) == {v \in Users \ {u} : group[v] = group[u] /\ group[u] # NoGroup}
MatesMacs(u) == {MacOf[v] : v \in Mates(u)}

Knows(u) ==
    LET g == gm[u]
        members == ToSet(g.members)
    IN  /\ IsInjective(g.members)
        /\ {g.host, MacOf[u]} \subseteq members
        /\ members \subseteq {g.host, MacOf[u]} \cup MatesMacs(u)
        /\ Introduced(s2c[u]) \cap members \subseteq {g.host}
        /\ g.host \in {MacOf[v] : v \in Users}
        /\ u \in Hosts => g.host = MacOf[u]
        /\ Cardinality(Users) <= MaxMembers =>
              MatesMacs(u) \subseteq members \cup Introduced(s2c[u])
        /\ g.in = 1 => Len(g.members) >= g.expected

Together(u) ==
    /\ cliEnd[u] = "open" /\ app[u].pc # "disconnect" /\ ~Sends(c2s[u], "DISCONNECT")
    /\ Introduced(s2c[u]) \subseteq MatesMacs(u) /\ Once(s2c[u])
    /\ gm[u].in # 0 => Knows(u)

EntryTypes == gm \in [Users -> GameModeState] /\ quits \in BOOLEAN

EntryInv ==
    /\ IInv /\ NetTypes /\ EntryTypes
    /\ \A u \in Users : Entry(u)
    /\ ~quits => \A u \in Users : Together(u)


-----------------------------------------------------------------------------
(* The steps of a player in game mode are those of his library, but for    *)
(* three that only it takes, and the game mode globals.                    *)
GmIs(u, r) == gm' = [gm EXCEPT ![u] = r]

LEMMA GmSet ==
    ASSUME EntryTypes, NEW u \in Users, NEW r \in GameModeState, GmIs(u, r)
    PROVE  gm' \in [Users -> GameModeState] /\ gm'[u] = r /\ \A v \in Users \ {u} : gm'[v] = gm[v]
  BY DEF GmIs, EntryTypes

LEMMA MacsKnown ==
    ASSUME NEW u \in Users
    PROVE  MacOf[u] \in Macs /\ <<MacOf[u]>> \in Seq(Macs) /\ <<>> \in Seq(Macs)
           /\ \A v \in Users : <<MacOf[v], MacOf[u]>> \in Seq(Macs)
  BY WireAssumption

LEMMA CollectedTyped ==
    ASSUME NEW g \in GameModeState
    PROVE  Collected(g) \in GameModeState
  BY DEF Collected, GameModeState

LEMMA ArrivalTyped ==
    ASSUME EntryTypes, NEW u \in Users, NEW mac \in Macs
    PROVE  Arrival(u, mac) \in GameModeState
<1>1. gm[u] \in GameModeState /\ gm[u].members \in Seq(Macs)
  BY DEF EntryTypes, GameModeState
<1>2. Append(gm[u].members, mac) \in Seq(Macs)
  BY <1>1
<1>3. ASSUME NEW a \in BOOLEAN, NEW b \in BOOLEAN, NEW m \in Seq(Macs)
      PROVE  /\ [gm[u] EXCEPT !.selfArrived = a, !.hostArrived = b] \in GameModeState
             /\ [[gm[u] EXCEPT !.selfArrived = a, !.hostArrived = b] EXCEPT !.members = m] \in GameModeState
  BY <1>1 DEF GameModeState
<1> DEFINE a == gm[u].selfArrived \/ mac = MacOf[u]
           b == gm[u].hostArrived \/ mac = gm[u].host
           g == [gm[u] EXCEPT !.selfArrived = a, !.hostArrived = b]
<1>4. a \in BOOLEAN /\ b \in BOOLEAN
  BY <1>1 DEF GameModeState
<1>5. g.members = gm[u].members
  BY <1>1 DEF GameModeState
<1>6. Arrival(u, mac) = IF mac \in {MacOf[u], g.host} \/ Len(g.members) >= MaxMembers THEN g
                        ELSE [g EXCEPT !.members = Append(gm[u].members, mac)]
  BY <1>5 DEF Arrival
<1> HIDE DEF a, b
<1>7. g \in GameModeState /\ [g EXCEPT !.members = Append(gm[u].members, mac)] \in GameModeState
  BY <1>2, <1>3, <1>4
<1> QED
  BY <1>6, <1>7

LEMMA GlobalsKeepTypes ==
    ASSUME NetTypes, EntryTypes, NEW u \in Users, EntryClient(u)
    PROVE  EntryTypes' /\ (\A v \in Users \ {u} : gm'[v] = gm[v]) /\ (quits => quits')
<1> DEFINE Goal == EntryTypes' /\ (\A v \in Users \ {u} : gm'[v] = gm[v]) /\ (quits => quits')
           g == gm[u]
<1>1. g \in GameModeState /\ gm \in [Users -> GameModeState] /\ quits \in BOOLEAN
  BY DEF EntryTypes
<1>2. ASSUME NEW r \in GameModeState, GmIs(u, r), quits' \in BOOLEAN, quits => quits' PROVE Goal
  BY <1>2, GmSet DEF EntryTypes
<1>3. ASSUME gm' = gm, quits' \in BOOLEAN, quits => quits' PROVE Goal
  BY <1>1, <1>3 DEF EntryTypes
<1>4. ASSUME NEW x \in {"idle", "search", "scanning", "create", "stamp", "wait"}
      PROVE  [g EXCEPT !.at = x] \in GameModeState
  BY <1>1 DEF GameModeState
<1>5. ASSUME NEW name, NEW number \in Expected, CreateEnterGameMode(u, name, number) PROVE Goal
  <2> DEFINE r == Entering(u, MacOf[u], number, <<MacOf[u]>>, "create")
  <2>1. number \in 0..MaxMembers
    BY EntryAssumption
  <2>2. r \in GameModeState /\ GmIs(u, r)
    BY <1>5, <2>1, MacsKnown DEF Entering, GameModeState, CreateEnterGameMode, GmIs
  <2> HIDE DEF r
  <2> QED
    BY <1>1, <1>2, <1>5, <2>2 DEF CreateEnterGameMode
<1>6. ASSUME NEW gc \in Users, JoinEnterGameMode(u, gc) PROVE Goal
  <2> DEFINE r == Entering(u, MacOf[gc], 0, <<MacOf[gc], MacOf[u]>>, "search")
  <2>1. 0 \in 0..MaxMembers
    BY EntryAssumption
  <2>2. r \in GameModeState /\ GmIs(u, r)
    BY <1>6, <2>1, MacsKnown DEF Entering, GameModeState, JoinEnterGameMode, GmIs
  <2> HIDE DEF r
  <2> QED
    BY <1>1, <1>2, <1>6, <2>2 DEF JoinEnterGameMode
<1>7. CASE EntryGoesOn(u)
  <2>1. PICK x \in {"idle", "search", "scanning", "create", "stamp", "wait"} :
            gm' = [gm EXCEPT ![u].at = x] \/ gm' = [gm EXCEPT ![u].stamped = TRUE, ![u].at = x]
    BY <1>7 DEF EntryGoesOn, SearchScans, Search, SearchFinds, SearchGoesOn, EntrySends, EntryStamps,
       EntryReturns
  <2>2. /\ [g EXCEPT !.at = x] \in GameModeState
        /\ [g EXCEPT !.stamped = TRUE, !.at = x] \in GameModeState
    BY <1>1, <2>1 DEF GameModeState
  <2>3. GmIs(u, [g EXCEPT !.at = x]) \/ GmIs(u, [g EXCEPT !.stamped = TRUE, !.at = x])
    BY <1>1, <2>1 DEF GmIs
  <2>4. quits' = quits
    BY <1>7 DEF EntryGoesOn, SearchScans, Search, SearchFinds, SearchGoesOn, EntrySends, EntryStamps,
       EntryReturns
  <2> QED
    BY <1>1, <1>2, <2>2, <2>3, <2>4
<1>8. ASSUME NEW name, SearchTimesOut(u, name) PROVE Goal
  <2> DEFINE r == [g EXCEPT !.in = 0, !.at = "idle", !.told = "nothing"]
             s == [g EXCEPT !.at = "create"]
  <2>1. r \in GameModeState /\ s \in GameModeState
    BY <1>1 DEF GameModeState
  <2>2. GmIs(u, r) \/ GmIs(u, s)
    BY <1>1, <1>8 DEF SearchTimesOut, GmIs
  <2> HIDE DEF r, s
  <2> QED
    BY <1>1, <1>2, <1>8, <2>1, <2>2 DEF SearchTimesOut
<1>9. CASE ExitGameMode(u)
  BY <1>1, <1>3, <1>9 DEF ExitGameMode
<1>10. CASE GameModePowerOff(u)
  <2>1. 0 \in 0..MaxMembers
    BY EntryAssumption
  <2>2. FreshGameMode(u) \in GameModeState
    BY <2>1, MacsKnown DEF FreshGameMode, GameModeState
  <2> QED
    BY <1>1, <1>2, <1>10, <2>2 DEF GameModePowerOff, GmIs
<1>11. CASE ExitReturns(u)
  <2> DEFINE r == [g EXCEPT !.in = 0, !.expected = 0, !.told = "nothing"]
  <2>1. 0 \in 0..MaxMembers
    BY EntryAssumption
  <2>2. r \in GameModeState
    BY <1>1, <2>1 DEF GameModeState
  <2>3. GmIs(u, r)
    BY <1>1, <1>11 DEF ExitReturns, GmIs
  <2> HIDE DEF r
  <2> QED
    BY <1>1, <1>2, <1>11, <2>2, <2>3 DEF ExitReturns
<1>12. CASE GameModeBssid(u)
  <2> DEFINE a == [g EXCEPT !.selfArrived = TRUE, !.hostArrived = TRUE]
  <2>1. a \in GameModeState
    BY <1>1 DEF GameModeState
  <2>2. Collected(a) \in GameModeState
    BY <2>1, CollectedTyped
  <2>3. gm' = gm \/ GmIs(u, Collected(a))
    BY <1>1, <1>12 DEF GameModeBssid, GmIs
  <2> HIDE DEF a
  <2> QED
    BY <1>1, <1>2, <1>3, <1>12, <2>2, <2>3 DEF GameModeBssid
<1>13. CASE GameModeConnect(u)
  <2> DEFINE a == Arrival(u, Head(s2c[u]).mac)
  <2>1. Head(s2c[u]) \in S2C /\ Head(s2c[u]).op = "CONNECT"
    BY <1>13, ReceiveTyped DEF GameModeConnect, ReceiveConnect, Receive, NetTypes
  <2>2. Head(s2c[u]).mac \in Macs
    BY <2>1, WireAssumption DEF S2C, ConnectS2C, DisconnectS2C, ScanS2C, ScanCompleteS2C, BssidS2C, ChatS2C
  <2>3. Collected(a) \in GameModeState
    BY <2>2, ArrivalTyped, CollectedTyped
  <2>4. gm' = gm \/ GmIs(u, Collected(a))
    BY <1>1, <1>13 DEF GameModeConnect, GmIs
  <2> HIDE DEF a
  <2> QED
    BY <1>1, <1>2, <1>3, <1>13, <2>3, <2>4 DEF GameModeConnect
<1>14. CASE EntryTimesOut(u)
  <2> DEFINE r == [g EXCEPT !.in = 0, !.told = "timeout"]
  <2>1. r \in GameModeState
    BY <1>1 DEF GameModeState
  <2>2. GmIs(u, r)
    BY <1>1, <1>14 DEF EntryTimesOut, GmIs
  <2> HIDE DEF r
  <2> QED
    BY <1>1, <1>2, <1>14, <2>1, <2>2 DEF EntryTimesOut
<1> HIDE DEF Goal
<1> QED
  <2>1. UNCHANGED <<gm, quits>> => Goal
    BY <1>1, <1>3
  <2>2. EntryStep(u) => Goal
    BY <1>5, <1>6, <1>7, <1>8, <1>9, <1>10, <1>11 DEF EntryStep, Goal
  <2>3. EntryFinder(u) => Goal
    BY <2>1, <1>12, <1>13, <1>14 DEF EntryFinder, Goal
  <2> QED
    BY <2>1, <2>2, <2>3 DEF EntryClient, Goal

LEMMA EntryActs ==
    ASSUME NEW u \in Users, EntryClient(u)
    PROVE  /\ UNCHANGED serverVars
           /\ \/ LibraryActs(u)
              \/ UNCHANGED <<lib, app, wireVars>>
              \/ \E gc \in Users : JoinEnterGameMode(u, gc)
              \/ GameModeBssid(u)
<1>1. ASSUME NEW name \in Names, NEW number, CreateEnterGameMode(u, name, number) PROVE LibraryActs(u)
  BY <1>1 DEF CreateEnterGameMode, LibraryActs, GameActs
<1>2. ASSUME NEW name \in Names, SearchFinds(u, name) \/ SearchTimesOut(u, name)
      PROVE  LibraryActs(u) \/ UNCHANGED <<lib, app, wireVars>>
  BY <1>2 DEF SearchFinds, SearchTimesOut, LibraryActs, GameActs
<1>3. EntryGoesOn(u) => LibraryActs(u) \/ UNCHANGED <<lib, app, wireVars>>
  BY <1>2 DEF EntryGoesOn, SearchScans, Search, SearchGoesOn, EntrySends, EntryStamps, EntryReturns,
     LibraryActs, GameActs
<1>4. ExitGameMode(u) \/ ExitReturns(u) => LibraryActs(u)
  BY DEF ExitGameMode, ExitReturns, LibraryActs, GameActs
<1>5. "PowerOff" \in Calls[u] /\ GameModePowerOff(u) => LibraryActs(u)
  BY DEF GameModePowerOff, LibraryActs, PlayerStep
<1>6. EntryFinder(u) => LibraryActs(u) \/ GameModeBssid(u) \/ UNCHANGED <<lib, app, wireVars>>
  BY DEF EntryFinder, GameModeConnect, EntryTimesOut, LibraryActs, FinderStep
<1>7. DiscStep(u) => LibraryActs(u)
  BY DEF LibraryActs
<1> QED
  BY <1>1, <1>2, <1>3, <1>4, <1>5, <1>6, <1>7 DEF EntryClient, EntryStep

LEMMA EntryBasics ==
    ASSUME IInv, NetTypes, NEW u \in Users, EntryClient(u)
    PROVE  /\ IInv' /\ NetTypes' /\ UNCHANGED <<game, group>>
           /\ \A v \in Users \ {u} : Undisturbed(v) /\ s2c'[v] = s2c[v]
<1>1. UNCHANGED <<game, group>> /\ UNCHANGED serverVars
  BY EntryActs DEF serverVars, dbVars, groupVars, userVars
<1>2. CASE LibraryActs(u)
  BY <1>1, <1>2, ActsKeepInv, ActsKeepTypes, ActsLeaveOthers
<1>3. CASE UNCHANGED <<lib, app, wireVars>>
  BY <1>1, <1>3, QueueStep DEF wireVars, serverVars, NetTypes, ClientTypeOK, WireTypeOK, Undisturbed, SameAnswers
<1>4. CASE \E gc \in Users : JoinEnterGameMode(u, gc)
  <2> DEFINE r == [lib[u] EXCEPT !.networks = <<>>]
  <2>1. lib' = [lib EXCEPT ![u] = r] /\ UNCHANGED <<app, wireVars>>
    BY <1>4 DEF JoinEnterGameMode, NetTypes, ClientTypeOK
  <2>2. r \in LibState
    <3>1. lib[u] \in LibState /\ <<>> \in Seq(Networks)
      BY LibraryIs
    <3> QED
      BY <3>1 DEF LibState
  <2> HIDE DEF r
  <2>3. lib' \in [Users -> LibState] /\ \A v \in Users \ {u} : lib'[v] = lib[v]
    BY <2>1, <2>2 DEF NetTypes, ClientTypeOK
  <2>4. NetTypes' /\ \A v \in Users \ {u} : Undisturbed(v) /\ s2c'[v] = s2c[v]
    BY <1>1, <2>1, <2>3 DEF wireVars, NetTypes, ClientTypeOK, WireTypeOK, Undisturbed, SameAnswers
  <2> QED
    BY <1>1, <2>1, <2>4, QueueStep DEF wireVars, serverVars
<1>5. CASE GameModeBssid(u)
  <2> DEFINE r == [lib[u] EXCEPT !.status = "CONNECTED"]
  <2>1. lib' = [lib EXCEPT ![u] = r] /\ Receive(u, "CONNECT_BSSID")
    BY <1>5 DEF GameModeBssid, NetTypes, ClientTypeOK
  <2>2. r \in LibState
    BY LibraryIs DEF LibState
  <2> HIDE DEF r
  <2>3. lib' \in [Users -> LibState] /\ \A v \in Users \ {u} : lib'[v] = lib[v]
    BY <2>1, <2>2 DEF NetTypes, ClientTypeOK
  <2>4. app' = app \/ app' = [app EXCEPT ![u] = [app[u] EXCEPT !.answered = TRUE]]
    BY <1>5 DEF GameModeBssid, Notify
  <2>5. /\ app' \in [Users -> AppState] /\ \A v \in Users \ {u} : app'[v] = app[v]
        /\ \A v \in Users : app'[v].pc = app[v].pc /\ app'[v].arg = app[v].arg
    <3>1. app[u] \in AppState /\ app \in [Users -> AppState]
      BY LibraryIs DEF NetTypes, ClientTypeOK
    <3> DEFINE a == [app[u] EXCEPT !.answered = TRUE]
    <3>2. a \in AppState /\ a.pc = app[u].pc /\ a.arg = app[u].arg
      BY <3>1 DEF AppState
    <3> HIDE DEF a
    <3>3. app' = app \/ app' = [app EXCEPT ![u] = a]
      BY <2>4 DEF a
    <3> QED
      BY <3>1, <3>2, <3>3
  <2>6. WireTypeOK'
    BY <2>1, ReceiveTyped DEF NetTypes
  <2>7. UNCHANGED <<c2s, cliEnd, srvEnd>> /\ \A v \in Users \ {u} : s2c'[v] = s2c[v]
    BY <2>1 DEF Receive, NetTypes, WireTypeOK
  <2>8. NetTypes' /\ \A v \in Users \ {u} : Undisturbed(v) /\ s2c'[v] = s2c[v]
    BY <1>1, <2>3, <2>5, <2>6, <2>7 DEF NetTypes, ClientTypeOK, Undisturbed, SameAnswers
  <2> QED
    BY <1>1, <2>7, <2>8, QueueStep DEF serverVars
<1> QED
  BY <1>2, <1>3, <1>4, <1>5, EntryActs

-----------------------------------------------------------------------------
(* The players that a queue introduces, when it is read and when packets   *)
(* are added to it.                                                        *)
LEMMA IntroducedIs ==
    ASSUME NEW s, NEW mac
    PROVE  mac \in Introduced(s) <=> \E i \in DOMAIN s : s[i].op = "CONNECT" /\ s[i].mac = mac
  BY DEF Introduced

LEMMA TailNews ==
    ASSUME NEW s \in Seq(S2C), s # <<>>
    PROVE  /\ Introduced(Tail(s)) \subseteq Introduced(s)
           /\ Head(s).op # "CONNECT" => Introduced(Tail(s)) = Introduced(s)
           /\ Head(s).op = "CONNECT" =>
                 Head(s).mac \in Introduced(s) /\ Introduced(s) = {Head(s).mac} \cup Introduced(Tail(s))
           /\ Once(s) => Once(Tail(s))
           /\ Once(s) /\ Head(s).op = "CONNECT" => Head(s).mac \notin Introduced(Tail(s))
<1> DEFINE t == Tail(s)
<1>1. /\ Head(s) = s[1] /\ 1 \in DOMAIN s
      /\ \A i \in DOMAIN t : i + 1 \in DOMAIN s /\ t[i] = s[i + 1] /\ i \in Nat /\ i # 0
      /\ \A i \in DOMAIN s : i # 1 => i - 1 \in DOMAIN t /\ t[i - 1] = s[i]
  BY TailPlaces
<1> HIDE DEF t
<1>2. Introduced(t) \subseteq Introduced(s)
  BY <1>1, IntroducedIs
<1>3. \A mac \in Introduced(s) : (Head(s).op = "CONNECT" /\ mac = Head(s).mac) \/ mac \in Introduced(t)
  <2> TAKE mac \in Introduced(s)
  <2>1. PICK i \in DOMAIN s : s[i].op = "CONNECT" /\ s[i].mac = mac
    BY IntroducedIs
  <2>2. i # 1 => mac \in Introduced(t)
    <3> SUFFICES ASSUME i # 1 PROVE mac \in Introduced(t)
      OBVIOUS
    <3>1. i - 1 \in DOMAIN t /\ t[i - 1].op = "CONNECT" /\ t[i - 1].mac = mac
      BY <1>1, <2>1
    <3> QED
      BY <3>1, IntroducedIs
  <2> QED
    BY <1>1, <2>1, <2>2
<1>4. Head(s).op = "CONNECT" => Head(s).mac \in Introduced(s)
  BY <1>1, IntroducedIs
<1>5. ASSUME Once(s) PROVE Once(t)
  <2> SUFFICES ASSUME NEW i \in DOMAIN t, NEW j \in DOMAIN t, t[i].op = "CONNECT", t[j].op = "CONNECT",
                      t[i].mac = t[j].mac
               PROVE  i = j
    BY DEF Once
  <2>1. i + 1 = j + 1 /\ i \in Nat /\ j \in Nat
    BY <1>1, <1>5 DEF Once
  <2> QED
    BY <2>1
<1>6. ASSUME Once(s), Head(s).op = "CONNECT", Head(s).mac \in Introduced(t) PROVE FALSE
  <2>1. PICK i \in DOMAIN t : t[i].op = "CONNECT" /\ t[i].mac = Head(s).mac
    BY <1>6, IntroducedIs
  <2>2. i + 1 \in DOMAIN s /\ s[i + 1].op = "CONNECT" /\ s[i + 1].mac = s[1].mac /\ i + 1 # 1
    BY <1>1, <2>1
  <2> QED
    BY <1>1, <1>6, <2>2 DEF Once
<1> QED
  BY <1>2, <1>3, <1>4, <1>5, <1>6 DEF t

LEMMA ConcatNews ==
    ASSUME NEW s \in Seq(S2C), NEW t \in Seq(S2C)
    PROVE  /\ Introduced(s \o t) = Introduced(s) \cup Introduced(t)
           /\ Once(s) /\ Once(t) /\ Introduced(s) \cap Introduced(t) = {} => Once(s \o t)
<1> DEFINE c == s \o t
           m == Len(s)
<1>1. /\ m \in Nat /\ Len(t) \in Nat /\ DOMAIN s = 1..m /\ DOMAIN t = 1..Len(t)
      /\ DOMAIN c = 1..(m + Len(t))
      /\ \A i \in 1..(m + Len(t)) : c[i] = IF i <= m THEN s[i] ELSE t[i - m]
  BY ConcatProperties
<1> HIDE DEF c, m
<1>2. \A i \in DOMAIN c : (i \in DOMAIN s /\ c[i] = s[i]) \/ (i - m \in DOMAIN t /\ c[i] = t[i - m])
  BY <1>1
<1>3. \A i \in DOMAIN s : i \in DOMAIN c /\ c[i] = s[i]
  BY <1>1
<1>4. \A i \in DOMAIN t : i + m \in DOMAIN c /\ c[i + m] = t[i]
  <2> SUFFICES ASSUME NEW i \in DOMAIN t PROVE i + m \in DOMAIN c /\ c[i + m] = t[i]
    OBVIOUS
  <2>1. i + m \in 1..(m + Len(t)) /\ ~(i + m <= m) /\ (i + m) - m = i
    BY <1>1
  <2> QED
    BY <1>1, <2>1
<1>5. Introduced(c) \subseteq Introduced(s) \cup Introduced(t)
  BY <1>2, IntroducedIs
<1>6. Introduced(s) \cup Introduced(t) \subseteq Introduced(c)
  BY <1>3, <1>4, IntroducedIs
<1>7. ASSUME Once(s), Once(t), Introduced(s) \cap Introduced(t) = {} PROVE Once(c)
  <2> SUFFICES ASSUME NEW i \in DOMAIN c, NEW j \in DOMAIN c, c[i].op = "CONNECT", c[j].op = "CONNECT",
                      c[i].mac = c[j].mac
               PROVE  i = j
    BY DEF Once
  <2> DEFINE In(l) == l \in DOMAIN s /\ c[l] = s[l]
             Behind2(l) == l - m \in DOMAIN t /\ c[l] = t[l - m]
  <2>1. (In(i) \/ Behind2(i)) /\ (In(j) \/ Behind2(j)) /\ i \in Nat /\ j \in Nat
    BY <1>1, <1>2
  <2>2. /\ In(i) => c[i].mac \in Introduced(s)
        /\ In(j) => c[j].mac \in Introduced(s)
        /\ Behind2(i) => c[i].mac \in Introduced(t)
        /\ Behind2(j) => c[j].mac \in Introduced(t)
    BY IntroducedIs
  <2>3. CASE In(i) /\ In(j)
    BY <1>7, <2>3 DEF Once
  <2>4. CASE Behind2(i) /\ Behind2(j)
    <3>1. i - m = j - m
      BY <1>7, <2>4 DEF Once
    <3> QED
      BY <1>1, <2>1, <3>1
  <2> QED
    BY <1>7, <2>1, <2>2, <2>3, <2>4
<1> QED
  BY <1>5, <1>6, <1>7 DEF c

LEMMA NoNews ==
    ASSUME NEW s, \A i \in DOMAIN s : s[i].op # "CONNECT"
    PROVE  Introduced(s) = {} /\ Once(s)
  BY IntroducedIs DEF Once

(* Who is in no group, or leaving it, and waits for nothing may ask for a  *)
(* group or for a list; and who is in one may leave it.                    *)
LEMMA RequestSent ==
    ASSUME Considerate, NetTypes, NEW u \in Users, Line(u), Served(u), cliEnd[u] = "open",
           Apart(u), lib[u].discThread = "none", NEW p \in C2S,
           p.op = "SCAN" \/ (p.op = "CONNECT" /\ p.group \in Names),
           WireSend(u, p), UNCHANGED <<s2c, cliEnd, srvEnd>>, UNCHANGED serverVars
    PROVE  /\ Line(u)' /\ UNCHANGED <<group, game>>
           /\ \A op : Sends(c2s'[u], op) <=> Sends(c2s[u], op) \/ p.op = op
           /\ p.op = "CONNECT" => Asks(c2s'[u], p.group)
<1> DEFINE q == c2s[u]
<1>1. q \in Seq(C2S)
  BY LibraryIs
<1>2. Lawful(u, q, game[u], group[u])
  BY DEF Line
<1>3. ~Sends(q, "CONNECT") /\ ~Sends(q, "SCAN") /\ (group[u] # NoGroup => Sends(q, "DISCONNECT"))
  BY DEF Apart
<1>4. Admits(Append(q, p), Len(q) + 1, game[u], group[u])
  BY <1>1, <1>2, <1>3, RoomForEntry
<1>5. Append(q, p)[Len(q) + 1] = p
  BY <1>1, AppendPlaces
<1>6. LawfulAt(u, Append(q, p), Len(q) + 1, game[u], group[u])
  BY <1>4, <1>5 DEF LawfulAt
<1>7. Line(u)' /\ c2s'[u] = Append(q, p) /\ UNCHANGED <<group, game>>
  BY <1>6, SendLine
<1> HIDE DEF q
<1>8. \A op : Sends(Append(q, p), op) <=> Sends(q, op) \/ p.op = op
  BY <1>1, AppendSends
<1>9. p.op = "CONNECT" => Asks(Append(q, p), p.group)
  BY <1>1, AppendSends
<1> QED
  BY <1>7, <1>8, <1>9 DEF q

LEMMA FarewellSent ==
    ASSUME Considerate, NetTypes, NEW u \in Users, Line(u), Served(u), cliEnd[u] = "open",
           Apart(u), lib[u].discThread = "grace", "Disconnect" \in Calls[u],
           WireSend(u, BareC2S("DISCONNECT")), UNCHANGED <<s2c, cliEnd, srvEnd>>, UNCHANGED serverVars
    PROVE  /\ Line(u)' /\ UNCHANGED <<group, game>>
           /\ Sends(c2s'[u], "DISCONNECT") /\ ~Sends(c2s'[u], "CONNECT") /\ ~Sends(c2s'[u], "SCAN")
<1> DEFINE p == BareC2S("DISCONNECT")
           q == c2s[u]
<1>1. p \in C2S /\ p.op = "DISCONNECT" /\ q \in Seq(C2S)
  BY LibraryIs DEF C2S, BareC2S, BareOps
<1>2. /\ group[u] # NoGroup
      /\ ~Sends(q, "CONNECT") /\ ~Sends(q, "SCAN") /\ ~Sends(q, "DISCONNECT")
  BY DEF Apart
<1>3. Lawful(u, q, game[u], group[u])
  BY DEF Line
<1>4. q = <<>>
  <2>1. \A i \in DOMAIN q : FALSE
    <3> SUFFICES ASSUME NEW i \in DOMAIN q PROVE FALSE
      OBVIOUS
    <3>1. LawfulAt(u, q, i, game[u], group[u]) /\ game[u] # NoGame
      BY <1>2, <1>3 DEF Lawful
    <3> QED
      BY <1>2, <3>1 DEF LawfulAt, Sends, Considerate
  <2>2. DOMAIN q = 1..Len(q) /\ Len(q) \in Nat
    BY <1>1
  <2> HIDE DEF q
  <2>3. ~(1 \in DOMAIN q)
    BY <2>1
  <2>4. Len(q) = 0
    BY <2>2, <2>3
  <2> QED
    BY <1>1, <2>4, EmptyIffNoElement
<1>5. Append(q, p)[1] = p /\ Len(q) + 1 = 1
  BY <1>1, <1>4
<1>6. LawfulAt(u, Append(q, p), Len(q) + 1, game[u], group[u])
  BY <1>1, <1>2, <1>5 DEF LawfulAt
<1> HIDE DEF p
<1>7. Line(u)' /\ c2s'[u] = Append(q, p) /\ UNCHANGED <<group, game>>
  BY <1>1, <1>6, SendLine DEF p
<1>8. /\ Sends(Append(q, p), "DISCONNECT")
      /\ ~Sends(Append(q, p), "SCAN") /\ ~Sends(Append(q, p), "CONNECT")
  BY <1>1, <1>2, AppendSends
<1> QED
  BY <1>7, <1>8 DEF q

-----------------------------------------------------------------------------
(* The steps of a player keep his own entry.                               *)
LEMMA OpenEntry ==
    ASSUME NetTypes, NEW u \in Users, Entry(u), cliEnd[u] = "open"
    PROVE  /\ Line(u) /\ Served(u) /\ srvEnd[u] = "open" /\ game[u] = GameOf[u]
           /\ Playing(u) /\ EntryPhase(u) /\ MacOf[u] \notin Introduced(s2c[u])
  BY DEF Entry, Served

(* Without a connection there is no step to take. *)
LEMMA OnlyOpenActs ==
    ASSUME NetTypes, NEW u \in Users, Entry(u), EntryClient(u)
    PROVE  cliEnd[u] = "open"
<1> SUFFICES ASSUME cliEnd[u] # "open" PROVE FALSE
  OBVIOUS
<1>1. /\ lib[u].init = 0 /\ app[u].pc = "idle" /\ lib[u].discThread = "none" /\ ~lib[u].chat
      /\ gm[u].at = "idle"
  BY DEF Entry, Off
<1>2. ~FinderRuns(u)
  BY <1>1 DEF FinderRuns
<1>3. ~EntryFinder(u)
  BY <1>2 DEF EntryFinder, GameModeBssid, GameModeConnect, EntryTimesOut, NotifyDisconnect,
     ReceiveConnect, ReceiveDisconnect, ReceiveScan, ReceiveScanComplete, Receive
<1>4. ~DiscStep(u)
  BY <1>1 DEF DiscStep, DiscStarts, DiscSends, DiscEnds
<1>5. ~EntryGoesOn(u) /\ \A name : ~SearchTimesOut(u, name)
  BY <1>1 DEF EntryGoesOn, SearchScans, Search, SearchFinds, SearchGoesOn, EntrySends, EntryStamps,
     EntryReturns, SearchTimesOut
<1>6. ~ExitGameMode(u) /\ ~ExitReturns(u) /\ ~GameModePowerOff(u)
  BY <1>1 DEF ExitGameMode, DisconnectCalled, ExitReturns, DisconnectReturns, GameModePowerOff,
     PowerOff, WireClose
<1>7. /\ \A name, number : ~CreateEnterGameMode(u, name, number)
      /\ \A gc : ~JoinEnterGameMode(u, gc)
  BY <1>1 DEF CreateEnterGameMode, CreateCalled, JoinEnterGameMode
<1> QED
  BY <1>3, <1>4, <1>5, <1>6, <1>7 DEF EntryClient, EntryStep

LEMMA SilentStep ==
    ASSUME NEW u \in Users, Entry(u), cliEnd[u] = "open", UNCHANGED wireVars, UNCHANGED serverVars,
           Playing(u)', EntryPhase(u)'
    PROVE  Entry(u)'
  BY DEF Entry, Line, Served, wireVars, serverVars, dbVars, groupVars, userVars

LEMMA ReceiptStep ==
    ASSUME NetTypes, NEW u \in Users, Entry(u), cliEnd[u] = "open", NEW op, Receive(u, op),
           UNCHANGED serverVars, Playing(u)', EntryPhase(u)'
    PROVE  Entry(u)'
<1>1. s2c[u] \in Seq(S2C) /\ s2c[u] # <<>> /\ s2c'[u] = Tail(s2c[u]) /\ UNCHANGED <<c2s, cliEnd, srvEnd>>
  BY DEF Receive, NetTypes, WireTypeOK
<1>2. Introduced(s2c'[u]) \subseteq Introduced(s2c[u])
  BY <1>1, TailNews
<1> QED
  BY <1>1, <1>2 DEF Entry, Line, Served, serverVars, dbVars, groupVars, userVars

LEMMA SendingStep ==
    ASSUME NEW u \in Users, Entry(u), cliEnd[u] = "open", UNCHANGED <<s2c, cliEnd, srvEnd>>,
           UNCHANGED serverVars, Line(u)', Playing(u)', EntryPhase(u)'
    PROVE  Entry(u)'
  BY DEF Entry, serverVars, dbVars, groupVars, userVars

(* Who is disconnected and not on the way into a group is apart. *)
LEMMA DisconnectedIsApart ==
    ASSUME NetTypes, NEW u \in Users, Entry(u), cliEnd[u] = "open", lib[u].status = "DISCONNECTED",
           ~Waits(u)
    PROVE  Apart(u)
  BY OpenEntry DEF EntryPhase, Stays

LEMMA ApartStable ==
    ASSUME NEW u \in Users, Apart(u), UNCHANGED wireVars, group' = group,
           lib'[u].status = lib[u].status, lib'[u].discThread = lib[u].discThread
    PROVE  Apart(u)'
  BY DEF Apart, wireVars

(* The call into game mode. *)
LEMMA EnteringKeepsEntry ==
    ASSUME Considerate, NetTypes, EntryTypes, NEW u \in Users, Entry(u), cliEnd[u] = "open",
           UNCHANGED serverVars,
           \/ \E name \in Names, number \in Expected : CreateEnterGameMode(u, name, number)
           \/ \E gc \in Users : JoinEnterGameMode(u, gc)
    PROVE  Entry(u)' /\ group[u] = group'[u] /\ Apart(u) /\ lib[u].discThread = "none"
<1>1. /\ app[u].pc = "idle" /\ gm[u].told # "waiting" /\ lib[u].status = "DISCONNECTED"
      /\ UNCHANGED wireVars /\ group' = group
  BY DEF CreateEnterGameMode, JoinEnterGameMode, CreateCalled, Outside, Considerate, serverVars,
     dbVars, groupVars
<1>2. Playing(u) /\ ~Waits(u)
  BY <1>1, OpenEntry DEF Waits
<1>3. Apart(u) /\ lib[u].discThread = "none"
  BY <1>1, <1>2, DisconnectedIsApart DEF Playing
<1>4. /\ lib'[u].init = 1 /\ lib'[u].status = "DISCONNECTED" /\ ~lib'[u].chat
      /\ lib'[u].discThread = "none"
  <2>1. lib' = lib \/ lib' = [lib EXCEPT ![u].networks = <<>>]
    BY DEF CreateEnterGameMode, JoinEnterGameMode, CreateCalled
  <2>2. /\ lib'[u].init = lib[u].init /\ lib'[u].status = lib[u].status
        /\ lib'[u].chat = lib[u].chat /\ lib'[u].discThread = lib[u].discThread
    BY <2>1 DEF NetTypes, ClientTypeOK, LibState
  <2> QED
    BY <1>1, <1>2, <1>3, <2>2 DEF Playing
<1>5. \/ app'[u].pc = "create" /\ gm'[u].at = "create"
      \/ app'[u].pc = "idle" /\ gm'[u].at = "search"
  BY <1>1 DEF CreateEnterGameMode, JoinEnterGameMode, CreateCalled, NetTypes, ClientTypeOK, AppState,
     EntryTypes, Entering
<1>6. gm'[u].in = -1 /\ gm'[u].told = "waiting" /\ ~gm'[u].selfArrived
  BY DEF CreateEnterGameMode, JoinEnterGameMode, EntryTypes, Entering
<1>7. Playing(u)'
  BY <1>4, <1>5, <1>6 DEF Playing
<1>8. Apart(u)'
  BY <1>1, <1>3, <1>4, ApartStable
<1>9. EntryPhase(u)'
  BY <1>4, <1>5, <1>8 DEF EntryPhase, Waits
<1> QED
  BY <1>1, <1>3, <1>7, <1>9, SilentStep

(* The game's thread on its way into the group. *)
LEMMA WayKeepsEntry ==
    ASSUME Considerate, NetTypes, EntryTypes, NEW u \in Users, Entry(u), cliEnd[u] = "open",
           UNCHANGED serverVars,
           EntryGoesOn(u) \/ \E name \in Names : SearchTimesOut(u, name)
    PROVE  Entry(u)'
<1> USE DEF EntryTypes
<1>1. Playing(u) /\ EntryPhase(u) /\ Line(u) /\ Served(u)
  BY OpenEntry
<1>2. lib[u] \in LibState /\ app[u] \in AppState /\ s2c[u] \in Seq(S2C)
  BY LibraryIs
<1>3. group' = group
  BY DEF serverVars, dbVars, groupVars
<1>4. CASE SearchScans(u)
  <2> DEFINE p == BareC2S("SCAN")
  <2>1. /\ gm[u].at = "search" /\ app[u].pc = "idle" /\ lib[u].status = "DISCONNECTED"
        /\ WireSend(u, p) /\ UNCHANGED <<s2c, cliEnd, srvEnd>>
    BY <1>4 DEF SearchScans, Scan
  <2>2. /\ lib'[u].status = "SCANNING" /\ lib'[u].init = lib[u].init /\ lib'[u].chat = lib[u].chat
        /\ lib'[u].discThread = lib[u].discThread /\ app'[u].pc = "idle"
    BY <1>4, <2>1 DEF SearchScans, Scan, NetTypes, ClientTypeOK, LibState, AppState
  <2>3. /\ gm'[u].at = "scanning" /\ gm'[u].told = gm[u].told /\ gm'[u].in = gm[u].in
        /\ gm'[u].selfArrived = gm[u].selfArrived
    BY <1>4 DEF SearchScans, GameModeState
  <2>4. p \in C2S /\ p.op = "SCAN"
    BY DEF C2S, BareC2S, BareOps
  <2>5. Apart(u) /\ lib[u].discThread = "none"
    BY <1>1, <2>1, DisconnectedIsApart DEF Waits, Playing
  <2> HIDE DEF p
  <2>6. /\ Line(u)' /\ \A op : Sends(c2s'[u], op) <=> Sends(c2s[u], op) \/ p.op = op
    BY <1>1, <2>1, <2>4, <2>5, RequestSent
  <2>7. Playing(u)'
    BY <1>1, <2>1, <2>2, <2>3, <2>5 DEF Playing
  <2>8. Looks(u)'
    BY <2>1, <2>2, <2>4, <2>5, <2>6 DEF Looks, Listing, Apart
  <2>9. EntryPhase(u)'
    BY <2>2, <2>3, <2>8 DEF EntryPhase, Waits
  <2> QED
    BY <2>1, <2>6, <2>7, <2>9, SendingStep
<1>5. CASE \E name \in Names : SearchFinds(u, name) \/ (SearchTimesOut(u, name) /\ lib[u].status # "SCANNING")
  <2>1. /\ gm[u].at = "scanning" /\ app[u].pc = "idle" /\ lib[u].status = "DISCONNECTED"
        /\ UNCHANGED <<lib, wireVars>>
    BY <1>5 DEF SearchFinds, SearchTimesOut, CreateCalled
  <2>2. app'[u].pc = "create"
    BY <1>5 DEF SearchFinds, SearchTimesOut, CreateCalled, NetTypes, ClientTypeOK, AppState
  <2>3. /\ gm'[u].at = "create" /\ gm'[u].told = gm[u].told /\ gm'[u].in = gm[u].in
        /\ gm'[u].selfArrived = gm[u].selfArrived
    BY <1>5 DEF SearchFinds, SearchTimesOut, GameModeState
  <2>4. Apart(u)' /\ lib[u].discThread = "none"
    BY <1>1, <1>3, <2>1, DisconnectedIsApart, ApartStable DEF Waits, Playing
  <2>5. Playing(u)'
    BY <1>1, <2>1, <2>2, <2>3, <2>4 DEF Playing
  <2>6. EntryPhase(u)'
    BY <2>1, <2>3, <2>4 DEF EntryPhase, Waits
  <2> QED
    BY <2>1, <2>5, <2>6, SilentStep
<1>6. CASE \E name \in Names : SearchGoesOn(u, name)
  <2>1. /\ gm[u].at = "scanning" /\ lib[u].status = "DISCONNECTED" /\ UNCHANGED <<lib, app, wireVars>>
    BY <1>6 DEF SearchGoesOn
  <2>2. /\ gm'[u].at = "search" /\ gm'[u].told = gm[u].told /\ gm'[u].in = gm[u].in
        /\ gm'[u].selfArrived = gm[u].selfArrived
    BY <1>6 DEF SearchGoesOn, GameModeState
  <2>3. Apart(u)'
    BY <1>1, <1>3, <2>1, DisconnectedIsApart, ApartStable DEF Waits, Playing
  <2>4. Playing(u)'
    BY <1>1, <2>1, <2>2 DEF Playing
  <2>5. EntryPhase(u)'
    BY <2>1, <2>2, <2>3 DEF EntryPhase, Waits
  <2> QED
    BY <2>1, <2>4, <2>5, SilentStep
<1>7. CASE \E name \in Names : SearchTimesOut(u, name) /\ lib[u].status = "SCANNING"
  <2>1. gm[u].at = "scanning" /\ lib[u].status = "SCANNING" /\ UNCHANGED <<lib, app, wireVars>>
    BY <1>7 DEF SearchTimesOut
  <2>2. gm'[u].at = "idle" /\ gm'[u].told = "nothing" /\ gm'[u].in = 0
    BY <1>7 DEF SearchTimesOut, GameModeState
  <2>3. Looks(u)'
    BY <1>1, <1>3, <2>1 DEF EntryPhase, Waits, Looks, Listing, wireVars, serverVars, dbVars, userVars
  <2>4. Playing(u)'
    BY <1>1, <2>1, <2>2 DEF Playing
  <2>5. EntryPhase(u)'
    BY <2>1, <2>2, <2>3 DEF EntryPhase, Waits
  <2> QED
    BY <2>1, <2>4, <2>5, SilentStep
<1>8. CASE EntrySends(u)
  <2> DEFINE p == ConnectC2S(app[u].arg)
  <2>1. /\ gm[u].at = "create" /\ app[u].pc = "create" /\ lib[u].discThread = "none"
        /\ WireSend(u, p) /\ UNCHANGED <<s2c, cliEnd, srvEnd>>
    BY <1>8 DEF EntrySends, CreateSends
  <2>2. /\ lib'[u].status = lib[u].status /\ lib'[u].init = lib[u].init /\ lib'[u].chat = lib[u].chat
        /\ lib'[u].discThread = lib[u].discThread /\ lib'[u].name = app[u].arg
        /\ app'[u].pc = "idle" /\ app'[u].call = "Create"
    BY <1>2, <1>8, ClientAssumption DEF EntrySends, CreateSends, NetTypes, ClientTypeOK, LibState, AppState
  <2>3. /\ gm'[u].at = "stamp" /\ gm'[u].told = gm[u].told /\ gm'[u].in = gm[u].in
        /\ gm'[u].selfArrived = gm[u].selfArrived
    BY <1>8 DEF EntrySends, GameModeState
  <2>4. app[u].arg \in Names
    BY <2>1 DEF NetTypes
  <2>5. p \in C2S /\ p.op = "CONNECT" /\ p.group = app[u].arg
    BY <2>4 DEF C2S, ConnectC2S
  <2>6. lib[u].status = "DISCONNECTED" /\ gm[u].told = "waiting" /\ Apart(u)
    BY <1>1, <2>1, DisconnectedIsApart DEF Waits, Playing
  <2> HIDE DEF p
  <2>7. /\ Line(u)' /\ \A op : Sends(c2s'[u], op) <=> Sends(c2s[u], op) \/ p.op = op
        /\ Asks(c2s'[u], app[u].arg)
    BY <1>1, <2>1, <2>4, <2>5, <2>6, RequestSent
  <2>8. Playing(u)'
    BY <1>1, <2>1, <2>2, <2>3, <2>6 DEF Playing
  <2>9. Joins(u)'
    BY <2>1, <2>2, <2>5, <2>6, <2>7 DEF Joins, Apart
  <2>10. EntryPhase(u)'
    BY <2>2, <2>3, <2>6, <2>9 DEF EntryPhase, Waits
  <2> QED
    BY <2>1, <2>7, <2>8, <2>10, SendingStep
<1>9. CASE EntryStamps(u) \/ EntryReturns(u)
  <2>1. UNCHANGED <<lib, app, wireVars>>
    BY <1>9 DEF EntryStamps, EntryReturns
  <2>2. /\ gm'[u].told = gm[u].told /\ gm'[u].in = gm[u].in
        /\ gm'[u].selfArrived = gm[u].selfArrived
        /\ gm[u].at \in {"stamp", "wait"} /\ gm'[u].at \in {"wait", "idle"}
        /\ gm'[u].stamped = (gm[u].stamped \/ gm[u].at = "stamp")
    BY <1>9 DEF EntryStamps, EntryReturns, GameModeState
  <2>3. Playing(u)'
    BY <1>1, <2>1, <2>2 DEF Playing
  <2>4. Waits(u)' <=> Waits(u)
    BY <2>1, <2>2 DEF Waits
  <2>5. EntryPhase(u)'
    BY <1>1, <1>3, <2>1, <2>4 DEF EntryPhase, Joins, Looks, Listing, Stays, Apart, InGroup, wireVars,
       serverVars, dbVars, userVars
  <2> QED
    BY <2>1, <2>3, <2>5, SilentStep
<1> QED
  BY <1>4, <1>5, <1>6, <1>7, <1>8, <1>9 DEF EntryGoesOn, Search, SearchTimesOut

(* The way out of the group. *)
LEMMA ExitKeepsEntry ==
    ASSUME CalmEntry, NetTypes, EntryTypes, NEW u \in Users, Entry(u), cliEnd[u] = "open",
           UNCHANGED serverVars,
           ("Disconnect" \in Calls[u] /\ ExitGameMode(u)) \/ ExitReturns(u)
    PROVE  Entry(u)'
<1> USE DEF EntryTypes
<1>1. Playing(u) /\ EntryPhase(u)
  BY OpenEntry
<1>2. lib[u] \in LibState /\ app[u] \in AppState
  BY LibraryIs
<1>3. UNCHANGED <<group, game>>
  BY DEF serverVars, dbVars, groupVars, userVars
<1>4. CASE "Disconnect" \in Calls[u] /\ ExitGameMode(u)
  <2>1. /\ app[u].pc = "idle" /\ gm[u].at = "idle" /\ lib[u].discThread = "none" /\ gm' = gm
        /\ gm[u].told # "waiting" \/ lib[u].status = "CONNECTED"
        /\ UNCHANGED wireVars
    BY <1>4 DEF ExitGameMode, Outside, DisconnectCalled, CalmEntry, Considerate
  <2>2. /\ lib'[u].status = lib[u].status /\ lib'[u].init = lib[u].init /\ lib'[u].chat = lib[u].chat
        /\ lib'[u].discThread = "start" /\ lib'[u].name = lib[u].name
        /\ app'[u].pc = "disconnect" /\ app'[u].call = app[u].call
    BY <1>2, <1>4 DEF ExitGameMode, DisconnectCalled, NetTypes, ClientTypeOK, LibState, AppState
  <2>3. Playing(u)'
    BY <1>1, <1>4, <2>1, <2>2 DEF Playing
  <2>4. ~Waits(u) /\ ~Waits(u)'
    BY <2>1, <2>2 DEF Waits
  <2>5. CASE lib[u].status = "SCANNING"
    <3>1. Looks(u)'
      BY <1>1, <1>3, <2>1, <2>2, <2>4, <2>5 DEF EntryPhase, Looks, Listing, wireVars
    <3>2. EntryPhase(u)'
      BY <2>2, <2>4, <2>5, <3>1 DEF EntryPhase
    <3> QED
      BY <2>1, <2>3, <3>2, SilentStep
  <2>6. CASE lib[u].status # "SCANNING"
    <3>1. Stays(u) \/ Apart(u)
      BY <1>1, <2>4, <2>6 DEF EntryPhase
    <3>2. Stays(u)' \/ Apart(u)'
      BY <1>3, <2>1, <2>2, <3>1 DEF Stays, Apart, InGroup, wireVars
    <3>3. EntryPhase(u)'
      BY <2>2, <2>4, <2>6, <3>2 DEF EntryPhase
    <3> QED
      BY <2>1, <2>3, <3>3, SilentStep
  <2> QED
    BY <2>5, <2>6
<1>5. CASE ExitReturns(u)
  <2>1. app[u].pc = "disconnect" /\ "Disconnect" \in Calls[u] /\ gm[u].at = "idle" /\ UNCHANGED wireVars
    BY <1>1, <1>5 DEF ExitReturns, DisconnectReturns, Playing
  <2>2. lib[u].discThread = "none"
    BY <1>5, <2>1 DEF ExitReturns, DisconnectReturns, CalmEntry
  <2>3. /\ lib'[u].status = lib[u].status /\ lib'[u].init = lib[u].init /\ lib'[u].chat = lib[u].chat
        /\ lib'[u].discThread = lib[u].discThread /\ lib'[u].name = lib[u].name
        /\ app'[u].pc = "idle"
    BY <1>2, <1>5 DEF ExitReturns, DisconnectReturns, NetTypes, ClientTypeOK, LibState, AppState
  <2>4. gm'[u].at = gm[u].at /\ gm'[u].told = "nothing" /\ gm'[u].in = 0
    BY <1>5 DEF ExitReturns, GameModeState
  <2>5. Playing(u)'
    BY <1>1, <2>1, <2>2, <2>3, <2>4 DEF Playing
  <2>6. ~Waits(u) /\ ~Waits(u)'
    BY <2>1, <2>4 DEF Waits
  <2>7. CASE lib[u].status = "SCANNING"
    <3>1. Looks(u)'
      BY <1>1, <1>3, <2>1, <2>3, <2>6, <2>7 DEF EntryPhase, Looks, Listing, wireVars
    <3>2. EntryPhase(u)'
      BY <2>3, <2>6, <2>7, <3>1 DEF EntryPhase
    <3> QED
      BY <2>1, <2>5, <3>2, SilentStep
  <2>8. CASE lib[u].status # "SCANNING"
    <3>1. Apart(u)
      BY <1>1, <2>1, <2>2, <2>6, <2>8 DEF EntryPhase, Stays
    <3>2. Apart(u)'
      BY <1>3, <2>1, <2>3, <3>1, ApartStable
    <3>3. EntryPhase(u)'
      BY <2>3, <2>6, <2>8, <3>2 DEF EntryPhase
    <3> QED
      BY <2>1, <2>5, <3>3, SilentStep
  <2> QED
    BY <2>7, <2>8
<1> QED
  BY <1>4, <1>5

LEMMA PowerOffKeepsEntry ==
    ASSUME NetTypes, EntryTypes, NEW u \in Users, Entry(u), cliEnd[u] = "open",
           UNCHANGED serverVars, GameModePowerOff(u)
    PROVE  Entry(u)'
<1>1. Line(u) /\ srvEnd[u] = "open" /\ game[u] = GameOf[u]
  BY OpenEntry
<1>2. cliEnd'[u] = "gone" /\ UNCHANGED <<c2s, srvEnd, group, game>>
  BY DEF GameModePowerOff, PowerOff, WireClose, NetTypes, WireTypeOK, serverVars, dbVars, groupVars,
     userVars
<1>3. lib'[u] = FreshLib /\ app'[u] = FreshApp /\ gm'[u] = FreshGameMode(u)
  BY DEF GameModePowerOff, PowerOff, NetTypes, ClientTypeOK, EntryTypes
<1>4. Off(u)' /\ lib'[u].init = 0 /\ gm'[u].at = "idle"
  BY <1>2, <1>3 DEF Off, FreshLib, FreshApp, FreshGameMode
<1>5. Line(u)'
  BY <1>1, <1>2 DEF Line, Served
<1> QED
  BY <1>1, <1>2, <1>4, <1>5 DEF Entry

LEMMA DiscKeepsEntry ==
    ASSUME CalmEntry, NetTypes, NEW u \in Users, Entry(u), cliEnd[u] = "open",
           UNCHANGED serverVars, DiscStep(u), gm' = gm
    PROVE  Entry(u)'
<1>1. Playing(u) /\ EntryPhase(u) /\ Line(u) /\ Served(u)
  BY OpenEntry
<1>2. lib[u] \in LibState /\ app' = app
  BY LibraryIs DEF DiscStep, DiscStarts, DiscSends, DiscEnds
<1>3. UNCHANGED <<group, game>>
  BY DEF serverVars, dbVars, groupVars, userVars
<1>4. lib[u].discThread # "none"
  BY DEF DiscStep, DiscStarts, DiscSends, DiscEnds
<1>5. app[u].pc = "disconnect" /\ "Disconnect" \in Calls[u] /\ gm[u].at = "idle" /\ ~Waits(u)
  BY <1>1, <1>4 DEF Playing, Waits
<1>6. ASSUME lib'[u].init = lib[u].init, lib'[u].chat = lib[u].chat PROVE Playing(u)'
  BY <1>1, <1>2, <1>5, <1>6 DEF Playing
<1>7. ~Waits(u)'
  BY <1>2, <1>5 DEF Waits
<1>8. CASE DiscStarts(u)
  <2>1. /\ lib[u].discThread = "start" /\ UNCHANGED wireVars
        /\ lib'[u].init = lib[u].init /\ lib'[u].chat = lib[u].chat
        /\ IF lib[u].status = "CONNECTED"
           THEN lib'[u].discThread = "grace" /\ lib'[u].status = "DISCONNECTED"
           ELSE lib'[u].discThread = "none" /\ lib'[u].status = lib[u].status
    BY <1>2, <1>8 DEF DiscStarts, NetTypes, ClientTypeOK, LibState
  <2>2. EntryPhase(u)'
    <3>1. CASE lib[u].status = "SCANNING"
      BY <1>1, <1>3, <1>5, <1>7, <2>1, <3>1 DEF EntryPhase, Looks, Listing, wireVars
    <3>2. CASE lib[u].status # "SCANNING"
      <4>1. Stays(u) \/ Apart(u)
        BY <1>1, <1>5, <3>2 DEF EntryPhase
      <4>2. Apart(u)' /\ lib'[u].status # "SCANNING"
        BY <1>3, <2>1, <3>2, <4>1 DEF Stays, Apart, InGroup, wireVars
      <4> QED
        BY <1>7, <4>2 DEF EntryPhase
    <3> QED
      BY <3>1, <3>2
  <2> QED
    BY <1>6, <2>1, <2>2, SilentStep
<1>9. CASE DiscEnds(u)
  <2>1. /\ lib[u].discThread = "sent" /\ UNCHANGED wireVars
        /\ lib'[u].init = lib[u].init /\ lib'[u].chat = lib[u].chat
        /\ lib'[u].discThread = "none" /\ lib'[u].status = lib[u].status
    BY <1>2, <1>9 DEF DiscEnds, NetTypes, ClientTypeOK, LibState
  <2>2. Apart(u)
    BY <1>1, <1>5, <2>1 DEF EntryPhase, Looks, Stays
  <2>3. Apart(u)' /\ lib'[u].status # "SCANNING"
    BY <1>3, <2>1, <2>2 DEF Apart, wireVars
  <2>4. EntryPhase(u)'
    BY <1>7, <2>3 DEF EntryPhase
  <2> QED
    BY <1>6, <2>1, <2>4, SilentStep
<1>10. CASE DiscSends(u)
  <2>1. /\ lib[u].discThread = "grace" /\ WireSend(u, BareC2S("DISCONNECT"))
        /\ UNCHANGED <<s2c, cliEnd, srvEnd>>
        /\ lib'[u].init = lib[u].init /\ lib'[u].chat = lib[u].chat
        /\ lib'[u].discThread = "sent" /\ lib'[u].status = lib[u].status
    BY <1>2, <1>10 DEF DiscSends, NetTypes, ClientTypeOK, LibState
  <2>2. Apart(u)
    BY <1>1, <1>5, <2>1 DEF EntryPhase, Looks, Stays
  <2>3. /\ Line(u)'
        /\ Sends(c2s'[u], "DISCONNECT") /\ ~Sends(c2s'[u], "CONNECT") /\ ~Sends(c2s'[u], "SCAN")
    BY <1>1, <1>5, <2>1, <2>2, FarewellSent DEF CalmEntry
  <2>4. Apart(u)' /\ lib'[u].status # "SCANNING"
    BY <1>3, <2>1, <2>2, <2>3 DEF Apart
  <2>5. EntryPhase(u)'
    BY <1>7, <2>4 DEF EntryPhase
  <2> QED
    BY <1>6, <2>1, <2>3, <2>5, SendingStep
<1> QED
  BY <1>8, <1>9, <1>10 DEF DiscStep

(* The friend finder, and what the server sends meanwhile. *)
LEMMA PhaseStable ==
    ASSUME NEW u \in Users, EntryPhase(u), Waits(u)' <=> Waits(u), c2s'[u] = c2s[u],
           UNCHANGED <<game[u], group[u]>>, SameAnswers(s2c[u], s2c'[u]),
           lib'[u].status = lib[u].status, lib'[u].name = lib[u].name,
           lib'[u].discThread = lib[u].discThread,
           app'[u].call = app[u].call, app'[u].pc = app[u].pc
    PROVE  EntryPhase(u)'
<1>1. Joins(u) => Joins(u)'
  BY DEF Joins, InGroup, SameAnswers, Answers
<1>2. Looks(u) => Looks(u)'
  BY DEF Looks, Listing, SameAnswers, Answers
<1>3. (Stays(u) => Stays(u)') /\ (Apart(u) => Apart(u)')
  BY DEF Stays, Apart, InGroup, SameAnswers
<1> QED
  BY <1>1, <1>2, <1>3 DEF EntryPhase

LEMMA QuietTail ==
    ASSUME NEW s \in Seq(S2C), s # <<>>, Head(s).op \notin Answers
    PROVE  SameAnswers(s, Tail(s))
  BY TailAnswers DEF SameAnswers

LEMMA ConnectKeepsEntry ==
    ASSUME NetTypes, EntryTypes, NEW u \in Users, Entry(u), cliEnd[u] = "open",
           UNCHANGED serverVars, GameModeConnect(u)
    PROVE  Entry(u)'
<1> DEFINE s == s2c[u]
           mac == Head(s).mac
           g == gm[u]
<1>1. Playing(u) /\ EntryPhase(u) /\ MacOf[u] \notin Introduced(s)
  BY OpenEntry
<1>2. /\ s \in Seq(S2C) /\ s # <<>> /\ Head(s).op = "CONNECT" /\ s2c'[u] = Tail(s)
      /\ UNCHANGED <<c2s, cliEnd, srvEnd, app>> /\ Receive(u, "CONNECT")
  BY DEF GameModeConnect, ReceiveConnect, Receive, NetTypes, WireTypeOK
<1>3. UNCHANGED <<group, game>>
  BY DEF serverVars, dbVars, groupVars, userVars
<1>4. /\ lib'[u].status = lib[u].status /\ lib'[u].init = lib[u].init /\ lib'[u].chat = lib[u].chat
      /\ lib'[u].discThread = lib[u].discThread /\ lib'[u].name = lib[u].name
  BY DEF GameModeConnect, ReceiveConnect, NetTypes, ClientTypeOK, LibState
<1>5. mac # MacOf[u]
  BY <1>1, <1>2, TailNews
<1>6. SameAnswers(s2c[u], s2c'[u])
  BY <1>2, QuietTail DEF Answers
<1>7. /\ gm'[u].at = g.at /\ gm'[u].stamped = g.stamped /\ gm'[u].selfArrived = g.selfArrived
      /\ \/ gm'[u].in = g.in /\ gm'[u].told = g.told
         \/ g.in # 0 /\ gm'[u].in = 1 /\ gm'[u].told = "begun" /\ g.selfArrived
  <2>1. CASE g.in = 0
    BY <2>1 DEF GameModeConnect
  <2>2. CASE g.in # 0
    <3> DEFINE a == Arrival(u, mac)
    <3>1. g \in GameModeState /\ gm \in [Users -> GameModeState]
      BY DEF EntryTypes
    <3>2. /\ a.at = g.at /\ a.stamped = g.stamped /\ a.selfArrived = g.selfArrived
          /\ a.in = g.in /\ a.told = g.told
      BY <1>5, <3>1 DEF Arrival, GameModeState
    <3>3. mac \in Macs
      BY <1>2, WireAssumption DEF S2C, ConnectS2C, DisconnectS2C, ScanS2C, ScanCompleteS2C, BssidS2C, ChatS2C
    <3>4. a \in GameModeState
      BY <3>3, ArrivalTyped
    <3>5. gm'[u] = Collected(a)
      BY <2>2, <3>1 DEF GameModeConnect
    <3> HIDE DEF a
    <3>6. Collected(a) = a \/ (a.selfArrived /\ Collected(a) = [a EXCEPT !.in = 1, !.told = "begun"])
      BY DEF Collected, Complete
    <3>7. CASE Collected(a) = a
      BY <3>2, <3>5, <3>7
    <3>8. CASE a.selfArrived /\ Collected(a) = [a EXCEPT !.in = 1, !.told = "begun"]
      <4> DEFINE r == [a EXCEPT !.in = 1, !.told = "begun"]
      <4>1. /\ r.at = a.at /\ r.stamped = a.stamped /\ r.selfArrived = a.selfArrived
            /\ r.in = 1 /\ r.told = "begun"
        BY <3>4 DEF GameModeState
      <4>2. gm'[u] = r
        BY <3>5, <3>8
      <4> HIDE DEF r
      <4> QED
        BY <2>2, <3>2, <3>8, <4>1, <4>2
    <3> QED
      BY <3>6, <3>7, <3>8
  <2> QED
    BY <2>1, <2>2
<1>8. Waits(u)' <=> Waits(u)
  BY <1>1, <1>2, <1>4, <1>7 DEF Waits, Playing
<1>9. Playing(u)'
  BY <1>1, <1>2, <1>4, <1>7 DEF Playing
<1>10. EntryPhase(u)'
  BY <1>1, <1>2, <1>3, <1>4, <1>6, <1>8, PhaseStable
<1> QED
  BY <1>2, <1>9, <1>10, ReceiptStep

LEMMA BssidKeepsEntry ==
    ASSUME NetTypes, EntryTypes, NEW u \in Users, Entry(u), cliEnd[u] = "open",
           UNCHANGED serverVars, GameModeBssid(u)
    PROVE  Entry(u)' /\ gm[u].in # 0
<1> DEFINE s == s2c[u]
           g == gm[u]
<1>1. Playing(u) /\ EntryPhase(u)
  BY OpenEntry
<1>2. /\ s \in Seq(S2C) /\ s # <<>> /\ Head(s).op = "CONNECT_BSSID" /\ s2c'[u] = Tail(s)
      /\ UNCHANGED <<c2s, cliEnd, srvEnd>> /\ Receive(u, "CONNECT_BSSID")
  BY DEF GameModeBssid, Receive, NetTypes, WireTypeOK
<1>3. UNCHANGED <<group, game>>
  BY DEF serverVars, dbVars, groupVars, userVars
<1>4. ~NoAnswer(s) /\ (OneAnswer(s, "CONNECT_BSSID") => NoAnswer(Tail(s))) /\ ~OneAnswer(s, "SCAN_COMPLETE")
  BY <1>2, TailAnswers DEF Answers
<1>5. Waits(u) /\ Joins(u) /\ app[u].call = "Create"
  BY <1>1, <1>4 DEF EntryPhase, Looks, Listing, Stays, Apart
<1>6. g.told = "waiting" /\ g.in = -1
  BY <1>1, <1>5 DEF Waits, Playing
<1>7. app' = app
  BY <1>6 DEF GameModeBssid
<1>8. /\ lib'[u].status = "CONNECTED" /\ lib'[u].init = lib[u].init /\ lib'[u].chat = lib[u].chat
      /\ lib'[u].discThread = lib[u].discThread /\ lib'[u].name = lib[u].name
  BY DEF GameModeBssid, NetTypes, ClientTypeOK, LibState
<1>9. /\ gm'[u].at = g.at /\ gm'[u].stamped = g.stamped /\ gm'[u].selfArrived
      /\ \/ gm'[u].in = -1 /\ gm'[u].told = "waiting"
         \/ gm'[u].in = 1 /\ gm'[u].told = "begun"
  <2> DEFINE a == [g EXCEPT !.selfArrived = TRUE, !.hostArrived = TRUE]
  <2>1. g \in GameModeState /\ gm \in [Users -> GameModeState]
    BY DEF EntryTypes
  <2>2. a \in GameModeState /\ a.at = g.at /\ a.stamped = g.stamped /\ a.selfArrived
        /\ a.in = g.in /\ a.told = g.told
    BY <2>1 DEF GameModeState
  <2>3. gm'[u] = Collected(a)
    BY <1>6, <2>1 DEF GameModeBssid
  <2> HIDE DEF a
  <2> DEFINE r == [a EXCEPT !.in = 1, !.told = "begun"]
  <2>4. Collected(a) = a \/ Collected(a) = r
    BY DEF Collected
  <2>5. /\ r.at = a.at /\ r.stamped = a.stamped /\ r.selfArrived = a.selfArrived
        /\ r.in = 1 /\ r.told = "begun"
    BY <2>2 DEF GameModeState
  <2> HIDE DEF r
  <2> QED
    BY <1>6, <2>2, <2>3, <2>4, <2>5
<1>10. /\ NoAnswer(Tail(s)) /\ InGroup(u)
       /\ ~Sends(c2s[u], "SCAN") /\ ~Sends(c2s[u], "CONNECT") /\ ~Sends(c2s[u], "DISCONNECT")
       /\ lib[u].discThread = "none" /\ app[u].pc # "disconnect"
  BY <1>4, <1>5 DEF Joins, Waits
<1>11. Stays(u)'
  BY <1>2, <1>3, <1>5, <1>7, <1>8, <1>10 DEF Stays, InGroup
<1>12. Playing(u)'
  BY <1>1, <1>5, <1>7, <1>8, <1>9 DEF Playing, Waits
<1>13. EntryPhase(u)'
  BY <1>8, <1>11 DEF EntryPhase, Waits
<1> QED
  BY <1>2, <1>6, <1>12, <1>13, ReceiptStep

LEMMA FinderKeepsEntry ==
    ASSUME NetTypes, EntryTypes, NEW u \in Users, Entry(u), cliEnd[u] = "open",
           UNCHANGED serverVars, EntryFinder(u)
    PROVE  Entry(u)'
<1> DEFINE s == s2c[u]
           g == gm[u]
<1>1. Playing(u) /\ EntryPhase(u) /\ Line(u) /\ Served(u)
  BY OpenEntry
<1>2. UNCHANGED <<group, game>>
  BY DEF serverVars, dbVars, groupVars, userVars
<1>3. lib[u] \in LibState /\ app[u] \in AppState /\ s \in Seq(S2C)
  BY LibraryIs
<1>4. CASE EntryTimesOut(u)
  <2>1. lib[u].status = "CONNECTED" /\ UNCHANGED <<lib, app, wireVars>>
    BY <1>4 DEF EntryTimesOut
  <2>2. /\ gm'[u].at = g.at /\ gm'[u].in = 0 /\ gm'[u].told = "timeout" /\ gm'[u].stamped = g.stamped
    BY <1>4 DEF EntryTimesOut, EntryTypes, GameModeState
  <2>3. Playing(u)'
    BY <1>1, <2>1, <2>2 DEF Playing
  <2>4. Waits(u)' <=> Waits(u)
    BY <2>1, <2>2 DEF Waits
  <2>5. EntryPhase(u)'
    BY <1>1, <1>2, <2>1, <2>4, PhaseStable DEF wireVars, SameAnswers
  <2> QED
    BY <2>1, <2>3, <2>5, SilentStep
<1>5. CASE NotifyDisconnect(u) /\ UNCHANGED <<gm, quits>>
  <2>1. /\ lib'[u].status = lib[u].status /\ lib'[u].init = lib[u].init /\ lib'[u].chat = lib[u].chat
        /\ lib'[u].discThread = lib[u].discThread /\ lib'[u].name = lib[u].name
        /\ UNCHANGED wireVars
    BY <1>3, <1>5 DEF NotifyDisconnect, NetTypes, ClientTypeOK, LibState
  <2>2. app'[u].pc = app[u].pc /\ app'[u].call = app[u].call
    BY <1>3, <1>5 DEF NotifyDisconnect, Notify, NetTypes, ClientTypeOK, AppState
  <2>3. Playing(u)' /\ (Waits(u)' <=> Waits(u))
    BY <1>1, <1>5, <2>1, <2>2 DEF Playing, Waits
  <2>4. EntryPhase(u)'
    BY <1>1, <1>2, <2>1, <2>2, <2>3, PhaseStable DEF wireVars, SameAnswers
  <2> QED
    BY <2>1, <2>3, <2>4, SilentStep
<1>6. CASE (ReceiveDisconnect(u) \/ ReceiveScan(u)) /\ UNCHANGED <<gm, quits>>
  <2>1. PICK op \in {"DISCONNECT", "SCAN"} : Receive(u, op)
    BY <1>6 DEF ReceiveDisconnect, ReceiveScan
  <2>2. /\ s # <<>> /\ Head(s).op = op /\ s2c'[u] = Tail(s)
        /\ UNCHANGED <<c2s, cliEnd, srvEnd>>
    BY <2>1 DEF Receive, NetTypes, WireTypeOK
  <2>3. /\ lib'[u].status = lib[u].status /\ lib'[u].init = lib[u].init /\ lib'[u].chat = lib[u].chat
        /\ lib'[u].discThread = lib[u].discThread /\ lib'[u].name = lib[u].name
        /\ UNCHANGED app
    BY <1>3, <1>6 DEF ReceiveDisconnect, ReceiveScan, NetTypes, ClientTypeOK, LibState
  <2>4. SameAnswers(s2c[u], s2c'[u])
    BY <1>3, <2>1, <2>2, QuietTail DEF Answers
  <2>5. Playing(u)' /\ (Waits(u)' <=> Waits(u))
    BY <1>1, <1>6, <2>3 DEF Playing, Waits
  <2>6. EntryPhase(u)'
    BY <1>1, <1>2, <2>2, <2>3, <2>4, <2>5, PhaseStable
  <2> QED
    BY <2>1, <2>5, <2>6, ReceiptStep
<1>7. CASE ReceiveScanComplete(u) /\ UNCHANGED <<gm, quits>>
  <2>1. /\ s # <<>> /\ Head(s).op = "SCAN_COMPLETE" /\ s2c'[u] = Tail(s)
        /\ UNCHANGED <<c2s, cliEnd, srvEnd>> /\ Receive(u, "SCAN_COMPLETE")
    BY <1>7 DEF ReceiveScanComplete, Receive, NetTypes, WireTypeOK
  <2>2. ~NoAnswer(s) /\ (OneAnswer(s, "SCAN_COMPLETE") => NoAnswer(Tail(s))) /\ ~OneAnswer(s, "CONNECT_BSSID")
    BY <1>3, <2>1, TailAnswers DEF Answers
  <2>3. ~Waits(u) /\ lib[u].status = "SCANNING" /\ Looks(u)
    BY <1>1, <2>2 DEF EntryPhase, Joins, Stays, Apart
  <2>4. /\ lib'[u].status = "DISCONNECTED" /\ lib'[u].init = lib[u].init /\ lib'[u].chat = lib[u].chat
        /\ lib'[u].discThread = lib[u].discThread
    BY <1>3, <1>7 DEF ReceiveScanComplete, NetTypes, ClientTypeOK, LibState
  <2>5. app'[u].pc = app[u].pc
    BY <1>3, <1>7 DEF ReceiveScanComplete, Notify, NetTypes, ClientTypeOK, AppState
  <2>6. /\ NoAnswer(Tail(s)) /\ group[u] = NoGroup /\ lib[u].discThread # "grace"
        /\ ~Sends(c2s[u], "CONNECT") /\ ~Sends(c2s[u], "SCAN")
    BY <2>2, <2>3 DEF Looks, Listing
  <2>7. ~Sends(c2s[u], "DISCONNECT")
    <3>1. Lawful(u, c2s[u], game[u], group[u])
      BY <1>1 DEF Line
    <3>2. \A i \in DOMAIN c2s[u] : LawfulAt(u, c2s[u], i, game[u], group[u])
      BY <3>1 DEF Lawful
    <3> QED
      BY <2>6, <3>2 DEF Sends, LawfulAt
  <2>8. Apart(u)'
    BY <1>2, <2>1, <2>4, <2>6, <2>7 DEF Apart
  <2>9. ~Waits(u)'
    BY <1>7, <2>3, <2>4, <2>5 DEF Waits
  <2>10. Playing(u)'
    BY <1>1, <1>7, <2>3, <2>4, <2>5 DEF Playing
  <2>11. EntryPhase(u)'
    BY <2>4, <2>8, <2>9 DEF EntryPhase
  <2> QED
    BY <2>1, <2>10, <2>11, ReceiptStep
<1> QED
  BY <1>4, <1>5, <1>6, <1>7, ConnectKeepsEntry, BssidKeepsEntry DEF EntryFinder

LEMMA OwnStepKeepsEntry ==
    ASSUME CalmEntry, NetTypes, EntryTypes, NEW u \in Users, Entry(u), EntryClient(u)
    PROVE  Entry(u)' /\ cliEnd[u] = "open"
<1>1. cliEnd[u] = "open" /\ UNCHANGED serverVars
  BY OnlyOpenActs DEF EntryClient
<1>2. EntryStep(u) => Entry(u)'
  BY <1>1, EnteringKeepsEntry, WayKeepsEntry, ExitKeepsEntry, PowerOffKeepsEntry DEF EntryStep, CalmEntry
<1>3. EntryFinder(u) => Entry(u)'
  BY <1>1, FinderKeepsEntry
<1>4. DiscStep(u) /\ UNCHANGED <<gm, quits>> => Entry(u)'
  BY <1>1, DiscKeepsEntry
<1> QED
  BY <1>1, <1>2, <1>3, <1>4 DEF EntryClient

-----------------------------------------------------------------------------
(* Whom the server introduces to whom.                                     *)
MacsOf(users) == {MacOf[v] : v \in users}

LEMMA ConnectNews ==
    ASSUME NEW users \in Seq(Users)
    PROVE  /\ Introduced(ConnectPackets(users)) = MacsOf(ToSet(users))
           /\ OwnMacs /\ IsInjective(users) => Once(ConnectPackets(users))
<1> DEFINE s == ConnectPackets(users)
<1>1. /\ DOMAIN s = DOMAIN users
      /\ \A i \in DOMAIN users : s[i].op = "CONNECT" /\ s[i].mac = MacOf[users[i]]
  BY DEF ConnectPackets, ConnectS2C
<1>2. \A i \in DOMAIN users : users[i] \in Users
  OBVIOUS
<1>3. \A v : v \in ToSet(users) <=> \E i \in DOMAIN users : users[i] = v
  BY DEF ToSet
<1> HIDE DEF s
<1>4. \A mac : mac \in Introduced(s) <=> mac \in MacsOf(ToSet(users))
  <2> TAKE mac
  <2>1. mac \in Introduced(s) <=> \E i \in DOMAIN users : MacOf[users[i]] = mac
    BY <1>1, IntroducedIs
  <2>2. mac \in MacsOf(ToSet(users)) <=> \E v \in ToSet(users) : MacOf[v] = mac
    BY DEF MacsOf
  <2>3. ASSUME NEW i \in DOMAIN users, MacOf[users[i]] = mac
        PROVE  \E v \in ToSet(users) : MacOf[v] = mac
    BY <1>3, <2>3
  <2>4. ASSUME NEW v \in ToSet(users), MacOf[v] = mac
        PROVE  \E i \in DOMAIN users : MacOf[users[i]] = mac
    BY <1>3, <2>4
  <2> QED
    BY <2>1, <2>2, <2>3, <2>4
<1>5. OwnMacs /\ IsInjective(users) => Once(s)
  BY <1>1, <1>2 DEF OwnMacs, IsInjective, Once
<1> QED
  BY <1>4, <1>5 DEF s

LEMMA OneNews ==
    ASSUME NEW p
    PROVE  /\ Introduced(<<p>>) = IF p.op = "CONNECT" THEN {p.mac} ELSE {}
           /\ Once(<<p>>)
<1> DEFINE s == <<p>>
<1>1. DOMAIN s = {1} /\ s[1] = p
  OBVIOUS
<1> HIDE DEF s
<1>2. \A mac : mac \in Introduced(s) <=> p.op = "CONNECT" /\ p.mac = mac
  BY <1>1, IntroducedIs
<1>3. Once(s)
  BY <1>1 DEF Once
<1> QED
  BY <1>2, <1>3 DEF s

LEMMA JoinNews ==
    ASSUME OwnMacs, GroupInv, NEW u \in Users, NEW k \in Groups, NEW v \in Users
    PROVE  /\ Introduced(JoinPackets(u, k, v)) =
                 IF v = u THEN MacsOf({w \in Users : group[w] = k})
                 ELSE IF group[v] = k THEN {MacOf[u]} ELSE {}
           /\ Once(JoinPackets(u, k, v))
<1> DEFINE first == IF player[k] = <<>> THEN u ELSE Founder(k)
           bssid == BssidS2C(MacOf[first])
           all == ConnectPackets(player[k])
<1>1. first \in Users /\ player[k] \in Seq(Users) /\ IsInjective(player[k])
  BY FounderIsUser DEF GroupInv, GroupTypes, GroupListsExact
<1>2. ToSet(player[k]) = {w \in Users : group[w] = k}
  BY DEF GroupInv, GroupListsExact
<1>3. Contains(player[k], v) <=> group[v] = k
  BY <1>1, <1>2, EmptyIffNoElement
<1> HIDE DEF first
<1>4. bssid \in S2C /\ bssid.op # "CONNECT"
  BY <1>1, WireAssumption DEF S2C, BssidS2C
<1>5. ConnectS2C(u).op = "CONNECT" /\ ConnectS2C(u).mac = MacOf[u]
  BY DEF ConnectS2C
<1>6. JoinPackets(u, k, v) = IF v = u THEN all \o <<bssid>>
                             ELSE IF Contains(player[k], v) THEN <<ConnectS2C(u)>> ELSE <<>>
  BY DEF JoinPackets, first
<1> HIDE DEF bssid
<1>7. all \in Seq(S2C) /\ Introduced(all) = MacsOf({w \in Users : group[w] = k}) /\ Once(all)
  BY <1>1, <1>2, PacketsOfUsers, ConnectNews
<1> DEFINE last == <<bssid>>
<1>8. last \in Seq(S2C) /\ Introduced(last) = {} /\ Once(last)
  <2>1. last \in Seq(S2C)
    BY <1>4
  <2>2. Introduced(last) = (IF bssid.op = "CONNECT" THEN {bssid.mac} ELSE {}) /\ Once(last)
    BY OneNews
  <2> QED
    BY <1>4, <2>1, <2>2
<1> HIDE DEF all, last
<1>9. Introduced(all \o last) = MacsOf({w \in Users : group[w] = k}) /\ Once(all \o last)
  <2>1. Introduced(all \o last) = Introduced(all) \cup Introduced(last)
    BY <1>7, <1>8, ConcatNews
  <2>2. Introduced(all) \cap Introduced(last) = {}
    BY <1>8
  <2>3. Once(all \o last)
    BY <1>7, <1>8, <2>2, ConcatNews
  <2> QED
    BY <1>7, <1>8, <2>1, <2>3
<1>10. Introduced(<<ConnectS2C(u)>>) = {MacOf[u]} /\ Once(<<ConnectS2C(u)>>)
  BY <1>5, OneNews
<1>11. Introduced(<<>>) = {} /\ Once(<<>>)
  BY NoNews
<1> QED
  BY <1>3, <1>6, <1>9, <1>10, <1>11 DEF last

LEMMA LeaveNews ==
    ASSUME GroupInv, NEW u \in Users, group[u] # NoGroup, NEW v \in Users
    PROVE  Introduced(LeavePackets(u, v)) \subseteq MacsOf(Users \ {v})
<1> DEFINE old == player[group[u]]
           rest == RemoveFirst(old, u)
           places == {i \in Behind(rest, IpOf[u]) : rest[i] # v}
           purge == [i \in 1..Cardinality(Behind(old, IpOf[u])) |-> DisconnectS2C(IpOf[u])]
           who == Picked(rest, places)
           back == ConnectPackets(who)
<1>1. /\ old \in Seq(Users) /\ IsInjective(old) /\ u \in ToSet(old)
  BY OwnGroup DEF GroupInv, GroupTypes, GroupListsExact
<1>2. rest \in Seq(Users)
  BY <1>1, RemoveFirstFacts
<1> HIDE DEF old, rest
<1>3. places \in SUBSET DOMAIN rest /\ Behind(old, IpOf[u]) \in SUBSET DOMAIN old
  BY DEF Behind
<1>4. /\ who \in Seq(Users) /\ DOMAIN who = 1..Cardinality(places)
      /\ \A l \in 1..Cardinality(places) : Nth(places, l) \in places /\ who[l] = rest[Nth(places, l)]
  BY <1>2, <1>3, PickedFacts
<1>5. \A l \in DOMAIN who : who[l] # v /\ who[l] \in Users
  <2>1. \A j \in places : rest[j] # v /\ rest[j] \in Users
    BY <1>2, <1>3
  <2> HIDE DEF places, who
  <2> QED
    BY <1>4, <2>1
<1> HIDE DEF who
<1>6. ToSet(who) \subseteq Users \ {v}
  BY <1>5 DEF ToSet
<1>7. back \in Seq(S2C) /\ Introduced(back) = MacsOf(ToSet(who))
  BY <1>4, PacketsOfUsers, ConnectNews
<1>8. MacsOf(ToSet(who)) \subseteq MacsOf(Users \ {v})
  BY <1>6 DEF MacsOf
<1>9. Cardinality(Behind(old, IpOf[u])) \in Nat
  BY <1>1, <1>3, PickedFacts
<1>10. DisconnectS2C(IpOf[u]) \in S2C /\ DisconnectS2C(IpOf[u]).op # "CONNECT"
  BY WireAssumption DEF S2C, DisconnectS2C
<1>11. purge \in Seq(S2C) /\ Introduced(purge) = {}
  BY <1>9, <1>10, NoNews
<1>12. LeavePackets(u, v) = IF Contains(rest, v) THEN purge \o back ELSE <<>>
  BY DEF LeavePackets, old, rest, who
<1> HIDE DEF purge, back
<1>13. Introduced(purge \o back) = Introduced(back)
  <2>1. Introduced(purge \o back) = Introduced(purge) \cup Introduced(back)
    BY <1>7, <1>11, ConcatNews
  <2> QED
    BY <1>11, <2>1
<1>14. Introduced(<<>>) = {}
  BY NoNews
<1> QED
  BY <1>7, <1>8, <1>12, <1>13, <1>14

LEMMA ScanNews ==
    ASSUME GroupInv, NEW g \in Games
    PROVE  Introduced(ScanPackets(g)) = {} /\ Once(ScanPackets(g))
<1> DEFINE list == groupList[g]
           n == Len(list)
           found == [i \in DOMAIN list |-> ScanS2C(list[i], MacOf[Founder(<<g, list[i]>>)])]
           all == ScanPackets(g)
<1>1. n \in Nat /\ DOMAIN list = 1..n
  BY DEF GroupInv, GroupTypes
<1>2. \A i \in DOMAIN found : found[i].op = "SCAN"
  BY DEF ScanS2C
<1>3. DOMAIN found = 1..n /\ Len(found) = n
  BY <1>1
<1>4. ScanPackets(g) = found \o <<ScanCompleteS2C>>
  BY DEF ScanPackets
<1> HIDE DEF found, n
<1>5. /\ DOMAIN all = 1..(n + 1) /\ all[n + 1] = ScanCompleteS2C
      /\ \A i \in 1..n : all[i] = found[i]
  BY <1>1, <1>3, <1>4
<1> HIDE DEF all
<1>6. all[n + 1].op = "SCAN_COMPLETE"
  BY <1>1, <1>5 DEF ScanCompleteS2C
<1>7. \A i \in DOMAIN all : all[i].op # "CONNECT"
  BY <1>1, <1>2, <1>3, <1>5, <1>6
<1> QED
  BY <1>7, NoNews DEF all

LEMMA SentNews ==
    ASSUME NetTypes, NEW v \in Users, NEW f \in Seq(S2C),
           s2c'[v] = IF cliEnd[v] = "open" THEN s2c[v] \o f ELSE s2c[v]
    PROVE  /\ Introduced(s2c'[v]) \subseteq Introduced(s2c[v]) \cup Introduced(f)
           /\ cliEnd[v] = "open" => Introduced(s2c'[v]) = Introduced(s2c[v]) \cup Introduced(f)
           /\ Introduced(f) = {} => Introduced(s2c'[v]) = Introduced(s2c[v])
           /\ Once(s2c[v]) /\ Once(f) /\ Introduced(s2c[v]) \cap Introduced(f) = {} => Once(s2c'[v])
<1>1. s2c[v] \in Seq(S2C)
  BY LibraryIs
<1>2. CASE cliEnd[v] = "open"
  <2>1. s2c'[v] = s2c[v] \o f
    BY <1>2
  <2>2. Introduced(s2c[v] \o f) = Introduced(s2c[v]) \cup Introduced(f)
    BY <1>1, ConcatNews
  <2>3. Once(s2c[v]) /\ Once(f) /\ Introduced(s2c[v]) \cap Introduced(f) = {} => Once(s2c[v] \o f)
    BY <1>1, ConcatNews
  <2> QED
    BY <2>1, <2>2, <2>3
<1>3. CASE cliEnd[v] # "open"
  BY <1>3
<1> QED
  BY <1>2, <1>3

(* Nobody is introduced to himself. *)
LEMMA VisitNews ==
    ASSUME OwnMacs, IInv, NetTypes, NEW u \in Users, ServerVisit(u), NEW v \in Users
    PROVE  Introduced(s2c'[v]) \subseteq Introduced(s2c[v]) \cup MacsOf(Users \ {v})
<1> DEFINE Sent(f) == s2c'[v] = IF cliEnd[v] = "open" THEN s2c[v] \o f ELSE s2c[v]
           Goal == Introduced(s2c'[v]) \subseteq Introduced(s2c[v]) \cup MacsOf(Users \ {v})
<1>1. ASSUME NEW f \in Seq(S2C), Sent(f), Introduced(f) \subseteq MacsOf(Users \ {v}) PROVE Goal
  BY <1>1, SentNews
<1>2. s2c' = s2c => Goal
  OBVIOUS
<1>3. <<>> \in Seq(S2C) /\ Introduced(<<>>) = {}
  BY NoNews
<1>4. ASSUME group[u] # NoGroup, SendTo(LAMBDA w : LeavePackets(u, w)) PROVE Goal
  <2>1. Sent(LeavePackets(u, v))
    BY <1>4 DEF SendTo
  <2>2. LeavePackets(u, v) \in Seq(S2C) /\ Introduced(LeavePackets(u, v)) \subseteq MacsOf(Users \ {v})
    BY <1>4, LeavePacketsTyped, LeaveNews DEF IInv
  <2> HIDE DEF Goal, Sent
  <2>3. Goal
    BY <1>1, <2>1, <2>2
  <2> QED
    BY <2>3 DEF Goal
<1>5. CASE LogoutUser(u)
  BY <1>2, <1>4, <1>5 DEF LogoutUser
<1>6. CASE LoginUserStream(u)
  BY <1>2, <1>6 DEF LoginUserStream
<1>7. CASE (LoginUserData(u) \/ PingUser(u)) /\ ~LogoutUser(u)
  BY <1>2, <1>7 DEF LoginUserData, PingUser
<1>8. CASE ConnectUser(u) /\ ~LogoutUser(u)
  <2> DEFINE k == <<game[u], Head(c2s[u]).group>>
  <2>1. /\ game[u] \in Games /\ Head(c2s[u]).group \in Names /\ group[u] = NoGroup
        /\ SendTo(LAMBDA w : JoinPackets(u, k, w))
    BY <1>8 DEF ConnectUser, LoggedIn, IInv, UserInv, UserTypes
  <2>2. Sent(JoinPackets(u, k, v))
    BY <2>1 DEF SendTo
  <2>3. k \in Groups /\ k # NoGroup
    BY <2>1, ServerAssumption DEF Groups
  <2> HIDE DEF k, Sent, Goal
  <2>4. JoinPackets(u, k, v) \in Seq(S2C)
    BY <2>3, JoinPacketsTyped DEF IInv
  <2>5. Introduced(JoinPackets(u, k, v)) =
            IF v = u THEN MacsOf({w \in Users : group[w] = k}) ELSE IF group[v] = k THEN {MacOf[u]} ELSE {}
    BY <2>3, JoinNews DEF IInv
  <2>6. v = u => MacsOf({w \in Users : group[w] = k}) \subseteq MacsOf(Users \ {v})
    BY <2>1, <2>3 DEF MacsOf
  <2>7. v # u => {MacOf[u]} \subseteq MacsOf(Users \ {v})
    BY DEF MacsOf
  <2>8. Introduced(JoinPackets(u, k, v)) \subseteq MacsOf(Users \ {v})
    BY <2>5, <2>6, <2>7
  <2>9. Goal
    BY <1>1, <2>2, <2>4, <2>8
  <2> QED
    BY <2>9 DEF Goal
<1>9. CASE DisconnectUser(u) /\ ~LogoutUser(u)
  BY <1>4, <1>9 DEF DisconnectUser
<1>10. CASE SendScanResults(u) /\ ~LogoutUser(u)
  <2> DEFINE f == IF v = u THEN ScanPackets(game[u]) ELSE <<>>
  <2>1. Sent(f) /\ game[u] \in Games
    BY <1>10 DEF SendScanResults, SendTo, LoggedIn, IInv, UserInv, UserTypes
  <2>2. f \in Seq(S2C) /\ Introduced(f) = {}
    BY <1>3, <2>1, ScanPacketsTyped, ScanNews DEF IInv
  <2> HIDE DEF f, Sent, Goal
  <2>3. Goal
    BY <1>1, <2>1, <2>2
  <2> QED
    BY <2>3 DEF Goal
<1>11. CASE SpreadMessage(u) /\ ~LogoutUser(u)
  <2> DEFINE f == IF v # u /\ Contains(player[group[u]], v) THEN <<ChatS2C>> ELSE <<>>
  <2>1. Sent(f)
    BY <1>11 DEF SpreadMessage, SendTo
  <2>2. ChatS2C \in S2C /\ ChatS2C.op # "CONNECT"
    BY DEF S2C, ChatS2C
  <2>3. <<ChatS2C>> \in Seq(S2C)
    BY <2>2
  <2>4. Introduced(<<ChatS2C>>) = IF ChatS2C.op = "CONNECT" THEN {ChatS2C.mac} ELSE {}
    BY OneNews
  <2>5. f \in Seq(S2C) /\ Introduced(f) = {}
    BY <1>3, <2>2, <2>3, <2>4
  <2> HIDE DEF f, Sent, Goal
  <2>6. Goal
    BY <1>1, <2>1, <2>5
  <2> QED
    BY <2>6 DEF Goal
<1>12. CASE HangUp(u) \/ TimeOut(u) \/ InvalidOpcode(u)
  BY <1>5, <1>12 DEF HangUp, TimeOut, InvalidOpcode
<1> QED
  BY <1>5, <1>6, <1>7, <1>8, <1>9, <1>10, <1>11, <1>12 DEF ServerVisit, ServeUser

(* A visit of the server keeps the entries of all. *)
LEMMA VisitKeepsEntry ==
    ASSUME CalmEntry, OwnMacs, IInv, NetTypes, NEW u \in Users, Entry(u), EntryServer(u),
           NEW v \in Users, Entry(v)
    PROVE  Entry(v)'
<1>1. ServerVisit(u) /\ UNCHANGED clientVars /\ UNCHANGED <<lib, app, gm>>
  BY DEF EntryServer, clientVars
<1>2. UNCHANGED cliEnd
  BY <1>1 DEF ServerVisit, LoginUserStream, HangUp, TimeOut, ServeUser, LoginUserData, PingUser,
     ConnectUser, DisconnectUser, SendScanResults, SpreadMessage, InvalidOpcode, Handle
<1>3. cliEnd[v] = "open" => MacOf[v] \notin Introduced(s2c'[v])
  <2>1. Introduced(s2c'[v]) \subseteq Introduced(s2c[v]) \cup MacsOf(Users \ {v})
    BY <1>1, VisitNews
  <2>2. MacOf[v] \notin MacsOf(Users \ {v})
    BY DEF MacsOf, OwnMacs
  <2> QED
    BY <2>1, <2>2 DEF Entry
<1>4. CASE v # u
  <2>1. Undisturbed(v)
    BY <1>1, <1>4, VisitLeavesOthers
  <2>2. Line(v)' /\ (Playing(v) => Playing(v)') /\ (Waits(v)' <=> Waits(v)) /\ (Off(v) => Off(v)')
    BY <1>1, <2>1 DEF Undisturbed, Entry, Line, Served, Playing, Waits, Off
  <2>3. EntryPhase(v) => EntryPhase(v)'
    BY <1>1, <2>1, <2>2, PhaseStable DEF Undisturbed
  <2> QED
    BY <1>1, <1>3, <2>1, <2>2, <2>3 DEF Undisturbed, Entry
<1>5. CASE v = u
  <2>1. Line(u) /\ srvEnd[u] \in {"open", "closed"} /\ (srvEnd[u] = "open" => game[u] = GameOf[u])
        /\ (cliEnd[u] = "open" => srvEnd[u] = "open")
    BY DEF Entry
  <2>2. GoesOn(u) \/ (IsDropped(u) /\ cliEnd[u] # "open")
    BY <1>1, <2>1, VisitMoves DEF CalmEntry
  <2>3. (Off(u) => Off(u)') /\ (Playing(u) => Playing(u)') /\ (Waits(u)' <=> Waits(u))
    BY <1>1, <1>2 DEF Off, Playing, Waits
  <2>4. CASE IsDropped(u) /\ cliEnd[u] # "open"
    BY <1>1, <1>2, <1>5, <2>3, <2>4 DEF IsDropped, Entry, Line, Served
  <2>5. CASE GoesOn(u)
    <3>1. Line(u)' /\ srvEnd'[u] = "open" /\ srvEnd[u] = "open" /\ game'[u] = GameOf[u]
          /\ (cliEnd[u] = "open" => Moves(u))
      BY <2>1, <2>5, ClientAssumption, ServerAssumption DEF GoesOn, Served
    <3>2. cliEnd[u] = "open" => EntryPhase(u)'
      BY <1>1, <2>3, <3>1 DEF Entry, EntryPhase, Moves, Looks
    <3> QED
      BY <1>1, <1>2, <1>3, <1>5, <2>3, <3>1, <3>2 DEF Entry
  <2> QED
    BY <2>2, <2>4, <2>5
<1> QED
  BY <1>4, <1>5

LEMMA ClientKeepsEntry ==
    ASSUME CalmEntry, IInv, NetTypes, EntryTypes, NEW u \in Users, Entry(u), EntryClient(u),
           NEW v \in Users, Entry(v)
    PROVE  Entry(v)'
<1>1. CASE v = u
  BY <1>1, OwnStepKeepsEntry
<1>2. CASE v # u
  <2>1. Undisturbed(v) /\ s2c'[v] = s2c[v] /\ gm'[v] = gm[v]
    BY <1>2, EntryBasics, GlobalsKeepTypes
  <2>2. Line(v)' /\ (Playing(v) => Playing(v)') /\ (Waits(v)' <=> Waits(v)) /\ (Off(v) => Off(v)')
    BY <2>1 DEF Undisturbed, Entry, Line, Served, Playing, Waits, Off
  <2>3. EntryPhase(v) => EntryPhase(v)'
    BY <2>1, <2>2, PhaseStable DEF Undisturbed
  <2> QED
    BY <2>1, <2>2, <2>3 DEF Undisturbed, Entry
<1> QED
  BY <1>1, <1>2

-----------------------------------------------------------------------------
(* Who has met whom, as long as nobody leaves: the steps of a player.      *)
LEMMA MatesStable ==
    ASSUME NEW v \in Users, group' = group
    PROVE  Mates(v)' = Mates(v) /\ MatesMacs(v)' = MatesMacs(v)
  BY DEF Mates, MatesMacs

LEMMA TogetherStable ==
    ASSUME NEW v \in Users, Together(v), group' = group,
           cliEnd'[v] = "open", app'[v].pc # "disconnect", ~Sends(c2s'[v], "DISCONNECT"),
           Introduced(s2c'[v]) = Introduced(s2c[v]), Once(s2c[v]) => Once(s2c'[v]),
           gm'[v].in # 0 =>
              /\ gm[v].in # 0 /\ gm'[v].host = gm[v].host /\ gm'[v].members = gm[v].members
              /\ gm'[v].expected = gm[v].expected
              /\ gm'[v].in = 1 => gm[v].in = 1 \/ Len(gm[v].members) >= gm[v].expected
    PROVE  Together(v)'
<1>1. MatesMacs(v)' = MatesMacs(v)
  BY MatesStable
<1>2. gm'[v].in # 0 => Knows(v)'
  BY <1>1 DEF Together, Knows
<1> QED
  BY <1>1, <1>2 DEF Together

(* Who is apart and not leaving has no mates. *)
LEMMA ApartHasNoMates ==
    ASSUME NEW u \in Users, Together(u), Apart(u), lib[u].discThread = "none"
    PROVE  group[u] = NoGroup /\ MatesMacs(u) = {} /\ Introduced(s2c[u]) = {}
<1>1. group[u] = NoGroup
  BY DEF Together, Apart
<1>2. Mates(u) = {}
  BY <1>1 DEF Mates
<1> QED
  BY <1>1, <1>2 DEF MatesMacs, Together

LEMMA TwoMembers ==
    ASSUME NEW a, NEW b
    PROVE  /\ ToSet(<<a>>) = {a} /\ IsInjective(<<a>>)
           /\ ToSet(<<a, b>>) = {a, b} /\ (a # b => IsInjective(<<a, b>>))
<1>1. DOMAIN <<a>> = {1} /\ DOMAIN <<a, b>> = {1, 2}
  OBVIOUS
<1> QED
  BY <1>1 DEF ToSet, IsInjective

LEMMA EnteringKeepsTogether ==
    ASSUME CalmEntry, OwnMacs, NetTypes, EntryTypes, NEW u \in Users, Entry(u), Together(u),
           UNCHANGED serverVars,
           \/ \E name \in Names, number \in Expected : CreateEnterGameMode(u, name, number)
           \/ \E gc \in Users : JoinEnterGameMode(u, gc)
    PROVE  Together(u)'
<1>1. Apart(u) /\ lib[u].discThread = "none" /\ group' = group /\ cliEnd[u] = "open"
  BY EnteringKeepsEntry DEF CalmEntry, Together, serverVars, dbVars, groupVars
<1>2. MatesMacs(u) = {} /\ Introduced(s2c[u]) = {} /\ MatesMacs(u)' = MatesMacs(u)
  BY <1>1, ApartHasNoMates, MatesStable
<1>3. UNCHANGED wireVars /\ app'[u].pc # "disconnect"
  BY DEF CreateEnterGameMode, JoinEnterGameMode, CreateCalled, Outside, NetTypes, ClientTypeOK, AppState
<1>4. MacOf[u] \in {MacOf[v] : v \in Users}
  OBVIOUS
<1>5. CASE \E name \in Names, number \in Expected : CreateEnterGameMode(u, name, number)
  <2>1. /\ gm'[u].host = MacOf[u] /\ gm'[u].members = <<MacOf[u]>> /\ gm'[u].in = -1
    BY <1>5 DEF CreateEnterGameMode, EntryTypes, Entering
  <2>2. ToSet(<<MacOf[u]>>) = {MacOf[u]} /\ IsInjective(<<MacOf[u]>>)
    BY TwoMembers
  <2>3. Knows(u)'
    BY <1>2, <1>3, <1>4, <2>1, <2>2 DEF Knows, wireVars
  <2> QED
    BY <1>2, <1>3, <2>3 DEF Together, wireVars
<1>6. ASSUME NEW gc \in Users, JoinEnterGameMode(u, gc) PROVE Together(u)'
  <2>1. u \notin Hosts /\ gc \in Hosts /\ MacOf[gc] # MacOf[u]
    BY <1>6 DEF JoinEnterGameMode, OwnMacs
  <2>2. /\ gm'[u].host = MacOf[gc] /\ gm'[u].members = <<MacOf[gc], MacOf[u]>> /\ gm'[u].in = -1
    BY <1>6 DEF JoinEnterGameMode, EntryTypes, Entering
  <2>3. ToSet(<<MacOf[gc], MacOf[u]>>) = {MacOf[gc], MacOf[u]} /\ IsInjective(<<MacOf[gc], MacOf[u]>>)
    BY <2>1, TwoMembers
  <2>4. Knows(u)'
    BY <1>2, <1>3, <2>1, <2>2, <2>3 DEF Knows, wireVars
  <2> QED
    BY <1>2, <1>3, <2>4 DEF Together, wireVars
<1> QED
  BY <1>5, <1>6

(* The calls that lead into the group, and what the friend finder hears of *)
(* himself. *)
LEMMA WayKeepsTogether ==
    ASSUME CalmEntry, NetTypes, EntryTypes, NEW u \in Users, Entry(u), Together(u),
           UNCHANGED serverVars,
           EntryGoesOn(u) \/ \E name \in Names : SearchTimesOut(u, name)
    PROVE  Together(u)'
<1>1. /\ lib[u] \in LibState /\ app[u] \in AppState /\ c2s[u] \in Seq(C2S)
      /\ gm \in [Users -> GameModeState] /\ gm[u] \in GameModeState /\ app \in [Users -> AppState]
      /\ c2s \in [Users -> Seq(C2S)]
  BY LibraryIs DEF EntryTypes, NetTypes, ClientTypeOK, WireTypeOK
<1>2. group' = group /\ cliEnd[u] = "open" /\ app[u].pc # "disconnect" /\ ~Sends(c2s[u], "DISCONNECT")
  BY DEF Together, serverVars, dbVars, groupVars
<1>3. /\ gm'[u].host = gm[u].host /\ gm'[u].members = gm[u].members
      /\ gm'[u].expected = gm[u].expected /\ gm'[u].in \in {gm[u].in, 0}
  BY <1>1 DEF EntryGoesOn, SearchScans, Search, SearchFinds, SearchGoesOn, EntrySends, EntryStamps,
     EntryReturns, SearchTimesOut, GameModeState
<1>4. /\ app'[u].pc # "disconnect" /\ UNCHANGED <<s2c, cliEnd>>
      /\ \/ c2s' = c2s
         \/ WireSend(u, BareC2S("SCAN"))
         \/ app[u].pc = "create" /\ WireSend(u, ConnectC2S(app[u].arg))
  <2>1. CASE SearchScans(u)
    BY <1>1, <2>1 DEF SearchScans, Scan, AppState
  <2>2. CASE EntrySends(u)
    BY <1>1, <2>2 DEF EntrySends, CreateSends, AppState
  <2>3. CASE \E name \in Names : SearchFinds(u, name) \/ SearchTimesOut(u, name)
    BY <1>1, <1>2, <2>3 DEF SearchFinds, SearchTimesOut, CreateCalled, AppState, wireVars
  <2>4. CASE (\E name \in Names : SearchGoesOn(u, name)) \/ EntryStamps(u) \/ EntryReturns(u)
    BY <1>2, <2>4 DEF SearchGoesOn, EntryStamps, EntryReturns, wireVars
  <2> QED
    BY <2>1, <2>2, <2>3, <2>4 DEF EntryGoesOn, Search
<1>5. ASSUME NEW p \in C2S, p.op # "DISCONNECT", WireSend(u, p)
      PROVE  ~Sends(c2s'[u], "DISCONNECT")
  <2>1. c2s'[u] = c2s[u] \/ c2s'[u] = Append(c2s[u], p)
    BY <1>1, <1>5 DEF WireSend
  <2>2. Sends(Append(c2s[u], p), "DISCONNECT") <=> Sends(c2s[u], "DISCONNECT") \/ p.op = "DISCONNECT"
    BY <1>1, AppendSends
  <2> QED
    BY <1>2, <1>5, <2>1, <2>2
<1>6. /\ BareC2S("SCAN") \in C2S /\ BareC2S("SCAN").op = "SCAN"
      /\ app[u].pc = "create" => ConnectC2S(app[u].arg) \in C2S
      /\ ConnectC2S(app[u].arg).op = "CONNECT"
  BY DEF NetTypes, C2S, BareC2S, BareOps, ConnectC2S
<1>7. ~Sends(c2s'[u], "DISCONNECT")
  <2>1. CASE c2s' = c2s
    BY <1>2, <2>1
  <2>2. CASE WireSend(u, BareC2S("SCAN"))
    BY <1>5, <1>6, <2>2
  <2>3. CASE app[u].pc = "create" /\ WireSend(u, ConnectC2S(app[u].arg))
    BY <1>5, <1>6, <2>3
  <2> QED
    BY <1>4, <2>1, <2>2, <2>3
<1> QED
  BY <1>2, <1>3, <1>4, <1>7, TogetherStable

LEMMA BssidKeepsTogether ==
    ASSUME NetTypes, EntryTypes, NEW u \in Users, Entry(u), Together(u), UNCHANGED serverVars,
           GameModeBssid(u)
    PROVE  Together(u)'
<1> DEFINE s == s2c[u]
           g == gm[u]
<1>1. group' = group /\ cliEnd[u] = "open" /\ app[u].pc # "disconnect" /\ ~Sends(c2s[u], "DISCONNECT")
  BY DEF Together, serverVars, dbVars, groupVars
<1>2. g.in # 0 /\ app' = app
  BY <1>1, BssidKeepsEntry DEF GameModeBssid
<1>3. /\ s \in Seq(S2C) /\ s # <<>> /\ Head(s).op # "CONNECT" /\ s2c'[u] = Tail(s)
      /\ UNCHANGED <<c2s, cliEnd>>
  BY DEF GameModeBssid, Receive, NetTypes, WireTypeOK
<1>4. Introduced(s2c'[u]) = Introduced(s) /\ (Once(s) => Once(s2c'[u]))
  BY <1>3, TailNews
<1>5. /\ gm'[u].host = g.host /\ gm'[u].members = g.members /\ gm'[u].expected = g.expected
      /\ gm'[u].in = 1 => g.in = 1 \/ Len(g.members) >= g.expected
  <2> DEFINE a == [g EXCEPT !.selfArrived = TRUE, !.hostArrived = TRUE]
             r == [a EXCEPT !.in = 1, !.told = "begun"]
  <2>1. g \in GameModeState /\ gm \in [Users -> GameModeState]
    BY DEF EntryTypes
  <2>2. /\ a \in GameModeState /\ a.host = g.host /\ a.members = g.members
        /\ a.expected = g.expected /\ a.in = g.in
    BY <2>1 DEF GameModeState
  <2>3. gm'[u] = Collected(a)
    BY <1>2, <2>1 DEF GameModeBssid
  <2> HIDE DEF a
  <2>4. r.host = a.host /\ r.members = a.members /\ r.expected = a.expected
    BY <2>2 DEF GameModeState
  <2>5. Collected(a) = a \/ (Len(a.members) >= a.expected /\ Collected(a) = r)
    BY DEF Collected, Complete
  <2> HIDE DEF r
  <2> QED
    BY <2>2, <2>3, <2>4, <2>5
<1> QED
  BY <1>1, <1>2, <1>3, <1>4, <1>5, TogetherStable

(* A list of different players is not longer than there are players.       *)
LEMMA DifferentPlayers ==
    ASSUME NEW list \in Seq(Macs), IsInjective(list), NEW W \in SUBSET Users,
           ToSet(list) \subseteq {MacOf[v] : v \in W}
    PROVE  Len(list) <= Cardinality(W) /\ Cardinality(W) \in Nat
<1> DEFINE n == Len(list)
           f == [i \in 1..n |-> CHOOSE v \in W : MacOf[v] = list[i]]
<1>1. n \in Nat /\ DOMAIN list = 1..n
  OBVIOUS
<1>2. IsFiniteSet(W)
  BY ServerAssumption, FS_Subset
<1>3. \A i \in 1..n : f[i] \in W /\ MacOf[f[i]] = list[i]
  <2> SUFFICES ASSUME NEW i \in 1..n PROVE f[i] \in W /\ MacOf[f[i]] = list[i]
    OBVIOUS
  <2>1. \E v \in W : MacOf[v] = list[i]
    BY <1>1 DEF ToSet
  <2> QED
    BY <2>1
<1>4. f \in [1..n -> W]
  BY <1>3
<1>5. IsInjective(f)
  <2>1. DOMAIN f = 1..n
    OBVIOUS
  <2> HIDE DEF f
  <2> QED
    BY <1>1, <1>3, <2>1 DEF IsInjective
<1>6. f \in Injection(1..n, W)
  BY <1>4, <1>5 DEF Injection
<1> HIDE DEF f
<1>7. Cardinality(1..n) <= Cardinality(W)
  BY <1>2, <1>6, FS_Injection
<1>8. Cardinality(1..n) = n
  BY <1>1, FS_Interval
<1> QED
  BY <1>2, <1>7, <1>8, FS_CardinalityType

LEMMA AppendedMember ==
    ASSUME NEW list \in Seq(Macs), IsInjective(list), NEW mac \in Macs, mac \notin ToSet(list)
    PROVE  /\ Append(list, mac) \in Seq(Macs) /\ IsInjective(Append(list, mac))
           /\ ToSet(Append(list, mac)) = ToSet(list) \cup {mac}
           /\ Len(Append(list, mac)) = Len(list) + 1 /\ Len(list) \in Nat
<1> DEFINE t == Append(list, mac)
           n == Len(list)
<1>1. /\ t \in Seq(Macs) /\ n \in Nat /\ DOMAIN list = 1..n /\ DOMAIN t = 1..(n + 1) /\ Len(t) = n + 1
      /\ t[n + 1] = mac /\ \A i \in 1..n : t[i] = list[i]
  OBVIOUS
<1>2. \A i \in 1..n : list[i] # mac
  BY <1>1 DEF ToSet
<1> HIDE DEF t, n
<1>3. \A i \in 1..(n + 1) : i = n + 1 \/ i \in 1..n
  BY <1>1
<1>4. IsInjective(t)
  BY <1>1, <1>2, <1>3 DEF IsInjective
<1>5. \A x : x \in ToSet(t) <=> x \in ToSet(list) \cup {mac}
  <2> TAKE x
  <2>1. x \in ToSet(t) <=> \E i \in 1..(n + 1) : t[i] = x
    BY <1>1 DEF ToSet
  <2>2. x \in ToSet(list) <=> \E i \in 1..n : list[i] = x
    BY <1>1 DEF ToSet
  <2>3. n + 1 \in 1..(n + 1) /\ \A i \in 1..n : i \in 1..(n + 1)
    BY <1>1
  <2> QED
    BY <1>1, <1>3, <2>1, <2>2, <2>3
<1> QED
  BY <1>1, <1>4, <1>5 DEF t, n

(* Somebody arrives.                                                       *)
LEMMA ConnectKeepsTogether ==
    ASSUME NetTypes, EntryTypes, NEW u \in Users, Entry(u), Together(u), UNCHANGED serverVars,
           GameModeConnect(u)
    PROVE  Together(u)'
<1> DEFINE s == s2c[u]
           mac == Head(s).mac
           g == gm[u]
           members == ToSet(g.members)
           all == MatesMacs(u)
<1>1. /\ group' = group /\ cliEnd[u] = "open" /\ app[u].pc # "disconnect" /\ ~Sends(c2s[u], "DISCONNECT")
      /\ Introduced(s) \subseteq all /\ Once(s)
  BY DEF Together, serverVars, dbVars, groupVars
<1>2. /\ s \in Seq(S2C) /\ s # <<>> /\ Head(s).op = "CONNECT" /\ s2c'[u] = Tail(s)
      /\ UNCHANGED <<c2s, cliEnd, app>>
  BY DEF GameModeConnect, ReceiveConnect, Receive, NetTypes, WireTypeOK
<1>3. /\ mac \in Introduced(s) /\ Introduced(s) = {mac} \cup Introduced(Tail(s))
      /\ Once(Tail(s)) /\ mac \notin Introduced(Tail(s))
  BY <1>1, <1>2, TailNews
<1>4. MatesMacs(u)' = all
  BY <1>1, MatesStable
<1>5. mac # MacOf[u] /\ mac \in Macs /\ mac \in {MacOf[v] : v \in Users}
  <2>1. MacOf[u] \notin Introduced(s)
    BY <1>1, OpenEntry
  <2>2. all \subseteq {MacOf[v] : v \in Users} /\ {MacOf[v] : v \in Users} \subseteq Macs
    BY WireAssumption DEF MatesMacs, Mates
  <2> HIDE DEF all
  <2> QED
    BY <1>1, <1>3, <2>1, <2>2
<1>6. g \in GameModeState /\ gm \in [Users -> GameModeState] /\ g.members \in Seq(Macs) /\ g.expected \in Nat
  BY DEF EntryTypes, GameModeState
<1>7. CASE g.in = 0
  <2>1. gm' = gm
    BY <1>7 DEF GameModeConnect
  <2> HIDE DEF all
  <2> QED
    BY <1>1, <1>2, <1>3, <1>4, <1>7, <2>1 DEF Together
<1>8. CASE g.in # 0
  <2> DEFINE a == Arrival(u, mac)
             r == [a EXCEPT !.in = 1, !.told = "begun"]
  <2>1. Knows(u)
    BY <1>8 DEF Together
  <2>2. /\ a \in GameModeState /\ a.host = g.host /\ a.expected = g.expected /\ a.in = g.in
        /\ a.members = IF mac = g.host \/ Len(g.members) >= MaxMembers THEN g.members
                       ELSE Append(g.members, mac)
    <3>1. a \in GameModeState
      BY <1>5, ArrivalTyped
    <3>2. /\ a.host = g.host /\ a.expected = g.expected /\ a.in = g.in
          /\ a.members = IF mac = g.host \/ Len(g.members) >= MaxMembers THEN g.members
                         ELSE Append(g.members, mac)
      BY <1>5, <1>6 DEF Arrival, GameModeState
    <3> QED
      BY <3>1, <3>2
  <2>3. gm'[u] = Collected(a)
    BY <1>6, <1>8 DEF GameModeConnect
  <2> HIDE DEF a
  <2>4. r.host = a.host /\ r.members = a.members /\ r.expected = a.expected
    BY <2>2 DEF GameModeState
  <2>5. Collected(a) = a \/ (Len(a.members) >= a.expected /\ Collected(a) = r)
    BY DEF Collected, Complete
  <2> HIDE DEF r
  <2>6. /\ gm'[u].host = g.host /\ gm'[u].members = a.members /\ gm'[u].expected = g.expected
        /\ gm'[u].in = 1 => g.in = 1 \/ Len(a.members) >= g.expected
    BY <2>2, <2>3, <2>4, <2>5
  <2> DEFINE list == a.members
             now == ToSet(list)
  <2>7. /\ IsInjective(g.members) /\ g.host \in members /\ MacOf[u] \in members
        /\ members \subseteq {g.host, MacOf[u]} \cup all
        /\ Introduced(s) \cap members \subseteq {g.host}
        /\ g.host \in {MacOf[v] : v \in Users} /\ (u \in Hosts => g.host = MacOf[u])
        /\ Cardinality(Users) <= MaxMembers => all \subseteq members \cup Introduced(s)
        /\ g.in = 1 => Len(g.members) >= g.expected
    BY <2>1 DEF Knows
  <2>8. mac # g.host => mac \notin members
    BY <1>3, <2>7
  <2>9. /\ IsInjective(list) /\ members \subseteq now /\ now \subseteq members \cup {mac}
        /\ Cardinality(Users) <= MaxMembers => mac \in now
        /\ Len(list) >= Len(g.members) /\ Len(list) \in Nat /\ Len(g.members) \in Nat
    <3>1. CASE mac = g.host
      BY <1>6, <2>2, <2>7, <3>1
    <3>2. CASE mac # g.host /\ ~(Len(g.members) >= MaxMembers)
      <4>1. list = Append(g.members, mac)
        BY <2>2, <3>2
      <4> QED
        BY <1>5, <1>6, <2>7, <2>8, <3>2, <4>1, AppendedMember
    <3>3. CASE mac # g.host /\ Len(g.members) >= MaxMembers
      <4> DEFINE more == Append(g.members, mac)
      <4>1. list = g.members /\ Len(g.members) \in Nat
        BY <1>6, <2>2, <3>3
      <4>2. /\ more \in Seq(Macs) /\ IsInjective(more) /\ ToSet(more) = members \cup {mac}
            /\ Len(more) = Len(g.members) + 1
        BY <1>5, <1>6, <2>7, <2>8, <3>3, AppendedMember
      <4>3. members \subseteq {MacOf[v] : v \in Users}
        BY <2>7 DEF MatesMacs, Mates
      <4>4. Len(more) <= Cardinality(Users) /\ Cardinality(Users) \in Nat
        <5>1. ToSet(more) \subseteq {MacOf[v] : v \in Users}
          BY <1>5, <4>2, <4>3
        <5> HIDE DEF more
        <5> QED
          BY <4>2, <5>1, DifferentPlayers
      <4>5. MaxMembers \in Nat
        BY EntryAssumption
      <4>6. ~(Cardinality(Users) <= MaxMembers)
        BY <3>3, <4>1, <4>2, <4>4, <4>5
      <4> QED
        BY <2>7, <4>1, <4>6
    <3> QED
      BY <3>1, <3>2, <3>3
  <2>10. Knows(u)'
    <3> HIDE DEF all, list, members
    <3>1. now \subseteq {g.host, MacOf[u]} \cup all
      BY <1>1, <1>3, <2>7, <2>9
    <3>2. Introduced(Tail(s)) \cap now \subseteq {g.host}
      BY <1>3, <2>7, <2>9
    <3>3. Cardinality(Users) <= MaxMembers => all \subseteq now \cup Introduced(Tail(s))
      BY <1>3, <2>7, <2>9
    <3>4. gm'[u].in = 1 => Len(list) >= g.expected
      BY <1>6, <2>6, <2>7, <2>9 DEF list
    <3> QED
      BY <1>2, <1>4, <2>6, <2>7, <2>9, <3>1, <3>2, <3>3, <3>4 DEF Knows, list
  <2> HIDE DEF all
  <2> QED
    BY <1>1, <1>2, <1>3, <1>4, <2>10 DEF Together
<1> QED
  BY <1>7, <1>8

LEMMA FinderKeepsTogether ==
    ASSUME NetTypes, EntryTypes, NEW u \in Users, Entry(u), Together(u), UNCHANGED serverVars,
           EntryFinder(u)
    PROVE  Together(u)'
<1> DEFINE s == s2c[u]
           g == gm[u]
<1>1. /\ group' = group /\ cliEnd[u] = "open" /\ app[u].pc # "disconnect"
      /\ ~Sends(c2s[u], "DISCONNECT") /\ app[u] \in AppState
  BY LibraryIs DEF Together, serverVars, dbVars, groupVars
<1>2. CASE EntryTimesOut(u)
  <2>1. gm'[u].in = 0 /\ UNCHANGED <<app, wireVars>>
    BY <1>2 DEF EntryTimesOut, EntryTypes, GameModeState
  <2> QED
    BY <1>1, <2>1, TogetherStable DEF wireVars
<1>3. CASE NotifyDisconnect(u) /\ UNCHANGED <<gm, quits>>
  <2>1. app'[u].pc = app[u].pc /\ UNCHANGED wireVars
    BY <1>1, <1>3 DEF NotifyDisconnect, Notify, NetTypes, ClientTypeOK, AppState
  <2> QED
    BY <1>1, <1>3, <2>1, TogetherStable DEF wireVars
<1>4. CASE (ReceiveDisconnect(u) \/ ReceiveScan(u) \/ ReceiveScanComplete(u)) /\ UNCHANGED <<gm, quits>>
  <2>1. PICK op \in {"DISCONNECT", "SCAN", "SCAN_COMPLETE"} : Receive(u, op)
    BY <1>4 DEF ReceiveDisconnect, ReceiveScan, ReceiveScanComplete
  <2>2. /\ s \in Seq(S2C) /\ s # <<>> /\ Head(s).op # "CONNECT" /\ s2c'[u] = Tail(s)
        /\ UNCHANGED <<c2s, cliEnd>>
    BY <2>1 DEF Receive, NetTypes, WireTypeOK
  <2>3. Introduced(s2c'[u]) = Introduced(s) /\ (Once(s) => Once(s2c'[u]))
    BY <2>2, TailNews
  <2>4. app'[u].pc = app[u].pc
    BY <1>1, <1>4 DEF ReceiveDisconnect, ReceiveScan, ReceiveScanComplete, Notify, NetTypes,
       ClientTypeOK, AppState
  <2> QED
    BY <1>1, <1>4, <2>2, <2>3, <2>4, TogetherStable
<1> QED
  BY <1>2, <1>3, <1>4, BssidKeepsTogether, ConnectKeepsTogether DEF EntryFinder

LEMMA ClientKeepsTogether ==
    ASSUME CalmEntry, OwnMacs, IInv, NetTypes, EntryTypes, NEW u \in Users, Entry(u), EntryClient(u),
           ~quits', NEW v \in Users, Together(u), Together(v)
    PROVE  Together(v)'
<1>1. UNCHANGED serverVars
  BY DEF EntryClient
<1>2. CASE v # u
  <2>1. Undisturbed(v) /\ s2c'[v] = s2c[v] /\ gm'[v] = gm[v] /\ group' = group
    BY <1>2, EntryBasics, GlobalsKeepTypes
  <2> QED
    BY <2>1, TogetherStable DEF Undisturbed, Together
<1>3. ~DiscStep(u) /\ ~ExitReturns(u)
  <2>1. app[u].pc # "disconnect" /\ lib[u].discThread = "none"
    BY OpenEntry DEF Together, Playing
  <2> QED
    BY <2>1 DEF DiscStep, DiscStarts, DiscSends, DiscEnds, ExitReturns, DisconnectReturns
<1>4. ~ExitGameMode(u) /\ ~GameModePowerOff(u)
  BY DEF ExitGameMode, GameModePowerOff
<1>5. EntryStep(u) => Together(u)'
  BY <1>1, <1>3, <1>4, EnteringKeepsTogether, WayKeepsTogether DEF EntryStep
<1>6. EntryFinder(u) => Together(u)'
  BY <1>1, FinderKeepsTogether
<1>7. CASE v = u
  BY <1>3, <1>5, <1>6, <1>7 DEF EntryClient
<1> QED
  BY <1>2, <1>7

(* Somebody joins: his mates and he hear of each other, once.              *)
LEMMA NewMates ==
    ASSUME NEW v \in Users, Together(v), NEW N, MatesMacs(v)' = MatesMacs(v) \cup N,
           Introduced(s2c'[v]) = Introduced(s2c[v]) \cup N,
           N \cap MatesMacs(v) = {}, MacOf[v] \notin N,
           UNCHANGED <<app, gm, cliEnd>>, ~Sends(c2s'[v], "DISCONNECT"), Once(s2c'[v])
    PROVE  Together(v)'
<1>1. gm[v].in # 0 => Knows(v)'
  <2> SUFFICES ASSUME gm[v].in # 0 PROVE Knows(v)'
    OBVIOUS
  <2>1. Knows(v) /\ Introduced(s2c[v]) \subseteq MatesMacs(v)
    BY DEF Together
  <2> DEFINE members == ToSet(gm[v].members)
  <2>2. Introduced(s2c'[v]) \cap members \subseteq {gm[v].host}
    BY <2>1 DEF Knows
  <2> QED
    BY <2>1, <2>2 DEF Knows
<1> QED
  BY <1>1 DEF Together

LEMMA JoinKeepsTogether ==
    ASSUME CalmEntry, OwnMacs, IInv, NetTypes, NEW u \in Users, ConnectUser(u), ~LogoutUser(u),
           UNCHANGED clientVars, UNCHANGED gm, NEW v \in Users, Together(v)
    PROVE  Together(v)'
<1> DEFINE k == <<game[u], Head(c2s[u]).group>>
<1>1. /\ game[u] \in Games /\ Head(c2s[u]).group \in Names /\ group[u] = NoGroup
      /\ SendTo(LAMBDA w : JoinPackets(u, k, w)) /\ Consume(u) /\ c2s[u] # <<>>
      /\ UNCHANGED cliEnd
      /\ group' = [group EXCEPT ![u] = k]
  BY DEF ConnectUser, LoggedIn, IInv, UserInv, UserTypes, Handle
<1>2. k \in Groups /\ k # NoGroup
  BY <1>1, ServerAssumption DEF Groups
<1>3. s2c'[v] = IF cliEnd[v] = "open" THEN s2c[v] \o JoinPackets(u, k, v) ELSE s2c[v]
  BY <1>1 DEF SendTo
<1> DEFINE N == IF v = u THEN MacsOf({w \in Users : group[w] = k})
                ELSE IF group[v] = k THEN {MacOf[u]} ELSE {}
           f == JoinPackets(u, k, v)
<1> HIDE DEF k
<1>4. f \in Seq(S2C) /\ Introduced(f) = N /\ Once(f)
  BY <1>2, JoinPacketsTyped, JoinNews DEF IInv
<1>5. group'[u] = k /\ \A w \in Users \ {u} : group'[w] = group[w]
  BY <1>1 DEF IInv, GroupInv, GroupTypes
<1>6. Mates(v)' = Mates(v) \cup (IF v = u THEN {w \in Users : group[w] = k}
                                 ELSE IF group[v] = k THEN {u} ELSE {})
  BY <1>1, <1>2, <1>5 DEF Mates
<1>7. MatesMacs(v)' = MatesMacs(v) \cup N
  BY <1>6 DEF MatesMacs, MacsOf
<1>8. N \cap MatesMacs(v) = {} /\ MacOf[v] \notin N
  <2>1. CASE v = u
    <3>1. MatesMacs(v) = {}
      BY <1>1, <2>1 DEF Mates, MatesMacs
    <3> QED
      BY <1>1, <1>2, <2>1, <3>1 DEF MacsOf, OwnMacs
  <2>2. CASE v # u
    <3>1. MacOf[u] \notin MatesMacs(v)
      BY <1>1, <2>2 DEF Mates, MatesMacs, OwnMacs
    <3> QED
      BY <2>2, <3>1 DEF OwnMacs
  <2> QED
    BY <2>1, <2>2
<1>9. Introduced(s2c[v]) \subseteq MatesMacs(v) /\ Once(s2c[v]) /\ cliEnd[v] = "open"
      /\ ~Sends(c2s[v], "DISCONNECT")
  BY DEF Together
<1> HIDE DEF N, f
<1>10. Introduced(s2c'[v]) = Introduced(s2c[v]) \cup N /\ Once(s2c'[v])
  <2>1. s2c'[v] = IF cliEnd[v] = "open" THEN s2c[v] \o f ELSE s2c[v]
    BY <1>3 DEF f
  <2>2. Introduced(s2c[v]) \cap Introduced(f) = {}
    BY <1>4, <1>8, <1>9
  <2> QED
    BY <1>4, <1>9, <2>1, <2>2, SentNews
<1>11. ~Sends(c2s'[v], "DISCONNECT")
  <2>1. CASE v # u
    BY <1>1, <1>9, <2>1 DEF Consume, NetTypes, WireTypeOK
  <2>2. CASE v = u
    <3>1. c2s[u] \in Seq(C2S) /\ c2s'[u] = Tail(c2s[u])
      BY <1>1 DEF Consume, NetTypes, WireTypeOK
    <3>2. Sends(c2s[u], "DISCONNECT") <=> Head(c2s[u]).op = "DISCONNECT" \/ Sends(Tail(c2s[u]), "DISCONNECT")
      BY <1>1, <3>1, TailSends
    <3> QED
      BY <1>9, <2>2, <3>1, <3>2
  <2> QED
    BY <2>1, <2>2
<1> QED
  BY <1>1, <1>7, <1>8, <1>10, <1>11, NewMates DEF clientVars

(* The visits of the server. *)
LEMMA VisitKeepsTogether ==
    ASSUME CalmEntry, OwnMacs, IInv, NetTypes, NEW u \in Users, Entry(u), Together(u), EntryServer(u),
           NEW v \in Users, Together(v)
    PROVE  Together(v)'
<1>1. /\ ServerVisit(u) /\ UNCHANGED clientVars /\ UNCHANGED <<lib, app, gm>>
      /\ cliEnd[u] = "open" /\ Line(u) /\ srvEnd[u] = "open" /\ game[u] = GameOf[u]
  BY OpenEntry DEF EntryServer, clientVars, Together
<1>2. ~LogoutUser(u)
  <2>1. GoesOn(u)
    BY <1>1, VisitMoves DEF CalmEntry
  <2> QED
    BY <2>1 DEF GoesOn, LogoutUser, NetTypes, WireTypeOK
<1>3. ServeUser(u) /\ ~InvalidOpcode(u) /\ ~LoginUserData(u)
  BY <1>1, <1>2, ClientAssumption, ServerAssumption DEF ServerVisit, LoginUserStream, HangUp, InvalidOpcode,
     LoginUserData, LoggedIn
<1>4. ~Sends(c2s[u], "DISCONNECT") /\ ~Sends(c2s[v], "DISCONNECT")
  BY DEF Together
<1>5. ~DisconnectUser(u)
  <2> SUFFICES ASSUME Handle(u, "DISCONNECT") PROVE FALSE
    BY DEF DisconnectUser
  <2>1. c2s[u] \in Seq(C2S) /\ c2s[u] # <<>> /\ Head(c2s[u]).op = "DISCONNECT"
    BY LibraryIs DEF Handle
  <2>2. Sends(c2s[u], "DISCONNECT")
    BY <2>1, TailSends
  <2> QED
    BY <1>4, <2>2
<1>6. CASE ConnectUser(u)
  BY <1>1, <1>2, <1>6, JoinKeepsTogether
<1>7. CASE PingUser(u) \/ SendScanResults(u) \/ SpreadMessage(u)
  <2>1. Consume(u) /\ c2s[u] # <<>> /\ UNCHANGED <<cliEnd, dbVars>>
    BY <1>2, <1>7 DEF PingUser, SendScanResults, SpreadMessage, Handle
  <2>2. ~Sends(c2s'[v], "DISCONNECT")
    <3>1. CASE v # u
      BY <1>4, <2>1, <3>1 DEF Consume, NetTypes, WireTypeOK
    <3>2. CASE v = u
      <4>1. c2s[u] \in Seq(C2S) /\ c2s'[u] = Tail(c2s[u])
        BY <2>1 DEF Consume, NetTypes, WireTypeOK
      <4>2. Sends(c2s[u], "DISCONNECT") <=> Head(c2s[u]).op = "DISCONNECT" \/ Sends(Tail(c2s[u]), "DISCONNECT")
        BY <2>1, <4>1, TailSends
      <4> QED
        BY <1>4, <3>2, <4>1, <4>2
    <3> QED
      BY <3>1, <3>2
  <2>3. \/ s2c'[v] = s2c[v]
        \/ \E f \in Seq(S2C) : /\ s2c'[v] = IF cliEnd[v] = "open" THEN s2c[v] \o f ELSE s2c[v]
                               /\ Introduced(f) = {} /\ Once(f)
    <3>1. <<>> \in Seq(S2C) /\ Introduced(<<>>) = {} /\ Once(<<>>)
      BY NoNews
    <3>2. CASE PingUser(u)
      BY <3>2 DEF PingUser
    <3>3. CASE SendScanResults(u)
      <4> DEFINE f == IF v = u THEN ScanPackets(game[u]) ELSE <<>>
      <4>1. s2c'[v] = (IF cliEnd[v] = "open" THEN s2c[v] \o f ELSE s2c[v]) /\ game[u] \in Games
        BY <1>2, <3>3 DEF SendScanResults, SendTo, LoggedIn, IInv, UserInv, UserTypes
      <4>2. f \in Seq(S2C) /\ Introduced(f) = {} /\ Once(f)
        BY <3>1, <4>1, ScanPacketsTyped, ScanNews DEF IInv
      <4> HIDE DEF f
      <4> QED
        BY <4>1, <4>2
    <3>4. CASE SpreadMessage(u)
      <4> DEFINE f == IF v # u /\ Contains(player[group[u]], v) THEN <<ChatS2C>> ELSE <<>>
      <4>1. s2c'[v] = IF cliEnd[v] = "open" THEN s2c[v] \o f ELSE s2c[v]
        BY <1>2, <3>4 DEF SpreadMessage, SendTo
      <4>2. ChatS2C \in S2C /\ ChatS2C.op # "CONNECT"
        BY DEF S2C, ChatS2C
      <4>3. <<ChatS2C>> \in Seq(S2C)
        BY <4>2
      <4>4. Introduced(<<ChatS2C>>) = (IF ChatS2C.op = "CONNECT" THEN {ChatS2C.mac} ELSE {})
            /\ Once(<<ChatS2C>>)
        BY OneNews
      <4>5. f \in Seq(S2C) /\ Introduced(f) = {} /\ Once(f)
        BY <3>1, <4>2, <4>3, <4>4
      <4> HIDE DEF f
      <4> QED
        BY <4>1, <4>5
    <3> QED
      BY <1>7, <3>2, <3>3, <3>4
  <2>4. Introduced(s2c'[v]) = Introduced(s2c[v]) /\ (Once(s2c[v]) => Once(s2c'[v]))
    <3>1. CASE s2c'[v] = s2c[v]
      BY <3>1
    <3>2. ASSUME NEW f \in Seq(S2C), Introduced(f) = {}, Once(f),
                 s2c'[v] = IF cliEnd[v] = "open" THEN s2c[v] \o f ELSE s2c[v]
          PROVE  Introduced(s2c'[v]) = Introduced(s2c[v]) /\ (Once(s2c[v]) => Once(s2c'[v]))
      BY <3>2, SentNews
    <3> QED
      BY <2>3, <3>1, <3>2
  <2> QED
    BY <1>1, <2>1, <2>2, <2>4, TogetherStable DEF dbVars, groupVars, Together
<1> QED
  BY <1>3, <1>5, <1>6, <1>7 DEF ServeUser

-----------------------------------------------------------------------------
(* The invariant.                                                          *)
LEMMA NothingYet ==
    /\ <<>> \in Seq(S2C) /\ <<>> \in Seq(C2S) /\ <<>> \in Seq(Peers) /\ <<>> \in Seq(Networks)
    /\ <<>> \in Seq(Names) /\ <<>> \in Seq(Users) /\ <<>> \in Seq(Macs)
    /\ Len(<<>>) = 0 /\ ToSet(<<>>) = {} /\ IsInjective(<<>>)
<1>1. Len(<<>>) = 0 /\ DOMAIN <<>> = 1..0
  OBVIOUS
<1>2. \A i : i \notin 1..0
  OBVIOUS
<1>3. \A i : i \notin DOMAIN <<>>
  BY <1>1, <1>2
<1>4. ToSet(<<>>) = {} /\ IsInjective(<<>>)
  BY <1>3 DEF ToSet, IsInjective
<1> QED
  BY <1>1, <1>4

LEMMA FreshStates ==
    /\ FreshLib \in LibState /\ [FreshLib EXCEPT !.init = 1] \in LibState
    /\ FreshApp \in AppState /\ FreshApp.pc = "idle"
    /\ \A u \in Users : FreshGameMode(u) \in GameModeState
<1>1. FreshLib \in LibState /\ FreshApp \in AppState /\ FreshApp.pc = "idle"
  BY NothingYet, ClientAssumption DEF FreshLib, FreshApp, LibState, AppState
<1>2. [FreshLib EXCEPT !.init = 1] \in LibState
  BY <1>1 DEF LibState
<1>3. 0 \in 0..MaxMembers
  BY EntryAssumption
<1>4. \A u \in Users : FreshGameMode(u) \in GameModeState
  BY <1>3, NothingYet, MacsKnown DEF FreshGameMode, GameModeState
<1> QED
  BY <1>1, <1>2, <1>4

LEMMA EntryInitBasics == EntryInit => IInv /\ NetTypes /\ EntryTypes
<1> SUFFICES ASSUME EntryInit PROVE IInv /\ NetTypes /\ EntryTypes
  OBVIOUS
<1> USE DEF EntryInit, LoggedInToServer
<1>1. /\ <<>> \in Seq(S2C) /\ <<>> \in Seq(C2S) /\ <<>> \in Seq(Peers) /\ <<>> \in Seq(Networks)
      /\ <<>> \in Seq(Names) /\ <<>> \in Seq(Users) /\ <<>> \in Seq(Macs)
      /\ Len(<<>>) = 0 /\ ToSet(<<>>) = {} /\ IsInjective(<<>>)
  BY NothingYet
<1>2. GameOf \in [Users -> Games] /\ \A u \in Users : GameOf[u] \in Games /\ GameOf[u] # NoGame
  BY ClientAssumption, ServerAssumption
<1>3. \A g \in Games : Cardinality({u \in Users : GameOf[u] = g}) \in Nat
  BY ServerAssumption, FS_Subset, FS_CardinalityType
<1>4. GroupInv
  <2>1. GroupTypes
    BY <1>1, <1>2 DEF GroupTypes
  <2>2. \A u \in Users : group[u] = NoGroup
    OBVIOUS
  <2>3. GroupCounts
    BY <1>1 DEF GroupCounts, Groups
  <2>4. GroupListsExact
    BY <1>1, ServerAssumption DEF GroupListsExact, Groups
  <2> QED
    BY <2>1, <2>3, <2>4 DEF GroupInv
<1>5. UserInv
  <2>1. UserTypes
    BY <1>2, <1>3, ServerAssumption, FS_CardinalityType DEF UserTypes
  <2>2. UserCounts
    BY DEF UserCounts
  <2>3. GamesLinked
    BY <1>2 DEF GamesLinked
  <2>4. SocketsOwned
    BY ServerAssumption, FS_CardinalityType DEF SocketsOwned
  <2> QED
    BY <2>1, <2>2, <2>3, <2>4 DEF UserInv
<1>6. IInv
  BY <1>4, <1>5 DEF IInv, LoopInv
<1>7. NetTypes
  <2>1. WireTypeOK
    BY <1>1 DEF WireTypeOK
  <2> QED
    BY <2>1, FreshStates DEF NetTypes, ClientTypeOK
<1>8. EntryTypes
  BY FreshStates DEF EntryTypes
<1> QED
  BY <1>6, <1>7, <1>8

LEMMA EntryInitInv == EntryInit => EntryInv
<1> SUFFICES ASSUME EntryInit PROVE EntryInv
  OBVIOUS
<1>1. IInv /\ NetTypes /\ EntryTypes
  BY EntryInitBasics
<1>2. /\ \A op : ~Sends(<<>>, op)
      /\ NoAnswer(<<>>) /\ Introduced(<<>>) = {} /\ Once(<<>>)
  BY NoNews DEF Sends, NoAnswer
<1> SUFFICES ASSUME NEW u \in Users PROVE Entry(u) /\ Together(u)
  BY <1>1 DEF EntryInv
<1>3. /\ c2s[u] = <<>> /\ s2c[u] = <<>> /\ cliEnd[u] = "open" /\ srvEnd[u] = "open"
      /\ game[u] = GameOf[u] /\ group[u] = NoGroup /\ game[u] # NoGame
  BY ClientAssumption, ServerAssumption DEF EntryInit, LoggedInToServer
<1>4. /\ lib[u].init = 1 /\ lib[u].status = "DISCONNECTED" /\ lib[u].discThread = "none" /\ ~lib[u].chat
      /\ app[u].pc = "idle" /\ gm[u].at = "idle" /\ gm[u].told = "nothing" /\ gm[u].in = 0
  BY DEF EntryInit, FreshLib, FreshApp, FreshGameMode
<1>5. Line(u)
  BY <1>3 DEF Line, Served, Lawful
<1>6. Playing(u)
  BY <1>4 DEF Playing
<1>7. EntryPhase(u)
  BY <1>2, <1>3, <1>4 DEF EntryPhase, Waits, Apart
<1>8. Entry(u)
  BY <1>2, <1>3, <1>5, <1>6, <1>7 DEF Entry
<1>9. Together(u)
  BY <1>2, <1>3, <1>4 DEF Together
<1> QED
  BY <1>8, <1>9

LEMMA EntryStepInv ==
    ASSUME CalmEntry, OwnMacs, EntryInv, [EntryNext]_entryVars
    PROVE  EntryInv'
<1>1. IInv /\ NetTypes /\ EntryTypes /\ (\A u \in Users : Entry(u)) /\ (~quits => \A u \in Users : Together(u))
  BY DEF EntryInv
<1>2. CASE UNCHANGED entryVars
  <2>1. UNCHANGED vars /\ UNCHANGED <<gm, quits>>
    BY <1>2 DEF entryVars
  <2>2. UNCHANGED <<lib, app, wireVars, serverVars>>
    BY <2>1 DEF vars, clientVars
  <2>3. IInv' /\ NetTypes'
    BY <1>1, <2>1, NextKeepsBasics DEF Basics
  <2>4. EntryTypes'
    BY <1>1, <2>1 DEF EntryTypes
  <2>5. ASSUME NEW u \in Users PROVE Entry(u)'
    BY <1>1, <2>1, <2>2 DEF Entry, Line, Served, Playing, EntryPhase, Waits, Joins, Looks, Listing, Stays,
       Apart, InGroup, Off, wireVars, serverVars, dbVars, groupVars, userVars
  <2>6. ASSUME NEW u \in Users, Together(u) PROVE Together(u)'
    BY <2>1, <2>2, <2>6, TogetherStable DEF wireVars, serverVars, dbVars, groupVars, Together
  <2> QED
    BY <1>1, <2>1, <2>3, <2>4, <2>5, <2>6 DEF EntryInv
<1>3. ASSUME NEW u \in Users, EntryServer(u) PROVE EntryInv'
  <2>1. ServerVisit(u) /\ UNCHANGED clientVars /\ UNCHANGED <<gm, quits>>
    BY <1>3 DEF EntryServer
  <2>2. IInv' /\ NetTypes'
    BY <1>1, <2>1, VisitKeepsAll
  <2>3. EntryTypes'
    BY <1>1, <2>1 DEF EntryTypes
  <2>4. \A v \in Users : Entry(v)'
    BY <1>1, <1>3, VisitKeepsEntry
  <2>5. ~quits' => \A v \in Users : Together(v)'
    BY <1>1, <1>3, <2>1, VisitKeepsTogether
  <2> QED
    BY <2>2, <2>3, <2>4, <2>5 DEF EntryInv
<1>4. ASSUME NEW u \in Users, EntryClient(u) PROVE EntryInv'
  <2>1. IInv' /\ NetTypes'
    BY <1>1, <1>4, EntryBasics
  <2>2. EntryTypes' /\ (quits => quits')
    BY <1>1, <1>4, GlobalsKeepTypes
  <2>3. \A v \in Users : Entry(v)'
    BY <1>1, <1>4, ClientKeepsEntry
  <2>4. ~quits' => \A v \in Users : Together(v)'
    BY <1>1, <1>4, <2>2, ClientKeepsTogether
  <2> QED
    BY <2>1, <2>2, <2>3, <2>4 DEF EntryInv
<1> QED
  BY <1>2, <1>3, <1>4 DEF EntryNext

(* The invariant of game mode's entry. *)
THEOREM EntryInvariant == ASSUME CalmEntry, OwnMacs PROVE EntrySpec => []EntryInv
<1>1. EntryInit => EntryInv
  BY EntryInitInv
<1>2. EntryInv /\ [EntryNext]_entryVars => EntryInv'
  BY EntryStepInv
<1> QED
  BY <1>1, <1>2, PTL DEF EntrySpec

(* Who has an empty line stands in his group or apart from all.            *)
LEMMA SettledEntry ==
    ASSUME EntryInv, EntrySettled, NEW u \in Users, cliEnd[u] = "open"
    PROVE  /\ Playing(u) /\ (Stays(u) \/ Apart(u)) /\ ~Waits(u)
           /\ gm[u].at = "idle" /\ app[u].pc = "idle" /\ lib[u].discThread = "none"
           /\ group[u] # NoGroup <=> lib[u].status = "CONNECTED"
<1>1. Playing(u) /\ EntryPhase(u)
  BY DEF EntryInv, Entry
<1>2. /\ c2s[u] = <<>> /\ s2c[u] = <<>> /\ gm[u].at = "idle" /\ app[u].pc = "idle"
      /\ lib[u].discThread = "none"
  BY DEF EntrySettled, Settled
<1>3. /\ ~Asks(<<>>, lib[u].name) /\ \A op : ~Sends(<<>>, op) /\ ~OneAnswer(<<>>, op)
  BY DEF Asks, Sends, OneAnswer
<1>4. ~Joins(u) /\ ~Looks(u)
  BY <1>2, <1>3 DEF Joins, Looks, Listing
<1>5. (Stays(u) \/ Apart(u)) /\ ~Waits(u)
  BY <1>1, <1>4 DEF EntryPhase
<1>6. group[u] # NoGroup <=> lib[u].status = "CONNECTED"
  BY <1>2, <1>3, <1>5 DEF Stays, Apart, InGroup
<1> QED
  BY <1>1, <1>2, <1>5, <1>6

(* WaitersHaveAClock: once all is settled, whoever still waits for game    *)
(* mode is in his group and has the ten seconds running.                   *)
THEOREM EntriesAreAnswered == ASSUME CalmEntry, OwnMacs PROVE EntrySpec => []WaitersHaveAClock
<1>1. EntryInv => WaitersHaveAClock
  <2> SUFFICES ASSUME EntryInv, EntrySettled, NEW u \in Users, cliEnd[u] = "open", gm[u].told = "waiting"
               PROVE  gm[u].in = -1 /\ gm[u].stamped /\ lib[u].status = "CONNECTED" /\ group[u] # NoGroup
    BY DEF WaitersHaveAClock
  <2>1. /\ Playing(u) /\ ~Waits(u) /\ gm[u].at = "idle" /\ app[u].pc = "idle"
        /\ group[u] # NoGroup <=> lib[u].status = "CONNECTED"
    BY SettledEntry
  <2> QED
    BY <2>1 DEF Playing, Waits
<1> QED
  BY <1>1, EntryInvariant, PTL

(* HostBeginsComplete: game mode begins for a host when as many players as *)
(* he has asked for are in his group.                                      *)
THEOREM HostsBeginComplete == ASSUME CalmEntry, OwnMacs PROVE EntrySpec => []HostBeginsComplete
<1>1. EntryInv => HostBeginsComplete
  <2> SUFFICES ASSUME EntryInv, ~quits, NEW u \in Hosts, gm[u].in = 1
               PROVE  Cardinality({v \in Users : group[v] = group[u]}) >= gm[u].expected
    BY DEF HostBeginsComplete
  <2> DEFINE W == {v \in Users : group[v] = group[u]}
             list == gm[u].members
  <2>1. u \in Users
    BY EntryAssumption
  <2>2. Together(u) /\ Knows(u)
    BY <2>1 DEF EntryInv, Together
  <2>3. /\ IsInjective(list) /\ ToSet(list) \subseteq {MacOf[u]} \cup MatesMacs(u)
        /\ Len(list) >= gm[u].expected
    BY <2>1, <2>2 DEF Knows
  <2>4. ToSet(list) \subseteq {MacOf[v] : v \in W}
    <3>1. {MacOf[u]} \cup MatesMacs(u) \subseteq {MacOf[v] : v \in W}
      BY <2>1 DEF MatesMacs, Mates
    <3> QED
      BY <2>3, <3>1
  <2>5. list \in Seq(Macs) /\ gm[u].expected \in Nat /\ Len(list) \in Nat
    BY <2>1, EntryAssumption DEF EntryInv, EntryTypes, GameModeState
  <2> HIDE DEF W, list
  <2>6. W \in SUBSET Users
    BY DEF W
  <2>7. Len(list) <= Cardinality(W) /\ Cardinality(W) \in Nat
    BY <2>3, <2>4, <2>5, <2>6, DifferentPlayers
  <2>8. Cardinality(W) >= gm[u].expected
    BY <2>3, <2>5, <2>7
  <2> QED
    BY <2>8 DEF W
<1> QED
  BY <1>1, EntryInvariant, PTL

LEMMA DifferentIsDistinct ==
    ASSUME NEW list \in Seq(Macs), IsInjective(list)
    PROVE  Distinct(list)
<1>1. Len(list) \in Nat /\ DOMAIN list = 1..Len(list)
  OBVIOUS
<1>2. list \in Bijection(1..Len(list), ToSet(list))
  BY <1>1 DEF Bijection, Injection, Surjection, IsInjective, ToSet
<1>3. ExistsBijection(1..Len(list), ToSet(list))
  BY <1>2 DEF ExistsBijection
<1> QED
  BY <1>1, <1>3, FS_CountingElements DEF Distinct

(* MembersAgree: as long as nobody leaves, everyone in game mode has the   *)
(* same members once all is settled, when the list has room for all.       *)
THEOREM MembersAreAgreed ==
    ASSUME CalmEntry, OwnMacs, Cardinality(Users) <= MaxMembers
    PROVE  EntrySpec => []MembersAgree
<1>1. EntryInv => MembersAgree
  <2> SUFFICES ASSUME EntryInv, EntrySettled, ~quits, NEW u \in Users, gm[u].in = 1
               PROVE  /\ Distinct(gm[u].members)
                      /\ ToSet(gm[u].members) =
                             {gm[u].host} \cup {MacOf[v] : v \in {w \in Users : group[w] = group[u]}}
    BY DEF MembersAgree
  <2> DEFINE list == gm[u].members
             near == {MacOf[v] : v \in {w \in Users : group[w] = group[u]}}
  <2>1. Together(u) /\ Knows(u) /\ cliEnd[u] = "open"
    BY DEF EntryInv, Together
  <2>2. list \in Seq(Macs) /\ IsInjective(list)
    BY <2>1 DEF EntryInv, EntryTypes, GameModeState, Knows
  <2>3. Introduced(s2c[u]) = {}
    BY NoNews DEF EntrySettled, Settled
  <2>4. group[u] # NoGroup
    <3>1. Playing(u) /\ app[u].pc = "idle" /\ (group[u] # NoGroup <=> lib[u].status = "CONNECTED")
      BY <2>1, SettledEntry
    <3> QED
      BY <3>1 DEF Playing
  <2>5. {MacOf[u]} \cup MatesMacs(u) = near
    BY <2>4 DEF MatesMacs, Mates
  <2>6. ToSet(list) = {gm[u].host} \cup near
    <3>1. /\ gm[u].host \in ToSet(list) /\ MacOf[u] \in ToSet(list)
          /\ ToSet(list) \subseteq {gm[u].host, MacOf[u]} \cup MatesMacs(u)
          /\ MatesMacs(u) \subseteq ToSet(list) \cup Introduced(s2c[u])
      BY <2>1 DEF Knows
    <3> HIDE DEF list, near
    <3> QED
      BY <2>3, <2>5, <3>1
  <2>7. Distinct(list)
    BY <2>2, DifferentIsDistinct
  <2> QED
    BY <2>6, <2>7
<1> QED
  BY <1>1, EntryInvariant, PTL

-----------------------------------------------------------------------------

(* Peer lists.  A game of NobodyLeaves ends with Term or by being switched *)
(* off; a device that comes back has the address it had.                   *)
NobodyLeaves == \A u \in Users : "Disconnect" \notin Calls[u]
OneAddress == \A v, w \in Users : MacOf[v] = MacOf[w] => IpOf[v] = IpOf[w]

DeviceOf(v) == [mac |-> MacOf[v], ip |-> IpOf[v]]
DevicesOf(W) == {DeviceOf(v) : v \in W}

(* The packets of a queue that are about an address.                       *)
Meets(p, ip) == p.op = "CONNECT" /\ p.ip = ip
Parts(p, ip) == p.op = "DISCONNECT" /\ p.ip = ip
Met(p) == [mac |-> p.mac, ip |-> p.ip]

(* d is the place of the last farewell from ip in the queue s, or 0; who   *)
(* is met after it, and how often somebody is.                             *)
LastParting(s, ip, d) ==
    /\ d # 0 => Parts(s[d], ip)
    /\ \A i \in DOMAIN s : Parts(s[i], ip) => i <= d

MetAfter(s, ip, d) == {Met(s[i]) : i \in {j \in DOMAIN s : j > d /\ Meets(s[j], ip)}}

Meetings(s, ip, d) == {i \in DOMAIN s : i <= d /\ Meets(s[i], ip)}

(* c bounds the number of friends at ip before and after every packet.     *)
(* The last farewell from there leaves none.                               *)
Bounds(c, s, ip) ==
    /\ c \in [0..Len(s) -> Nat]
    /\ \A i \in DOMAIN s :
          /\ Meets(s[i], ip) => c[i - 1] + 1 <= c[i]
          /\ Parts(s[i], ip) => c[i - 1] <= c[i] + 1
          /\ ~Meets(s[i], ip) /\ ~Parts(s[i], ip) => c[i - 1] <= c[i]
          /\ LastParting(s, ip, i) => c[i] = 0

(* Who knows K at ip, and reads s, knows P at ip in the end.               *)
EndsWith(K, s, P, ip) ==
    \A d \in 0..Len(s) :
        LastParting(s, ip, d) => P = (IF d = 0 THEN K ELSE {}) \cup MetAfter(s, ip, d)

Bounded(K, s, m, ip) ==
    \E c : Bounds(c, s, ip) /\ Cardinality(K) <= c[0] /\ c[Len(s)] <= m

Tells(K, s, P, m, ip) == EndsWith(K, s, P, ip) /\ Bounded(K, s, m, ip)

-----------------------------------------------------------------------------
LEMMA TailEnds ==
    ASSUME NEW s \in Seq(S2C), s # <<>>, NEW K, NEW P, NEW ip, EndsWith(K, s, P, ip), NEW L,
           Meets(Head(s), ip) => L = K \cup {Met(Head(s))},
           Parts(Head(s), ip) => L = {} \/ \E i \in DOMAIN Tail(s) : Parts(Tail(s)[i], ip),
           ~Meets(Head(s), ip) /\ ~Parts(Head(s), ip) => L = K
    PROVE  EndsWith(L, Tail(s), P, ip)
<1> DEFINE t == Tail(s)
<1>1. /\ Len(s) \in Nat \ {0} /\ DOMAIN s = 1..Len(s) /\ DOMAIN t = 1..(Len(s) - 1)
      /\ Head(s) = s[1] /\ t \in Seq(S2C)
      /\ \A i \in DOMAIN t : i + 1 \in DOMAIN s /\ t[i] = s[i + 1]
      /\ \A i \in DOMAIN s : i # 1 => i - 1 \in DOMAIN t /\ t[i - 1] = s[i]
  BY TailPlaces
<1>2. Len(t) = Len(s) - 1
  BY <1>1
<1> SUFFICES ASSUME NEW d \in 0..Len(t), LastParting(t, ip, d)
             PROVE  P = (IF d = 0 THEN L ELSE {}) \cup MetAfter(t, ip, d)
  BY DEF EndsWith
<1> HIDE DEF t
<1>3. MetAfter(s, ip, d + 1) = MetAfter(t, ip, d)
  <2>1. \A i \in DOMAIN t : i > d <=> i + 1 > d + 1
    BY <1>1
  <2>2. \A i \in DOMAIN s : i > d + 1 => i # 1 /\ i - 1 > d
    BY <1>1, <1>2
  <2>3. \A x : x \in MetAfter(s, ip, d + 1) <=> \E i \in DOMAIN s : i > d + 1 /\ Meets(s[i], ip) /\ x = Met(s[i])
    BY DEF MetAfter
  <2>4. \A x : x \in MetAfter(t, ip, d) <=> \E i \in DOMAIN t : i > d /\ Meets(t[i], ip) /\ x = Met(t[i])
    BY DEF MetAfter
  <2>5. \A x : x \in MetAfter(s, ip, d + 1) => x \in MetAfter(t, ip, d)
    BY <1>1, <2>2, <2>3, <2>4
  <2>6. \A x : x \in MetAfter(t, ip, d) => x \in MetAfter(s, ip, d + 1)
    BY <1>1, <2>1, <2>3, <2>4
  <2> QED
    BY <2>5, <2>6
<1>4. \A i \in DOMAIN s : Parts(s[i], ip) => i <= d + 1
  <2> SUFFICES ASSUME NEW i \in DOMAIN s, Parts(s[i], ip), i # 1 PROVE i <= d + 1
    BY <1>1, <1>2
  <2>1. i - 1 \in DOMAIN t /\ t[i - 1] = s[i]
    BY <1>1
  <2>2. i - 1 <= d
    BY <2>1 DEF LastParting
  <2> QED
    BY <1>1, <1>2, <2>2
<1>5. CASE d # 0
  <2>1. Parts(t[d], ip)
    BY <1>5 DEF LastParting
  <2>2. d \in 1..(Len(s) - 1)
    BY <1>1, <1>2, <1>5
  <2>3. d \in DOMAIN t /\ t[d] = s[d + 1] /\ Parts(t[d], ip)
    BY <1>1, <2>1, <2>2
  <2>4. LastParting(s, ip, d + 1) /\ d + 1 \in 0..Len(s) /\ d + 1 # 0
    BY <1>1, <1>2, <1>4, <2>3 DEF LastParting
  <2> QED
    BY <1>3, <1>5, <2>4 DEF EndsWith
<1>6. CASE d = 0 /\ Parts(Head(s), ip)
  <2>1. LastParting(s, ip, 1) /\ 1 \in 0..Len(s)
    BY <1>1, <1>4, <1>6 DEF LastParting
  <2>2. \A i \in DOMAIN t : ~Parts(t[i], ip)
    BY <1>1, <1>6 DEF LastParting
  <2>3. L = {}
    BY <1>6, <2>2 DEF t
  <2>4. P = MetAfter(s, ip, 1)
    <3>1. P = (IF 1 = 0 THEN K ELSE {}) \cup MetAfter(s, ip, 1)
      BY <2>1 DEF EndsWith
    <3>2. (IF 1 = 0 THEN K ELSE {}) = {}
      OBVIOUS
    <3> QED
      BY <3>1, <3>2
  <2>5. MetAfter(s, ip, 1) = MetAfter(t, ip, d)
    BY <1>3, <1>6
  <2> QED
    BY <1>6, <2>3, <2>4, <2>5
<1>7. CASE d = 0 /\ ~Parts(Head(s), ip)
  <2>1. \A i \in DOMAIN s : ~Parts(s[i], ip)
    <3> SUFFICES ASSUME NEW i \in DOMAIN s, Parts(s[i], ip) PROVE FALSE
      OBVIOUS
    <3>1. i = 1
      BY <1>1, <1>4, <1>7
    <3> QED
      BY <1>1, <1>7, <3>1
  <2>2. LastParting(s, ip, 0) /\ 0 \in 0..Len(s)
    BY <1>1, <2>1 DEF LastParting
  <2>3. P = K \cup MetAfter(s, ip, 0)
    BY <2>2 DEF EndsWith
  <2>4. MetAfter(s, ip, 0) = MetAfter(s, ip, 1) \cup (IF Meets(Head(s), ip) THEN {Met(Head(s))} ELSE {})
    <3>1. \A i \in DOMAIN s : i > 0 /\ (i = 1 \/ i > 1) /\ ~(1 > 1) /\ 1 \in DOMAIN s
      BY <1>1
    <3>2. \A x : x \in MetAfter(s, ip, 0) <=> \E i \in DOMAIN s : Meets(s[i], ip) /\ x = Met(s[i])
      BY <3>1 DEF MetAfter
    <3>3. \A x : x \in MetAfter(s, ip, 1) <=> \E i \in DOMAIN s : i > 1 /\ Meets(s[i], ip) /\ x = Met(s[i])
      BY DEF MetAfter
    <3>4. \A x : x \in MetAfter(s, ip, 0) <=> x \in MetAfter(s, ip, 1) \/ (Meets(s[1], ip) /\ x = Met(s[1]))
      BY <3>1, <3>2, <3>3
    <3> QED
      BY <1>1, <3>4
  <2>5. L = K \cup (IF Meets(Head(s), ip) THEN {Met(Head(s))} ELSE {})
    BY <1>7
  <2> QED
    BY <1>3, <1>7, <2>3, <2>4, <2>5
<1> QED
  BY <1>5, <1>6, <1>7 DEF t

LEMMA TailBounded ==
    ASSUME NEW s \in Seq(S2C), s # <<>>, NEW K, IsFiniteSet(K), NEW m \in Nat, NEW ip,
           Bounded(K, s, m, ip), NEW L,
           Meets(Head(s), ip) => L = K \cup {Met(Head(s))},
           Parts(Head(s), ip) => (L = {} /\ K = {}) \/ \E x \in K : L = K \ {x},
           ~Meets(Head(s), ip) /\ ~Parts(Head(s), ip) => L = K
    PROVE  /\ Bounded(L, Tail(s), m, ip) /\ IsFiniteSet(L)
           /\ LastParting(s, ip, 1) => L = {}
<1> DEFINE t == Tail(s)
<1>1. /\ Len(s) \in Nat \ {0} /\ DOMAIN s = 1..Len(s) /\ DOMAIN t = 1..(Len(s) - 1)
      /\ Head(s) = s[1] /\ t \in Seq(S2C) /\ 1 \in DOMAIN s
      /\ \A i \in DOMAIN t : i + 1 \in DOMAIN s /\ t[i] = s[i + 1]
      /\ \A i \in DOMAIN s : i # 1 => i - 1 \in DOMAIN t /\ t[i - 1] = s[i]
  BY TailPlaces
<1>2. Len(t) = Len(s) - 1
  BY <1>1
<1> HIDE DEF t
<1>3. PICK c : Bounds(c, s, ip) /\ Cardinality(K) <= c[0] /\ c[Len(s)] <= m
  BY DEF Bounded
<1> DEFINE e == [i \in 0..Len(t) |-> c[i + 1]]
<1>4. /\ c[0] \in Nat /\ c[1] \in Nat /\ \A i \in 0..Len(t) : c[i + 1] \in Nat
      /\ Cardinality(K) \in Nat
  <2>1. c \in [0..Len(s) -> Nat]
    BY <1>3 DEF Bounds
  <2>2. 0 \in 0..Len(s) /\ 1 \in 0..Len(s) /\ \A i \in 0..Len(t) : i + 1 \in 0..Len(s)
    BY <1>1, <1>2
  <2>3. Cardinality(K) \in Nat
    BY FS_CardinalityType
  <2> QED
    BY <2>1, <2>2, <2>3
<1>5. e \in [0..Len(t) -> Nat] /\ e[0] = c[1] /\ e[Len(t)] = c[Len(s)]
  BY <1>1, <1>2, <1>4
<1>6. \A i \in DOMAIN t : e[i - 1] = c[i] /\ e[i] = c[i + 1]
  BY <1>1, <1>2
<1>7. \A i \in DOMAIN t : LastParting(t, ip, i) => LastParting(s, ip, i + 1)
  <2> SUFFICES ASSUME NEW i \in DOMAIN t, LastParting(t, ip, i), NEW j \in DOMAIN s, Parts(s[j], ip)
               PROVE  j <= i + 1 /\ Parts(s[i + 1], ip)
    BY <1>1 DEF LastParting
  <2>1. Parts(s[i + 1], ip)
    BY <1>1 DEF LastParting
  <2>2. CASE j = 1
    BY <1>1, <2>1, <2>2
  <2>3. CASE j # 1
    <3>1. j - 1 \in DOMAIN t /\ t[j - 1] = s[j]
      BY <1>1, <2>3
    <3>2. j - 1 <= i
      BY <3>1 DEF LastParting
    <3> QED
      BY <1>1, <2>1, <3>2
  <2> QED
    BY <2>2, <2>3
<1>8. Bounds(e, t, ip)
  <2> SUFFICES ASSUME NEW i \in DOMAIN t
               PROVE  /\ Meets(t[i], ip) => e[i - 1] + 1 <= e[i]
                      /\ Parts(t[i], ip) => e[i - 1] <= e[i] + 1
                      /\ ~Meets(t[i], ip) /\ ~Parts(t[i], ip) => e[i - 1] <= e[i]
                      /\ LastParting(t, ip, i) => e[i] = 0
    BY <1>5 DEF Bounds
  <2>1. i + 1 \in DOMAIN s /\ t[i] = s[i + 1] /\ (i + 1) - 1 = i
    BY <1>1
  <2>2. /\ Meets(s[i + 1], ip) => c[i] + 1 <= c[i + 1]
        /\ Parts(s[i + 1], ip) => c[i] <= c[i + 1] + 1
        /\ ~Meets(s[i + 1], ip) /\ ~Parts(s[i + 1], ip) => c[i] <= c[i + 1]
        /\ LastParting(s, ip, i + 1) => c[i + 1] = 0
    BY <1>3, <2>1 DEF Bounds
  <2> HIDE DEF e
  <2> QED
    BY <1>6, <1>7, <2>1, <2>2
<1>9. /\ Meets(s[1], ip) => c[0] + 1 <= c[1]
      /\ Parts(s[1], ip) => c[0] <= c[1] + 1
      /\ ~Meets(s[1], ip) /\ ~Parts(s[1], ip) => c[0] <= c[1]
      /\ LastParting(s, ip, 1) => c[1] = 0
  <2>1. 1 \in DOMAIN s /\ 1 - 1 = 0
    BY <1>1
  <2>2. /\ Meets(s[1], ip) => c[1 - 1] + 1 <= c[1]
        /\ Parts(s[1], ip) => c[1 - 1] <= c[1] + 1
        /\ ~Meets(s[1], ip) /\ ~Parts(s[1], ip) => c[1 - 1] <= c[1]
        /\ LastParting(s, ip, 1) => c[1] = 0
    BY <1>3, <2>1 DEF Bounds
  <2> QED
    BY <2>1, <2>2
<1>10. IsFiniteSet(L) /\ Cardinality(L) <= c[1] /\ Cardinality(L) \in Nat
  <2>1. CASE Meets(Head(s), ip)
    <3>1. L = K \cup {Met(Head(s))}
      BY <2>1
    <3>2. IsFiniteSet(L) /\ Cardinality(L) \in {Cardinality(K), Cardinality(K) + 1}
      BY <3>1, FS_AddElement
    <3> QED
      BY <1>1, <1>3, <1>4, <1>9, <2>1, <3>2
  <2>2. CASE Parts(Head(s), ip) /\ L = {} /\ K = {}
    BY <1>4, <2>2, FS_EmptySet
  <2>3. ASSUME Parts(Head(s), ip), NEW x \in K, L = K \ {x}
        PROVE  IsFiniteSet(L) /\ Cardinality(L) <= c[1] /\ Cardinality(L) \in Nat
    <3>1. IsFiniteSet(L) /\ Cardinality(L) = Cardinality(K) - 1
      BY <2>3, FS_RemoveElement
    <3>2. Cardinality(L) \in Nat
      BY <3>1, FS_CardinalityType
    <3> QED
      BY <1>1, <1>3, <1>4, <1>9, <2>3, <3>1, <3>2
  <2>4. CASE ~Meets(Head(s), ip) /\ ~Parts(Head(s), ip)
    BY <1>1, <1>3, <1>4, <1>9, <2>4
  <2> QED
    BY <2>1, <2>2, <2>3, <2>4
<1>11. LastParting(s, ip, 1) => L = {}
  BY <1>4, <1>9, <1>10, FS_EmptySet
<1> HIDE DEF e
<1> QED
  BY <1>3, <1>5, <1>8, <1>10, <1>11 DEF Bounded, t

(* A packet is read.                                                       *)
LEMMA TailTells ==
    ASSUME NEW s \in Seq(S2C), s # <<>>, NEW K, IsFiniteSet(K), NEW P, NEW m \in Nat, NEW ip,
           Tells(K, s, P, m, ip), NEW L,
           Meets(Head(s), ip) => L = K \cup {Met(Head(s))},
           Parts(Head(s), ip) => (L = {} /\ K = {}) \/ \E x \in K : L = K \ {x},
           ~Meets(Head(s), ip) /\ ~Parts(Head(s), ip) => L = K
    PROVE  Tells(L, Tail(s), P, m, ip)
<1>1. Bounded(L, Tail(s), m, ip) /\ (LastParting(s, ip, 1) => L = {})
  BY TailBounded DEF Tells
<1>2. Parts(Head(s), ip) => L = {} \/ \E i \in DOMAIN Tail(s) : Parts(Tail(s)[i], ip)
  <2> SUFFICES ASSUME Parts(Head(s), ip), \A i \in DOMAIN Tail(s) : ~Parts(Tail(s)[i], ip)
               PROVE  LastParting(s, ip, 1)
    BY <1>1
  <2>1. /\ Head(s) = s[1] /\ 1 <= 1
        /\ \A i \in DOMAIN s : i # 1 => i - 1 \in DOMAIN Tail(s) /\ Tail(s)[i - 1] = s[i]
    BY TailPlaces
  <2>2. \A i \in DOMAIN s : Parts(s[i], ip) => i = 1
    BY <2>1
  <2> QED
    BY <2>1, <2>2 DEF LastParting
<1>3. EndsWith(L, Tail(s), P, ip)
  BY <1>2, TailEnds DEF Tells
<1> QED
  BY <1>1, <1>3 DEF Tells

(* Something is added that is no farewell from the address.                *)
LEMMA ConcatPlaces ==
    ASSUME NEW S, NEW s \in Seq(S), NEW t \in Seq(S)
    PROVE  /\ s \o t \in Seq(S) /\ Len(s) \in Nat /\ Len(t) \in Nat /\ Len(s \o t) = Len(s) + Len(t)
           /\ DOMAIN s = 1..Len(s) /\ DOMAIN t = 1..Len(t) /\ DOMAIN (s \o t) = 1..(Len(s) + Len(t))
           /\ \A i \in DOMAIN s : i \in DOMAIN (s \o t) /\ (s \o t)[i] = s[i] /\ i <= Len(s)
           /\ \A i \in DOMAIN t : i + Len(s) \in DOMAIN (s \o t) /\ (s \o t)[i + Len(s)] = t[i] /\ i + Len(s) > Len(s)
           /\ \A i \in DOMAIN (s \o t) : \/ i \in DOMAIN s /\ i <= Len(s)
                                         \/ i - Len(s) \in DOMAIN t /\ i > Len(s)
<1> DEFINE c == s \o t
           m == Len(s)
<1>1. /\ m \in Nat /\ Len(t) \in Nat /\ DOMAIN s = 1..m /\ DOMAIN t = 1..Len(t)
      /\ DOMAIN c = 1..(m + Len(t)) /\ Len(c) = m + Len(t) /\ c \in Seq(S)
      /\ \A i \in 1..(m + Len(t)) : c[i] = IF i <= m THEN s[i] ELSE t[i - m]
  BY ConcatProperties
<1> HIDE DEF c, m
<1>2. \A i \in DOMAIN c : (i \in DOMAIN s /\ i <= m) \/ (i - m \in DOMAIN t /\ i > m)
  BY <1>1
<1>3. \A i \in DOMAIN s : i \in DOMAIN c /\ c[i] = s[i] /\ i <= m
  BY <1>1
<1>4. \A i \in DOMAIN t : i + m \in DOMAIN c /\ c[i + m] = t[i] /\ i + m > m
  <2> SUFFICES ASSUME NEW i \in DOMAIN t
               PROVE  i + m \in DOMAIN c /\ c[i + m] = t[i] /\ i + m > m
    OBVIOUS
  <2>1. i + m \in 1..(m + Len(t)) /\ ~(i + m <= m) /\ (i + m) - m = i
    BY <1>1
  <2> QED
    BY <1>1, <2>1
<1> QED
  BY <1>1, <1>2, <1>3, <1>4 DEF c, m

LEMMA ConcatEnds ==
    ASSUME NEW s \in Seq(S2C), NEW t \in Seq(S2C), NEW K, NEW P, NEW ip, EndsWith(K, s, P, ip),
           \A i \in DOMAIN t : ~Parts(t[i], ip)
    PROVE  EndsWith(K, s \o t, P \cup MetAfter(t, ip, 0), ip)
<1> DEFINE c == s \o t
           n == Len(s)
<1>1. /\ n \in Nat /\ Len(t) \in Nat /\ Len(c) = n + Len(t)
      /\ DOMAIN s = 1..n /\ DOMAIN t = 1..Len(t) /\ DOMAIN c = 1..(n + Len(t))
      /\ \A i \in DOMAIN s : i \in DOMAIN c /\ c[i] = s[i] /\ i <= n
      /\ \A i \in DOMAIN t : i + n \in DOMAIN c /\ c[i + n] = t[i] /\ i + n > n
      /\ \A i \in DOMAIN c : (i \in DOMAIN s /\ i <= n) \/ (i - n \in DOMAIN t /\ i > n)
  BY ConcatPlaces
<1> HIDE DEF c, n
<1>2. \A i \in DOMAIN c : i - n \in DOMAIN t => c[i] = t[i - n]
  <2> SUFFICES ASSUME NEW i \in DOMAIN c, i - n \in DOMAIN t PROVE c[i] = t[i - n]
    OBVIOUS
  <2>1. (i - n) + n = i
    BY <1>1
  <2> QED
    BY <1>1, <2>1
<1> SUFFICES ASSUME NEW d \in 0..Len(c), LastParting(c, ip, d)
             PROVE  P \cup MetAfter(t, ip, 0) = (IF d = 0 THEN K ELSE {}) \cup MetAfter(c, ip, d)
  BY DEF EndsWith, c
<1>3. d \in 0..n
  <2> SUFFICES ASSUME d \notin 0..n PROVE FALSE
    OBVIOUS
  <2>1. d \in DOMAIN c /\ d # 0 /\ ~(d <= n)
    BY <1>1
  <2>2. d - n \in DOMAIN t
    BY <1>1, <2>1
  <2> QED
    BY <1>2, <2>1, <2>2 DEF LastParting
<1>4. LastParting(s, ip, d)
  <2>1. d # 0 => d \in DOMAIN s
    BY <1>1, <1>3
  <2> QED
    BY <1>1, <2>1 DEF LastParting
<1>5. P = (IF d = 0 THEN K ELSE {}) \cup MetAfter(s, ip, d)
  BY <1>3, <1>4 DEF EndsWith, n
<1>6. MetAfter(c, ip, d) = MetAfter(s, ip, d) \cup MetAfter(t, ip, 0)
  <2>1. \A x : x \in MetAfter(c, ip, d) <=> \E i \in DOMAIN c : i > d /\ Meets(c[i], ip) /\ x = Met(c[i])
    BY DEF MetAfter
  <2>2. \A x : x \in MetAfter(s, ip, d) <=> \E i \in DOMAIN s : i > d /\ Meets(s[i], ip) /\ x = Met(s[i])
    BY DEF MetAfter
  <2>3. \A x : x \in MetAfter(t, ip, 0) <=> \E i \in DOMAIN t : i > 0 /\ Meets(t[i], ip) /\ x = Met(t[i])
    BY DEF MetAfter
  <2>4. \A i \in DOMAIN t : i > 0 /\ i + n > d
    BY <1>1, <1>3
  <2>5. \A x : x \in MetAfter(c, ip, d) => x \in MetAfter(s, ip, d) \/ x \in MetAfter(t, ip, 0)
    BY <1>1, <1>2, <2>1, <2>2, <2>3, <2>4
  <2>6. \A x : x \in MetAfter(s, ip, d) => x \in MetAfter(c, ip, d)
    BY <1>1, <2>1, <2>2
  <2>7. \A x : x \in MetAfter(t, ip, 0) => x \in MetAfter(c, ip, d)
    BY <1>1, <2>1, <2>3, <2>4
  <2> QED
    BY <2>5, <2>6, <2>7
<1> QED
  BY <1>5, <1>6

LEMMA OneMoreMeeting ==
    ASSUME NEW t \in Seq(S2C), NEW ip, NEW j \in DOMAIN t
    PROVE  /\ IsFiniteSet(Meetings(t, ip, j)) /\ Cardinality(Meetings(t, ip, j)) \in Nat
           /\ Cardinality(Meetings(t, ip, j - 1)) \in Nat
           /\ Cardinality(Meetings(t, ip, j)) =
                  Cardinality(Meetings(t, ip, j - 1)) + (IF Meets(t[j], ip) THEN 1 ELSE 0)
<1>1. DOMAIN t = 1..Len(t) /\ Len(t) \in Nat /\ j \in Nat \ {0}
  OBVIOUS
<1>2. IsFiniteSet(1..Len(t))
  BY <1>1, FS_Interval
<1>3. Meetings(t, ip, j) \in SUBSET (1..Len(t)) /\ Meetings(t, ip, j - 1) \in SUBSET (1..Len(t))
  BY <1>1 DEF Meetings
<1>4. /\ IsFiniteSet(Meetings(t, ip, j)) /\ IsFiniteSet(Meetings(t, ip, j - 1))
      /\ Cardinality(Meetings(t, ip, j)) \in Nat /\ Cardinality(Meetings(t, ip, j - 1)) \in Nat
  BY <1>2, <1>3, FS_Subset, FS_CardinalityType
<1>5. Meetings(t, ip, j) = Meetings(t, ip, j - 1) \cup (IF Meets(t[j], ip) THEN {j} ELSE {})
  <2>1. \A i \in DOMAIN t : i <= j <=> i <= j - 1 \/ i = j
    BY <1>1
  <2> QED
    BY <2>1 DEF Meetings
<1>6. j \notin Meetings(t, ip, j - 1)
  BY <1>1 DEF Meetings
<1>7. CASE Meets(t[j], ip)
  <2>1. Meetings(t, ip, j) = Meetings(t, ip, j - 1) \cup {j}
    BY <1>5, <1>7
  <2>2. Cardinality(Meetings(t, ip, j)) = Cardinality(Meetings(t, ip, j - 1)) + 1
    BY <1>4, <1>6, <2>1, FS_AddElement
  <2> QED
    BY <1>4, <1>7, <2>2
<1>8. CASE ~Meets(t[j], ip)
  BY <1>4, <1>5, <1>8
<1> QED
  BY <1>7, <1>8

LEMMA ConcatBounded ==
    ASSUME NEW s \in Seq(S2C), NEW t \in Seq(S2C), NEW K, NEW m \in Nat, NEW ip, Bounded(K, s, m, ip),
           \A i \in DOMAIN t : ~Parts(t[i], ip)
    PROVE  Bounded(K, s \o t, m + Cardinality(Meetings(t, ip, Len(t))), ip)
<1> DEFINE q == s \o t
           n == Len(s)
           R(j) == Cardinality(Meetings(t, ip, j))
<1>1. /\ n \in Nat /\ Len(t) \in Nat /\ Len(q) = n + Len(t)
      /\ DOMAIN s = 1..n /\ DOMAIN t = 1..Len(t) /\ DOMAIN q = 1..(n + Len(t))
      /\ \A i \in DOMAIN s : i \in DOMAIN q /\ q[i] = s[i] /\ i <= n
      /\ \A i \in DOMAIN t : i + n \in DOMAIN q /\ q[i + n] = t[i] /\ i + n > n
      /\ \A i \in DOMAIN q : (i \in DOMAIN s /\ i <= n) \/ (i - n \in DOMAIN t /\ i > n)
  BY ConcatPlaces
<1>2. PICK c : Bounds(c, s, ip) /\ Cardinality(K) <= c[0] /\ c[n] <= m
  BY DEF Bounded
<1>3. R(0) = 0
  <2>1. Meetings(t, ip, 0) = {}
    BY <1>1 DEF Meetings
  <2> QED
    BY <2>1, FS_EmptySet
<1>4. \A j \in DOMAIN t : R(j) \in Nat /\ R(j - 1) \in Nat /\ R(j) = R(j - 1) + (IF Meets(t[j], ip) THEN 1 ELSE 0)
  BY OneMoreMeeting
<1>5. \A j \in 0..Len(t) : R(j) \in Nat
  <2>1. \A j \in 0..Len(t) : j = 0 \/ j \in DOMAIN t
    BY <1>1
  <2> QED
    BY <1>3, <1>4, <2>1
<1> HIDE DEF q, n, R
<1>6. /\ c \in [0..n -> Nat] /\ c[n] \in Nat
      /\ \A i \in DOMAIN s : /\ Meets(s[i], ip) => c[i - 1] + 1 <= c[i]
                             /\ Parts(s[i], ip) => c[i - 1] <= c[i] + 1
                             /\ ~Meets(s[i], ip) /\ ~Parts(s[i], ip) => c[i - 1] <= c[i]
                             /\ LastParting(s, ip, i) => c[i] = 0
  BY <1>1, <1>2 DEF Bounds, n
<1> DEFINE e == [i \in 0..(n + Len(t)) |-> IF i <= n THEN c[i] ELSE c[n] + R(i - n)]
<1>7. /\ \A i \in 0..n : e[i] = c[i]
      /\ \A j \in 0..Len(t) : e[n + j] = c[n] + R(j)
      /\ e \in [0..(n + Len(t)) -> Nat]
  <2>1. \A i \in 0..n : i \in 0..(n + Len(t)) /\ i <= n
    BY <1>1
  <2>2. \A i \in 0..n : e[i] = c[i]
    BY <2>1
  <2>3. ASSUME NEW j \in 0..Len(t) PROVE e[n + j] = c[n] + R(j)
    <3>1. n + j \in 0..(n + Len(t)) /\ (n + j) - n = j
      BY <1>1
    <3>2. CASE j = 0
      BY <1>1, <1>3, <1>6, <2>2, <3>1, <3>2
    <3>3. CASE j # 0
      <4>1. ~(n + j <= n)
        BY <1>1, <3>3
      <4> QED
        BY <3>1, <4>1
    <3> QED
      BY <3>2, <3>3
  <2>4. ASSUME NEW i \in 0..(n + Len(t)) PROVE (IF i <= n THEN c[i] ELSE c[n] + R(i - n)) \in Nat
    <3>1. i <= n => c[i] \in Nat
      BY <1>1, <1>6
    <3>2. ~(i <= n) => i - n \in 0..Len(t)
      BY <1>1
    <3>3. ~(i <= n) => c[n] + R(i - n) \in Nat
      BY <1>5, <1>6, <3>2
    <3> QED
      BY <3>1, <3>3
  <2> QED
    BY <2>2, <2>3, <2>4
<1> HIDE DEF e
<1>8. ASSUME NEW i \in DOMAIN q
      PROVE  /\ Meets(q[i], ip) => e[i - 1] + 1 <= e[i]
             /\ Parts(q[i], ip) => e[i - 1] <= e[i] + 1
             /\ ~Meets(q[i], ip) /\ ~Parts(q[i], ip) => e[i - 1] <= e[i]
             /\ LastParting(q, ip, i) => e[i] = 0
  <2>1. CASE i \in DOMAIN s
    <3>1. q[i] = s[i] /\ e[i - 1] = c[i - 1] /\ e[i] = c[i]
      BY <1>1, <1>7, <2>1
    <3>2. LastParting(q, ip, i) => LastParting(s, ip, i)
      BY <1>1, <2>1, <3>1 DEF LastParting
    <3> QED
      BY <1>6, <2>1, <3>1, <3>2
  <2>2. CASE i - n \in DOMAIN t
    <3> DEFINE j == i - n
    <3>1. j \in DOMAIN t /\ j + n = i /\ j \in 0..Len(t) /\ j - 1 \in 0..Len(t)
          /\ n + j = i /\ n + (j - 1) = i - 1
      BY <1>1, <2>2
    <3> HIDE DEF j
    <3>2. q[i] = t[j] /\ e[i] = c[n] + R(j) /\ e[i - 1] = c[n] + R(j - 1)
      BY <1>1, <1>7, <3>1
    <3>3. ~Parts(q[i], ip) /\ R(j) = R(j - 1) + (IF Meets(t[j], ip) THEN 1 ELSE 0)
          /\ R(j) \in Nat /\ R(j - 1) \in Nat
      BY <1>4, <3>1, <3>2
    <3>4. ~LastParting(q, ip, i)
      BY <1>1, <3>3 DEF LastParting
    <3> QED
      BY <1>6, <3>2, <3>3, <3>4
  <2> QED
    BY <1>1, <2>1, <2>2
<1>9. Bounds(e, q, ip)
  BY <1>1, <1>7, <1>8 DEF Bounds
<1>10. e[0] = c[0] /\ e[Len(q)] = c[n] + R(Len(t))
  BY <1>1, <1>7
<1>11. e[Len(q)] <= m + R(Len(t))
  <2>1. R(Len(t)) \in Nat
    BY <1>1, <1>5
  <2> QED
    BY <1>2, <1>6, <1>10, <2>1
<1>12. Bounded(K, q, m + R(Len(t)), ip)
  BY <1>2, <1>9, <1>10, <1>11 DEF Bounded
<1> QED
  BY <1>12 DEF q, R

LEMMA ConcatTells ==
    ASSUME NEW s \in Seq(S2C), NEW t \in Seq(S2C), NEW K, NEW P, NEW m \in Nat, NEW ip,
           Tells(K, s, P, m, ip), \A i \in DOMAIN t : ~Parts(t[i], ip)
    PROVE  Tells(K, s \o t, P \cup MetAfter(t, ip, 0), m + Cardinality(Meetings(t, ip, Len(t))), ip)
  BY ConcatEnds, ConcatBounded DEF Tells

(* As many farewells from an address as somebody can know there.           *)
LEMMA PartingTells ==
    ASSUME NEW s \in Seq(S2C), NEW t \in Seq(S2C), t # <<>>, NEW K, NEW P, NEW m \in Nat, NEW ip,
           Tells(K, s, P, m, ip), Len(t) >= m, \A i \in DOMAIN t : Parts(t[i], ip)
    PROVE  Tells(K, s \o t, {}, 0, ip)
<1> DEFINE q == s \o t
           n == Len(s)
           k == Len(t)
<1>1. /\ n \in Nat /\ k \in Nat /\ Len(q) = n + k
      /\ DOMAIN s = 1..n /\ DOMAIN t = 1..k /\ DOMAIN q = 1..(n + k)
      /\ \A i \in DOMAIN s : i \in DOMAIN q /\ q[i] = s[i] /\ i <= n
      /\ \A i \in DOMAIN t : i + n \in DOMAIN q /\ q[i + n] = t[i] /\ i + n > n
      /\ \A i \in DOMAIN q : (i \in DOMAIN s /\ i <= n) \/ (i - n \in DOMAIN t /\ i > n)
  BY ConcatPlaces
<1>2. k \in Nat \ {0} /\ k >= m
  BY <1>1
<1> HIDE DEF q, n, k
<1>3. \A i \in DOMAIN q : i > n => Parts(q[i], ip)
  <2> SUFFICES ASSUME NEW i \in DOMAIN q, i > n PROVE Parts(q[i], ip)
    OBVIOUS
  <2>1. i - n \in DOMAIN t /\ (i - n) + n = i
    BY <1>1
  <2> QED
    BY <1>1, <2>1
<1>4. n + k \in DOMAIN q /\ n + k > n
  BY <1>1, <1>2
<1>5. EndsWith(K, q, {}, ip)
  <2> SUFFICES ASSUME NEW d \in 0..Len(q), LastParting(q, ip, d)
               PROVE  {} = (IF d = 0 THEN K ELSE {}) \cup MetAfter(q, ip, d)
    BY DEF EndsWith
  <2>1. n + k <= d
    BY <1>3, <1>4 DEF LastParting
  <2>2. d # 0 /\ \A i \in DOMAIN q : ~(i > d)
    BY <1>1, <1>2, <2>1
  <2>3. MetAfter(q, ip, d) = {}
    BY <2>2 DEF MetAfter
  <2> QED
    BY <2>2, <2>3
<1>6. PICK c : Bounds(c, s, ip) /\ Cardinality(K) <= c[0] /\ c[n] <= m
  BY DEF Tells, Bounded, n
<1>7. /\ c \in [0..n -> Nat] /\ c[n] \in Nat
      /\ \A i \in DOMAIN s : /\ Meets(s[i], ip) => c[i - 1] + 1 <= c[i]
                             /\ Parts(s[i], ip) => c[i - 1] <= c[i] + 1
                             /\ ~Meets(s[i], ip) /\ ~Parts(s[i], ip) => c[i - 1] <= c[i]
  BY <1>1, <1>6 DEF Bounds, n
<1> DEFINE e == [i \in 0..(n + k) |-> IF i <= n THEN c[i] ELSE IF c[n] >= i - n THEN c[n] - (i - n) ELSE 0]
<1>8. /\ \A i \in 0..n : e[i] = c[i]
      /\ \A i \in 0..(n + k) : i > n => e[i] = IF c[n] >= i - n THEN c[n] - (i - n) ELSE 0
      /\ e \in [0..(n + k) -> Nat]
  BY <1>1, <1>7
<1> HIDE DEF e
<1>9. e[n + k] = 0
  <2>1. e[n + k] = IF c[n] >= (n + k) - n THEN c[n] - ((n + k) - n) ELSE 0
    BY <1>1, <1>2, <1>8
  <2> QED
    BY <1>1, <1>2, <1>6, <1>7, <2>1
<1>10. ASSUME NEW i \in DOMAIN q
      PROVE  /\ Meets(q[i], ip) => e[i - 1] + 1 <= e[i]
             /\ Parts(q[i], ip) => e[i - 1] <= e[i] + 1
             /\ ~Meets(q[i], ip) /\ ~Parts(q[i], ip) => e[i - 1] <= e[i]
             /\ LastParting(q, ip, i) => e[i] = 0
  <2>1. LastParting(q, ip, i) => i = n + k
    <3>1. LastParting(q, ip, i) => n + k <= i
      BY <1>3, <1>4 DEF LastParting
    <3> QED
      BY <1>1, <3>1
  <2>2. CASE i \in DOMAIN s
    <3>1. q[i] = s[i] /\ e[i - 1] = c[i - 1] /\ e[i] = c[i]
      BY <1>1, <1>8, <2>2
    <3> QED
      BY <1>7, <1>9, <2>1, <2>2, <3>1
  <2>3. CASE i > n
    <3>1. Parts(q[i], ip) /\ ~Meets(q[i], ip)
      BY <1>3, <2>3 DEF Meets, Parts
    <3>2. e[i] = IF c[n] >= i - n THEN c[n] - (i - n) ELSE 0
      BY <1>1, <1>8, <2>3
    <3>3. e[i - 1] = IF c[n] >= (i - 1) - n THEN c[n] - ((i - 1) - n) ELSE 0
      <4>1. i - 1 \in 0..(n + k) /\ (i - 1 > n \/ i - 1 = n)
        BY <1>1, <1>2, <2>3
      <4>2. CASE i - 1 > n
        BY <1>8, <4>1, <4>2
      <4>3. CASE i - 1 = n
        <5>1. n \in Nat /\ n \in 0..n /\ (i - 1) - n = 0
          BY <1>1, <4>3
        <5>2. e[i - 1] = c[n]
          BY <1>8, <4>3, <5>1
        <5> QED
          BY <1>7, <5>1, <5>2
      <4> QED
        BY <4>1, <4>2, <4>3
    <3>4. e[i - 1] <= e[i] + 1
      BY <1>1, <1>7, <3>2, <3>3
    <3> QED
      BY <1>9, <2>1, <3>1, <3>4
  <2> QED
    BY <1>1, <2>2, <2>3
<1>11. Bounds(e, q, ip)
  BY <1>1, <1>8, <1>10 DEF Bounds
<1>12. e[0] = c[0] /\ e[Len(q)] = 0
  BY <1>1, <1>8, <1>9
<1>13. Bounded(K, q, 0, ip)
  BY <1>6, <1>11, <1>12 DEF Bounded
<1> QED
  BY <1>5, <1>13 DEF Tells, q

-----------------------------------------------------------------------------
(* Who of a list comes from an address, and how many they are.             *)
At(users, ip) == {w \in ToSet(users) : IpOf[w] = ip}

LEMMA BehindIsAt ==
    ASSUME NEW users \in Seq(Users), NEW ip
    PROVE  /\ IsFiniteSet(Behind(users, ip)) /\ IsFiniteSet(At(users, ip))
           /\ Cardinality(Behind(users, ip)) \in Nat
           /\ Cardinality(At(users, ip)) <= Cardinality(Behind(users, ip))
           /\ IsInjective(users) => Cardinality(At(users, ip)) = Cardinality(Behind(users, ip))
<1> DEFINE B == Behind(users, ip)
           A == At(users, ip)
           f == [i \in B |-> users[i]]
<1>1. DOMAIN users = 1..Len(users) /\ Len(users) \in Nat /\ B \in SUBSET (1..Len(users))
  BY DEF Behind
<1>2. IsFiniteSet(B) /\ Cardinality(B) \in Nat
  <2>1. IsFiniteSet(1..Len(users))
    BY <1>1, FS_Interval
  <2> HIDE DEF B
  <2>2. IsFiniteSet(B)
    BY <1>1, <2>1, FS_Subset
  <2> QED
    BY <2>2, FS_CardinalityType
<1>3. \A i \in B : users[i] \in A
  BY <1>1 DEF Behind, At, ToSet
<1>4. \A w \in A : \E i \in B : users[i] = w
  BY <1>1 DEF Behind, At, ToSet
<1>5. IsInjective(users) => \A i, j \in B : users[i] = users[j] => i = j
  BY <1>1 DEF IsInjective
<1> HIDE DEF A, B
<1>6. f \in Surjection(B, A)
  <2>1. f \in [B -> A]
    BY <1>3
  <2>2. \A w \in A : \E i \in B : f[i] = w
    BY <1>4
  <2> HIDE DEF f
  <2> QED
    BY <2>1, <2>2, Fun_IsSurj
<1>7. IsInjective(users) => f \in Injection(B, A)
  <2> SUFFICES ASSUME IsInjective(users) PROVE f \in Injection(B, A)
    OBVIOUS
  <2>1. f \in [B -> A] /\ \A i, j \in B : f[i] = f[j] => i = j
    BY <1>3, <1>5
  <2> HIDE DEF f
  <2> QED
    BY <2>1, Fun_IsInj
<1> HIDE DEF f
<1>8. IsFiniteSet(A) /\ Cardinality(A) <= Cardinality(B) /\ (Cardinality(A) = Cardinality(B) <=> f \in Injection(B, A))
  BY <1>2, <1>6, FS_Surjection
<1> QED
  BY <1>2, <1>7, <1>8 DEF A, B

-----------------------------------------------------------------------------
(* What a reader knows in the end, packet by packet.                       *)
LEMMA NothingTold ==
    ASSUME NEW K, NEW P, NEW m, NEW ip
    PROVE  /\ Tells({}, <<>>, {}, 0, ip)
           /\ Tells(K, <<>>, P, m, ip) => P = K
<1>1. Len(<<>>) = 0 /\ DOMAIN <<>> = {}
  OBVIOUS
<1>2. \A d : MetAfter(<<>>, ip, d) = {}
  BY <1>1 DEF MetAfter
<1>3. EndsWith({}, <<>>, {}, ip)
  BY <1>2 DEF EndsWith
<1>4. Bounded({}, <<>>, 0, ip)
  <2> DEFINE c == [i \in 0..0 |-> 0]
  <2>1. c \in [0..Len(<<>>) -> Nat] /\ c[0] = 0
    BY <1>1
  <2> HIDE DEF c
  <2>2. Bounds(c, <<>>, ip)
    BY <1>1, <2>1 DEF Bounds
  <2>3. Cardinality({}) = 0
    BY FS_EmptySet
  <2> QED
    BY <1>1, <2>1, <2>2, <2>3 DEF Bounded
<1>5. Tells(K, <<>>, P, m, ip) => P = K
  <2> SUFFICES ASSUME EndsWith(K, <<>>, P, ip) PROVE P = K
    BY DEF Tells
  <2>1. 0 \in 0..Len(<<>>) /\ LastParting(<<>>, ip, 0)
    BY <1>1 DEF LastParting
  <2> QED
    BY <1>2, <2>1 DEF EndsWith
<1> QED
  BY <1>3, <1>4, <1>5 DEF Tells

Quiet(f, ip) == \A i \in DOMAIN f : ~Meets(f[i], ip) /\ ~Parts(f[i], ip)

LEMMA QuietTells ==
    ASSUME NEW s \in Seq(S2C), NEW f \in Seq(S2C), NEW K, NEW P, NEW m \in Nat, NEW ip,
           Tells(K, s, P, m, ip), Quiet(f, ip)
    PROVE  Tells(K, s \o f, P, m, ip)
<1>1. MetAfter(f, ip, 0) = {} /\ Meetings(f, ip, Len(f)) = {}
  BY DEF MetAfter, Meetings, Quiet
<1>2. Cardinality(Meetings(f, ip, Len(f))) = 0
  BY <1>1, FS_EmptySet
<1>3. \A i \in DOMAIN f : ~Parts(f[i], ip)
  BY DEF Quiet
<1>4. Tells(K, s \o f, P \cup MetAfter(f, ip, 0), m + Cardinality(Meetings(f, ip, Len(f))), ip)
  BY <1>3, ConcatTells
<1>5. P \cup MetAfter(f, ip, 0) = P /\ m + Cardinality(Meetings(f, ip, Len(f))) = m
  BY <1>1, <1>2
<1> QED
  BY <1>4, <1>5

LEMMA MeetingsTell ==
    ASSUME NEW s \in Seq(S2C), NEW users \in Seq(Users), IsInjective(users), NEW K, NEW P,
           NEW m \in Nat, NEW ip, Tells(K, s, P, m, ip)
    PROVE  Tells(K, s \o ConnectPackets(users), P \cup DevicesOf(At(users, ip)),
                 m + Cardinality(At(users, ip)), ip)
<1> DEFINE t == ConnectPackets(users)
<1>1. t \in Seq(S2C)
  BY PacketsOfUsers
<1>2. /\ DOMAIN t = DOMAIN users /\ DOMAIN users = 1..Len(users) /\ Len(users) \in Nat
      /\ \A i \in DOMAIN users : /\ Meets(t[i], ip) <=> IpOf[users[i]] = ip
                                 /\ ~Parts(t[i], ip) /\ Met(t[i]) = DeviceOf(users[i])
  BY DEF ConnectPackets, ConnectS2C, Meets, Parts, Met, DeviceOf
<1>3. Len(t) = Len(users)
  BY <1>1, <1>2
<1> HIDE DEF t
<1>4. MetAfter(t, ip, 0) = DevicesOf(At(users, ip))
  <2>1. \A x : x \in MetAfter(t, ip, 0) <=> \E i \in DOMAIN t : i > 0 /\ Meets(t[i], ip) /\ x = Met(t[i])
    BY DEF MetAfter
  <2>2. \A i \in DOMAIN users : i > 0
    BY <1>2
  <2>3. \A x : x \in MetAfter(t, ip, 0) <=> \E i \in DOMAIN users : IpOf[users[i]] = ip /\ x = DeviceOf(users[i])
    BY <1>2, <2>1, <2>2
  <2>4. \A x : x \in DevicesOf(At(users, ip)) <=> \E w : w \in At(users, ip) /\ x = DeviceOf(w)
    BY DEF DevicesOf
  <2>5. \A w : w \in At(users, ip) <=> \E i \in DOMAIN users : users[i] = w /\ IpOf[w] = ip
    BY DEF At, ToSet
  <2>6. \A x : x \in DevicesOf(At(users, ip)) <=> \E i \in DOMAIN users : IpOf[users[i]] = ip /\ x = DeviceOf(users[i])
    BY <2>4, <2>5
  <2> QED
    BY <2>3, <2>6
<1>5. Meetings(t, ip, Len(t)) = Behind(users, ip)
  BY <1>2, <1>3 DEF Meetings, Behind
<1>6. Cardinality(Meetings(t, ip, Len(t))) = Cardinality(At(users, ip))
  BY <1>5, BehindIsAt
<1>7. Tells(K, s \o t, P \cup MetAfter(t, ip, 0), m + Cardinality(Meetings(t, ip, Len(t))), ip)
  BY <1>1, <1>2, ConcatTells
<1> QED
  BY <1>4, <1>6, <1>7 DEF t

(* u leaves a group in which the reader knows at most so many at u's       *)
(* address as there are places of the list.                                *)
LEMMA FarewellTells ==
    ASSUME NEW s \in Seq(S2C), NEW K, NEW P, NEW m \in Nat, NEW ip \in Ips, Tells(K, s, P, m, ip),
           NEW n \in Nat, n >= m, n # 0, NEW users \in Seq(Users), IsInjective(users)
    PROVE  LET purge == [i \in 1..n |-> DisconnectS2C(ip)]
           IN  Tells(K, s \o (purge \o ConnectPackets(users)), DevicesOf(At(users, ip)),
                     Cardinality(At(users, ip)), ip)
<1> DEFINE purge == [i \in 1..n |-> DisconnectS2C(ip)]
           back == ConnectPackets(users)
<1>1. DisconnectS2C(ip) \in S2C /\ Parts(DisconnectS2C(ip), ip)
  BY DEF S2C, DisconnectS2C, Parts
<1>2. /\ purge \in Seq(S2C) /\ DOMAIN purge = 1..n /\ Len(purge) = n
      /\ \A i \in DOMAIN purge : Parts(purge[i], ip)
  BY <1>1
<1>3. purge # <<>>
  <2>1. Len(purge) # 0
    BY <1>2
  <2> HIDE DEF purge
  <2> QED
    BY <1>2, <2>1
<1>4. back \in Seq(S2C)
  BY PacketsOfUsers
<1> HIDE DEF purge
<1>5. Tells(K, s \o purge, {}, 0, ip)
  BY <1>2, <1>3, PartingTells
<1>6. s \o purge \in Seq(S2C)
  BY <1>2
<1>7. Tells(K, (s \o purge) \o back, {} \cup DevicesOf(At(users, ip)), 0 + Cardinality(At(users, ip)), ip)
  BY <1>5, <1>6, MeetingsTell
<1> HIDE DEF back
<1>8. (s \o purge) \o back = s \o (purge \o back)
  BY <1>2, <1>4
<1>9. 0 + Cardinality(At(users, ip)) = Cardinality(At(users, ip))
  <2>1. Cardinality(At(users, ip)) \in Nat
    BY BehindIsAt, FS_CardinalityType
  <2> QED
    BY <2>1
<1>10. {} \cup DevicesOf(At(users, ip)) = DevicesOf(At(users, ip))
  OBVIOUS
<1>11. Tells(K, s \o (purge \o back), DevicesOf(At(users, ip)), Cardinality(At(users, ip)), ip)
  BY <1>7, <1>8, <1>9, <1>10
<1> QED
  BY <1>11 DEF purge, back

-----------------------------------------------------------------------------
(* The peer list.                                                          *)
LEMMA RemoveAtExact ==
    ASSUME NEW S, NEW s \in Seq(S), IsInjective(s), NEW k \in DOMAIN s
    PROVE  /\ RemoveAt(s, k) \in Seq(S) /\ IsInjective(RemoveAt(s, k))
           /\ ToSet(RemoveAt(s, k)) = ToSet(s) \ {s[k]}
<1> DEFINE r == RemoveAt(s, k)
           n == Len(s)
<1>1. /\ n \in Nat /\ DOMAIN s = 1..n /\ r \in Seq(S) /\ DOMAIN r = 1..(n - 1) /\ k \in 1..n
      /\ \A i \in 1..(n - 1) : r[i] = s[IF i < k THEN i ELSE i + 1]
  BY RemoveAtFacts
<1> HIDE DEF r, n
<1> DEFINE p(i) == IF i < k THEN i ELSE i + 1
<1>2. \A i \in DOMAIN r : p(i) \in DOMAIN s /\ p(i) # k /\ r[i] = s[p(i)]
  BY <1>1
<1>3. \A i, j \in DOMAIN r : p(i) = p(j) => i = j
  BY <1>1
<1>4. \A j \in DOMAIN s : j # k => \E i \in DOMAIN r : p(i) = j
  <2> SUFFICES ASSUME NEW j \in DOMAIN s, j # k PROVE \E i \in DOMAIN r : p(i) = j
    OBVIOUS
  <2>1. CASE j < k
    <3>1. j \in DOMAIN r /\ p(j) = j
      BY <1>1, <2>1
    <3> QED
      BY <3>1
  <2>2. CASE j > k
    <3>1. j - 1 \in DOMAIN r /\ p(j - 1) = j
      BY <1>1, <2>2
    <3> QED
      BY <3>1
  <2> QED
    BY <1>1, <2>1, <2>2
<1> HIDE DEF p
<1>5. IsInjective(r)
  BY <1>2, <1>3 DEF IsInjective
<1>6. \A x : x \in ToSet(r) <=> x \in ToSet(s) /\ x # s[k]
  <2>1. \A x : x \in ToSet(r) <=> \E i \in DOMAIN r : r[i] = x
    BY DEF ToSet
  <2>2. \A x : x \in ToSet(s) <=> \E i \in DOMAIN s : s[i] = x
    BY DEF ToSet
  <2>3. \A i \in DOMAIN s : s[i] = s[k] => i = k
    BY <1>1 DEF IsInjective
  <2>4. \A x : x \in ToSet(r) => x \in ToSet(s) /\ x # s[k]
    BY <1>2, <2>1, <2>2, <2>3
  <2>5. \A x : x \in ToSet(s) /\ x # s[k] => x \in ToSet(r)
    BY <1>2, <1>4, <2>1, <2>2
  <2> QED
    BY <2>4, <2>5
<1> QED
  BY <1>1, <1>5, <1>6 DEF r

LEMMA AddFriendExact ==
    ASSUME OneAddress, NEW F \in Seq(DevicesOf(Users)), IsInjective(F), NEW v \in Users
    PROVE  /\ AddFriend(F, DeviceOf(v)) \in Seq(DevicesOf(Users))
           /\ IsInjective(AddFriend(F, DeviceOf(v)))
           /\ ToSet(AddFriend(F, DeviceOf(v))) = ToSet(F) \cup {DeviceOf(v)}
<1> DEFINE peer == DeviceOf(v)
           I == {i \in 1..Len(F) : F[i].mac = peer.mac}
           i == Min(I)
<1>1. DOMAIN F = 1..Len(F) /\ I \in SUBSET Nat /\ peer \in DevicesOf(Users)
  BY DEF DevicesOf
<1>2. I # {} => i \in I
  BY <1>1, MinIn
<1>3. AddFriend(F, peer) = IF I # {} THEN [F EXCEPT ![i] = peer] ELSE Cons(peer, F)
  BY <1>1 DEF AddFriend, SelectInSeq
<1> HIDE DEF i
<1>4. CASE I # {}
  <2>1. i \in DOMAIN F /\ F[i].mac = peer.mac /\ F[i] \in DevicesOf(Users)
    BY <1>1, <1>2, <1>4
  <2>2. PICK w \in Users : F[i] = DeviceOf(w)
    BY <2>1 DEF DevicesOf
  <2>3. MacOf[w] = MacOf[v]
    BY <2>1, <2>2 DEF DeviceOf
  <2>4. F[i] = peer
    BY <2>2, <2>3 DEF OneAddress, DeviceOf
  <2> HIDE DEF I, peer
  <2>5. [F EXCEPT ![i] = peer] = F
    BY <2>1, <2>4
  <2>6. peer \in ToSet(F)
    BY <2>1, <2>4 DEF ToSet
  <2>7. AddFriend(F, peer) = F
    BY <1>3, <1>4, <2>5
  <2> QED
    BY <2>6, <2>7 DEF peer
<1>5. CASE I = {}
  <2>1. peer \notin ToSet(F)
    BY <1>1, <1>5 DEF ToSet
  <2> HIDE DEF I, peer
  <2>2. AddFriend(F, peer) = Cons(peer, F)
    BY <1>3, <1>5
  <2> DEFINE S == DevicesOf(Users)
  <2> HIDE DEF S
  <2>3. F \in Seq(S) /\ peer \in S
    BY <1>1 DEF S
  <2>4. Cons(peer, F) \in Seq(S) /\ IsInjective(Cons(peer, F)) /\ ToSet(Cons(peer, F)) = ToSet(F) \cup {peer}
    BY <2>1, <2>3, ConsFacts
  <2> QED
    BY <2>2, <2>4 DEF S, peer
<1> QED
  BY <1>4, <1>5

LEMMA DeleteFriendExact ==
    ASSUME NEW S, NEW F \in Seq(S), IsInjective(F), NEW ip
    PROVE  /\ DeleteFriendByIP(F, ip) \in Seq(S) /\ IsInjective(DeleteFriendByIP(F, ip))
           /\ \/ DeleteFriendByIP(F, ip) = F /\ \A x \in ToSet(F) : x.ip # ip
              \/ \E x \in ToSet(F) : x.ip = ip /\ ToSet(DeleteFriendByIP(F, ip)) = ToSet(F) \ {x}
<1> DEFINE I == {i \in 1..Len(F) : F[i].ip = ip}
           i == Min(I)
<1>1. DOMAIN F = 1..Len(F) /\ I \in SUBSET Nat
  OBVIOUS
<1>2. I # {} => i \in I
  BY <1>1, MinIn
<1>3. DeleteFriendByIP(F, ip) = IF I # {} THEN RemoveAt(F, i) ELSE F
  BY <1>1 DEF DeleteFriendByIP, SelectInSeq
<1> HIDE DEF i
<1>4. CASE I # {}
  <2>1. i \in DOMAIN F /\ F[i].ip = ip
    BY <1>1, <1>2, <1>4
  <2> HIDE DEF I
  <2>2. F[i] \in ToSet(F)
    BY <2>1 DEF ToSet
  <2>3. RemoveAt(F, i) \in Seq(S) /\ IsInjective(RemoveAt(F, i)) /\ ToSet(RemoveAt(F, i)) = ToSet(F) \ {F[i]}
    BY <2>1, RemoveAtExact
  <2> QED
    BY <1>3, <1>4, <2>1, <2>2, <2>3
<1>5. CASE I = {}
  <2>1. \A x \in ToSet(F) : x.ip # ip
    BY <1>1, <1>5 DEF ToSet
  <2> QED
    BY <1>3, <1>5, <2>1
<1> QED
  BY <1>4, <1>5

-----------------------------------------------------------------------------
(* The peer lists and the queues to the players, together, name the others *)
(* of their groups, address by address.                                    *)
MatesAt(u, ip) == {v \in Mates(u) : IpOf[v] = ip}
FriendsAt(u, ip) == {f \in ToSet(lib[u].friends) : f.ip = ip}

Remains(u) ==
    /\ app[u].pc # "disconnect" /\ lib[u].discThread = "none" /\ ~Sends(c2s[u], "DISCONNECT")
    /\ lib[u].init = 1 \/ app[u].pc = "term" => cliEnd[u] = "open"
    /\ cliEnd[u] # "open" => lib[u].friends = <<>>

Friendly(u) == lib[u].friends \in Seq(DevicesOf(Users)) /\ IsInjective(lib[u].friends)

Up(u) == lib[u].init = 1 /\ srvEnd[u] # "closed"

Informed(u) ==
    \A ip \in Ips : Tells(FriendsAt(u, ip), s2c[u], DevicesOf(MatesAt(u, ip)),
                          Cardinality(MatesAt(u, ip)), ip)

OneDevice == \A u, v \in Users : cliEnd[u] = "open" /\ cliEnd[v] = "open" /\ MacOf[u] = MacOf[v] => u = v

PeerInv ==
    /\ Basics /\ OneDevice
    /\ \A u \in Users : Remains(u) /\ Friendly(u) /\ (Up(u) => Informed(u))

LEMMA MatesCount ==
    ASSUME NEW u, NEW ip
    PROVE  IsFiniteSet(MatesAt(u, ip)) /\ Cardinality(MatesAt(u, ip)) \in Nat
  BY ServerAssumption, FS_Subset, FS_CardinalityType DEF MatesAt, Mates

LEMMA FriendsCount ==
    ASSUME NEW u, NEW ip, lib[u].friends \in Seq(DevicesOf(Users))
    PROVE  IsFiniteSet(FriendsAt(u, ip))
<1> DEFINE F == lib[u].friends
           D == DOMAIN F
           g == [i \in D |-> F[i]]
<1>1. D = 1..Len(F) /\ Len(F) \in Nat
  OBVIOUS
<1>2. IsFiniteSet(D)
  BY <1>1, FS_Interval
<1> HIDE DEF F
<1>3. g \in Surjection(D, ToSet(F))
  <2>1. g \in [D -> ToSet(F)] /\ \A x \in ToSet(F) : \E i \in D : g[i] = x
    BY DEF ToSet
  <2> HIDE DEF g, D
  <2> QED
    BY <2>1, Fun_IsSurj
<1> HIDE DEF g, D
<1>4. IsFiniteSet(ToSet(F))
  BY <1>2, <1>3, FS_Surjection
<1> QED
  BY <1>4, FS_Subset DEF FriendsAt, F

LEMMA MatesElsewhere ==
    ASSUME NEW v, group' = group, NEW ip
    PROVE  MatesAt(v, ip)' = MatesAt(v, ip)
  BY DEF MatesAt, Mates

-----------------------------------------------------------------------------
(* What the server says when somebody joins or leaves, and who is a mate   *)
(* then.                                                                   *)
LEMMA JoinTells ==
    ASSUME GroupInv, NEW u \in Users, group[u] = NoGroup, NEW k \in Groups,
           group' = [group EXCEPT ![u] = k], NEW v \in Users, NEW ip \in Ips,
           NEW s \in Seq(S2C), NEW K,
           Tells(K, s, DevicesOf(MatesAt(v, ip)), Cardinality(MatesAt(v, ip)), ip)
    PROVE  Tells(K, s \o JoinPackets(u, k, v), DevicesOf(MatesAt(v, ip))',
                 Cardinality(MatesAt(v, ip)'), ip)
<1> DEFINE first == IF player[k] = <<>> THEN u ELSE Founder(k)
           bssid == BssidS2C(MacOf[first])
           all == ConnectPackets(player[k])
           M == MatesAt(v, ip)
           N == MatesAt(v, ip)'
<1>1. first \in Users /\ player[k] \in Seq(Users) /\ IsInjective(player[k])
  BY FounderIsUser DEF GroupInv, GroupTypes, GroupListsExact
<1>2. ToSet(player[k]) = {w \in Users : group[w] = k}
  BY DEF GroupInv, GroupListsExact
<1>3. Contains(player[k], v) <=> group[v] = k
  BY <1>1, <1>2, EmptyIffNoElement
<1> HIDE DEF first
<1>4. bssid \in S2C /\ ~Meets(bssid, ip) /\ ~Parts(bssid, ip)
  BY <1>1, WireAssumption DEF S2C, BssidS2C, Meets, Parts
<1>5. JoinPackets(u, k, v) = IF v = u THEN all \o <<bssid>>
                             ELSE IF Contains(player[k], v) THEN <<ConnectS2C(u)>> ELSE <<>>
  BY DEF JoinPackets, first
<1> HIDE DEF bssid
<1>6. /\ group \in [Users -> Groups \cup {NoGroup}] /\ NoGroup \notin Groups
      /\ group'[u] = k /\ \A w \in Users : w # u => group'[w] = group[w]
  BY ServerAssumption DEF GroupInv, GroupTypes
<1>7. /\ M = {w \in Users \ {v} : group[w] = group[v] /\ group[v] # NoGroup /\ IpOf[w] = ip}
      /\ N = {w \in Users \ {v} : group'[w] = group'[v] /\ group'[v] # NoGroup /\ IpOf[w] = ip}
  BY DEF MatesAt, Mates
<1>8. Tells(K, s, DevicesOf(M), Cardinality(M), ip) /\ Cardinality(M) \in Nat
  BY MatesCount
<1>9. DevicesOf(MatesAt(v, ip))' = DevicesOf(N)
  BY DEF DevicesOf, DeviceOf
<1> HIDE DEF M, N
<1>10. CASE v = u
  <2>1. M = {} /\ N = At(player[k], ip)
    <3>1. M = {}
      BY <1>7, <1>10
    <3>2. \A w : w \in N <=> w \in Users /\ group[w] = k /\ IpOf[w] = ip
      BY <1>6, <1>7, <1>10
    <3>3. \A w : w \in At(player[k], ip) <=> w \in Users /\ group[w] = k /\ IpOf[w] = ip
      BY <1>2 DEF At
    <3> QED
      BY <3>1, <3>2, <3>3
  <2>2. DevicesOf(M) = {} /\ Cardinality(M) = 0
    BY <2>1, FS_EmptySet DEF DevicesOf
  <2>3. Tells(K, s, {}, 0, ip)
    BY <1>8, <2>2
  <2>4. Tells(K, s \o all, {} \cup DevicesOf(At(player[k], ip)), 0 + Cardinality(At(player[k], ip)), ip)
    BY <1>1, <2>3, MeetingsTell
  <2>5. Cardinality(N) \in Nat
    BY <1>1, <2>1, BehindIsAt, FS_CardinalityType
  <2>6. Tells(K, s \o all, DevicesOf(N), Cardinality(N), ip)
    BY <2>1, <2>4, <2>5
  <2>7. all \in Seq(S2C)
    BY <1>1, PacketsOfUsers
  <2> DEFINE last == <<bssid>>
  <2>8. last \in Seq(S2C) /\ Quiet(last, ip)
    BY <1>4 DEF Quiet
  <2> HIDE DEF all, last
  <2>9. s \o all \in Seq(S2C) /\ (s \o all) \o last = s \o (all \o last)
    BY <2>7, <2>8
  <2>10. Tells(K, (s \o all) \o last, DevicesOf(N), Cardinality(N), ip)
    BY <2>5, <2>6, <2>8, <2>9, QuietTells
  <2>11. JoinPackets(u, k, v) = all \o last
    BY <1>5, <1>10 DEF last
  <2> QED
    BY <1>9, <2>9, <2>10, <2>11 DEF N
<1>11. CASE v # u /\ group[v] = k
  <2> DEFINE us == <<u>>
             U == IF IpOf[u] = ip THEN {u} ELSE {}
  <2>1. us \in Seq(Users) /\ IsInjective(us) /\ ToSet(us) = {u} /\ ConnectPackets(us) = <<ConnectS2C(u)>>
    <3>1. us \in Seq(Users) /\ DOMAIN us = {1} /\ us[1] = u
      OBVIOUS
    <3>2. ConnectPackets(us) = <<ConnectS2C(u)>>
      BY DEF ConnectPackets
    <3> HIDE DEF us
    <3>3. IsInjective(us) /\ ToSet(us) = {u}
      BY <3>1 DEF IsInjective, ToSet
    <3> QED
      BY <3>1, <3>2, <3>3
  <2>2. At(us, ip) = U
    BY <2>1 DEF At
  <2> HIDE DEF us
  <2>3. u \notin M /\ N = M \cup U
    BY <1>6, <1>7, <1>11
  <2>4. IsFiniteSet(M)
    BY MatesCount DEF M
  <2>5. Cardinality(N) = Cardinality(M) + Cardinality(U)
    <3>1. CASE IpOf[u] = ip
      <4>1. Cardinality(M \cup {u}) = Cardinality(M) + 1
        BY <2>3, <2>4, FS_AddElement
      <4>2. Cardinality({u}) = 1
        BY FS_Singleton
      <4> QED
        BY <2>3, <3>1, <4>1, <4>2
    <3>2. CASE IpOf[u] # ip
      <4>1. Cardinality({}) = 0
        BY FS_EmptySet
      <4> QED
        BY <1>8, <2>3, <3>2, <4>1
    <3> QED
      BY <3>1, <3>2
  <2>6. Tells(K, s \o ConnectPackets(us), DevicesOf(M) \cup DevicesOf(At(us, ip)),
              Cardinality(M) + Cardinality(At(us, ip)), ip)
    BY <1>8, <2>1, MeetingsTell
  <2>7. DevicesOf(N) = DevicesOf(M) \cup DevicesOf(U)
    BY <2>3 DEF DevicesOf
  <2>8. JoinPackets(u, k, v) = ConnectPackets(us)
    BY <1>3, <1>5, <1>11, <2>1
  <2> HIDE DEF U
  <2> QED
    BY <1>9, <2>2, <2>5, <2>6, <2>7, <2>8 DEF N
<1>12. CASE v # u /\ group[v] # k
  <2>1. M = N
    BY <1>6, <1>7, <1>12
  <2>2. JoinPackets(u, k, v) = <<>> /\ s \o <<>> = s
    BY <1>3, <1>5, <1>12
  <2> QED
    BY <1>8, <1>9, <2>1, <2>2 DEF N
<1> QED
  BY <1>10, <1>11, <1>12

LEMMA LeaveTells ==
    ASSUME GroupInv, NEW u \in Users, group[u] # NoGroup,
           group' = [group EXCEPT ![u] = NoGroup], NEW v \in Users \ {u}, NEW ip \in Ips,
           NEW s \in Seq(S2C), NEW K,
           Tells(K, s, DevicesOf(MatesAt(v, ip)), Cardinality(MatesAt(v, ip)), ip)
    PROVE  Tells(K, s \o LeavePackets(u, v), DevicesOf(MatesAt(v, ip))',
                 Cardinality(MatesAt(v, ip)'), ip)
<1> DEFINE k == group[u]
           old == player[k]
           rest == RemoveFirst(old, u)
           places == {i \in Behind(rest, IpOf[u]) : rest[i] # v}
           n == Cardinality(Behind(old, IpOf[u]))
           purge == [i \in 1..n |-> DisconnectS2C(IpOf[u])]
           who == Picked(rest, places)
           back == ConnectPackets(who)
           M == MatesAt(v, ip)
           N == MatesAt(v, ip)'
<1>1. /\ k \in Groups /\ old \in Seq(Users) /\ IsInjective(old) /\ u \in ToSet(old)
      /\ ToSet(old) = {w \in Users : group[w] = k}
  BY OwnGroup DEF GroupInv, GroupTypes, GroupListsExact
<1>2. rest \in Seq(Users) /\ IsInjective(rest) /\ ToSet(rest) = ToSet(old) \ {u}
  BY <1>1, RemoveFirstFacts
<1>3. LeavePackets(u, v) = IF Contains(rest, v) THEN purge \o back ELSE <<>>
  BY DEF LeavePackets
<1>4. /\ group \in [Users -> Groups \cup {NoGroup}] /\ NoGroup \notin Groups
      /\ group'[u] = NoGroup /\ \A w \in Users : w # u => group'[w] = group[w]
      /\ k = group[u] /\ k # NoGroup
  BY ServerAssumption DEF GroupInv, GroupTypes
<1> HIDE DEF k, old, rest
<1>5. places \in SUBSET DOMAIN rest
  BY DEF Behind
<1>6. /\ who \in Seq(Users) /\ IsInjective(who) /\ ToSet(who) = {rest[i] : i \in places}
  BY <1>2, <1>5, PickedFacts, PickedOnto
<1>7. \A w : w \in ToSet(who) <=> w \in ToSet(rest) /\ IpOf[w] = IpOf[u] /\ w # v
  <2>1. \A w : w \in ToSet(rest) <=> \E i \in DOMAIN rest : rest[i] = w
    BY DEF ToSet
  <2>2. \A i : i \in places <=> i \in DOMAIN rest /\ IpOf[rest[i]] = IpOf[u] /\ rest[i] # v
    BY DEF Behind
  <2> HIDE DEF places, who
  <2> QED
    BY <1>6, <2>1, <2>2
<1> HIDE DEF places, who
<1>8. /\ M = {w \in Users \ {v} : group[w] = group[v] /\ group[v] # NoGroup /\ IpOf[w] = ip}
      /\ N = {w \in Users \ {v} : group'[w] = group'[v] /\ group'[v] # NoGroup /\ IpOf[w] = ip}
  BY DEF MatesAt, Mates
<1>9. Tells(K, s, DevicesOf(M), Cardinality(M), ip) /\ Cardinality(M) \in Nat
  BY MatesCount
<1>10. DevicesOf(MatesAt(v, ip))' = DevicesOf(N)
  BY DEF DevicesOf, DeviceOf
<1> HIDE DEF M, N
<1>11. Contains(rest, v) <=> group[v] = k
  BY <1>1, <1>2, EmptyIffNoElement
<1>12. CASE group[v] # k
  <2>1. N = M
    BY <1>4, <1>8, <1>12
  <2>2. LeavePackets(u, v) = <<>> /\ s \o <<>> = s
    BY <1>3, <1>11, <1>12
  <2> QED
    BY <1>9, <1>10, <2>1, <2>2 DEF N
<1>13. CASE group[v] = k /\ ip = IpOf[u]
  <2>1. \A w : w \in N <=> w \in Users /\ w # v /\ w # u /\ group[w] = k /\ IpOf[w] = ip
    BY <1>4, <1>8, <1>13
  <2>2. \A w : w \in At(who, ip) <=> w \in ToSet(rest) /\ IpOf[w] = ip /\ w # v
    BY <1>7, <1>13 DEF At
  <2>3. N = At(who, ip)
    BY <1>1, <1>2, <2>1, <2>2
  <2>4. n \in Nat /\ IsFiniteSet(At(old, ip)) /\ Cardinality(At(old, ip)) <= n
    BY <1>1, <1>13, BehindIsAt
  <2>5. M \subseteq At(old, ip) /\ u \in At(old, ip)
    BY <1>1, <1>8, <1>13 DEF At
  <2>6. Cardinality(M) <= Cardinality(At(old, ip)) /\ Cardinality(At(old, ip)) \in Nat
        /\ Cardinality(At(old, ip)) # 0
    BY <2>4, <2>5, FS_Subset, FS_CardinalityType, FS_EmptySet
  <2> HIDE DEF n
  <2>7. n >= Cardinality(M) /\ n # 0
    BY <1>9, <2>4, <2>6
  <2>8. Tells(K, s \o (purge \o back), DevicesOf(At(who, ip)), Cardinality(At(who, ip)), ip)
    BY <1>6, <1>9, <1>13, <2>4, <2>7, FarewellTells
  <2>9. LeavePackets(u, v) = purge \o back
    BY <1>3, <1>11, <1>13
  <2> HIDE DEF purge, back
  <2> QED
    BY <1>10, <2>3, <2>8, <2>9 DEF N
<1>14. CASE group[v] = k /\ ip # IpOf[u]
  <2>1. N = M
    BY <1>4, <1>8, <1>14
  <2>2. Quiet(LeavePackets(u, v), ip)
    <3>1. DisconnectS2C(IpOf[u]) \in S2C /\ ~Parts(DisconnectS2C(IpOf[u]), ip) /\ ~Meets(DisconnectS2C(IpOf[u]), ip)
      BY <1>14, WireAssumption DEF S2C, DisconnectS2C, Parts, Meets
    <3>2. n \in Nat
      BY <1>1, BehindIsAt
    <3> HIDE DEF n
    <3>3. purge \in Seq(S2C) /\ Quiet(purge, ip)
      BY <3>1, <3>2 DEF Quiet
    <3>4. \A i \in DOMAIN who : who[i] \in ToSet(who)
      BY DEF ToSet
    <3>5. \A i \in DOMAIN who : IpOf[who[i]] # ip
      BY <1>7, <1>14, <3>4
    <3>6. back \in Seq(S2C) /\ Quiet(back, ip)
      <4>1. back \in Seq(S2C)
        BY <1>6, PacketsOfUsers
      <4> QED
        BY <3>5, <4>1 DEF Quiet, ConnectPackets, ConnectS2C, Meets, Parts
    <3> HIDE DEF purge, back
    <3>7. Quiet(purge \o back, ip)
      <4>1. /\ \A i \in DOMAIN purge : (purge \o back)[i] = purge[i]
            /\ \A i \in DOMAIN (purge \o back) : i \in DOMAIN purge \/ i - Len(purge) \in DOMAIN back
            /\ \A i \in DOMAIN back : (purge \o back)[i + Len(purge)] = back[i]
            /\ Len(purge) \in Nat /\ \A i \in DOMAIN (purge \o back) : i \in Nat
        <5>1. DOMAIN (purge \o back) = 1..(Len(purge) + Len(back))
          BY <3>3, <3>6, ConcatPlaces
        <5> QED
          BY <3>3, <3>6, <5>1, ConcatPlaces
      <4>2. \A i \in DOMAIN (purge \o back) : (i - Len(purge)) + Len(purge) = i
        BY <4>1
      <4>3. \A i \in DOMAIN (purge \o back) : \/ \E j \in DOMAIN purge : (purge \o back)[i] = purge[j]
                                             \/ \E j \in DOMAIN back : (purge \o back)[i] = back[j]
        BY <4>1, <4>2
      <4> QED
        BY <3>3, <3>6, <4>3 DEF Quiet
    <3> QED
      BY <1>3, <1>11, <1>14, <3>7
  <2>3. LeavePackets(u, v) \in Seq(S2C)
    BY LeavePacketsTyped
  <2>4. Tells(K, s \o LeavePackets(u, v), DevicesOf(M), Cardinality(M), ip)
    BY <1>9, <2>2, <2>3, QuietTells
  <2> QED
    BY <1>10, <2>1, <2>4 DEF N
<1> QED
  BY <1>12, <1>13, <1>14

-----------------------------------------------------------------------------
(* What a player does himself.                                             *)
KeepsCalm(u) ==
    /\ app'[u].pc # "disconnect" /\ lib'[u].discThread = "none" /\ ~Sends(c2s'[u], "DISCONNECT")
    /\ lib'[u].init = 1 \/ app'[u].pc = "term" => lib[u].init = 1 \/ app[u].pc = "term"
    /\ lib'[u].init = 1 => lib[u].init = 1
    /\ UNCHANGED <<cliEnd, srvEnd>>

LEMMA NoFarewellSent ==
    ASSUME NetTypes, NEW u \in Users, NEW p \in C2S, p.op # "DISCONNECT", WireSend(u, p),
           ~Sends(c2s[u], "DISCONNECT")
    PROVE  ~Sends(c2s'[u], "DISCONNECT")
<1>1. c2s[u] \in Seq(C2S) /\ c2s \in [Users -> Seq(C2S)]
  BY DEF NetTypes, WireTypeOK
<1>2. ~Sends(Append(c2s[u], p), "DISCONNECT")
  BY <1>1, AppendSends
<1>3. c2s'[u] = Append(c2s[u], p) \/ c2s'[u] = c2s[u]
  BY <1>1 DEF WireSend
<1> QED
  BY <1>2, <1>3

LEMMA CalmStep ==
    ASSUME NobodyLeaves, NetTypes, NEW u \in Users, Remains(u), ClientStep(u)
    PROVE  \/ KeepsCalm(u)
           \/ InitLibrary(u) /\ Alone(u)
           \/ TermReturns(u) \/ PowerOff(u)
<1>1. /\ lib[u] \in LibState /\ app[u] \in AppState /\ lib \in [Users -> LibState]
      /\ app \in [Users -> AppState]
  BY DEF NetTypes, ClientTypeOK
<1>2. /\ app[u].pc # "disconnect" /\ lib[u].discThread = "none" /\ ~Sends(c2s[u], "DISCONNECT")
      /\ "Disconnect" \notin Calls[u]
  BY DEF Remains, NobodyLeaves
<1>3. ASSUME NEW name \in Names, CreateCalled(u, name) PROVE KeepsCalm(u)
  BY <1>1, <1>2, <1>3 DEF CreateCalled, KeepsCalm, AppState, wireVars
<1>4. CASE CreateSends(u)
  <2>1. app[u].arg \in Names
    BY <1>4 DEF CreateSends, NetTypes
  <2>2. ConnectC2S(app[u].arg) \in C2S /\ ConnectC2S(app[u].arg).op = "CONNECT"
    BY <2>1 DEF C2S, ConnectC2S
  <2>3. ~Sends(c2s'[u], "DISCONNECT")
    BY <1>2, <1>4, <2>2, NoFarewellSent DEF CreateSends
  <2> QED
    BY <1>1, <1>2, <1>4, <2>3 DEF CreateSends, KeepsCalm, AppState, LibState
<1>5. CASE Scan(u)
  <2>1. BareC2S("SCAN") \in C2S /\ BareC2S("SCAN").op = "SCAN"
    BY DEF C2S, BareC2S, BareOps
  <2>2. ~Sends(c2s'[u], "DISCONNECT")
    BY <1>2, <1>5, <2>1, NoFarewellSent DEF Scan
  <2> QED
    BY <1>1, <1>2, <1>5, <2>2 DEF Scan, KeepsCalm, AppState, LibState
<1>6. CASE TermCalled(u)
  BY <1>1, <1>2, <1>6 DEF TermCalled, KeepsCalm, AppState, LibState, wireVars
<1>7. CASE TypeMessage(u)
  BY <1>1, <1>2, <1>7 DEF TypeMessage, KeepsCalm, LibState, wireVars
<1>8. CASE PopMessage(u)
  BY <1>1, <1>2, <1>8 DEF PopMessage, KeepsCalm, LibState, wireVars
<1>9. CASE SendMessage(u)
  <2>1. BareC2S("CHAT") \in C2S /\ BareC2S("CHAT").op = "CHAT"
    BY DEF C2S, BareC2S, BareOps
  <2>2. ~Sends(c2s'[u], "DISCONNECT")
    BY <1>2, <1>9, <2>1, NoFarewellSent DEF SendMessage
  <2> QED
    BY <1>1, <1>2, <1>9, <2>2 DEF SendMessage, KeepsCalm, LibState
<1>10. CASE NotifyDisconnect(u)
  <2>1. app'[u].pc = app[u].pc
    BY <1>10, NotifyTyped DEF NotifyDisconnect, NetTypes
  <2> QED
    BY <1>1, <1>2, <1>10, <2>1 DEF NotifyDisconnect, KeepsCalm, LibState, wireVars
<1>11. CASE FinderLeaves(u)
  BY <1>1, <1>2, <1>11 DEF FinderLeaves, KeepsCalm, LibState, wireVars
<1>12. CASE ReceiveBssid(u)
  <2>1. app'[u].pc = app[u].pc
    BY <1>12, NotifyTyped DEF ReceiveBssid, NetTypes
  <2> QED
    BY <1>1, <1>2, <1>12, <2>1 DEF ReceiveBssid, Receive, KeepsCalm, LibState
<1>13. CASE ReceiveChat(u)
  BY <1>1, <1>2, <1>13 DEF ReceiveChat, Receive, KeepsCalm, clientVars
<1>14. CASE ReceiveConnect(u)
  BY <1>1, <1>2, <1>14 DEF ReceiveConnect, Receive, KeepsCalm, LibState
<1>15. CASE ReceiveDisconnect(u)
  BY <1>1, <1>2, <1>15 DEF ReceiveDisconnect, Receive, KeepsCalm, LibState
<1>16. CASE ReceiveScan(u)
  BY <1>1, <1>2, <1>16 DEF ReceiveScan, Receive, KeepsCalm, LibState
<1>17. CASE ReceiveScanComplete(u)
  <2>1. app'[u].pc = app[u].pc
    BY <1>17, NotifyTyped DEF ReceiveScanComplete, NetTypes
  <2> QED
    BY <1>1, <1>2, <1>17, <2>1 DEF ReceiveScanComplete, Receive, KeepsCalm, LibState
<1>18. ~DiscStep(u) /\ ~DisconnectReturns(u) /\ ~MayCall(u, "Disconnect")
  BY <1>2 DEF DiscStep, DiscStarts, DiscSends, DiscEnds, DisconnectReturns, MayCall
<1> QED
  BY <1>3, <1>4, <1>5, <1>6, <1>7, <1>8, <1>9, <1>10, <1>11, <1>12, <1>13, <1>14, <1>15, <1>16, <1>17,
     <1>18 DEF ClientStep, GameStep, PlayerStep, FinderStep

(* The peer list changes with the packets that are about peers.            *)
LEMMA ListStep ==
    ASSUME NetTypes, NEW u \in Users, Remains(u), ClientStep(u), ~TermReturns(u), ~PowerOff(u)
    PROVE  \/ InitLibrary(u) /\ lib'[u].friends = lib[u].friends
           \/ s2c' = s2c /\ lib'[u].friends = lib[u].friends
           \/ /\ lib'[u].friends = lib[u].friends
              /\ \E op \in {"CONNECT_BSSID", "CHAT", "SCAN", "SCAN_COMPLETE"} : Receive(u, op)
           \/ ReceiveConnect(u) \/ ReceiveDisconnect(u)
<1>1. lib[u] \in LibState /\ lib \in [Users -> LibState]
  BY DEF NetTypes, ClientTypeOK
<1>2. CASE InitLibrary(u)
  BY <1>1, <1>2 DEF InitLibrary, LibState
<1>3. CASE (\E name \in Names : CreateCalled(u, name)) \/ DisconnectCalled(u) \/ DisconnectReturns(u)
           \/ TermCalled(u)
  BY <1>1, <1>3 DEF CreateCalled, DisconnectCalled, DisconnectReturns, TermCalled, LibState, wireVars
<1>4. CASE CreateSends(u) \/ Scan(u)
  BY <1>1, <1>4 DEF CreateSends, Scan, LibState
<1>5. CASE TypeMessage(u)
  BY <1>1, <1>5 DEF TypeMessage, LibState, wireVars
<1>6. CASE PopMessage(u) \/ SendMessage(u) \/ NotifyDisconnect(u) \/ FinderLeaves(u)
  BY <1>1, <1>6 DEF PopMessage, SendMessage, NotifyDisconnect, FinderLeaves, LibState, wireVars
<1>7. CASE ReceiveBssid(u) \/ ReceiveChat(u)
  BY <1>1, <1>7 DEF ReceiveBssid, ReceiveChat, LibState, clientVars
<1>8. CASE ReceiveScan(u) \/ ReceiveScanComplete(u)
  BY <1>1, <1>8 DEF ReceiveScan, ReceiveScanComplete, LibState
<1>9. ~DiscStep(u)
  BY DEF Remains, DiscStep, DiscStarts, DiscSends, DiscEnds
<1> QED
  BY <1>2, <1>3, <1>4, <1>5, <1>6, <1>7, <1>8, <1>9 DEF ClientStep, GameStep, PlayerStep, FinderStep

(* A packet of the server is read; it may change the peer list.            *)
LEMMA ReadInformed ==
    ASSUME NetTypes, NEW u \in Users, Informed(u), Friendly(u), s2c[u] # <<>>, s2c'[u] = Tail(s2c[u]), group' = group,
           \A ip \in Ips :
              /\ Meets(Head(s2c[u]), ip) => FriendsAt(u, ip)' = FriendsAt(u, ip) \cup {Met(Head(s2c[u]))}
              /\ Parts(Head(s2c[u]), ip) =>
                    \/ FriendsAt(u, ip)' = {} /\ FriendsAt(u, ip) = {}
                    \/ \E x \in FriendsAt(u, ip) : FriendsAt(u, ip)' = FriendsAt(u, ip) \ {x}
              /\ ~Meets(Head(s2c[u]), ip) /\ ~Parts(Head(s2c[u]), ip) => FriendsAt(u, ip)' = FriendsAt(u, ip)
    PROVE  Informed(u)'
<1>1. s2c[u] \in Seq(S2C)
  BY LibraryIs
<1> SUFFICES ASSUME NEW ip \in Ips
             PROVE  Tells(FriendsAt(u, ip)', Tail(s2c[u]), DevicesOf(MatesAt(u, ip)), Cardinality(MatesAt(u, ip)), ip)
  BY MatesElsewhere DEF Informed, DevicesOf, DeviceOf
<1> DEFINE K == FriendsAt(u, ip)
           L == FriendsAt(u, ip)'
           s == s2c[u]
           P == DevicesOf(MatesAt(u, ip))
           m == Cardinality(MatesAt(u, ip))
<1>2. Tells(K, s, P, m, ip) /\ m \in Nat /\ IsFiniteSet(K)
  BY MatesCount, FriendsCount DEF Informed, Friendly
<1>3. /\ Meets(Head(s), ip) => L = K \cup {Met(Head(s))}
      /\ Parts(Head(s), ip) => (L = {} /\ K = {}) \/ \E x \in K : L = K \ {x}
      /\ ~Meets(Head(s), ip) /\ ~Parts(Head(s), ip) => L = K
      /\ s \in Seq(S2C) /\ s # <<>>
  BY <1>1
<1> HIDE DEF K, L, P, m, s
<1>4. Tells(L, Tail(s), P, m, ip)
  BY <1>2, <1>3, TailTells
<1> QED
  BY <1>4 DEF K, L, P, m, s

LEMMA DeviceOfPacket ==
    ASSUME NEW p \in S2C, p.op = "CONNECT"
    PROVE  \E v \in Users : p = ConnectS2C(v) /\ [mac |-> p.mac, ip |-> p.ip] = DeviceOf(v) /\ Met(p) = DeviceOf(v)
  BY DEF S2C, ConnectS2C, DisconnectS2C, ScanS2C, BssidS2C, ScanCompleteS2C, ChatS2C, DeviceOf, Met

LEMMA ConnectReads ==
    ASSUME OneAddress, NetTypes, NEW u \in Users, Friendly(u), ReceiveConnect(u), group' = group
    PROVE  Friendly(u)' /\ (Informed(u) => Informed(u)')
<1> DEFINE p == Head(s2c[u])
           F == lib[u].friends
           G == lib'[u].friends
<1>1. /\ s2c[u] \in Seq(S2C) /\ s2c[u] # <<>> /\ p \in S2C /\ p.op = "CONNECT" /\ s2c'[u] = Tail(s2c[u])
      /\ lib[u] \in LibState /\ lib \in [Users -> LibState]
  BY ReceiveTyped, LibraryIs DEF ReceiveConnect, Receive, NetTypes, WireTypeOK, ClientTypeOK
<1>2. PICK v \in Users : [mac |-> p.mac, ip |-> p.ip] = DeviceOf(v) /\ Met(p) = DeviceOf(v) /\ p = ConnectS2C(v)
  BY <1>1, DeviceOfPacket
<1>3. G = AddFriend(F, DeviceOf(v))
  BY <1>1, <1>2 DEF ReceiveConnect, LibState
<1>4. F \in Seq(DevicesOf(Users)) /\ IsInjective(F)
  BY DEF Friendly
<1>5. G \in Seq(DevicesOf(Users)) /\ IsInjective(G) /\ ToSet(G) = ToSet(F) \cup {DeviceOf(v)}
  <2> HIDE DEF F, G
  <2> QED
    BY <1>3, <1>4, AddFriendExact
<1>6. Friendly(u)'
  BY <1>5 DEF Friendly, DevicesOf, DeviceOf
<1>7. ASSUME NEW ip \in Ips
      PROVE  /\ Meets(p, ip) => FriendsAt(u, ip)' = FriendsAt(u, ip) \cup {Met(p)}
             /\ ~Parts(p, ip)
             /\ ~Meets(p, ip) => FriendsAt(u, ip)' = FriendsAt(u, ip)
  <2>1. DeviceOf(v).ip = IpOf[v] /\ (Meets(p, ip) <=> IpOf[v] = ip) /\ ~Parts(p, ip)
    BY <1>2 DEF DeviceOf, ConnectS2C, Meets, Parts
  <2>2. FriendsAt(u, ip)' = {f \in ToSet(G) : f.ip = ip} /\ FriendsAt(u, ip) = {f \in ToSet(F) : f.ip = ip}
    BY DEF FriendsAt
  <2> HIDE DEF F, G, p
  <2> QED
    BY <1>2, <1>5, <2>1, <2>2
<1> HIDE DEF G
<1>8. Informed(u) => Informed(u)'
  BY <1>1, <1>7, ReadInformed
<1> QED
  BY <1>6, <1>8

LEMMA DisconnectReads ==
    ASSUME NetTypes, NEW u \in Users, Friendly(u), ReceiveDisconnect(u), group' = group
    PROVE  Friendly(u)' /\ (Informed(u) => Informed(u)')
<1> DEFINE p == Head(s2c[u])
           F == lib[u].friends
           G == lib'[u].friends
<1>1. /\ s2c[u] \in Seq(S2C) /\ s2c[u] # <<>> /\ p \in S2C /\ p.op = "DISCONNECT" /\ s2c'[u] = Tail(s2c[u])
      /\ lib[u] \in LibState /\ lib \in [Users -> LibState]
  BY ReceiveTyped, LibraryIs DEF ReceiveDisconnect, Receive, NetTypes, WireTypeOK, ClientTypeOK
<1>2. G = DeleteFriendByIP(F, p.ip)
  BY <1>1 DEF ReceiveDisconnect, LibState
<1>3. F \in Seq(DevicesOf(Users)) /\ IsInjective(F)
  BY DEF Friendly
<1>4. /\ G \in Seq(DevicesOf(Users)) /\ IsInjective(G)
      /\ \/ G = F /\ \A x \in ToSet(F) : x.ip # p.ip
         \/ \E x \in ToSet(F) : x.ip = p.ip /\ ToSet(G) = ToSet(F) \ {x}
  <2> DEFINE D == DevicesOf(Users)
             ip == p.ip
  <2> HIDE DEF F, G, D, ip
  <2>1. F \in Seq(D) /\ IsInjective(F) /\ G = DeleteFriendByIP(F, ip)
    BY <1>2, <1>3 DEF D, ip
  <2>2. /\ G \in Seq(D) /\ IsInjective(G)
        /\ \/ G = F /\ \A x \in ToSet(F) : x.ip # ip
           \/ \E x \in ToSet(F) : x.ip = ip /\ ToSet(G) = ToSet(F) \ {x}
    BY <2>1, DeleteFriendExact
  <2> QED
    BY <2>2 DEF D, ip
<1>5. Friendly(u)'
  BY <1>4 DEF Friendly, DevicesOf, DeviceOf
<1>6. ASSUME NEW ip \in Ips
      PROVE  /\ ~Meets(p, ip)
             /\ Parts(p, ip) => \/ FriendsAt(u, ip)' = {} /\ FriendsAt(u, ip) = {}
                                \/ \E x \in FriendsAt(u, ip) : FriendsAt(u, ip)' = FriendsAt(u, ip) \ {x}
             /\ ~Parts(p, ip) => FriendsAt(u, ip)' = FriendsAt(u, ip)
  <2>1. ~Meets(p, ip) /\ (Parts(p, ip) <=> p.ip = ip)
    BY <1>1 DEF Meets, Parts
  <2>2. FriendsAt(u, ip)' = {f \in ToSet(G) : f.ip = ip} /\ FriendsAt(u, ip) = {f \in ToSet(F) : f.ip = ip}
    BY DEF FriendsAt
  <2> HIDE DEF F, G, p
  <2>3. CASE G = F /\ \A x \in ToSet(F) : x.ip # p.ip
    BY <2>1, <2>2, <2>3
  <2>4. ASSUME NEW x \in ToSet(F), x.ip = p.ip, ToSet(G) = ToSet(F) \ {x}
        PROVE  /\ p.ip = ip => x \in FriendsAt(u, ip) /\ FriendsAt(u, ip)' = FriendsAt(u, ip) \ {x}
               /\ p.ip # ip => FriendsAt(u, ip)' = FriendsAt(u, ip)
    BY <2>2, <2>4
  <2> QED
    BY <1>4, <2>1, <2>3, <2>4
<1> HIDE DEF G
<1>7. Informed(u) => Informed(u)'
  BY <1>1, <1>6, ReadInformed
<1> QED
  BY <1>5, <1>7

LEMMA OwnStepKeepsPeers ==
    ASSUME NobodyLeaves, OneAddress, Basics, NEW u \in Users, Remains(u), Friendly(u), Up(u) => Informed(u),
           ClientStep(u)
    PROVE  Remains(u)' /\ Friendly(u)' /\ (Up(u)' => Informed(u)')
<1>1. /\ NetTypes /\ IInv /\ group' = group
      /\ lib[u] \in LibState /\ app[u] \in AppState /\ lib \in [Users -> LibState] /\ app \in [Users -> AppState]
  BY ClientActs, LibraryIs DEF Basics, NetTypes, ClientTypeOK, serverVars, dbVars, groupVars
<1>2. /\ lib'[u].friends = lib[u].friends => Friendly(u)'
      /\ lib'[u].friends = lib[u].friends => \A ip : FriendsAt(u, ip)' = FriendsAt(u, ip)
  BY DEF Friendly, DevicesOf, DeviceOf, FriendsAt
<1>3. <<>> \in Seq(DevicesOf(Users)) /\ IsInjective(<<>>)
  BY NothingYet
<1>4. CASE TermReturns(u) \/ PowerOff(u)
  <2>1. lib'[u].friends = <<>> /\ lib'[u].init = 0 /\ lib'[u].discThread = "none" /\ app'[u].pc = "idle"
        /\ c2s' = c2s
    BY <1>1, <1>4 DEF TermReturns, PowerOff, WireClose, FreshLib, FreshApp, LibState, AppState, Remains
  <2>2. Remains(u)'
    BY <2>1 DEF Remains
  <2>3. Friendly(u)'
    BY <1>3, <2>1 DEF Friendly, DevicesOf, DeviceOf
  <2> QED
    BY <2>1, <2>2, <2>3 DEF Up
<1>5. CASE InitLibrary(u)
  <2>1. /\ cliEnd[u] # "open" /\ srvEnd[u] \in {"none", "closed"} /\ cliEnd'[u] = "open"
        /\ c2s'[u] = <<LoginC2S(GameOf[u])>> /\ s2c'[u] = <<>> /\ app'[u].pc = "idle"
        /\ lib'[u].friends = lib[u].friends /\ lib'[u].discThread = lib[u].discThread
    BY <1>1, <1>5 DEF InitLibrary, WireConnect, NetTypes, WireTypeOK, LibState, AppState
  <2>2. lib[u].friends = <<>>
    BY <2>1 DEF Remains
  <2>3. group[u] = NoGroup
    BY <1>1, <2>1, Unserved
  <2>4. ~Sends(<<LoginC2S(GameOf[u])>>, "DISCONNECT")
    BY DEF Sends, LoginC2S
  <2>5. Remains(u)'
    BY <2>1, <2>4 DEF Remains
  <2>6. \A ip : MatesAt(u, ip)' = {} /\ FriendsAt(u, ip)' = {}
    <3>1. ToSet(lib'[u].friends) = {}
      BY <2>1, <2>2, NothingYet
    <3> QED
      BY <1>1, <2>3, <3>1 DEF MatesAt, Mates, FriendsAt
  <2>7. DevicesOf({}) = {} /\ Cardinality({}) = 0
    BY FS_EmptySet DEF DevicesOf
  <2>8. Informed(u)'
    <3> SUFFICES ASSUME NEW ip \in Ips
                 PROVE  Tells(FriendsAt(u, ip)', s2c'[u], DevicesOf(MatesAt(u, ip)'), Cardinality(MatesAt(u, ip)'), ip)
      BY DEF Informed, DevicesOf, DeviceOf
    <3>1. MatesAt(u, ip)' = {} /\ FriendsAt(u, ip)' = {}
      BY <2>6
    <3> QED
      BY <2>1, <2>7, <3>1, NothingTold
  <2> QED
    BY <1>2, <2>1, <2>5, <2>8
<1>6. CASE KeepsCalm(u) /\ ~InitLibrary(u) /\ ~TermReturns(u) /\ ~PowerOff(u)
  <2>1. /\ app'[u].pc # "disconnect" /\ lib'[u].discThread = "none" /\ ~Sends(c2s'[u], "DISCONNECT")
        /\ lib'[u].init = 1 \/ app'[u].pc = "term" => cliEnd'[u] = "open"
        /\ Up(u)' => Up(u)
        /\ UNCHANGED cliEnd
    BY <1>6 DEF KeepsCalm, Remains, Up
  <2>2. lib'[u].friends = lib[u].friends => Remains(u)'
    BY <2>1 DEF Remains
  <2>3. CASE s2c' = s2c /\ lib'[u].friends = lib[u].friends
    <3>1. Informed(u) => Informed(u)'
      BY <1>1, <1>2, <2>3, MatesElsewhere DEF Informed, DevicesOf, DeviceOf
    <3> QED
      BY <1>2, <2>1, <2>2, <2>3, <3>1
  <2>4. ASSUME NEW op \in {"CONNECT_BSSID", "CHAT", "SCAN", "SCAN_COMPLETE"}, Receive(u, op),
               lib'[u].friends = lib[u].friends
        PROVE  Remains(u)' /\ Friendly(u)' /\ (Up(u)' => Informed(u)')
    <3>1. s2c[u] # <<>> /\ s2c'[u] = Tail(s2c[u]) /\ Head(s2c[u]).op = op
      BY <1>1, <2>4 DEF Receive, NetTypes, WireTypeOK
    <3>2. \A ip : ~Meets(Head(s2c[u]), ip) /\ ~Parts(Head(s2c[u]), ip)
      BY <3>1 DEF Meets, Parts
    <3>3. Informed(u) => Informed(u)'
      BY <1>1, <1>2, <2>4, <3>1, <3>2, ReadInformed
    <3> QED
      BY <1>2, <2>1, <2>2, <2>4, <3>3
  <2>5. CASE ReceiveConnect(u) \/ ReceiveDisconnect(u)
    <3>1. cliEnd'[u] = "open"
      BY <2>1, <2>5 DEF ReceiveConnect, ReceiveDisconnect, Receive, FinderRuns, Remains
    <3>2. Remains(u)'
      BY <2>1, <3>1 DEF Remains
    <3>3. Friendly(u)' /\ (Informed(u) => Informed(u)')
      BY <1>1, <2>5, ConnectReads, DisconnectReads
    <3> QED
      BY <2>1, <3>2, <3>3
  <2> QED
    BY <1>1, <1>6, <2>3, <2>4, <2>5, ListStep
<1> QED
  BY <1>1, <1>4, <1>5, <1>6, CalmStep

LEMMA OthersKeepPeers ==
    ASSUME NetTypes, NEW u \in Users, ClientStep(u), NEW v \in Users, v # u,
           Remains(v), Friendly(v), Up(v) => Informed(v)
    PROVE  Remains(v)' /\ Friendly(v)' /\ (Up(v)' => Informed(v)')
<1>1. Undisturbed(v) /\ s2c'[v] = s2c[v] /\ group' = group
  BY ClientActs, ActsLeaveOthers DEF serverVars, dbVars, groupVars
<1>2. lib'[v] = lib[v] /\ app'[v] = app[v] /\ cliEnd'[v] = cliEnd[v] /\ c2s'[v] = c2s[v] /\ srvEnd'[v] = srvEnd[v]
  BY <1>1 DEF Undisturbed
<1>3. Remains(v)' /\ Friendly(v)' /\ (Up(v)' <=> Up(v))
  BY <1>2 DEF Remains, Friendly, Up, DevicesOf, DeviceOf
<1>4. \A ip : MatesAt(v, ip)' = MatesAt(v, ip) /\ FriendsAt(v, ip)' = FriendsAt(v, ip)
  BY <1>1, <1>2 DEF MatesAt, Mates, FriendsAt
<1>5. Informed(v) => Informed(v)'
  BY <1>1, <1>4 DEF Informed, DevicesOf, DeviceOf
<1> QED
  BY <1>3, <1>5

(* A PSP connects once it has no other connection.                         *)
LEMMA ClientKeepsDevices ==
    ASSUME NobodyLeaves, NetTypes, OneDevice, NEW u \in Users, Remains(u), ClientStep(u)
    PROVE  OneDevice'
<1>1. cliEnd \in [Users -> {"none", "open", "closed", "gone"}]
  BY DEF NetTypes, WireTypeOK
<1>2. CASE KeepsCalm(u)
  BY <1>2 DEF KeepsCalm, OneDevice
<1>3. CASE InitLibrary(u) /\ Alone(u)
  <2>1. cliEnd' = [cliEnd EXCEPT ![u] = "open"]
    BY <1>3 DEF InitLibrary, WireConnect
  <2>2. \A v \in Users \ {u} : MacOf[v] = MacOf[u] => cliEnd[v] # "open"
    BY <1>3 DEF Alone
  <2> QED
    BY <1>1, <2>1, <2>2 DEF OneDevice
<1>4. CASE TermReturns(u) \/ PowerOff(u)
  <2>1. \E how \in {"closed", "gone"} : cliEnd' = [cliEnd EXCEPT ![u] = how]
    BY <1>4 DEF TermReturns, PowerOff, WireClose
  <2>2. \A v \in Users : cliEnd'[v] = "open" => cliEnd[v] = "open"
    BY <1>1, <2>1
  <2> QED
    BY <2>2 DEF OneDevice
<1> QED
  BY <1>2, <1>3, <1>4, CalmStep

-----------------------------------------------------------------------------
(* What a visit of the server says to a player, if it says anything.       *)
LEMMA SentInformed ==
    ASSUME NetTypes, NEW v \in Users, Remains(v), Up(v), Informed(v), lib' = lib,
           NEW f \in Seq(S2C), s2c'[v] = IF cliEnd[v] = "open" THEN s2c[v] \o f ELSE s2c[v],
           \A ip \in Ips : \A s \in Seq(S2C) : \A K :
              Tells(K, s, DevicesOf(MatesAt(v, ip)), Cardinality(MatesAt(v, ip)), ip) =>
                 Tells(K, s \o f, DevicesOf(MatesAt(v, ip))', Cardinality(MatesAt(v, ip)'), ip)
    PROVE  Informed(v)'
<1>1. s2c[v] \in Seq(S2C) /\ s2c'[v] = s2c[v] \o f
  BY LibraryIs DEF Remains, Up
<1>2. \A ip : FriendsAt(v, ip)' = FriendsAt(v, ip)
  BY DEF FriendsAt
<1> QED
  BY <1>1, <1>2 DEF Informed

LEMMA QuietInformed ==
    ASSUME NetTypes, NEW v \in Users, Remains(v), Up(v), Informed(v), lib' = lib, group' = group,
           NEW f \in Seq(S2C), s2c'[v] = IF cliEnd[v] = "open" THEN s2c[v] \o f ELSE s2c[v],
           \A ip \in Ips : Quiet(f, ip)
    PROVE  Informed(v)'
<1>1. ASSUME NEW ip \in Ips, NEW s \in Seq(S2C), NEW K,
             Tells(K, s, DevicesOf(MatesAt(v, ip)), Cardinality(MatesAt(v, ip)), ip)
      PROVE  Tells(K, s \o f, DevicesOf(MatesAt(v, ip))', Cardinality(MatesAt(v, ip)'), ip)
  <2>1. MatesAt(v, ip)' = MatesAt(v, ip) /\ Cardinality(MatesAt(v, ip)) \in Nat
        /\ DevicesOf(MatesAt(v, ip))' = DevicesOf(MatesAt(v, ip))
    BY MatesElsewhere, MatesCount DEF DevicesOf, DeviceOf
  <2>2. Tells(K, s \o f, DevicesOf(MatesAt(v, ip)), Cardinality(MatesAt(v, ip)), ip)
    BY <1>1, <2>1, QuietTells
  <2> QED
    BY <2>1, <2>2
<1> QED
  BY <1>1, SentInformed

LEMMA SameInformed ==
    ASSUME NEW v \in Users, Informed(v), lib' = lib, group' = group, s2c'[v] = s2c[v]
    PROVE  Informed(v)'
<1>1. \A ip : MatesAt(v, ip)' = MatesAt(v, ip) /\ FriendsAt(v, ip)' = FriendsAt(v, ip)
  BY DEF MatesAt, Mates, FriendsAt
<1> QED
  BY <1>1 DEF Informed, DevicesOf, DeviceOf

LEMMA LogoutInforms ==
    ASSUME Basics, NEW u \in Users, LogoutUser(u), lib' = lib, NEW v \in Users, Remains(v), Up(v), Informed(v),
           srvEnd'[v] # "closed"
    PROVE  Informed(v)'
<1>1. GroupInv /\ NetTypes
  BY DEF Basics, IInv
<1>2. v # u
  BY DEF LogoutUser, Basics, NetTypes, WireTypeOK
<1>3. CASE group[u] = NoGroup
  BY <1>3, SameInformed DEF LogoutUser, groupVars
<1>4. CASE group[u] # NoGroup
  <2>1. group' = [group EXCEPT ![u] = NoGroup]
        /\ s2c'[v] = IF cliEnd[v] = "open" THEN s2c[v] \o LeavePackets(u, v) ELSE s2c[v]
    BY <1>4 DEF LogoutUser, UnlinkFromGroup, SendTo
  <2>2. LeavePackets(u, v) \in Seq(S2C)
    BY <1>1, <1>4, LeavePacketsTyped
  <2>3. \A ip \in Ips : \A s \in Seq(S2C) : \A K :
           Tells(K, s, DevicesOf(MatesAt(v, ip)), Cardinality(MatesAt(v, ip)), ip) =>
              Tells(K, s \o LeavePackets(u, v), DevicesOf(MatesAt(v, ip))', Cardinality(MatesAt(v, ip)'), ip)
    BY <1>1, <1>2, <1>4, <2>1, LeaveTells
  <2> QED
    BY <1>1, <2>1, <2>2, <2>3, SentInformed
<1> QED
  BY <1>3, <1>4

LEMMA ConnectInforms ==
    ASSUME Basics, NEW u \in Users, ConnectUser(u), ~LogoutUser(u), lib' = lib,
           NEW v \in Users, Remains(v), Up(v), Informed(v)
    PROVE  Informed(v)'
<1> DEFINE k == <<game[u], Head(c2s[u]).group>>
<1>1. GroupInv /\ NetTypes
  BY DEF Basics, IInv
<1>2. /\ game[u] \in Games /\ Head(c2s[u]).group \in Names /\ group[u] = NoGroup
      /\ group' = [group EXCEPT ![u] = k]
      /\ s2c'[v] = IF cliEnd[v] = "open" THEN s2c[v] \o JoinPackets(u, k, v) ELSE s2c[v]
  BY DEF ConnectUser, LoggedIn, SendTo, Basics, IInv, UserInv, UserTypes
<1>3. k \in Groups
  BY <1>2 DEF Groups
<1> HIDE DEF k
<1>4. JoinPackets(u, k, v) \in Seq(S2C)
  BY <1>1, <1>3, JoinPacketsTyped
<1>5. \A ip \in Ips : \A s \in Seq(S2C) : \A K :
         Tells(K, s, DevicesOf(MatesAt(v, ip)), Cardinality(MatesAt(v, ip)), ip) =>
            Tells(K, s \o JoinPackets(u, k, v), DevicesOf(MatesAt(v, ip))', Cardinality(MatesAt(v, ip)'), ip)
  BY <1>1, <1>2, <1>3, JoinTells
<1> QED
  BY <1>1, <1>2, <1>4, <1>5, SentInformed

LEMMA ScanQuiet ==
    ASSUME GroupInv, NEW g \in Games, NEW ip
    PROVE  Quiet(ScanPackets(g), ip)
<1> DEFINE list == groupList[g]
           n == Len(list)
           found == [i \in DOMAIN list |-> ScanS2C(list[i], MacOf[Founder(<<g, list[i]>>)])]
           all == ScanPackets(g)
<1>1. n \in Nat /\ DOMAIN list = 1..n
  BY DEF GroupInv, GroupTypes
<1>2. \A i \in DOMAIN found : found[i].op = "SCAN"
  BY DEF ScanS2C
<1>3. DOMAIN found = 1..n /\ Len(found) = n
  BY <1>1
<1>4. ScanPackets(g) = found \o <<ScanCompleteS2C>>
  BY DEF ScanPackets
<1> HIDE DEF found, n
<1>5. /\ DOMAIN all = 1..(n + 1) /\ all[n + 1] = ScanCompleteS2C
      /\ \A i \in 1..n : all[i] = found[i]
  BY <1>1, <1>3, <1>4
<1> HIDE DEF all
<1>6. all[n + 1].op = "SCAN_COMPLETE"
  BY <1>1, <1>5 DEF ScanCompleteS2C
<1>7. \A i \in DOMAIN all : all[i].op \in {"SCAN", "SCAN_COMPLETE"}
  BY <1>1, <1>2, <1>3, <1>5, <1>6
<1> QED
  BY <1>7 DEF Quiet, Meets, Parts, all

LEMMA ScanInforms ==
    ASSUME Basics, NEW u \in Users, SendScanResults(u), ~LogoutUser(u), lib' = lib,
           NEW v \in Users, Remains(v), Up(v), Informed(v)
    PROVE  Informed(v)'
<1> DEFINE f == IF v = u THEN ScanPackets(game[u]) ELSE <<>>
<1>1. NetTypes /\ GroupInv
  BY DEF Basics, IInv
<1>2. /\ game[u] \in Games /\ group' = group
      /\ s2c'[v] = IF cliEnd[v] = "open" THEN s2c[v] \o f ELSE s2c[v]
  BY DEF SendScanResults, LoggedIn, SendTo, dbVars, groupVars, Basics, IInv, UserInv, UserTypes
<1>3. ScanPackets(game[u]) \in Seq(S2C) /\ <<>> \in Seq(S2C)
  BY <1>1, <1>2, ScanPacketsTyped
<1>4. \A ip : Quiet(ScanPackets(game[u]), ip)
  BY <1>1, <1>2, ScanQuiet
<1>5. \A ip : Quiet(<<>>, ip)
  BY DEF Quiet
<1>6. f \in Seq(S2C) /\ \A ip : Quiet(f, ip)
  BY <1>3, <1>4, <1>5
<1> HIDE DEF f
<1> QED
  BY <1>1, <1>2, <1>6, QuietInformed

LEMMA ChatInforms ==
    ASSUME Basics, NEW u \in Users, SpreadMessage(u), ~LogoutUser(u), lib' = lib,
           NEW v \in Users, Remains(v), Up(v), Informed(v)
    PROVE  Informed(v)'
<1> DEFINE f == IF v # u /\ Contains(player[group[u]], v) THEN <<ChatS2C>> ELSE <<>>
<1>1. NetTypes
  BY DEF Basics
<1>2. /\ group' = group
      /\ s2c'[v] = IF cliEnd[v] = "open" THEN s2c[v] \o f ELSE s2c[v]
  BY DEF SpreadMessage, SendTo, dbVars, groupVars
<1>3. ChatS2C \in S2C /\ \A ip : ~Meets(ChatS2C, ip) /\ ~Parts(ChatS2C, ip)
  BY DEF S2C, ChatS2C, Meets, Parts
<1> DEFINE one == <<ChatS2C>>
<1>4. one \in Seq(S2C) /\ <<>> \in Seq(S2C) /\ (\A ip : Quiet(one, ip)) /\ \A ip : Quiet(<<>>, ip)
  BY <1>3 DEF Quiet
<1>5. f \in Seq(S2C) /\ \A ip : Quiet(f, ip)
  <2>1. f = one \/ f = <<>>
    OBVIOUS
  <2> HIDE DEF f, one
  <2> QED
    BY <1>4, <2>1
<1> HIDE DEF f
<1> QED
  BY <1>1, <1>2, <1>5, QuietInformed

LEMMA VisitInforms ==
    ASSUME Basics, NEW u \in Users, Remains(u), ServerVisit(u), UNCHANGED clientVars,
           NEW v \in Users, Remains(v), Up(v), Informed(v), srvEnd'[v] # "closed"
    PROVE  Informed(v)'
<1>1. lib' = lib
  BY DEF clientVars
<1>2. CASE LogoutUser(u)
  BY <1>1, <1>2, LogoutInforms
<1>3. CASE LoginUserStream(u)
  BY <1>1, <1>3, SameInformed DEF LoginUserStream, groupVars
<1>4. CASE (LoginUserData(u) \/ PingUser(u)) /\ ~LogoutUser(u)
  BY <1>1, <1>4, SameInformed DEF LoginUserData, PingUser, dbVars, groupVars
<1>5. CASE ConnectUser(u) /\ ~LogoutUser(u)
  BY <1>1, <1>5, ConnectInforms
<1>6. CASE SendScanResults(u) /\ ~LogoutUser(u)
  BY <1>1, <1>6, ScanInforms
<1>7. CASE SpreadMessage(u) /\ ~LogoutUser(u)
  BY <1>1, <1>7, ChatInforms
<1>8. ~DisconnectUser(u)
  <2> SUFFICES ASSUME DisconnectUser(u) PROVE FALSE
    OBVIOUS
  <2>1. c2s[u] \in Seq(C2S) /\ c2s[u] # <<>> /\ Head(c2s[u]).op = "DISCONNECT"
    BY LibraryIs DEF DisconnectUser, Handle, Basics
  <2>2. Head(c2s[u]) = c2s[u][1] /\ 1 \in DOMAIN c2s[u]
    BY <2>1, TailPlaces
  <2> QED
    BY <2>1, <2>2 DEF Remains, Sends
<1>9. HangUp(u) \/ TimeOut(u) \/ InvalidOpcode(u) => LogoutUser(u)
  BY DEF HangUp, TimeOut, InvalidOpcode
<1> QED
  BY <1>2, <1>3, <1>4, <1>5, <1>6, <1>7, <1>8, <1>9 DEF ServerVisit, ServeUser

LEMMA VisitKeepsPeers ==
    ASSUME Basics, NEW u \in Users, Remains(u), ServerVisit(u), UNCHANGED clientVars,
           NEW v \in Users, Remains(v), Friendly(v), Up(v) => Informed(v)
    PROVE  Remains(v)' /\ Friendly(v)' /\ (Up(v)' => Informed(v)')
<1>1. lib' = lib /\ app' = app
  BY DEF clientVars
<1>2. cliEnd' = cliEnd
  BY DEF ServerVisit, LoginUserStream, HangUp, TimeOut, ServeUser, LoginUserData, PingUser,
     ConnectUser, DisconnectUser, SendScanResults, SpreadMessage, InvalidOpcode, Handle
<1>3. c2s'[v] \in {c2s[v], <<>>} \/ (c2s[v] # <<>> /\ c2s'[v] = Tail(c2s[v]))
  <2>1. c2s \in [Users -> Seq(C2S)]
    BY DEF Basics, NetTypes, WireTypeOK
  <2>2. CASE LogoutUser(u)
    BY <2>1, <2>2 DEF LogoutUser
  <2>3. CASE LoginUserStream(u)
    BY <2>1, <2>3 DEF LoginUserStream
  <2>4. CASE ServeUser(u) /\ ~LogoutUser(u)
    <3>1. Consume(u) /\ c2s[u] # <<>>
      BY <2>4 DEF ServeUser, LoginUserData, PingUser, ConnectUser, DisconnectUser, SendScanResults,
         SpreadMessage, InvalidOpcode, Handle
    <3> QED
      BY <2>1, <3>1 DEF Consume
  <2> QED
    BY <2>2, <2>3, <2>4 DEF ServerVisit, HangUp, TimeOut
<1>4. ~Sends(c2s'[v], "DISCONNECT")
  <2>1. c2s[v] \in Seq(C2S) /\ ~Sends(c2s[v], "DISCONNECT")
    BY LibraryIs DEF Basics, Remains
  <2>2. ~Sends(<<>>, "DISCONNECT")
    BY DEF Sends
  <2>3. c2s[v] # <<>> => ~Sends(Tail(c2s[v]), "DISCONNECT")
    BY <2>1, TailSends
  <2> QED
    BY <1>3, <2>1, <2>2, <2>3
<1>5. Remains(v)' /\ Friendly(v)'
  BY <1>1, <1>2, <1>4 DEF Remains, Friendly, DevicesOf, DeviceOf
<1>6. ASSUME Up(v)' PROVE Informed(v)'
  <2>1. srvEnd'[v] # "closed" /\ lib[v].init = 1
    BY <1>1, <1>6 DEF Up
  <2>2. srvEnd[v] # "closed"
    <3>1. srvEnd \in [Users -> {"none", "backlog", "open", "closed"}]
      BY DEF Basics, NetTypes, WireTypeOK
    <3>2. srvEnd[v] = "closed" => v # u
      <4>1. u \in dbUser => srvEnd[u] = "open"
        BY DEF Basics, IInv, UserInv, SocketsOwned
      <4> QED
        BY <4>1 DEF ServerVisit, LoginUserStream, HangUp, TimeOut, ServeUser, LoginUserData, PingUser,
           ConnectUser, DisconnectUser, SendScanResults, SpreadMessage, InvalidOpcode, Handle
    <3>3. v # u => srvEnd'[v] = srvEnd[v]
      BY EndsElsewhere DEF Basics
    <3> QED
      BY <2>1, <3>2, <3>3
  <2> QED
    BY <2>1, <2>2, VisitInforms DEF Up
<1> QED
  BY <1>5, <1>6

LEMMA InitPeers == Init => PeerInv
<1> SUFFICES ASSUME Init PROVE PeerInv
  OBVIOUS
<1>1. Basics
  BY InitBasics
<1>2. \A u \in Users : /\ lib[u] = FreshLib /\ app[u] = FreshApp /\ c2s[u] = <<>> /\ cliEnd[u] = "none"
  BY DEF Init, ClientInit, WireInit
<1>3. OneDevice
  BY <1>2 DEF OneDevice
<1>4. ~Sends(<<>>, "DISCONNECT") /\ <<>> \in Seq(DevicesOf(Users)) /\ IsInjective(<<>>)
  BY NothingYet DEF Sends
<1>5. /\ FreshLib.init = 0 /\ FreshLib.discThread = "none" /\ FreshLib.friends = <<>>
      /\ FreshApp.pc = "idle"
  BY DEF FreshLib, FreshApp
<1>6. ASSUME NEW u \in Users PROVE Remains(u) /\ Friendly(u) /\ ~Up(u)
  <2>1. /\ app[u].pc = "idle" /\ lib[u].init = 0 /\ lib[u].discThread = "none"
        /\ lib[u].friends = <<>> /\ c2s[u] = <<>>
    BY <1>2, <1>5
  <2>2. Remains(u)
    BY <1>4, <2>1 DEF Remains
  <2>3. Friendly(u)
    BY <1>4, <2>1 DEF Friendly
  <2> QED
    BY <2>1, <2>2, <2>3 DEF Up
<1> QED
  BY <1>1, <1>3, <1>6 DEF PeerInv

LEMMA StepPeers ==
    ASSUME NobodyLeaves, OneAddress, PeerInv, [Next]_vars
    PROVE  PeerInv'
<1> DEFINE Fine(v) == Remains(v) /\ Friendly(v) /\ (Up(v) => Informed(v))
<1>1. Basics /\ NetTypes /\ OneDevice /\ \A v \in Users : Fine(v)
  BY DEF PeerInv, Basics
<1>2. Basics'
  BY <1>1, NextKeepsBasics
<1>3. UNCHANGED cliEnd => OneDevice'
  BY <1>1 DEF OneDevice
<1>4. ASSUME NEW u \in Users, ClientStep(u) PROVE OneDevice' /\ \A v \in Users : Fine(v)'
  <2>1. OneDevice'
    BY <1>1, <1>4, ClientKeepsDevices
  <2>2. Fine(u)'
    BY <1>1, <1>4, OwnStepKeepsPeers
  <2>3. ASSUME NEW v \in Users, v # u PROVE Fine(v)'
    BY <1>1, <1>4, <2>3, OthersKeepPeers
  <2> HIDE DEF Fine
  <2> QED
    BY <2>1, <2>2, <2>3
<1>5. ASSUME NEW u \in Users, ServerVisit(u), UNCHANGED clientVars PROVE OneDevice' /\ \A v \in Users : Fine(v)'
  <2>1. cliEnd' = cliEnd
    BY <1>5 DEF ServerVisit, LoginUserStream, HangUp, TimeOut, ServeUser, LoginUserData, PingUser,
       ConnectUser, DisconnectUser, SendScanResults, SpreadMessage, InvalidOpcode, Handle
  <2>2. ASSUME NEW v \in Users PROVE Fine(v)'
    BY <1>1, <1>5, VisitKeepsPeers
  <2> HIDE DEF Fine
  <2> QED
    BY <1>3, <2>1, <2>2
<1>6. ASSUME UNCHANGED <<lib, app, c2s, s2c, cliEnd, srvEnd, group>>
      PROVE  OneDevice' /\ \A v \in Users : Fine(v)'
  <2>1. ASSUME NEW v \in Users PROVE Fine(v)'
    <3>1. Remains(v)' /\ Friendly(v)' /\ (Up(v)' <=> Up(v))
      BY <1>1, <1>6 DEF Remains, Friendly, Up, DevicesOf, DeviceOf
    <3>2. Informed(v) => Informed(v)'
      BY <1>6, SameInformed
    <3> QED
      BY <1>1, <3>1, <3>2
  <2> HIDE DEF Fine
  <2> QED
    BY <1>3, <1>6, <2>1
<1>7. StartLoop /\ UNCHANGED clientVars => UNCHANGED <<lib, app, c2s, s2c, cliEnd, srvEnd, group>>
  BY DEF StartLoop, dbVars, groupVars, wireVars, clientVars
<1>8. UNCHANGED vars => UNCHANGED <<lib, app, c2s, s2c, cliEnd, srvEnd, group>>
  BY DEF vars, serverVars, dbVars, groupVars, wireVars, clientVars
<1>9. OneDevice' /\ \A v \in Users : Fine(v)'
  <2> HIDE DEF Fine
  <2> QED
    BY <1>4, <1>5, <1>6, <1>7, <1>8 DEF Next, ServerStep
<1> QED
  BY <1>2, <1>9 DEF PeerInv

(* Queues and peer lists together name the others of a player's group,     *)
(* once each, as long as nobody leaves by Disconnect and no device comes   *)
(* back with another address.  Code: connect_user, disconnect_user and     *)
(* reconnect_players_with_ip against _addFriend and _deleteFriendByIP.     *)
THEOREM PeerInvariant == ASSUME NobodyLeaves, OneAddress PROVE Spec => []PeerInv
<1>1. Init => PeerInv
  BY InitPeers
<1>2. PeerInv /\ [Next]_vars => PeerInv'
  BY StepPeers
<1> QED
  BY <1>1, <1>2, PTL DEF Spec

LEMMA SettledPeers ==
    ASSUME PeerInv, Settled, NEW u \in Users, Online(u)
    PROVE  /\ {peer.mac : peer \in ToSet(lib[u].friends)} = {MacOf[v] : v \in Mates(u)}
           /\ Len(lib[u].friends) = Cardinality(Mates(u))
<1> DEFINE F == lib[u].friends
           M == Mates(u)
<1>1. Basics /\ OneDevice /\ Friendly(u) /\ Informed(u) /\ s2c[u] = <<>>
  BY DEF PeerInv, Settled, Online, Up
<1>2. F \in Seq(DevicesOf(Users)) /\ IsInjective(F)
  BY <1>1 DEF Friendly
<1>3. \A ip \in Ips : FriendsAt(u, ip) = DevicesOf(MatesAt(u, ip))
  <2> SUFFICES ASSUME NEW ip \in Ips PROVE FriendsAt(u, ip) = DevicesOf(MatesAt(u, ip))
    OBVIOUS
  <2>1. Tells(FriendsAt(u, ip), <<>>, DevicesOf(MatesAt(u, ip)), Cardinality(MatesAt(u, ip)), ip)
    BY <1>1 DEF Informed
  <2> QED
    BY <2>1, NothingTold
<1>4. \A f \in ToSet(F) : \E v \in Users : f = DeviceOf(v)
  <2>1. ToSet(F) \subseteq DevicesOf(Users)
    BY <1>2, EmptyIffNoElement
  <2> QED
    BY <2>1 DEF DevicesOf
<1>5. \A v \in Users : DeviceOf(v).ip = IpOf[v] /\ DeviceOf(v).mac = MacOf[v] /\ IpOf[v] \in Ips
  BY WireAssumption DEF DeviceOf
<1>6. ToSet(F) = DevicesOf(M)
  <2>1. ASSUME NEW f \in ToSet(F) PROVE f \in DevicesOf(M)
    <3>1. f.ip \in Ips /\ f \in FriendsAt(u, f.ip)
      BY <1>4, <1>5 DEF FriendsAt
    <3>2. f \in DevicesOf(MatesAt(u, f.ip))
      BY <1>3, <3>1
    <3> QED
      BY <3>2 DEF DevicesOf, MatesAt
  <2>2. ASSUME NEW v \in M PROVE DeviceOf(v) \in ToSet(F)
    <3>1. v \in Users /\ v \in MatesAt(u, IpOf[v]) /\ IpOf[v] \in Ips
      BY <1>5 DEF MatesAt, Mates
    <3>2. DeviceOf(v) \in FriendsAt(u, IpOf[v])
      BY <1>3, <3>1 DEF DevicesOf
    <3> QED
      BY <3>2 DEF FriendsAt
  <2> HIDE DEF F, M
  <2> QED
    BY <2>1, <2>2 DEF DevicesOf
<1>7. \A v \in M : v \in Users /\ cliEnd[v] = "open"
  <2>1. \A v \in M : v \in Users /\ group[v] # NoGroup
    BY DEF Mates
  <2>2. \A v \in M : srvEnd[v] = "open"
    BY <1>1, <2>1, Unserved DEF Basics
  <2> QED
    BY <2>1, <2>2 DEF Settled
<1>8. \A v, w \in M : DeviceOf(v) = DeviceOf(w) => v = w
  BY <1>1, <1>5, <1>7 DEF OneDevice
<1>9. IsFiniteSet(M) /\ Cardinality(M) \in Nat
  BY ServerAssumption, FS_Subset, FS_CardinalityType DEF Mates
<1>10. {peer.mac : peer \in ToSet(F)} = {MacOf[v] : v \in M}
  <2>1. \A f \in ToSet(F) : \E v \in M : f.mac = MacOf[v]
    BY <1>5, <1>6, <1>7 DEF DevicesOf
  <2>2. \A v \in M : \E f \in ToSet(F) : f.mac = MacOf[v]
    BY <1>5, <1>6, <1>7 DEF DevicesOf
  <2> HIDE DEF F, M
  <2> QED
    BY <2>1, <2>2
<1>11. Len(F) = Cardinality(M)
  <2> DEFINE D == DOMAIN F
             T == DevicesOf(M)
             g == [v \in M |-> DeviceOf(v)]
             h == [i \in D |-> F[i]]
  <2>1. D = 1..Len(F) /\ Len(F) \in Nat
    BY <1>2
  <2>2. IsFiniteSet(D) /\ Cardinality(D) = Len(F)
    BY <2>1, FS_Interval
  <2>3. g \in [M -> T] /\ (\A v, w \in M : g[v] = g[w] => v = w) /\ \A t \in T : \E v \in M : g[v] = t
    BY <1>8 DEF DevicesOf
  <2>4. h \in [D -> T] /\ (\A i, j \in D : h[i] = h[j] => i = j) /\ \A t \in T : \E i \in D : h[i] = t
    <3>1. \A i \in D : F[i] \in T
      BY <1>6 DEF ToSet
    <3>2. \A t \in T : \E i \in D : F[i] = t
      BY <1>6 DEF ToSet
    <3>3. \A i, j \in D : F[i] = F[j] => i = j
      BY <1>2 DEF IsInjective
    <3> HIDE DEF F, M, T, D
    <3> QED
      BY <3>1, <3>2, <3>3
  <2> HIDE DEF F, M, D, T, g, h
  <2>5. g \in Injection(M, T) /\ g \in Surjection(M, T)
    BY <2>3, Fun_IsInj, Fun_IsSurj
  <2>6. h \in Injection(D, T) /\ h \in Surjection(D, T)
    BY <2>4, Fun_IsInj, Fun_IsSurj
  <2>7. Cardinality(T) = Cardinality(M)
    BY <1>9, <2>5, FS_Surjection
  <2>8. Cardinality(T) = Cardinality(D)
    BY <2>2, <2>6, FS_Surjection
  <2> QED
    BY <2>2, <2>7, <2>8
<1> QED
  BY <1>10, <1>11

(* Once all is settled, a player's peer list names exactly the others of   *)
(* his group, for any number of players, devices behind one address, and   *)
(* PSPs that were switched off and came back.  Code: as above.             *)
THEOREM PeersAreExact == ASSUME NobodyLeaves, OneAddress PROVE Spec => []PeerListsExact
<1>1. PeerInv => PeerListsExact
  <2> SUFFICES ASSUME PeerInv, Settled, NEW u \in Users, Online(u)
               PROVE  LET peers == {v \in Users \ {u} : group[v] = group[u] /\ group[v] # NoGroup}
                      IN  /\ {peer.mac : peer \in ToSet(lib[u].friends)} = {MacOf[v] : v \in peers}
                          /\ Len(lib[u].friends) = Cardinality(peers)
    BY DEF PeerListsExact
  <2>1. {v \in Users \ {u} : group[v] = group[u] /\ group[v] # NoGroup} = Mates(u)
    BY DEF Mates
  <2> QED
    BY <2>1, SettledPeers
<1> QED
  BY <1>1, PeerInvariant, PTL
=============================================================================
