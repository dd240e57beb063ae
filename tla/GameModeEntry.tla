--------------------------- MODULE GameModeEntry ---------------------------
(***************************************************************************)
(* Game mode (pspnet_adhocctl, calls/gamemode): a host creates a group for *)
(* a number of players, the others search for it and join, and everyone's  *)
(* friend finder collects the members' MAC addresses until it can tell the *)
(* game that game mode has begun.  Library and server are those of         *)
(* AdhocctlNet; everyone has logged in before the first step.              *)
(*                                                                         *)
(* gm[u] holds the game mode globals of u's library.  A game enters game   *)
(* mode when it is in no group and makes no other call on the way.         *)
(***************************************************************************)
EXTENDS AdhocctlNet

CONSTANTS Hosts,      \* the players who create; all others join the first of them
          Expected,   \* numbers of members a host may ask for
          MaxMembers  \* ADHOCCTL_GAMEMODE_MAX_MEMBERS

ASSUME EntryAssumption ==
    /\ Hosts \subseteq Users /\ Hosts # {}
    /\ MaxMembers \in Nat /\ Expected \subseteq 1..MaxMembers

VARIABLES gm,    \* the game mode globals
          quits  \* has anyone left a group?

entryVars == <<vars, gm, quits>>

GameModeState ==
    [in : {0, -1, 1},         \* _in_gamemode
     expected : 0..MaxMembers, \* _num_gamemode_peers
     members : Seq(Macs),     \* _actual_gamemode_peers
     host : Macs,             \* _gamemode_host
     selfArrived : BOOLEAN,   \* _gamemode_self_arrived
     hostArrived : BOOLEAN,   \* _gamemode_host_arrived
     stamped : BOOLEAN,       \* _gamemode_join_timestamp # 0
     at : {"idle", "search", "scanning", "create", "stamp", "wait"},  \* the game's thread
     told : {"nothing", "waiting", "begun", "timeout"}]  \* what has become of the last entry

(* Zeros are the host of nobody; the own address stands for them.          *)
FreshGameMode(u) ==
    [in |-> 0, expected |-> 0, members |-> <<>>, host |-> MacOf[u], selfArrived |-> FALSE,
     hostArrived |-> FALSE, stamped |-> FALSE, at |-> "idle", told |-> "nothing"]

LoggedInToServer ==
    /\ running = 1 /\ loop = "serve"
    /\ dbUser = Users /\ userCount = Cardinality(Users) /\ userCount <= MaxUsers
    /\ game = GameOf /\ group = [u \in Users |-> NoGroup]
    /\ dbGame = {GameOf[u] : u \in Users}
    /\ gamePlayers = [g \in Games |-> Cardinality({u \in Users : GameOf[u] = g})]
    /\ groupCount = [g \in Games |-> 0] /\ groupList = [g \in Games |-> <<>>]
    /\ groupPlayers = [k \in Groups |-> 0] /\ player = [k \in Groups |-> <<>>]
    /\ c2s = [u \in Users |-> <<>>] /\ s2c = [u \in Users |-> <<>>]
    /\ cliEnd = [u \in Users |-> "open"] /\ srvEnd = [u \in Users |-> "open"]

EntryInit ==
    /\ LoggedInToServer
    /\ lib = [u \in Users |-> [FreshLib EXCEPT !.init = 1]]
    /\ app = [u \in Users |-> FreshApp]
    /\ gm = [u \in Users |-> FreshGameMode(u)]
    /\ quits = FALSE

-----------------------------------------------------------------------------
(* The game's thread.                                                      *)

(* A patient game makes no call while its entry is on the way to the group.*)
Outside(u) ==
    /\ app[u].pc = "idle" /\ gm[u].at = "idle" /\ Uncongested(u)
    /\ Patient => gm[u].told # "waiting" \/ lib[u].status = "CONNECTED"

(* What both calls make of the globals before they look for the group.     *)
Entering(u, host, number, members, next) ==
    [in |-> -1, expected |-> number, members |-> members, host |-> host, selfArrived |-> FALSE,
     hostArrived |-> FALSE, stamped |-> FALSE, at |-> next, told |-> "waiting"]

CreateEnterGameMode(u, name, number) ==
    /\ Outside(u) /\ u \in Hosts
    /\ CreateCalled(u, name)
    /\ gm' = [gm EXCEPT ![u] = Entering(u, MacOf[u], number, <<MacOf[u]>>, "create")]
    /\ UNCHANGED quits

JoinEnterGameMode(u, gc) ==
    /\ Outside(u) /\ u \notin Hosts /\ gc \in Hosts
    /\ lib[u].init = 1 /\ lib[u].status = "DISCONNECTED"
    /\ lib' = [lib EXCEPT ![u].networks = <<>>]
    /\ gm' = [gm EXCEPT ![u] = Entering(u, MacOf[gc], 0, <<MacOf[gc], MacOf[u]>>, "search")]
    /\ UNCHANGED <<app, wireVars, quits>>

(* search_and_join scans until the group is found, and after ten seconds   *)
(* joins in any case; Create refuses while a scan is unanswered.           *)
SearchScans(u) ==
    /\ gm[u].at = "search"
    /\ Scan(u)
    /\ gm' = [gm EXCEPT ![u].at = "scanning"]
    /\ UNCHANGED quits

SearchFinds(u, name) ==
    /\ gm[u].at = "scanning"
    /\ \E i \in DOMAIN lib[u].networks : lib[u].networks[i].group = name
    /\ CreateCalled(u, name)
    /\ gm' = [gm EXCEPT ![u].at = "create"]
    /\ UNCHANGED quits

SearchGoesOn(u, name) ==
    /\ gm[u].at = "scanning" /\ lib[u].status = "DISCONNECTED"
    /\ \A i \in DOMAIN lib[u].networks : lib[u].networks[i].group # name
    /\ gm' = [gm EXCEPT ![u].at = "search"]
    /\ UNCHANGED <<lib, app, wireVars, quits>>

SearchTimesOut(u, name) ==
    /\ gm[u].at = "scanning"
    /\ IF lib[u].status = "SCANNING"
       THEN /\ gm' = [gm EXCEPT ![u].in = 0, ![u].at = "idle", ![u].told = "nothing"]
            /\ UNCHANGED <<lib, app, wireVars>>
       ELSE CreateCalled(u, name) /\ gm' = [gm EXCEPT ![u].at = "create"]
    /\ UNCHANGED quits

EntrySends(u) ==
    /\ gm[u].at = "create"
    /\ CreateSends(u)
    /\ gm' = [gm EXCEPT ![u].at = "stamp"]
    /\ UNCHANGED quits

EntryStamps(u) ==
    /\ gm[u].at = "stamp"
    /\ gm' = [gm EXCEPT ![u].stamped = TRUE, ![u].at = "wait"]
    /\ UNCHANGED <<lib, app, wireVars, quits>>

(* The game is told, or five seconds have passed. *)
EntryReturns(u) ==
    /\ gm[u].at = "wait"
    /\ gm' = [gm EXCEPT ![u].at = "idle"]
    /\ UNCHANGED <<lib, app, wireVars, quits>>

(* ExitGameMode is Disconnect, which leaves game mode when it returns.     *)
(* Bound: one player, once.                                                *)
ExitGameMode(u) == ~quits /\ Outside(u) /\ DisconnectCalled(u) /\ quits' = TRUE /\ UNCHANGED gm

ExitReturns(u) ==
    /\ DisconnectReturns(u)
    /\ gm' = [gm EXCEPT ![u].in = 0, ![u].expected = 0, ![u].told = "nothing"]
    /\ UNCHANGED quits

GameModePowerOff(u) ==
    /\ ~quits /\ PowerOff(u)
    /\ quits' = TRUE
    /\ gm' = [gm EXCEPT ![u] = FreshGameMode(u)]

-----------------------------------------------------------------------------
(* The friend finder.                                                      *)

Complete(g) == Len(g.members) >= g.expected /\ g.selfArrived /\ g.hostArrived

(* Mutant of Collected: game mode begins with the own arrival.             *)
CollectedTooFew(g) ==
    IF g.selfArrived /\ g.hostArrived THEN [g EXCEPT !.in = 1, !.told = "begun"] ELSE g

Collected(g) == IF Complete(g) THEN [g EXCEPT !.in = 1, !.told = "begun"] ELSE g

(* The BSSID comes from the host, so both have arrived. *)
GameModeBssid(u) ==
    /\ Receive(u, "CONNECT_BSSID")
    /\ lib' = [lib EXCEPT ![u].status = "CONNECTED"]
    /\ IF gm[u].in = 0
       THEN Notify(u, "Create") /\ UNCHANGED gm
       ELSE /\ gm' = [gm EXCEPT ![u] = Collected([@ EXCEPT !.selfArrived = TRUE,
                                                           !.hostArrived = TRUE])]
            /\ UNCHANGED app
    /\ UNCHANGED quits

(* Mutant of Arrival: the host is added to the list a second time.         *)
ArrivalOfHost(u, mac) ==
    LET g == gm[u]
    IN  IF mac = MacOf[u] THEN [g EXCEPT !.selfArrived = TRUE]
        ELSE IF Len(g.members) >= MaxMembers THEN g
        ELSE [g EXCEPT !.members = Append(@, mac)]

(* _appendGamemodePeer does not look whether the member is there already.  *)
Arrival(u, mac) ==
    LET g == [gm[u] EXCEPT !.selfArrived = @ \/ mac = MacOf[u],
                           !.hostArrived = @ \/ mac = gm[u].host]
    IN  IF mac \in {MacOf[u], g.host} \/ Len(g.members) >= MaxMembers THEN g
        ELSE [g EXCEPT !.members = Append(@, mac)]

GameModeConnect(u) ==
    /\ ReceiveConnect(u)
    /\ gm' = IF gm[u].in = 0 THEN gm
             ELSE [gm EXCEPT ![u] = Collected(Arrival(u, Head(s2c[u]).mac))]
    /\ UNCHANGED quits

(* Ten seconds after the entry; the player stays in the group.             *)
EntryTimesOut(u) ==
    /\ FinderRuns(u)
    /\ lib[u].status = "CONNECTED" /\ gm[u].in = -1 /\ gm[u].stamped
    /\ gm' = [gm EXCEPT ![u].in = 0, ![u].told = "timeout"]
    /\ UNCHANGED <<lib, app, wireVars, quits>>

-----------------------------------------------------------------------------
Search(u) ==
    \E name \in Names : SearchFinds(u, name) \/ SearchGoesOn(u, name)

EntryGoesOn(u) == SearchScans(u) \/ Search(u) \/ EntrySends(u) \/ EntryStamps(u) \/ EntryReturns(u)

EntryStep(u) ==
    \/ \E name \in Names, number \in Expected : CreateEnterGameMode(u, name, number)
    \/ \E gc \in Users : JoinEnterGameMode(u, gc)
    \/ EntryGoesOn(u)
    \/ \E name \in Names : SearchTimesOut(u, name)
    \/ "Disconnect" \in Calls[u] /\ ExitGameMode(u)
    \/ "PowerOff" \in Calls[u] /\ GameModePowerOff(u)
    \/ ExitReturns(u)

EntryFinder(u) ==
    \/ GameModeBssid(u) \/ GameModeConnect(u) \/ EntryTimesOut(u)
    \/ /\ NotifyDisconnect(u) \/ ReceiveDisconnect(u) \/ ReceiveScan(u) \/ ReceiveScanComplete(u)
       /\ UNCHANGED <<gm, quits>>

EntryServer(u) == ServerVisit(u) /\ UNCHANGED <<clientVars, gm, quits>>

EntryClient(u) ==
    /\ EntryStep(u) \/ EntryFinder(u) \/ (DiscStep(u) /\ UNCHANGED <<gm, quits>>)
    /\ UNCHANGED serverVars

EntryNext == \E u \in Users : EntryServer(u) \/ EntryClient(u)

EntrySpec == EntryInit /\ [][EntryNext]_entryVars

(* The fairness of AdhocctlNet, and that time passes: ten seconds of       *)
(* search, and ten of waiting for the others.                              *)
FairEntrySpec ==
    /\ EntrySpec
    /\ \A u \in Users :
          /\ WF_entryVars(EntryServer(u))
          /\ WF_entryVars(DiscStep(u) /\ UNCHANGED <<gm, quits, serverVars>>)
          /\ WF_entryVars(EntryFinder(u) /\ UNCHANGED serverVars)
          /\ WF_entryVars((EntryGoesOn(u) \/ ExitReturns(u)) /\ UNCHANGED serverVars)
          /\ SF_entryVars((\E name \in Names : SearchTimesOut(u, name)) /\ UNCHANGED serverVars)

-----------------------------------------------------------------------------
EntryTypeOK ==
    /\ TypeOK /\ gm \in [Users -> GameModeState] /\ quits \in BOOLEAN
    /\ \A u \in Users : Len(gm[u].members) <= MaxMembers

EntrySettled == Settled /\ \A u \in Users : gm[u].at = "idle"

Distinct(list) == Cardinality(ToSet(list)) = Len(list)

(* As long as nobody leaves, all players in game mode end up with the same *)
(* members: everyone in the group and the host, once each.                 *)
MembersAgree ==
    EntrySettled /\ ~quits => \A u \in Users : gm[u].in = 1 =>
        /\ Distinct(gm[u].members)
        /\ ToSet(gm[u].members) =
               {gm[u].host} \cup {MacOf[v] : v \in {w \in Users : group[w] = group[u]}}

(* As long as nobody leaves, game mode begins for a host when as many      *)
(* players as he has asked for are in his group, himself included.         *)
HostBeginsComplete ==
    ~quits => \A u \in Hosts : gm[u].in = 1 =>
        Cardinality({v \in Users : group[v] = group[u]}) >= gm[u].expected

(* The members that a host begins with are different players, also when    *)
(* somebody has left and come back meanwhile.                              *)
HostBeginsWithDifferent ==
    \A u \in Hosts : gm[u].in = 1 => Cardinality(ToSet(gm[u].members)) >= gm[u].expected

(* Every entry is answered: once all is settled, the only ones who wait    *)
(* are in their group and have the ten seconds running.                    *)
WaitersHaveAClock ==
    EntrySettled => \A u \in Users : cliEnd[u] = "open" /\ gm[u].told = "waiting" =>
        gm[u].in = -1 /\ gm[u].stamped /\ lib[u].status = "CONNECTED" /\ group[u] # NoGroup

(* Every entry is answered: game mode begins, or the ten seconds end, or   *)
(* the search is given up, or the player goes.                             *)
EntriesEnd == \A u \in Users : (gm[u].told = "waiting") ~> (gm[u].told # "waiting")
=============================================================================
