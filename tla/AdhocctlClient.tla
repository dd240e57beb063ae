--------------------------- MODULE AdhocctlClient ---------------------------
(***************************************************************************)
(* The adhocctl library on a PSP (pspnet_adhocctl/library).  Three threads *)
(* share its globals: the game, which calls the API; the friend finder,    *)
(* which owns the receiving side of the connection and calls the game's    *)
(* event handlers; and, for the games that need it, a disconnect thread.   *)
(* The network lock is compiled out unless ENABLE_NETLOCK is set, so the   *)
(* threads interleave at every action of this module.                      *)
(*                                                                         *)
(* lib[u] holds the globals of the library for the connection u, app[u]    *)
(* where the game's thread is and what it last asked for.  Game mode is    *)
(* never entered here: _in_gamemode stays 0.                               *)
(***************************************************************************)
EXTENDS AdhocctlWire, Integers, SequencesExt

CONSTANTS GameOf,      \* the product code u logs in with
          QuirkUsers,  \* their game is one of should_disconnect_in_thread
          OutboxSize,  \* OUTBOX_SIZE
          NoName       \* _parameter.group_name set to zeros

ASSUME ClientAssumption ==
    /\ GameOf \in [Users -> Games]
    /\ QuirkUsers \subseteq Users
    /\ OutboxSize \in Nat
    /\ NoName \notin Names

VARIABLES lib, app

clientVars == <<lib, app>>

Peers == [mac : Macs, ip : Ips]
Networks == [group : Names, mac : Macs]

LibState ==
    [init : {0, 1, -1},                                  \* _init
     status : {"DISCONNECTED", "CONNECTED", "SCANNING"}, \* _thread_status
     name : Names \cup {NoName},                         \* _parameter.group_name
     friends : Seq(Peers),                               \* _friends
     networks : Seq(Networks),                           \* _networks
     newnetworks : Seq(Networks),                        \* _newnetworks
     discPending : BOOLEAN,                              \* _disconnect_timestamp # 0
     discThread : {"none", "start", "grace", "sent"},    \* where disconnect_thread_func is
     connected : {0, 1},   \* connected_to_prometheus
     usercount : Nat,      \* what the HUD shows
     outbox : 0..OutboxSize,                             \* filled slots of outbox
     chat : BOOLEAN]       \* the friend finder has popped a message and not yet sent it

AppState ==
    [pc : {"idle", "create", "disconnect", "term"},      \* the API function the game is in
     arg : Names \cup {NoName},                          \* its argument
     call : {"none", "Create", "Scan", "Disconnect"},    \* the latest call that returned 0
     answered : BOOLEAN]                                 \* its event has been notified

ClientTypeOK == lib \in [Users -> LibState] /\ app \in [Users -> AppState]

FreshLib ==
    [init |-> 0, status |-> "DISCONNECTED", name |-> NoName, friends |-> <<>>,
     networks |-> <<>>, newnetworks |-> <<>>, discPending |-> FALSE,
     discThread |-> "none", connected |-> 0, usercount |-> 1, outbox |-> 0,
     chat |-> FALSE]

FreshApp == [pc |-> "idle", arg |-> NoName, call |-> "none", answered |-> TRUE]

ClientInit ==
    /\ lib = [u \in Users |-> FreshLib]
    /\ app = [u \in Users |-> FreshApp]

-----------------------------------------------------------------------------
(* The game's thread.                                                      *)

InitLibrary(u) ==
    /\ app[u].pc = "idle"
    /\ lib[u].init = 0
    /\ WireConnect(u, <<LoginC2S(GameOf[u])>>)
    /\ lib' = [lib EXCEPT ![u].init = 1, ![u].name = NoName]
    /\ app' = [app EXCEPT ![u].call = "none", ![u].answered = TRUE]

(* proNetAdhocctlCreate past its checks; else it returns BUSY or           *)
(* NOT_INITIALIZED and changes nothing.                                    *)
CreateCalled(u, name) ==
    /\ app[u].pc = "idle"
    /\ lib[u].init = 1
    /\ lib[u].status = "DISCONNECTED"
    /\ app' = [app EXCEPT ![u].pc = "create", ![u].arg = name]
    /\ UNCHANGED <<lib, wireVars>>

(* Mutant of CreateSends: it does not wait for the disconnect thread. *)
CreateSendsAtOnce(u) ==
    /\ app[u].pc = "create"
    /\ ~lib[u].discPending
    /\ WireSend(u, ConnectC2S(app[u].arg))
    /\ lib' = [lib EXCEPT ![u].name = app[u].arg, ![u].connected = 1]
    /\ app' = [app EXCEPT ![u].pc = "idle", ![u].arg = NoName, ![u].call = "Create",
                          ![u].answered = FALSE]
    /\ UNCHANGED <<s2c, cliEnd, srvEnd>>

(* It waits for an earlier disconnect to finish and to be notified. *)
CreateSends(u) ==
    /\ app[u].pc = "create"
    /\ lib[u].discThread = "none"
    /\ ~lib[u].discPending
    /\ WireSend(u, ConnectC2S(app[u].arg))
    /\ lib' = [lib EXCEPT ![u].name = app[u].arg, ![u].connected = 1]
    /\ app' = [app EXCEPT ![u].pc = "idle", ![u].arg = NoName, ![u].call = "Create",
                          ![u].answered = FALSE]
    /\ UNCHANGED <<s2c, cliEnd, srvEnd>>

Scan(u) ==
    /\ app[u].pc = "idle"
    /\ lib[u].init = 1
    /\ lib[u].status = "DISCONNECTED"
    /\ WireSend(u, BareC2S("SCAN"))
    /\ lib' = [lib EXCEPT ![u].status = "SCANNING"]
    /\ app' = [app EXCEPT ![u].call = "Scan", ![u].answered = FALSE]
    /\ UNCHANGED <<s2c, cliEnd, srvEnd>>

(* proNetAdhocctlDisconnect: starts disconnect_thread_func, as a thread of *)
(* its own for the games of the quirk list, and else by a plain call.      *)
DisconnectCalled(u) ==
    /\ app[u].pc = "idle"
    /\ lib[u].init = 1
    /\ lib[u].discThread = "none"
    /\ lib' = [lib EXCEPT ![u].discThread = "start"]
    /\ app' = [app EXCEPT ![u].pc = "disconnect"]
    /\ UNCHANGED wireVars

DisconnectReturns(u) ==
    /\ app[u].pc = "disconnect"
    /\ lib[u].discThread = "none" \/ u \in QuirkUsers
    /\ lib' = [lib EXCEPT ![u].discPending = TRUE]
    /\ app' = [app EXCEPT ![u].pc = "idle", ![u].call = "Disconnect", ![u].answered = FALSE]
    /\ UNCHANGED wireVars

TermCalled(u) ==
    /\ app[u].pc = "idle"
    /\ lib[u].init = 1
    /\ lib[u].discThread = "none"
    /\ lib' = [lib EXCEPT ![u].init = 0, ![u].connected = 0, ![u].outbox = 0]
    /\ app' = [app EXCEPT ![u].pc = "term"]
    /\ UNCHANGED wireVars

TermReturns(u) ==
    /\ app[u].pc = "term"
    /\ lib[u].init = -1
    /\ lib' = [lib EXCEPT ![u].init = 0, ![u].friends = <<>>, ![u].networks = <<>>,
                          ![u].newnetworks = <<>>, ![u].discPending = FALSE]
    /\ app' = [app EXCEPT ![u].pc = "idle", ![u].call = "none", ![u].answered = TRUE]
    /\ WireClose(u, "closed")

(* Mutant of TypeMessage: the connection is not looked at. *)
TypeUnconnected(u) ==
    /\ lib[u].usercount > 1
    /\ lib[u].outbox < OutboxSize
    /\ lib' = [lib EXCEPT ![u].outbox = @ + 1]
    /\ UNCHANGED <<app, wireVars>>

(* The player types a message into the HUD. *)
TypeMessage(u) ==
    /\ lib[u].connected = 1
    /\ lib[u].usercount > 1
    /\ lib[u].outbox < OutboxSize
    /\ lib' = [lib EXCEPT ![u].outbox = @ + 1]
    /\ UNCHANGED <<app, wireVars>>

-----------------------------------------------------------------------------
(* disconnect_thread_func.                                                 *)

(* Mutant of DiscStarts: the status stays.                               *)
DiscStartsKeepsStatus(u) ==
    /\ lib[u].discThread = "start"
    /\ lib' = IF lib[u].status = "CONNECTED"
                THEN [lib EXCEPT ![u].discThread = "grace", ![u].name = NoName,
                                 ![u].connected = 0, ![u].outbox = 0]
                ELSE [lib EXCEPT ![u].discThread = "none"]
    /\ UNCHANGED <<app, wireVars>>

DiscStarts(u) ==
    /\ lib[u].discThread = "start"
    /\ lib' = IF lib[u].status = "CONNECTED"
                THEN [lib EXCEPT ![u].discThread = "grace", ![u].status = "DISCONNECTED",
                                 ![u].name = NoName, ![u].connected = 0, ![u].outbox = 0]
                ELSE [lib EXCEPT ![u].discThread = "none"]
    /\ UNCHANGED <<app, wireVars>>

(* Mutant of DiscSends: who knows of no peers does not tell the server. *)
DiscSendsToPeersOnly(u) ==
    /\ lib[u].discThread = "grace"
    /\ lib' = [lib EXCEPT ![u].discThread = "sent"]
    /\ IF lib[u].friends # <<>> THEN WireSend(u, BareC2S("DISCONNECT")) ELSE UNCHANGED c2s
    /\ UNCHANGED <<app, s2c, cliEnd, srvEnd>>

(* The end of the grace period for matching packets. *)
DiscSends(u) ==
    /\ lib[u].discThread = "grace"
    /\ WireSend(u, BareC2S("DISCONNECT"))
    /\ lib' = [lib EXCEPT ![u].discThread = "sent"]
    /\ UNCHANGED <<app, s2c, cliEnd, srvEnd>>

DiscEnds(u) ==
    /\ lib[u].discThread = "sent"
    /\ lib' = [lib EXCEPT ![u].discThread = "none", ![u].friends = <<>>]
    /\ UNCHANGED <<app, wireVars>>

DiscStep(u) == DiscStarts(u) \/ DiscSends(u) \/ DiscEnds(u)

-----------------------------------------------------------------------------
(* The friend finder.  It pings the server every two seconds; the pings    *)
(* only tell the server that the client lives, see AdhocctlNet.            *)

FinderRuns(u) == lib[u].init = 1 \/ (lib[u].init = 0 /\ app[u].pc = "term")

(* _notifyAdhocctlhandlers, as far as it answers what the game asked for. *)
Notify(u, event) ==
    app' = IF app[u].call = event THEN [app EXCEPT ![u].answered = TRUE] ELSE app

PopMessage(u) ==
    /\ FinderRuns(u)
    /\ ~lib[u].chat
    /\ lib[u].outbox > 0
    /\ lib' = [lib EXCEPT ![u].outbox = @ - 1, ![u].chat = TRUE]
    /\ UNCHANGED <<app, wireVars>>

SendMessage(u) ==
    /\ lib[u].chat
    /\ WireSend(u, BareC2S("CHAT"))
    /\ lib' = [lib EXCEPT ![u].chat = FALSE]
    /\ UNCHANGED <<app, s2c, cliEnd, srvEnd>>

(* More than half a second after the disconnect call. *)
NotifyDisconnect(u) ==
    /\ FinderRuns(u)
    /\ ~lib[u].chat
    /\ lib[u].discPending
    /\ lib' = [lib EXCEPT ![u].discPending = FALSE]
    /\ Notify(u, "Disconnect")
    /\ UNCHANGED wireVars

Receive(u, op) ==
    /\ FinderRuns(u)
    /\ ~lib[u].chat
    /\ s2c[u] # <<>>
    /\ Head(s2c[u]).op = op
    /\ s2c' = [s2c EXCEPT ![u] = Tail(@)]
    /\ UNCHANGED <<c2s, cliEnd, srvEnd>>

ReceiveBssid(u) ==
    /\ Receive(u, "CONNECT_BSSID")
    /\ lib' = [lib EXCEPT ![u].status = "CONNECTED"]
    /\ Notify(u, "Create")

ReceiveChat(u) ==
    /\ Receive(u, "CHAT")
    /\ UNCHANGED clientVars

(* _addFriend: a known MAC is refreshed, a new one linked at the front. *)
AddFriend(friends, peer) ==
    IF \E i \in DOMAIN friends : friends[i].mac = peer.mac
      THEN LET i == SelectInSeq(friends, LAMBDA f : f.mac = peer.mac)
           IN  [friends EXCEPT ![i] = peer]
      ELSE Cons(peer, friends)

ReceiveConnect(u) ==
    /\ Receive(u, "CONNECT")
    /\ LET packet  == Head(s2c[u])
           friends == AddFriend(lib[u].friends, [mac |-> packet.mac, ip |-> packet.ip])
       IN  lib' = [lib EXCEPT ![u].friends = friends, ![u].usercount = Len(friends) + 1]
    /\ UNCHANGED app

(* _deleteFriendByIP: the first friend with that address, if there is one. *)
DeleteFriendByIP(friends, ip) ==
    IF \E i \in DOMAIN friends : friends[i].ip = ip
      THEN RemoveAt(friends, SelectInSeq(friends, LAMBDA f : f.ip = ip))
      ELSE friends

ReceiveDisconnect(u) ==
    /\ Receive(u, "DISCONNECT")
    /\ LET friends == DeleteFriendByIP(lib[u].friends, Head(s2c[u]).ip)
       IN  lib' = [lib EXCEPT ![u].friends = friends, ![u].usercount = Len(friends) + 1]
    /\ UNCHANGED app

ReceiveScan(u) ==
    /\ Receive(u, "SCAN")
    /\ LET packet == Head(s2c[u])
       IN  lib' = [lib EXCEPT ![u].newnetworks =
                                 Cons([group |-> packet.group, mac |-> packet.mac], @)]
    /\ UNCHANGED app

ReceiveScanComplete(u) ==
    /\ Receive(u, "SCAN_COMPLETE")
    /\ lib' = [lib EXCEPT ![u].networks = lib[u].newnetworks, ![u].newnetworks = <<>>,
                          ![u].status = "DISCONNECTED"]
    /\ Notify(u, "Scan")

(* The loop test fails.  The status is reset after _init is set to -1, but *)
(* Term, which waits for that, then sleeps until the access point is left  *)
(* (apctl_disconnect_and_wait_till_disconnected).                          *)
FinderLeaves(u) ==
    /\ lib[u].init = 0
    /\ app[u].pc = "term"
    /\ ~lib[u].chat
    /\ lib' = [lib EXCEPT ![u].init = -1, ![u].status = "DISCONNECTED"]
    /\ UNCHANGED <<app, wireVars>>

FinderStep(u) ==
    \/ PopMessage(u) \/ SendMessage(u) \/ NotifyDisconnect(u)
    \/ ReceiveBssid(u) \/ ReceiveChat(u) \/ ReceiveConnect(u) \/ ReceiveDisconnect(u)
    \/ ReceiveScan(u) \/ ReceiveScanComplete(u) \/ FinderLeaves(u)

-----------------------------------------------------------------------------
(* The PSP is switched off, suspended or out of reach: no FIN is sent. *)
PowerOff(u) ==
    /\ WireClose(u, "gone")
    /\ lib' = [lib EXCEPT ![u] = FreshLib]
    /\ app' = [app EXCEPT ![u] = FreshApp]
=============================================================================
