----------------------------- MODULE AdhocctlNet -----------------------------
(***************************************************************************)
(* PSPs that run the adhocctl library, connected to the adhocctl server.   *)
(* The games call the API in any order their Calls allow; a patient game   *)
(* waits for the event of a call before it makes the next one.             *)
(*                                                                         *)
(* The friend finder pings every two seconds and the server's patience is  *)
(* fifteen, so only the user of a PSP that is gone times out.  The server  *)
(* is not shut down; AdhocctlOpen is about that.                           *)
(***************************************************************************)
EXTENDS AdhocctlServer, AdhocctlClient

CONSTANTS Calls,       \* Calls[u]: the API functions that u's game uses
          Patient      \* do the games wait for events?

ASSUME NetAssumption ==
    /\ Calls \in [Users -> SUBSET {"Init", "Create", "Scan", "Disconnect", "Term", "Chat",
                                   "PowerOff"}]
    /\ Patient \in BOOLEAN

vars == <<serverVars, clientVars, wireVars>>

Init == ServerInit /\ ClientInit /\ WireInit

(* The bounds on the queues. *)
Uncongested(u) == Len(c2s[u]) < MaxC2S /\ \A v \in Users : Len(s2c[v]) <= MaxBacklog

MayCall(u, function) ==
    /\ function \in Calls[u]
    /\ Patient => app[u].answered
    /\ Uncongested(u)

(* One PSP has one connection at a time. *)
Alone(u) == \A v \in Users \ {u} : MacOf[v] = MacOf[u] => cliEnd[v] # "open"

GameStep(u) ==
    \/ MayCall(u, "Init") /\ Alone(u) /\ InitLibrary(u)
    \/ MayCall(u, "Create") /\ \E name \in Names : CreateCalled(u, name)
    \/ MayCall(u, "Scan") /\ Scan(u)
    \/ MayCall(u, "Disconnect") /\ DisconnectCalled(u)
    \/ MayCall(u, "Term") /\ TermCalled(u)
    \/ CreateSends(u) \/ DisconnectReturns(u) \/ TermReturns(u)

PlayerStep(u) ==
    \/ "Chat" \in Calls[u] /\ Uncongested(u) /\ TypeMessage(u)
    \/ "PowerOff" \in Calls[u] /\ PowerOff(u)

ClientStep(u) == (GameStep(u) \/ PlayerStep(u) \/ DiscStep(u) \/ FinderStep(u))
                    /\ UNCHANGED serverVars

ServerVisit(u) ==
    \/ LoginUserStream(u) \/ HangUp(u) \/ ServeUser(u)
    \/ cliEnd[u] = "gone" /\ TimeOut(u)

ServerStep ==
    \/ StartLoop
    \/ \E u \in Users : ServerVisit(u)

Next ==
    \/ ServerStep /\ UNCHANGED clientVars
    \/ \E u \in Users : ClientStep(u)

Spec == Init /\ [][Next]_vars

(* The server keeps visiting its users, and the threads of the library     *)
(* run.  A game need not call anything, and a call that waits returns.     *)
FairSpec ==
    /\ Spec
    /\ WF_vars(StartLoop /\ UNCHANGED clientVars)
    /\ \A u \in Users :
          /\ WF_vars(ServerVisit(u) /\ UNCHANGED clientVars)
          /\ WF_vars(DiscStep(u) /\ UNCHANGED serverVars)
          /\ WF_vars(FinderStep(u) /\ UNCHANGED serverVars)
          /\ WF_vars((CreateSends(u) \/ DisconnectReturns(u) \/ TermReturns(u))
                        /\ UNCHANGED serverVars)

-----------------------------------------------------------------------------
TypeOK == ServerTypeOK /\ ClientTypeOK /\ WireTypeOK

(* Nothing is under way: every packet has been handled, no API call and no *)
(* disconnect thread is at work, and the server has noticed who is gone.   *)
Settled ==
    \A u \in Users :
        /\ c2s[u] = <<>> /\ s2c[u] = <<>>
        /\ srvEnd[u] # "backlog"
        /\ srvEnd[u] = "open" => cliEnd[u] = "open"
        /\ lib[u].discThread = "none" /\ ~lib[u].chat
        /\ app[u].pc = "idle"

Online(u) == lib[u].init = 1 /\ srvEnd[u] = "open"

(* The server logs nobody out who is still there: no call that the library *)
(* accepts is an offence to the server.  Code: the logout_user at the end  *)
(* of connect_user, disconnect_user, send_scan_results and spread_message. *)
NeverKicked == \A u \in Users : cliEnd[u] = "open" => srvEnd[u] # "closed"

(* Once all is settled, the peer list of a player names exactly the other  *)
(* players of his group, once each, and nobody when he is in no group.     *)
(* Code: _addFriend and _deleteFriendByIP against connect_user,            *)
(* disconnect_user and reconnect_players_with_ip.                          *)
PeerListsExact ==
    Settled =>
        \A u \in Users : Online(u) =>
            LET peers == {v \in Users \ {u} : group[v] = group[u] /\ group[v] # NoGroup}
            IN  /\ {peer.mac : peer \in ToSet(lib[u].friends)} = {MacOf[v] : v \in peers}
                /\ Len(lib[u].friends) = Cardinality(peers)

(* Once all is settled, library and server agree on the network a player   *)
(* is in.  Code: _thread_status against user->group.                       *)
StatusAgrees ==
    Settled =>
        \A u \in Users : Online(u) =>
            /\ lib[u].status = "CONNECTED" <=> group[u] # NoGroup
            /\ group[u] # NoGroup => group[u] = <<GameOf[u], lib[u].name>>

(* Who has called Disconnect last and was told of success is in no group   *)
(* once all is settled.  Code: disconnect_thread_func.                     *)
LeaveWorks ==
    Settled => \A u \in Users : Online(u) /\ app[u].call = "Disconnect" => group[u] = NoGroup

(* No message of the chat is sent outside of a group, where the server     *)
(* takes it for an offence.  Code: setConnectionStatus clears the outbox.  *)
ChatOnlyInGroup ==
    \A u \in Users :
        u \in dbUser /\ c2s[u] # <<>> /\ Head(c2s[u]).op = "CHAT" => group[u] # NoGroup

(* Every accepted call is answered by its event.  Code: the friend finder  *)
(* and the server's answers, CONNECT_BSSID and SCAN_COMPLETE.              *)
CallsAnswered == \A u \in Users : ~app[u].answered ~> app[u].answered
=============================================================================
