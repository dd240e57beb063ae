---------------------------- MODULE DirectSockets ----------------------------
(***************************************************************************)
(* The sockets of pspnet_adhoc without a relay: every PDP and PTP socket   *)
(* of a game is a socket of the console, and its port is forwarded by the  *)
(* router as long as it lives.                                             *)
(*                                                                         *)
(* A socket is entered into _sockets, and its port forwarded, under        *)
(* _socket_mapper_mutex; the look at the ports in use, every lookup by id  *)
(* and the release of the structure are not.  The steps of a call are the  *)
(* stretches between the points where it may be interrupted.               *)
(***************************************************************************)
EXTENDS UPnP

CONSTANTS Threads, \* threads of the game
          Slots,   \* indices of _sockets
          Blocks,  \* bound: structures in memory at once
          Fds,     \* bound: sockets of the console
          PdpPorts, ListenPorts, OpenPorts, \* local ports, by what they are used for
          Remotes, \* address and port of a peer, as one value
          Habits   \* what the game does that the library is not made for

(* "overlap": one thread creates a socket while another closes one.        *)
(* "race": two threads create sockets for one port at once.                *)
(* "abort": a thread closes a socket that another is using.                *)
(* "leave": the library is terminated with sockets still open.             *)
ASSUME HabitsAssumption == Habits \subseteq {"overlap", "race", "abort", "leave"}
ASSUME NumbersAssumption == Slots \cup Blocks \cup Fds \subseteq Nat \ {0}

VARIABLES
    init,  \* _init of pspnet_adhoc
    ctl,   \* _init of pspnet_adhocctl
    table, \* table[i]: the structure _sockets[i] points to, 0 for NULL
    heap,  \* the structures
    fds,   \* open sockets of the console
    mutex, \* who holds _socket_mapper_mutex
    ids,   \* ids[t]: the sockets t has got and not closed
    call   \* what each thread of the game is doing

socketVars == <<init, ctl, table, heap, fds, mutex, ids, call>>
vars == <<status, finder, devlist, lists, urls, forwards, stuck, twice, crashed,
          init, ctl, table, heap, fds, mutex, ids, call>>

Freed == [live |-> FALSE, kind |-> "PDP", port |-> "none", remote |-> "none",
          state |-> "CLOSED", mode |-> "LISTEN", fd |-> 0]
Idle == [at |-> "idle", do |-> "none", port |-> "none", remote |-> "none",
         slot |-> 0, block |-> 0, fd |-> 0]

Init ==
    /\ UpnpInit /\ crashed = FALSE
    /\ init = FALSE /\ ctl = FALSE
    /\ table = [i \in Slots |-> 0]
    /\ heap = [b \in Blocks |-> Freed]
    /\ fds = {}
    /\ mutex = "free"
    /\ ids = [t \in Threads |-> {}]
    /\ call = [t \in Threads |-> Idle]

Socket(i) == heap[table[i]]
FreeSlots == {i \in Slots : table[i] = 0}
FreeBlocks == {b \in Blocks : ~heap[b].live}
Closing == {"close", "unforward", "unforwarding", "free", "clear"}
Creating == {"socket", "enter", "forward", "forwarding"}
Terming == {"stop", "stopping", "deleting"}

Returns(t) == call' = [call EXCEPT ![t] = Idle]
Goes(t, place) == call' = [call EXCEPT ![t].at = place]
Crash == crashed' = TRUE /\ UNCHANGED <<upnpVars, socketVars>>

(* What a game may do at a time, its habits aside.                         *)
MayCall(t) ==
    init /\ call[t] = Idle /\ \A u \in Threads : call[u].at \notin Terming

MayCreate(t, kind, port) ==
    /\ MayCall(t)
    /\ "overlap" \notin Habits => \A u \in Threads : call[u].at \notin Closing
    /\ "race" \notin Habits => \A u \in Threads : <<call[u].do, call[u].port>> # <<kind, port>>

MayUse(t, i) == MayCall(t) /\ \E u \in Threads : i \in ids[u]

MayClose(t, i) ==
    /\ MayCall(t) /\ i \in ids[t]
    /\ "abort" \notin Habits => \A u \in Threads : call[u].slot # i
    /\ "overlap" \notin Habits => \A u \in Threads : call[u].at \notin Creating

MayTerm(t) ==
    /\ \A u \in Threads : call[u] = Idle
    /\ "leave" \notin Habits => \A u \in Threads : ids[u] = {}

-----------------------------------------------------------------------------
(* PdpCreate, PtpOpen and PtpListen: the port, the socket, then its place. *)

Collides(s, kind, port, remote) ==
    /\ s.port = port /\ s.kind = kind
    /\ kind = "STREAM" => s.remote = remote

CheckPort(t, kind, port, remote) ==
    /\ MayCreate(t, kind, port) /\ (kind = "STREAM") = (remote # "none")
    /\ IF \E i \in Slots : table[i] # 0 /\ ~Socket(i).live THEN Crash
       ELSE /\ \A i \in Slots : table[i] # 0 => ~Collides(Socket(i), kind, port, remote)
            /\ call' = [call EXCEPT ![t] = [Idle EXCEPT !.at = "socket", !.do = kind,
                                                        !.port = port, !.remote = remote]]
            /\ UNCHANGED <<upnpVars, crashed, init, ctl, table, heap, fds, mutex, ids>>

MakeSocket(t) ==
    /\ call[t].at = "socket" /\ Fds \ fds # {}
    /\ fds' = fds \cup {Min(Fds \ fds)}
    /\ call' = [call EXCEPT ![t].at = "enter", ![t].fd = Min(Fds \ fds)]
    /\ UNCHANGED <<upnpVars, crashed, init, ctl, table, heap, mutex, ids>>

(* socket, bind or listen has failed.                                      *)
NoSocket(t) ==
    /\ call[t].at = "socket"
    /\ Returns(t)
    /\ UNCHANGED <<upnpVars, crashed, init, ctl, table, heap, fds, mutex, ids>>

Entered(t, s) ==
    /\ table' = [table EXCEPT ![Min(FreeSlots)] = Min(FreeBlocks)]
    /\ heap' = [heap EXCEPT ![Min(FreeBlocks)] = s]

(* ptp_ext.mode is 0, LISTEN, until the port has been forwarded.           *)
Enter(t) ==
    /\ call[t].at = "enter" /\ mutex = "free" /\ FreeSlots # {} /\ FreeBlocks # {}
    /\ Entered(t, [live |-> TRUE, kind |-> call[t].do, port |-> call[t].port,
                   remote |-> call[t].remote, mode |-> "LISTEN", fd |-> call[t].fd,
                   state |-> IF call[t].do = "LISTEN" THEN "LISTEN" ELSE "CLOSED"])
    /\ mutex' = t
    /\ call' = [call EXCEPT ![t].at = "forward", ![t].slot = Min(FreeSlots), ![t].fd = 0]
    /\ UNCHANGED <<upnpVars, crashed, init, ctl, fds, ids>>

(* Mutant of TurnedAway: the socket stays open.                            *)
TurnedAwayOpen(fd) == fds

(* No place in the table: the socket is closed again.                      *)
TurnedAway(fd) == fds \ {fd}

TableFull(t) ==
    /\ call[t].at = "enter" /\ mutex = "free" /\ FreeSlots = {}
    /\ fds' = TurnedAway(call[t].fd)
    /\ Returns(t)
    /\ UNCHANGED <<upnpVars, crashed, init, ctl, table, heap, mutex, ids>>

Protocol(kind) == IF kind = "PDP" THEN "UDP" ELSE "TCP"

(* sceNetPortOpen and sceNetPortClose wait up to five seconds for a router.*)
RouterReady(t) ==
    /\ call[t].at \in {"forward", "unforward"} /\ status = 1
    /\ Goes(t, IF call[t].at = "forward" THEN "forwarding" ELSE "unforwarding")
    /\ UNCHANGED <<upnpVars, crashed, init, ctl, table, heap, fds, mutex, ids>>

(* The id is returned; PtpOpen tries to connect first.                     *)
Made(t) ==
    /\ mutex' = "free"
    /\ ids' = [ids EXCEPT ![t] = @ \cup {call[t].slot}]
    /\ IF call[t].do = "STREAM"
       THEN /\ heap' = [heap EXCEPT ![table[call[t].slot]].mode = "OPEN"]
            /\ call' = [call EXCEPT ![t] = [Idle EXCEPT !.at = "connect", !.do = "nonblock",
                                                        !.slot = call[t].slot]]
       ELSE Returns(t) /\ UNCHANGED heap

NoRouterYet(t) ==
    /\ status # 1
    /\ \/ call[t].at = "forward" /\ Made(t)
       \/ call[t].at = "unforward" /\ Goes(t, "free") /\ UNCHANGED <<heap, mutex, ids>>
    /\ UNCHANGED <<upnpVars, crashed, init, ctl, table, fds>>

(* Both talk to the router with the URLs all along.                        *)
Forwarded(t) ==
    /\ call[t].at = "forwarding"
    /\ IF ~urls THEN Crash
       ELSE /\ Forward(<<Protocol(call[t].do), call[t].port>>)
            /\ Made(t)
            /\ UNCHANGED <<init, ctl, table, fds>>

-----------------------------------------------------------------------------
(* PtpConnect, of the game or of PtpOpen.                                  *)

UseConnect(t, i, do) ==
    /\ MayUse(t, i) /\ Socket(i).kind = "STREAM" /\ Socket(i).state = "CLOSED"
    /\ call' = [call EXCEPT ![t] = [Idle EXCEPT !.at = "connect", !.do = do, !.slot = i]]
    /\ UNCHANGED <<upnpVars, crashed, init, ctl, table, heap, fds, mutex, ids>>

SetsState(b, state) == heap' = [heap EXCEPT ![b].state = state]

Connect(t) ==
    LET b == table[call[t].slot]
    IN  /\ call[t].at = "connect"
        /\ IF b = 0 \/ ~heap[b].live THEN Crash
           ELSE /\ \/ SetsState(b, "ESTABLISHED") /\ Returns(t)
                   \/ UNCHANGED heap /\ Returns(t)
                   \/ /\ call[t].do = "block" /\ UNCHANGED heap
                      /\ call' = [call EXCEPT ![t].at = "poll", ![t].block = b]
                /\ UNCHANGED <<upnpVars, crashed, init, ctl, table, fds, mutex, ids>>

(* The peer has answered, or the time is over.                             *)
Poll(t) ==
    /\ call[t].at = "poll"
    /\ IF ~heap[call[t].block].live THEN Crash
       ELSE /\ SetsState(call[t].block, "ESTABLISHED") \/ UNCHANGED heap
            /\ Returns(t)
            /\ UNCHANGED <<upnpVars, crashed, init, ctl, table, fds, mutex, ids>>

(* PtpSend and PtpRecv, which mark a stream that has failed as closed.     *)
UseStream(t, i) ==
    /\ MayUse(t, i) /\ Socket(i).kind = "STREAM" /\ Socket(i).state = "ESTABLISHED"
    /\ call' = [call EXCEPT ![t] = [Idle EXCEPT !.at = "transfer", !.slot = i, !.block = table[i]]]
    /\ UNCHANGED <<upnpVars, crashed, init, ctl, table, heap, fds, mutex, ids>>

Transfer(t) ==
    /\ call[t].at = "transfer"
    /\ IF ~heap[call[t].block].live THEN Crash
       ELSE /\ SetsState(call[t].block, "CLOSED") \/ UNCHANGED heap
            /\ Returns(t)
            /\ UNCHANGED <<upnpVars, crashed, init, ctl, table, fds, mutex, ids>>

-----------------------------------------------------------------------------
(* PtpAccept asks the listening socket until a peer comes or the time is   *)
(* over.                                                                   *)

UseAccept(t, i) ==
    /\ MayUse(t, i) /\ Socket(i).state = "LISTEN"
    /\ call' = [call EXCEPT ![t] = [Idle EXCEPT !.at = "accept", !.slot = i, !.block = table[i]]]
    /\ UNCHANGED <<upnpVars, crashed, init, ctl, table, heap, fds, mutex, ids>>

Accept(t) ==
    /\ call[t].at = "accept"
    /\ IF ~heap[call[t].block].live THEN Crash
       ELSE /\ \/ Returns(t) /\ UNCHANGED fds
               \/ /\ Fds \ fds # {}
                  /\ fds' = fds \cup {Min(Fds \ fds)}
                  /\ call' = [call EXCEPT ![t].at = "accepted", ![t].fd = Min(Fds \ fds),
                                          ![t].port = heap[call[t].block].port]
            /\ UNCHANGED <<upnpVars, crashed, init, ctl, table, heap, mutex, ids>>

(* Mutant of AcceptedMode: an accepted socket owns the forward as well.    *)
AcceptedModeOpen == "OPEN"

AcceptedMode == "ACCEPT"

EnterAccepted(t) ==
    /\ call[t].at = "accepted" /\ mutex = "free" /\ FreeSlots # {} /\ FreeBlocks # {}
    /\ \E remote \in Remotes :
          Entered(t, [live |-> TRUE, kind |-> "STREAM", port |-> call[t].port, remote |-> remote,
                      mode |-> AcceptedMode, fd |-> call[t].fd, state |-> "ESTABLISHED"])
    /\ ids' = [ids EXCEPT ![t] = @ \cup {Min(FreeSlots)}]
    /\ Returns(t)
    /\ UNCHANGED <<upnpVars, crashed, init, ctl, fds, mutex>>

(* The peer is nobody of the group, or the table is full.                  *)
RefuseAccepted(t) ==
    /\ call[t].at = "accepted"
    /\ fds' = TurnedAway(call[t].fd)
    /\ Returns(t)
    /\ UNCHANGED <<upnpVars, crashed, init, ctl, table, heap, mutex, ids>>

-----------------------------------------------------------------------------
(* PdpDelete and PtpClose close the socket, take the forward away, free    *)
(* the structure, and only then clear its place in the table.              *)

Close(t, i) ==
    /\ MayClose(t, i)
    /\ ids' = [ids EXCEPT ![t] = @ \ {i}]
    /\ call' = [call EXCEPT ![t] = [Idle EXCEPT !.at = "close", !.slot = i]]
    /\ UNCHANGED <<upnpVars, crashed, init, ctl, table, heap, fds, mutex>>

(* Mutant of OwnsForward: only listeners and PDP sockets own it.           *)
OwnsForwardListen(mode) == mode = "LISTEN"

OwnsForward(mode) == mode # "ACCEPT"

CloseSocket(t) ==
    LET s == Socket(call[t].slot)
    IN  /\ call[t].at = "close"
        /\ fds' = fds \ {s.fd}
        /\ call' = [call EXCEPT ![t].at = IF OwnsForward(s.mode) THEN "unforward" ELSE "free",
                                ![t].do = s.kind, ![t].port = s.port]
        /\ UNCHANGED <<upnpVars, crashed, init, ctl, table, heap, mutex, ids>>

Unforwarded(t) ==
    /\ call[t].at = "unforwarding"
    /\ IF ~urls THEN Crash
       ELSE /\ Unforward(<<Protocol(call[t].do), call[t].port>>)
            /\ Goes(t, "free")
            /\ UNCHANGED <<init, ctl, table, heap, fds, mutex, ids>>

FreeSocket(t) ==
    /\ call[t].at = "free"
    /\ heap' = [heap EXCEPT ![table[call[t].slot]] = Freed]
    /\ Goes(t, "clear")
    /\ UNCHANGED <<upnpVars, crashed, init, ctl, table, fds, mutex, ids>>

ClearSlot(t) ==
    /\ call[t].at = "clear" /\ mutex = "free"
    /\ table' = [table EXCEPT ![call[t].slot] = 0]
    /\ Returns(t)
    /\ UNCHANGED <<upnpVars, crashed, init, ctl, heap, fds, mutex, ids>>

-----------------------------------------------------------------------------
InitSockets(t) ==
    /\ ~init /\ call[t] = Idle
    /\ init' = TRUE
    /\ table' = [i \in Slots |-> 0]
    /\ UNCHANGED <<upnpVars, crashed, ctl, heap, fds, mutex, ids, call>>

InitAdhocctl(t) ==
    /\ MayCall(t) /\ ~ctl
    /\ ctl' = TRUE
    /\ StartUpnp
    /\ UNCHANGED <<status, devlist, lists, urls, forwards, stuck, crashed,
                   init, table, heap, fds, mutex, ids, call>>

(* sceNetAdhocctlTerm, of the game or as a part of sceNetAdhocTerm.        *)
Term(t, do) ==
    /\ init /\ MayTerm(t)
    /\ do = "adhocctl" => ctl
    /\ call' = [call EXCEPT ![t] = [Idle EXCEPT !.at = IF ctl THEN "stop" ELSE "deleting",
                                                !.do = do]]
    /\ UNCHANGED <<upnpVars, crashed, init, ctl, table, heap, fds, mutex, ids>>

CtlStopped(t) ==
    /\ ctl' = FALSE
    /\ IF call[t].do = "adhoc" THEN Goes(t, "deleting") ELSE Returns(t)

StopUpnp(t) ==
    /\ call[t].at = "stop"
    /\ status' = StopStatus
    /\ IF status' = -1 THEN Goes(t, "stopping") /\ UNCHANGED ctl ELSE CtlStopped(t)
    /\ UNCHANGED <<finder, devlist, lists, urls, forwards, stuck, twice, crashed,
                   init, table, heap, fds, mutex, ids>>

UpnpIsStopped(t) ==
    /\ call[t].at = "stopping" /\ status = 0
    /\ CtlStopped(t)
    /\ UNCHANGED <<upnpVars, crashed, init, table, heap, fds, mutex, ids>>

(* _deleteAllPDP and _deleteAllPTP.                                        *)
DeleteAll(t) ==
    LET gone == {table[i] : i \in Slots} \ {0}
    IN  /\ call[t].at = "deleting"
        /\ fds' = fds \ {heap[b].fd : b \in gone}
        /\ heap' = [b \in Blocks |-> IF b \in gone THEN Freed ELSE heap[b]]
        /\ table' = [i \in Slots |-> 0]
        /\ ids' = [u \in Threads |-> {}]
        /\ init' = FALSE
        /\ Returns(t)
        /\ UNCHANGED <<upnpVars, crashed, ctl, mutex>>

-----------------------------------------------------------------------------
GameCalls(t) ==
    \/ InitSockets(t) \/ InitAdhocctl(t)
    \/ \E do \in {"adhocctl", "adhoc"} : Term(t, do)
    \/ \E port \in PdpPorts : CheckPort(t, "PDP", port, "none")
    \/ \E port \in ListenPorts : CheckPort(t, "LISTEN", port, "none")
    \/ \E port \in OpenPorts, remote \in Remotes : CheckPort(t, "STREAM", port, remote)
    \/ \E i \in Slots : \/ \E do \in {"block", "nonblock"} : UseConnect(t, i, do)
                        \/ UseStream(t, i) \/ UseAccept(t, i) \/ Close(t, i)

CallGoesOn(t) ==
    \/ MakeSocket(t) \/ NoSocket(t) \/ Enter(t) \/ TableFull(t)
    \/ RouterReady(t) \/ NoRouterYet(t) \/ Forwarded(t)
    \/ Connect(t) \/ Poll(t) \/ Transfer(t)
    \/ Accept(t) \/ EnterAccepted(t) \/ RefuseAccepted(t)
    \/ CloseSocket(t) \/ Unforwarded(t) \/ FreeSocket(t) \/ ClearSlot(t)
    \/ StopUpnp(t) \/ UpnpIsStopped(t) \/ DeleteAll(t)

FinderRuns(w) == FinderStep(w) /\ UNCHANGED socketVars

Next ==
    \/ \E t \in Threads : GameCalls(t) \/ CallGoesOn(t)
    \/ \E w \in Finders : FinderRuns(w)

Spec == Init /\ [][Next]_vars

-----------------------------------------------------------------------------
Ports == PdpPorts \cup ListenPorts \cup OpenPorts
Forwards == {"UDP"} \X PdpPorts \cup {"TCP"} \X (ListenPorts \cup OpenPorts)

SocketRecord == [live : BOOLEAN, kind : {"PDP", "LISTEN", "STREAM"}, port : Ports \cup {"none"},
                 remote : Remotes \cup {"none"}, state : {"CLOSED", "LISTEN", "ESTABLISHED"},
                 mode : {"LISTEN", "OPEN", "ACCEPT"}, fd : Fds \cup {0}]

TypeOK ==
    /\ status \in {-1, 0, 1} /\ devlist \in Lists \cup {0} /\ lists \subseteq Lists
    /\ finder \in [Finders -> {"none", "top", "discover", "igd", "address", "serve"}]
    /\ urls \in BOOLEAN /\ forwards \subseteq Forwards /\ stuck \subseteq forwards
    /\ twice \in BOOLEAN /\ crashed \in BOOLEAN
    /\ init \in BOOLEAN /\ ctl \in BOOLEAN
    /\ table \in [Slots -> Blocks \cup {0}]
    /\ heap \in [Blocks -> SocketRecord]
    /\ fds \subseteq Fds
    /\ mutex \in Threads \cup {"free"}
    /\ ids \in [Threads -> SUBSET Slots]
    /\ \A t \in Threads :
          (mutex = t) = (call[t].at \in {"forward", "forwarding"})

(* Nothing is used or freed after it has been freed: no structure by a     *)
(* call, no device list or URL by a upnp thread or a call that waits for   *)
(* the router.  True only of games without the habits that break it.       *)
NoCrash == ~crashed

Live(i) == table[i] # 0 /\ Socket(i).live

(* Who will close a socket of the console: the structure it is in, until   *)
(* its close begins, or the call that has just made it.                    *)
Owners(fd) ==
    {i \in Slots : Live(i) /\ Socket(i).fd = fd
                     /\ \A t \in Threads : call[t].at \in Closing \ {"close"} => call[t].slot # i}
    \cup {t \in Threads : call[t].fd = fd}

(* Every open socket of the console has one owner, so it is closed once,   *)
(* and never when its number has already been given to another socket.     *)
ConsoleSocketsOwned ==
    \A fd \in Fds : Cardinality(Owners(fd)) = IF fd \in fds THEN 1 ELSE 0

(* What the router forwards belongs to a socket that is not an accepted    *)
(* one, or is what the router was asked to take away and has kept: every   *)
(* close asks for the forward of its socket.                               *)
ForwardsOwned ==
    \A f \in forwards \ stuck : \E i \in Slots :
        Live(i) /\ Socket(i).mode # "ACCEPT" /\ f = <<Protocol(Socket(i).kind), Socket(i).port>>

(* No forward is taken away from a listener that goes on listening.        *)
ListenerKeepsForward ==
    [][\A i \in Slots :
          LET f == <<"TCP", Socket(i).port>>
          IN  Live(i) /\ Socket(i).kind = "LISTEN" /\ f \in forwards /\ f \notin forwards'
                => \E t \in Threads : call[t].at = "unforwarding" /\ call[t].slot = i]_vars

(* A router that is published is there to be asked: as long as the status  *)
(* is 1, and until the last call that has seen it has its answer, the      *)
(* device list is in memory and the URLs are filled in.  From when a upnp  *)
(* thread was started beside another on, nothing is promised.              *)
RouterPublished ==
    ~twice => /\ status = 1 => urls /\ devlist \in lists
              /\ \A t \in Threads :
                    call[t].at \in {"forwarding", "unforwarding"} => urls /\ devlist \in lists

(* A game that terminates adhocctl, and waits for the upnp thread, is      *)
(* heard: either the thread has ended, or it is about to see the request.  *)
(* No thread overwrites the request by publishing a router, and none is    *)
(* waited for that is not there.                                           *)
StopIsHeard ==
    ~twice => \A t \in Threads : call[t].at = "stopping" =>
                \/ status = 0
                \/ status = -1 /\ \E w \in Finders : finder[w] \in {"serve", "top"}

(* While adhocctl is terminated no upnp thread is at work.                 *)
UpnpStopped == ~ctl => \A w \in Finders : finder[w] = "none"
=============================================================================
