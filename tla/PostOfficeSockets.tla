------------------------- MODULE PostOfficeSockets -------------------------
(***************************************************************************)
(* The sockets of pspnet_adhoc over the relay server ("post office"): the  *)
(* table _sockets, whose index is the id a game knows a socket by, the     *)
(* structures it points to, their sessions with the relay, and the threads *)
(* that connect PTP sockets in the background.                             *)
(*                                                                         *)
(* Only changes of the table are made under _socket_mapper_mutex.  Calls   *)
(* find structures through the table without it and use what they found    *)
(* later, so every call here is a sequence of steps between which other    *)
(* threads run; one of them may close the socket that is in use.  The      *)
(* client of the relay is external: an operation on a session that has     *)
(* been closed is aborted, as if its connection were lost, and to close it *)
(* again does nothing.  A datagram, a stream and the time are abstracted:  *)
(* a call that may block tries again any number of times.                  *)
(***************************************************************************)
EXTENDS Integers, FiniteSets, FiniteSetsExt

CONSTANTS Threads,     \* threads of the game that call the library
          Slots,       \* indices of _sockets
          Blocks,      \* bound: structures in memory at once
          Sessions,    \* bound: sessions with the relay at once
          Ports,       \* local ports
          Remotes,     \* address and port of a peer, as one value
          SharedKinds, \* kinds of sockets that a game uses from several threads
          Calls        \* what the game does

ASSUME TableAssumption == Slots \subseteq Nat \ {0} /\ IsFiniteSet(Slots)
ASSUME MemoryAssumption == Blocks \subseteq Nat \ {0} /\ Sessions \subseteq Nat \ {0}
ASSUME DisciplineAssumption == SharedKinds \subseteq {"PDP", "LISTEN", "STREAM"}

VARIABLES
    init,    \* _init
    table,   \* table[i]: the structure _sockets[i] points to, 0 for NULL
    heap,    \* the structures
    connect, \* connect[b]: the thread that was started to connect structure b
    open,    \* sessions that have been opened and not closed
    dead,    \* those whose connection is lost
    ids,     \* ids[t]: the ids that calls of t have returned and that are not closed
    call,    \* what each thread of the game is doing
    crashed  \* a call has followed a NULL or dangling pointer

vars == <<init, table, heap, connect, open, dead, ids, call, crashed>>

Freed == [live |-> FALSE, kind |-> "PDP", port |-> "none", remote |-> "none",
          state |-> "CLOSED", handle |-> 0]
NoThread == [at |-> "none", slot |-> 0, block |-> 0, session |-> 0]
Idle == [at |-> "idle", do |-> "none", port |-> "none", remote |-> "none", slot |-> 0,
         block |-> 0, session |-> 0]

Init ==
    /\ init = FALSE
    /\ table = [i \in Slots |-> 0]
    /\ heap = [b \in Blocks |-> Freed]
    /\ connect = [b \in Blocks |-> NoThread]
    /\ open = {}
    /\ dead = {}
    /\ ids = [t \in Threads |-> {}]
    /\ call = [t \in Threads |-> Idle]
    /\ crashed = FALSE

Socket(i) == heap[table[i]]
Is(i, kind) == table[i] # 0 /\ Socket(i).kind = kind
FreeSlots == {i \in Slots : table[i] = 0}
FreeBlocks == {b \in Blocks : ~heap[b].live}

Returns(t) == call' = [call EXCEPT ![t] = Idle]
Goes(t, place) == call' = [call EXCEPT ![t].at = place]
Crash == crashed' = TRUE /\ UNCHANGED <<init, table, heap, connect, open, dead, ids, call>>

-----------------------------------------------------------------------------
(* What the games are assumed to do: a socket of a shared kind is used by  *)
(* all threads, any other by the one that has got its id.  That one closes *)
(* it, whatever the others do with it.  Term is called alone.              *)

MayCall(t) ==
    init /\ call[t] = Idle /\ \A u \in Threads : call[u].at # "term"

MayUse(t, i) ==
    /\ MayCall(t)
    /\ i \in ids[t] \/ \E u \in Threads : i \in ids[u] /\ Socket(i).kind \in SharedKinds

MayClose(t, i) == MayCall(t) /\ i \in ids[t]

-----------------------------------------------------------------------------
(* PdpCreate, PtpListen and PtpOpen look the port up and enter the socket  *)
(* later.                                                                  *)

(* Which sockets are in the way of a new one. *)
Collides(s, kind, port, remote) ==
    /\ s.port = port /\ s.kind = kind
    /\ kind = "STREAM" => s.remote = remote

CheckPort(t, kind, port, remote) ==
    /\ MayCall(t) /\ (kind = "STREAM") = (remote # "none")
    /\ \A i \in Slots : table[i] # 0 => ~Collides(Socket(i), kind, port, remote)
    /\ call' = [call EXCEPT ![t] = [Idle EXCEPT !.at = "enter", !.do = kind, !.port = port,
                                                !.remote = remote]]
    /\ UNCHANGED <<init, table, heap, connect, open, dead, ids, crashed>>

(* The state of a new socket; of a PDP socket it means nothing.            *)
FirstState(kind) ==
    CASE kind = "STREAM" -> "SYN_SENT" [] kind = "LISTEN" -> "LISTEN" [] kind = "PDP" -> "CLOSED"

(* The structure is entered at the first free place.                       *)
Entered(t, s) ==
    LET i == Min(FreeSlots)
        b == Min(FreeBlocks)
    IN  /\ table' = [table EXCEPT ![i] = b]
        /\ heap' = [heap EXCEPT ![b] = s]
        /\ ids' = [ids EXCEPT ![t] = @ \cup {i}]

Enter(t) ==
    /\ call[t].at = "enter" /\ FreeSlots # {} /\ FreeBlocks # {}
    /\ Entered(t, [live |-> TRUE, kind |-> call[t].do, port |-> call[t].port,
                   remote |-> call[t].remote, handle |-> 0, state |-> FirstState(call[t].do)])
    /\ IF call[t].do = "STREAM"
       THEN /\ connect' = [connect EXCEPT ![Min(FreeBlocks)] =
                                [NoThread EXCEPT !.at = "started", !.slot = Min(FreeSlots)]]
            /\ call' = [call EXCEPT ![t] = [Idle EXCEPT !.at = "opening", !.slot = Min(FreeSlots),
                                                        !.block = Min(FreeBlocks)]]
       ELSE Returns(t) /\ UNCHANGED connect
    /\ UNCHANGED <<init, open, dead, crashed>>

TableFull(t) ==
    /\ call[t].at = "enter" /\ FreeSlots = {}
    /\ Returns(t)
    /\ UNCHANGED <<init, table, heap, connect, open, dead, ids, crashed>>

(* PtpOpen waits a while for the connection, in which the thread has at    *)
(* least begun to run.                                                     *)
OpenReturns(t) ==
    /\ call[t].at = "opening" /\ connect[call[t].block].at # "started"
    /\ Returns(t)
    /\ UNCHANGED <<init, table, heap, connect, open, dead, ids, crashed>>

(* The connect thread. *)
ConnectRuns(b) ==
    /\ connect[b].at = "started"
    /\ IF table[connect[b].slot] = 0 THEN Crash
       ELSE /\ connect' = [connect EXCEPT ![b].at = "connecting",
                                          ![b].block = table[connect[b].slot]]
            /\ UNCHANGED <<init, table, heap, open, dead, ids, call, crashed>>

ConnectFails(b) ==
    /\ connect[b].at = "connecting"
    /\ IF ~heap[connect[b].block].live THEN Crash
       ELSE /\ heap' = [heap EXCEPT ![connect[b].block].state = "CLOSED"]
            /\ connect' = [connect EXCEPT ![b].at = "ended"]
            /\ UNCHANGED <<init, table, open, dead, ids, call, crashed>>

(* Mutant of Stored: the state is set before the handle.                   *)
StoredStateFirst(s, session, before) ==
    IF before THEN [s EXCEPT !.state = "ESTABLISHED"] ELSE [s EXCEPT !.handle = session]

Stored(s, session, before) ==
    IF before THEN [s EXCEPT !.handle = session] ELSE [s EXCEPT !.state = "ESTABLISHED"]

ConnectSucceeds(b) ==
    /\ connect[b].at = "connecting"
    /\ Sessions \ open # {}
    /\ IF ~heap[connect[b].block].live THEN Crash
       ELSE LET session == Min(Sessions \ open)
            IN  /\ open' = open \cup {session}
                /\ heap' = [heap EXCEPT ![connect[b].block] = Stored(@, session, TRUE)]
                /\ connect' = [connect EXCEPT ![b].at = "storing", ![b].session = session]
                /\ UNCHANGED <<init, table, dead, ids, call, crashed>>

ConnectStores(b) ==
    /\ connect[b].at = "storing"
    /\ IF ~heap[connect[b].block].live THEN Crash
       ELSE /\ heap' = [heap EXCEPT ![connect[b].block] = Stored(@, connect[b].session, FALSE)]
            /\ connect' = [connect EXCEPT ![b].at = "ended"]
            /\ UNCHANGED <<init, table, open, dead, ids, call, crashed>>

-----------------------------------------------------------------------------
(* PdpSend, PdpRecv, PtpAccept and PollSocket find the session of a PDP or *)
(* listening socket, or make one when there is none.                       *)

UseSocket(t, i, do) ==
    /\ MayUse(t, i) /\ Socket(i).kind \in {"PDP", "LISTEN"}
    /\ do = "accept" => Socket(i).kind = "LISTEN"
    /\ do = "transfer" => Socket(i).kind = "PDP"
    /\ call' = [call EXCEPT ![t] = [Idle EXCEPT !.at = "recover", !.do = do, !.slot = i]]
    /\ UNCHANGED <<init, table, heap, connect, open, dead, ids, crashed>>

(* A call finds that the socket is gone; PollSocket looks into the         *)
(* structure before it asks.                                               *)
Recover(t) ==
    LET i == call[t].slot
    IN  /\ call[t].at = "recover"
        /\ \/ table[i] = 0 /\ call[t].do = "poll" /\ Crash
           \/ /\ table[i] = 0 /\ call[t].do # "poll" /\ Returns(t)
              /\ UNCHANGED <<init, table, heap, connect, open, dead, ids, crashed>>
           \/ /\ table[i] # 0
              /\ call' = [call EXCEPT ![t] =
                    IF Socket(i).handle # 0
                    THEN [@ EXCEPT !.at = "use", !.block = table[i], !.session = Socket(i).handle]
                    ELSE [@ EXCEPT !.at = "login", !.block = table[i]]]
              /\ UNCHANGED <<init, table, heap, connect, open, dead, ids, crashed>>

(* The relay has answered the new session.                                 *)
SessionMade(t) ==
    /\ call[t].at = "login" /\ Sessions \ open # {}
    /\ IF ~heap[call[t].block].live THEN Crash
       ELSE LET s == Min(Sessions \ open)
            IN  /\ open' = open \cup {s}
                /\ heap' = [heap EXCEPT ![call[t].block].handle = s]
                /\ call' = [call EXCEPT ![t].at = "use", ![t].session = s]
                /\ UNCHANGED <<init, table, connect, dead, ids, crashed>>

(* It has not: a call that may block tries again.                          *)
SessionFails(t) ==
    /\ call[t].at = "login"
    /\ IF ~heap[call[t].block].live THEN Crash
       ELSE /\ heap' = [heap EXCEPT ![call[t].block].handle = 0]
            /\ Returns(t) \/ Goes(t, "recover")
            /\ UNCHANGED <<init, table, connect, open, dead, ids, crashed>>

(* Mutant of Disposed: a lost session is forgotten but not deleted.        *)
DisposedNot(session) == open

Disposed(session) == open \ {session}

(* The relay no longer knows the session, or another thread has closed it. *)
Lost(session) == session \in dead \/ session \notin open

(* A session turns out to be lost.  Most calls delete it, then clear the   *)
(* handle they find through the table; PollSocket clears it first, in the  *)
(* structure it has found before.                                          *)
FindDead(t) ==
    /\ call[t].at = "use" /\ Lost(call[t].session)
    /\ \/ call[t].do = "poll" /\ ~heap[call[t].block].live /\ Crash
       \/ /\ call[t].do = "poll" /\ heap[call[t].block].live
          /\ heap' = [heap EXCEPT ![call[t].block].handle = 0]
          /\ Goes(t, "dispose")
          /\ UNCHANGED <<init, table, connect, open, dead, ids, crashed>>
       \/ /\ call[t].do # "poll"
          /\ open' = Disposed(call[t].session)
          /\ dead' = dead \ {call[t].session}
          /\ Goes(t, "clear")
          /\ UNCHANGED <<init, table, heap, connect, ids, crashed>>

Clear(t) ==
    /\ call[t].at = "clear"
    /\ IF table[call[t].slot] = 0 THEN Crash
       ELSE /\ heap' = [heap EXCEPT ![table[call[t].slot]].handle = 0]
            /\ Goes(t, "recover")
            /\ UNCHANGED <<init, table, connect, open, dead, ids, crashed>>

Dispose(t) ==
    /\ call[t].at = "dispose"
    /\ open' = Disposed(call[t].session)
    /\ dead' = dead \ {call[t].session}
    /\ Returns(t) \/ Goes(t, "recover")
    /\ UNCHANGED <<init, table, heap, connect, ids, crashed>>

(* The session has data, room or a request, or the call tries again.       *)
Transfer(t) ==
    /\ call[t].at = "use" /\ ~Lost(call[t].session)
    /\ Returns(t) \/ Goes(t, "recover")
    /\ UNCHANGED <<init, table, heap, connect, open, dead, ids, crashed>>

(* A peer has connected.                                                   *)
Accept(t) ==
    /\ call[t].at = "use" /\ call[t].do = "accept"
    /\ ~Lost(call[t].session) /\ Sessions \ open # {}
    /\ open' = open \cup {Min(Sessions \ open)}
    /\ call' = [call EXCEPT ![t].at = "accepted", ![t].session = Min(Sessions \ open)]
    /\ UNCHANGED <<init, table, heap, connect, dead, ids, crashed>>

EnterAccepted(t) ==
    /\ call[t].at = "accepted" /\ FreeSlots # {} /\ FreeBlocks # {}
    /\ IF table[call[t].slot] = 0 THEN Crash
       ELSE /\ \E remote \in Remotes :
                 Entered(t, [live |-> TRUE, kind |-> "STREAM", port |-> Socket(call[t].slot).port,
                             remote |-> remote, state |-> "ESTABLISHED",
                             handle |-> call[t].session])
            /\ Returns(t)
            /\ UNCHANGED <<init, connect, open, dead, crashed>>

Refused(session) == open \ {session}

(* No place for the new socket: the peer is turned away.                   *)
AcceptedTableFull(t) ==
    /\ call[t].at = "accepted" /\ FreeSlots = {}
    /\ open' = Refused(call[t].session)
    /\ dead' = dead \ {call[t].session}
    /\ Returns(t)
    /\ UNCHANGED <<init, table, heap, connect, ids, crashed>>

-----------------------------------------------------------------------------
(* PtpSend, PtpRecv and PtpConnect. *)

UseStream(t, i) ==
    /\ MayUse(t, i) /\ Socket(i).kind = "STREAM" /\ Socket(i).state = "ESTABLISHED"
    /\ call' = [call EXCEPT ![t] = [Idle EXCEPT !.at = "stream", !.slot = i]]
    /\ UNCHANGED <<init, table, heap, connect, open, dead, ids, crashed>>

(* An established stream whose session is lost stays established; every    *)
(* call on it answers that it is disconnected, or that it is gone.  A call *)
(* looks the handle up anew whenever it tries again.                       *)
Stream(t) ==
    /\ call[t].at = "stream"
    /\ \/ Returns(t)
       \/ table[call[t].slot] # 0 /\ Socket(call[t].slot).handle \notin dead /\ Goes(t, "stream")
    /\ UNCHANGED <<init, table, heap, connect, open, dead, ids, crashed>>

UseConnect(t, i) ==
    /\ MayUse(t, i) /\ Socket(i).kind = "STREAM" /\ Socket(i).state # "ESTABLISHED"
    /\ call' = [call EXCEPT ![t] = [Idle EXCEPT !.at = "connect", !.slot = i, !.block = table[i]]]
    /\ UNCHANGED <<init, table, heap, connect, open, dead, ids, crashed>>

(* PtpConnect never connects: it looks at what the thread has made of it.  *)
ConnectAnswers(t) ==
    LET b == call[t].block
    IN  /\ call[t].at = "connect"
        /\ IF ~heap[b].live THEN Crash
           ELSE IF heap[b].state = "SYN_SENT"
           THEN Returns(t) /\ UNCHANGED <<init, table, heap, connect, open, dead, ids, crashed>>
           ELSE /\ connect[b].at \in {"none", "ended"}
                /\ connect' = [connect EXCEPT ![b] = NoThread]
                /\ Returns(t)
                /\ UNCHANGED <<init, table, heap, open, dead, ids, crashed>>

-----------------------------------------------------------------------------
(* PdpDelete and PtpClose take the socket out of the table, wait for its   *)
(* thread, close its session and free it.                                  *)

Close(t, i) ==
    /\ MayClose(t, i)
    /\ call' = [call EXCEPT ![t] = [Idle EXCEPT !.at = "unlink", !.slot = i, !.block = table[i]]]
    /\ UNCHANGED <<init, table, heap, connect, open, dead, ids, crashed>>

(* Mutant of Unlinked: the place in the table is not cleared.              *)
UnlinkedNot(i) == table

Unlinked(i) == [table EXCEPT ![i] = 0]

Unlink(t) ==
    /\ call[t].at = "unlink"
    /\ table' = Unlinked(call[t].slot)
    /\ ids' = [ids EXCEPT ![t] = @ \ {call[t].slot}]
    /\ Goes(t, "join")
    /\ UNCHANGED <<init, heap, connect, open, dead, crashed>>

(* Mutant of Joined: the close does not wait for the connect thread.       *)
JoinedAtOnce(b) == TRUE

Joined(b) == connect[b].at \in {"none", "ended"}

FreeSocket(t) ==
    LET b == call[t].block
    IN  /\ call[t].at = "join" /\ Joined(b)
        /\ open' = open \ {heap[b].handle}
        /\ dead' = dead \ {heap[b].handle}
        /\ heap' = [heap EXCEPT ![b] = Freed]
        /\ connect' = [connect EXCEPT ![b] = IF @.at = "ended" THEN NoThread ELSE @]
        /\ Returns(t)
        /\ UNCHANGED <<init, table, ids, crashed>>

-----------------------------------------------------------------------------
InitLibrary(t) ==
    /\ ~init /\ call[t] = Idle
    /\ init' = TRUE
    /\ table' = [i \in Slots |-> 0]
    /\ UNCHANGED <<heap, connect, open, dead, ids, call, crashed>>

Term(t) ==
    /\ init /\ \A u \in Threads : call[u] = Idle
    /\ call' = [call EXCEPT ![t] = [Idle EXCEPT !.at = "term"]]
    /\ UNCHANGED <<init, table, heap, connect, open, dead, ids, crashed>>

(* _deleteAllPDP and _deleteAllPTP, which waits for the connect threads.   *)
DeleteAll(t) ==
    LET gone == {table[i] : i \in Slots} \ {0}
        handles == {heap[b].handle : b \in gone}
    IN  /\ call[t].at = "term" /\ \A b \in gone : Joined(b)
        /\ open' = open \ handles
        /\ dead' = dead \ handles
        /\ heap' = [b \in Blocks |-> IF b \in gone THEN Freed ELSE heap[b]]
        /\ connect' = [b \in Blocks |-> IF b \in gone THEN NoThread ELSE connect[b]]
        /\ table' = [i \in Slots |-> 0]
        /\ ids' = [u \in Threads |-> {}]
        /\ init' = FALSE
        /\ Returns(t)
        /\ UNCHANGED crashed

(* The connection to the relay breaks.                                     *)
LoseSession(s) ==
    /\ s \in open \ dead
    /\ dead' = dead \cup {s}
    /\ UNCHANGED <<init, table, heap, connect, open, ids, call, crashed>>

-----------------------------------------------------------------------------
Does(what) == what \in Calls

GameCalls(t) ==
    \/ InitLibrary(t)
    \/ Does("Term") /\ Term(t)
    \/ \E port \in Ports :
          \/ Does("PDP") /\ CheckPort(t, "PDP", port, "none")
          \/ Does("LISTEN") /\ CheckPort(t, "LISTEN", port, "none")
          \/ Does("STREAM") /\ \E remote \in Remotes : CheckPort(t, "STREAM", port, remote)
    \/ \E i \in Slots :
          \/ \E do \in {"transfer", "accept", "poll"} : UseSocket(t, i, do)
          \/ UseStream(t, i) \/ UseConnect(t, i) \/ Close(t, i)

CallGoesOn(t) ==
    \/ Enter(t) \/ TableFull(t) \/ OpenReturns(t)
    \/ Recover(t) \/ SessionMade(t) \/ SessionFails(t)
    \/ FindDead(t) \/ Clear(t) \/ Dispose(t) \/ Transfer(t)
    \/ Accept(t) \/ EnterAccepted(t) \/ AcceptedTableFull(t)
    \/ Stream(t) \/ ConnectAnswers(t)
    \/ Unlink(t) \/ FreeSocket(t) \/ DeleteAll(t)

ThreadStep(b) == ConnectRuns(b) \/ ConnectFails(b) \/ ConnectSucceeds(b) \/ ConnectStores(b)

Next ==
    \/ \E t \in Threads : GameCalls(t) \/ CallGoesOn(t)
    \/ \E b \in Blocks : ThreadStep(b)
    \/ \E s \in Sessions : LoseSession(s)

Spec == Init /\ [][Next]_vars

-----------------------------------------------------------------------------
SocketRecord == [live : BOOLEAN, kind : {"PDP", "LISTEN", "STREAM"},
                 port : Ports \cup {"none"}, remote : Remotes \cup {"none"},
                 state : {"CLOSED", "LISTEN", "SYN_SENT", "ESTABLISHED"}, handle : Sessions \cup {0}]

Places == {"idle", "enter", "opening", "recover", "login", "use", "clear", "dispose", "accepted",
           "stream", "connect", "unlink", "join", "term"}

TypeOK ==
    /\ init \in BOOLEAN /\ crashed \in BOOLEAN
    /\ table \in [Slots -> Blocks \cup {0}]
    /\ heap \in [Blocks -> SocketRecord]
    /\ \A b \in Blocks : (heap[b].state = "LISTEN") = (heap[b].kind = "LISTEN")
    /\ open \subseteq Sessions /\ dead \subseteq open
    /\ ids \in [Threads -> SUBSET Slots]
    /\ \A b \in Blocks : connect[b].at \in {"none", "started", "connecting", "storing", "ended"}
    /\ \A t \in Threads : /\ call[t].at \in Places
                          /\ call[t].slot \in Slots \cup {0}
                          /\ call[t].block \in Blocks \cup {0}
                          /\ call[t].session \in Sessions \cup {0}

(* A connect thread finds its structure in the table when it begins to     *)
(* run, and keeps it until it ends: no close, by whatever thread, frees it *)
(* first or gives its place away.                                          *)
ConnectThreadsSafe ==
    \A b \in Blocks :
        /\ connect[b].at = "started" => table[connect[b].slot] = b
        /\ connect[b].at \in {"connecting", "storing"} => connect[b].block = b /\ heap[b].live
                                                         /\ heap[b].kind = "STREAM"

(* "We don't even have a socket anymore, because the game decided to close *)
(* it on another thread" is answered with an error: a call that has found  *)
(* its session lost still has the entry that it is about to write to.      *)
NoNullFollowed == \A t \in Threads : call[t].at = "clear" => table[call[t].slot] # 0

(* A call is about to clear the handle of b, whose session it has deleted. *)
Stale(b) == \E t \in Threads : call[t].at = "clear" /\ call[t].block = b

(* What holds a session: the structure with its handle, or a call that has *)
(* taken it out of one or not yet put it into one.                         *)
Holders(s) ==
    {b \in Blocks : heap[b].live /\ heap[b].handle = s /\ ~Stale(b)}
    \cup {t \in Threads : call[t].at \in {"accepted", "dispose"} /\ call[t].session = s}

(* Every session is held exactly once: none is leaked, none will be closed *)
(* twice.                                                                  *)
SessionsOwned == \A s \in open : Cardinality(Holders(s)) = 1

(* Every structure is in the table once, or a close is about to free it.   *)
SocketsReachable ==
    \A b \in Blocks : heap[b].live =>
        Cardinality({i \in Slots : table[i] = b})
          + Cardinality({t \in Threads : call[t].at = "join" /\ call[t].block = b}) = 1

(* A stream that calls itself established has had a session made for it.   *)
EstablishedConnected ==
    \A b \in Blocks :
        heap[b].live /\ heap[b].kind = "STREAM" /\ heap[b].state = "ESTABLISHED"
            => heap[b].handle \in open

(* Two sockets never have one port, as PORT_IN_USE promises.               *)
UniquePorts ==
    \A i, j \in Slots : i # j /\ table[i] # 0 /\ table[j] # 0 =>
        ~Collides(Socket(i), Socket(j).kind, Socket(j).port, Socket(j).remote)
=============================================================================
