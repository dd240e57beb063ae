-------------------------- MODULE PostOfficeProofs --------------------------
(***************************************************************************)
(* For any number of threads, sockets, sessions and structures.            *)
(*                                                                         *)
(* However a game shares its sockets, and whatever it closes while another *)
(* of its threads uses it: the table, the structures and the ids agree,    *)
(* and connect threads keep what they work on (LinkInv).  If PDP and       *)
(* listening sockets are each used by one thread: every session has one    *)
(* holder (IInv).                                                          *)
(*                                                                         *)
(* Calls carry ids, structures and sessions over many steps in which other *)
(* threads run.  IInv says at every place of a call what still holds of    *)
(* what it has picked up: its place in the table is taken, by the          *)
(* structure it knows, whose handle it knows.  LinkInv says it only of the *)
(* calls that make and free structures, and of nothing else.               *)
(***************************************************************************)
EXTENDS PostOfficeSockets, ListTheorems, FiniteSetTheorems

SocketKinds == {"PDP", "LISTEN", "STREAM"}

CallRecord == [at : Places, do : SocketKinds \cup {"none", "transfer", "accept", "poll"},
               port : Ports \cup {"none"}, remote : Remotes \cup {"none"},
               slot : Slots \cup {0}, block : Blocks \cup {0}, session : Sessions \cup {0}]

ConnectRecord == [at : {"none", "started", "connecting", "storing", "ended"},
                  slot : Slots \cup {0}, block : Blocks \cup {0}, session : Sessions \cup {0}]

Types ==
    /\ table \in [Slots -> Blocks \cup {0}]
    /\ heap \in [Blocks -> SocketRecord]
    /\ connect \in [Blocks -> ConnectRecord]
    /\ call \in [Threads -> CallRecord]
    /\ ids \in [Threads -> SUBSET Slots]
    /\ open \subseteq Sessions

(* A structure that is in the table is live, and is there once.            *)
TableInv ==
    /\ \A i \in Slots : table[i] # 0 => heap[table[i]].live
    /\ \A i, j \in Slots : table[i] = table[j] /\ table[i] # 0 => i = j

Joins(t) == call[t].at = "join"

(* One that is not is about to be freed, by one call.                      *)
JoinInv ==
    /\ \A t \in Threads : Joins(t) =>
          /\ call[t].block \in Blocks /\ heap[call[t].block].live
          /\ \A i \in Slots : table[i] # call[t].block
          /\ \A u \in Threads : Joins(u) /\ call[u].block = call[t].block => u = t
    /\ \A b \in Blocks : heap[b].live =>
          (\E i \in Slots : table[i] = b) \/ (\E t \in Threads : Joins(t) /\ call[t].block = b)

(* Every id has one owner, and is that of a socket.                        *)
IdsInv ==
    /\ \A t \in Threads : \A i \in ids[t] : table[i] # 0
    /\ \A t, u \in Threads : ids[t] \cap ids[u] # {} => t = u

(* The places of a call on a PDP or listening socket, and of every call    *)
(* that relies on a place in the table.                                    *)
OnSession == {"recover", "login", "use", "clear", "dispose", "accepted"}
OnSlot == OnSession \cup {"unlink", "opening"}

(* What a call that is at c in t knows.                                    *)
Fits(t, c) ==
    /\ c.at = "enter" => c.do \in SocketKinds
    /\ c.at \in OnSlot => c.slot \in Slots /\ table[c.slot] # 0
    /\ c.at \in OnSlot \ {"recover"} => c.block = table[c.slot]
    /\ c.at \in OnSlot => c.slot \in ids[t]
    /\ c.at \in OnSession => Socket(c.slot).kind \in {"PDP", "LISTEN"}
    /\ c.at = "connect" => c.block \in Blocks
    /\ c.at \in {"login", "dispose"} => Socket(c.slot).handle = 0
    /\ c.at = "use" => Socket(c.slot).handle = c.session /\ c.session # 0

CallsInv == \A t \in Threads : Fits(t, call[t])

(* Nobody is at anything while another terminates the library, or before   *)
(* it is initialised.                                                      *)
AloneInv ==
    /\ \A t, u \in Threads : t # u /\ call[t].at = "term" => call[u].at = "idle"
    /\ ~init => /\ \A t \in Threads : call[t].at = "idle" /\ ids[t] = {}
                /\ \A i \in Slots : table[i] = 0

(* A connect thread works on a live stream; while it has not begun, the    *)
(* call that has started it waits.                                         *)
Awaited(b) ==
    \E t \in Threads : /\ call[t].at = "opening" /\ call[t].block = b
                       /\ call[t].slot = connect[b].slot

ConnectInv ==
    \A b \in Blocks :
        /\ connect[b].at # "none" => heap[b].live /\ heap[b].kind = "STREAM"
        /\ connect[b].at \in {"started", "connecting"} => heap[b].handle = 0
        /\ connect[b].at \in {"connecting", "storing"} => connect[b].block = b
        /\ connect[b].at = "storing" => heap[b].handle # 0
        /\ connect[b].at = "started" => Awaited(b)

(* The call, or the structure, holds a session.                            *)
Carries(t) == call[t].at \in {"accepted", "dispose"}
Keeps(b) == heap[b].live /\ heap[b].handle # 0 /\ ~Stale(b)

SessionInv ==
    /\ \A b \in Blocks : Keeps(b) => heap[b].handle \in open
    /\ \A b, c \in Blocks : Keeps(b) /\ Keeps(c) /\ heap[b].handle = heap[c].handle => b = c
    /\ \A t \in Threads : Carries(t) => call[t].session \in open
    /\ \A t, u \in Threads : Carries(t) /\ Carries(u) /\ call[t].session = call[u].session => t = u
    /\ \A t \in Threads, b \in Blocks : Carries(t) /\ Keeps(b) => call[t].session # heap[b].handle
    /\ \A s \in open : \/ \E b \in Blocks : Keeps(b) /\ heap[b].handle = s
                       \/ \E t \in Threads : Carries(t) /\ call[t].session = s

IInv == /\ Types /\ TableInv /\ JoinInv /\ IdsInv /\ CallsInv /\ AloneInv
        /\ ConnectInv /\ SessionInv /\ EstablishedConnected

USE TableAssumption, MemoryAssumption

-----------------------------------------------------------------------------
(* The first free place, structure or session number is a free one.        *)
LEMMA FirstFree ==
    /\ FreeSlots # {} => Min(FreeSlots) \in Slots /\ table[Min(FreeSlots)] = 0
    /\ FreeBlocks # {} => Min(FreeBlocks) \in Blocks /\ ~heap[Min(FreeBlocks)].live
    /\ Sessions \ open # {} => Min(Sessions \ open) \in Sessions \ open
BY MinIn DEF FreeSlots, FreeBlocks

(* Who holds which session depends on a few facts about the state only.    *)
LEMMA SessionsKept ==
    ASSUME SessionInv, open' = open,
           \A b \in Blocks : /\ Keeps(b)' <=> Keeps(b)
                             /\ Keeps(b) => heap'[b].handle = heap[b].handle,
           \A t \in Threads : /\ Carries(t)' <=> Carries(t)
                              /\ Carries(t) => call'[t].session = call[t].session
    PROVE  SessionInv'
BY DEF SessionInv

(* What a step leaves to other calls, or other structures, than one.       *)
SameCarried(u) == (Carries(u)' <=> Carries(u)) /\ (Carries(u) => call'[u].session = call[u].session)
SameKept(b) == (Keeps(b)' <=> Keeps(b)) /\ (Keeps(b) => heap'[b].handle = heap[b].handle)

CarriedKept == \A u \in Threads : SameCarried(u)
OthersCarry(t) == \A u \in Threads : u # t => SameCarried(u)
OthersKeep(b) == \A x \in Blocks : x # b => SameKept(x)
AllKeep == \A x \in Blocks : SameKept(x)

(* The ways a session is made, closed or handed on.                        *)
LEMMA KeeperGains ==
    ASSUME SessionInv, NEW b \in Blocks, OthersKeep(b), CarriedKept, ~Keeps(b), Keeps(b)',
           heap'[b].handle \notin open, open' = open \cup {heap'[b].handle}
    PROVE  SessionInv'
<1>1. \A x \in Blocks : Keeps(x)' => heap'[x].handle \in open'
  BY DEF SessionInv, OthersKeep, SameKept, CarriedKept, SameCarried
<1>2. \A x, y \in Blocks : Keeps(x)' /\ Keeps(y)' /\ heap'[x].handle = heap'[y].handle => x = y
  BY DEF SessionInv, OthersKeep, SameKept, CarriedKept, SameCarried
<1>3. \A u \in Threads : Carries(u)' => call'[u].session \in open'
  BY DEF SessionInv, OthersKeep, SameKept, CarriedKept, SameCarried
<1>4. \A u, v \in Threads :
         Carries(u)' /\ Carries(v)' /\ call'[u].session = call'[v].session => u = v
  BY DEF SessionInv, OthersKeep, SameKept, CarriedKept, SameCarried
<1>5. \A u \in Threads, x \in Blocks :
         Carries(u)' /\ Keeps(x)' => call'[u].session # heap'[x].handle
  BY DEF SessionInv, OthersKeep, SameKept, CarriedKept, SameCarried
<1>6. \A s \in open' : \/ \E x \in Blocks : Keeps(x)' /\ heap'[x].handle = s
                       \/ \E u \in Threads : Carries(u)' /\ call'[u].session = s
  BY DEF SessionInv, OthersKeep, SameKept, CarriedKept, SameCarried
<1> QED
  BY <1>1, <1>2, <1>3, <1>4, <1>5, <1>6 DEF SessionInv

LEMMA KeeperLoses ==
    ASSUME SessionInv, NEW b \in Blocks, OthersKeep(b), CarriedKept, Keeps(b), ~Keeps(b)',
           open' = open \ {heap[b].handle}
    PROVE  SessionInv'
<1>1. \A x \in Blocks : Keeps(x)' => heap'[x].handle \in open'
  BY DEF SessionInv, OthersKeep, SameKept, CarriedKept, SameCarried
<1>2. \A x, y \in Blocks : Keeps(x)' /\ Keeps(y)' /\ heap'[x].handle = heap'[y].handle => x = y
  BY DEF SessionInv, OthersKeep, SameKept, CarriedKept, SameCarried
<1>3. \A u \in Threads : Carries(u)' => call'[u].session \in open'
  BY DEF SessionInv, OthersKeep, SameKept, CarriedKept, SameCarried
<1>4. \A u, v \in Threads :
         Carries(u)' /\ Carries(v)' /\ call'[u].session = call'[v].session => u = v
  BY DEF SessionInv, OthersKeep, SameKept, CarriedKept, SameCarried
<1>5. \A u \in Threads, x \in Blocks :
         Carries(u)' /\ Keeps(x)' => call'[u].session # heap'[x].handle
  BY DEF SessionInv, OthersKeep, SameKept, CarriedKept, SameCarried
<1>6. \A s \in open' : \/ \E x \in Blocks : Keeps(x)' /\ heap'[x].handle = s
                       \/ \E u \in Threads : Carries(u)' /\ call'[u].session = s
  BY DEF SessionInv, OthersKeep, SameKept, CarriedKept, SameCarried
<1> QED
  BY <1>1, <1>2, <1>3, <1>4, <1>5, <1>6 DEF SessionInv

LEMMA CarrierGains ==
    ASSUME SessionInv, NEW t \in Threads, OthersCarry(t), AllKeep, ~Carries(t), Carries(t)',
           call'[t].session \notin open, open' = open \cup {call'[t].session}
    PROVE  SessionInv'
<1>1. \A x \in Blocks : Keeps(x)' => heap'[x].handle \in open'
  BY DEF SessionInv, OthersCarry, AllKeep, SameKept, SameCarried
<1>2. \A x, y \in Blocks : Keeps(x)' /\ Keeps(y)' /\ heap'[x].handle = heap'[y].handle => x = y
  BY DEF SessionInv, OthersCarry, AllKeep, SameKept, SameCarried
<1>3. \A u \in Threads : Carries(u)' => call'[u].session \in open'
  BY DEF SessionInv, OthersCarry, AllKeep, SameKept, SameCarried
<1>4. \A u, v \in Threads :
         Carries(u)' /\ Carries(v)' /\ call'[u].session = call'[v].session => u = v
  BY DEF SessionInv, OthersCarry, AllKeep, SameKept, SameCarried
<1>5. \A u \in Threads, x \in Blocks :
         Carries(u)' /\ Keeps(x)' => call'[u].session # heap'[x].handle
  BY DEF SessionInv, OthersCarry, AllKeep, SameKept, SameCarried
<1>6. \A s \in open' : \/ \E x \in Blocks : Keeps(x)' /\ heap'[x].handle = s
                       \/ \E u \in Threads : Carries(u)' /\ call'[u].session = s
  BY DEF SessionInv, OthersCarry, AllKeep, SameKept, SameCarried
<1> QED
  BY <1>1, <1>2, <1>3, <1>4, <1>5, <1>6 DEF SessionInv

LEMMA CarrierLoses ==
    ASSUME SessionInv, NEW t \in Threads, OthersCarry(t), AllKeep, Carries(t), ~Carries(t)',
           open' = open \ {call[t].session}
    PROVE  SessionInv'
<1>1. \A x \in Blocks : Keeps(x)' => heap'[x].handle \in open'
  BY DEF SessionInv, OthersCarry, AllKeep, SameKept, SameCarried
<1>2. \A x, y \in Blocks : Keeps(x)' /\ Keeps(y)' /\ heap'[x].handle = heap'[y].handle => x = y
  BY DEF SessionInv, OthersCarry, AllKeep, SameKept, SameCarried
<1>3. \A u \in Threads : Carries(u)' => call'[u].session \in open'
  BY DEF SessionInv, OthersCarry, AllKeep, SameKept, SameCarried
<1>4. \A u, v \in Threads :
         Carries(u)' /\ Carries(v)' /\ call'[u].session = call'[v].session => u = v
  BY DEF SessionInv, OthersCarry, AllKeep, SameKept, SameCarried
<1>5. \A u \in Threads, x \in Blocks :
         Carries(u)' /\ Keeps(x)' => call'[u].session # heap'[x].handle
  BY DEF SessionInv, OthersCarry, AllKeep, SameKept, SameCarried
<1>6. \A s \in open' : \/ \E x \in Blocks : Keeps(x)' /\ heap'[x].handle = s
                       \/ \E u \in Threads : Carries(u)' /\ call'[u].session = s
  BY DEF SessionInv, OthersCarry, AllKeep, SameKept, SameCarried
<1> QED
  BY <1>1, <1>2, <1>3, <1>4, <1>5, <1>6 DEF SessionInv

LEMMA KeeperToCarrier ==
    ASSUME SessionInv, NEW t \in Threads, NEW b \in Blocks, OthersCarry(t), OthersKeep(b),
           open' = open, Keeps(b), ~Keeps(b)', ~Carries(t), Carries(t)',
           call'[t].session = heap[b].handle
    PROVE  SessionInv'
<1>1. \A x \in Blocks : Keeps(x)' => heap'[x].handle \in open'
  BY DEF SessionInv, OthersCarry, OthersKeep, SameKept, SameCarried
<1>2. \A x, y \in Blocks : Keeps(x)' /\ Keeps(y)' /\ heap'[x].handle = heap'[y].handle => x = y
  BY DEF SessionInv, OthersCarry, OthersKeep, SameKept, SameCarried
<1>3. \A u \in Threads : Carries(u)' => call'[u].session \in open'
  BY DEF SessionInv, OthersCarry, OthersKeep, SameKept, SameCarried
<1>4. \A u, v \in Threads :
         Carries(u)' /\ Carries(v)' /\ call'[u].session = call'[v].session => u = v
  BY DEF SessionInv, OthersCarry, OthersKeep, SameKept, SameCarried
<1>5. \A u \in Threads, x \in Blocks :
         Carries(u)' /\ Keeps(x)' => call'[u].session # heap'[x].handle
  BY DEF SessionInv, OthersCarry, OthersKeep, SameKept, SameCarried
<1>6. \A s \in open' : \/ \E x \in Blocks : Keeps(x)' /\ heap'[x].handle = s
                       \/ \E u \in Threads : Carries(u)' /\ call'[u].session = s
  BY DEF SessionInv, OthersCarry, OthersKeep, SameKept, SameCarried
<1> QED
  BY <1>1, <1>2, <1>3, <1>4, <1>5, <1>6 DEF SessionInv

LEMMA CarrierToKeeper ==
    ASSUME SessionInv, NEW t \in Threads, NEW b \in Blocks, OthersCarry(t), OthersKeep(b),
           open' = open, ~Keeps(b), Keeps(b)', Carries(t), ~Carries(t)',
           heap'[b].handle = call[t].session
    PROVE  SessionInv'
<1>1. \A x \in Blocks : Keeps(x)' => heap'[x].handle \in open'
  BY DEF SessionInv, OthersCarry, OthersKeep, SameKept, SameCarried
<1>2. \A x, y \in Blocks : Keeps(x)' /\ Keeps(y)' /\ heap'[x].handle = heap'[y].handle => x = y
  BY DEF SessionInv, OthersCarry, OthersKeep, SameKept, SameCarried
<1>3. \A u \in Threads : Carries(u)' => call'[u].session \in open'
  BY DEF SessionInv, OthersCarry, OthersKeep, SameKept, SameCarried
<1>4. \A u, v \in Threads :
         Carries(u)' /\ Carries(v)' /\ call'[u].session = call'[v].session => u = v
  BY DEF SessionInv, OthersCarry, OthersKeep, SameKept, SameCarried
<1>5. \A u \in Threads, x \in Blocks :
         Carries(u)' /\ Keeps(x)' => call'[u].session # heap'[x].handle
  BY DEF SessionInv, OthersCarry, OthersKeep, SameKept, SameCarried
<1>6. \A s \in open' : \/ \E x \in Blocks : Keeps(x)' /\ heap'[x].handle = s
                       \/ \E u \in Threads : Carries(u)' /\ call'[u].session = s
  BY DEF SessionInv, OthersCarry, OthersKeep, SameKept, SameCarried
<1> QED
  BY <1>1, <1>2, <1>3, <1>4, <1>5, <1>6 DEF SessionInv

(* The places of a call at which it owns nothing, and nobody waits for it. *)
Plain == {"idle", "enter", "recover", "login", "use", "stream", "connect"}

(* A call that moves between such places, returns from opening a stream, or *)
(* begins to close a socket or to terminate the library, and else at most   *)
(* forgets connect threads, is safe when it knows what it has to know there.*)
LEMMA MoveAndForgetIsSafe ==
    ASSUME IInv, NEW t \in Threads, NEW c \in CallRecord,
           call' = [call EXCEPT ![t] = c],
           UNCHANGED <<init, table, heap, open, ids, crashed>>,
           connect' \in [Blocks -> ConnectRecord],
           \A b \in Blocks : connect'[b] = connect[b] \/ connect'[b].at = "none",
           call[t].at \in Plain \cup {"opening"}, c.at \in Plain \cup {"unlink", "term"},
           Fits(t, c),
           call[t].at = "opening" => connect[call[t].block].at # "started",
           c.at # "idle" => init /\ \A u \in Threads : u # t => call[u].at # "term",
           c.at = "term" => \A u \in Threads : u # t => call[u].at = "idle"
    PROVE  IInv'
<1> USE DEF IInv, Types
<1>1. /\ call'[t] = c
      /\ \A u \in Threads : u # t => call'[u] = call[u]
      /\ call' \in [Threads -> CallRecord]
  OBVIOUS
<1>2. Types' /\ TableInv' /\ IdsInv'
  BY <1>1 DEF TableInv, IdsInv
<1>3. JoinInv'
  BY <1>1 DEF JoinInv, Joins, Plain
<1>4. CallsInv'
  BY <1>1 DEF CallsInv, Fits, Socket
<1>5. AloneInv'
  BY <1>1 DEF AloneInv, Plain
<1>6. ConnectInv'
  BY <1>1 DEF ConnectInv, Awaited, Plain
<1>7. SessionInv' /\ EstablishedConnected'
  <2>1. \A b \in Blocks : Stale(b)' <=> Stale(b)
    BY <1>1 DEF Stale, Plain
  <2>2. \A u \in Threads : Carries(u)' <=> Carries(u)
    BY <1>1 DEF Carries, Plain
  <2>3. \A u \in Threads : Carries(u) => call'[u].session = call[u].session
    BY <1>1 DEF Carries, Plain
  <2>4. SessionInv'
    BY <2>1, <2>2, <2>3, SessionsKept DEF Keeps
  <2> QED
    BY <2>4 DEF EstablishedConnected
<1> QED
  BY <1>2, <1>3, <1>4, <1>5, <1>6, <1>7

LEMMA MoveIsSafe ==
    ASSUME IInv, NEW t \in Threads, NEW c \in CallRecord,
           call' = [call EXCEPT ![t] = c],
           UNCHANGED <<init, table, heap, connect, open, ids, crashed>>,
           call[t].at \in Plain \cup {"opening"}, c.at \in Plain \cup {"unlink", "term"},
           Fits(t, c),
           call[t].at = "opening" => connect[call[t].block].at # "started",
           c.at # "idle" => init /\ \A u \in Threads : u # t => call[u].at # "term",
           c.at = "term" => \A u \in Threads : u # t => call[u].at = "idle"
    PROVE  IInv'
BY MoveAndForgetIsSafe DEF IInv, Types

(* A step that leaves the sockets and the calls alone is safe, a crash too. *)
LEMMA QuietIsSafe ==
    ASSUME IInv, UNCHANGED <<init, table, heap, connect, open, ids, call>>
    PROVE  IInv'
<1>2. Types' /\ TableInv' /\ JoinInv' /\ IdsInv'
  BY DEF IInv, Types, TableInv, JoinInv, Joins, IdsInv
<1>3. CallsInv' /\ AloneInv' /\ ConnectInv'
  BY DEF IInv, CallsInv, Fits, Socket, AloneInv, ConnectInv, Awaited
<1>4. SessionInv'
  BY SessionsKept DEF IInv, Keeps, Stale, Carries
<1>5. EstablishedConnected'
  BY DEF IInv, EstablishedConnected
<1> QED
  BY <1>2, <1>3, <1>4, <1>5 DEF IInv

LEMMA ReturnIsSafe ==
    ASSUME IInv, NEW t \in Threads, call[t].at \in Plain, Returns(t),
           UNCHANGED <<init, table, heap, connect, open, ids, crashed>>
    PROVE  IInv'
<1>1. Idle \in CallRecord /\ Fits(t, Idle) /\ Idle.at = "idle" /\ Idle.slot = 0
  BY DEF Idle, CallRecord, Places, Fits, OnSlot, OnSession
<1> QED
  BY <1>1, MoveIsSafe DEF Returns, Plain

LEMMA CheckPortIsSafe ==
    ASSUME IInv, NEW t \in Threads, NEW kind \in SocketKinds, NEW port \in Ports,
           NEW remote \in Remotes \cup {"none"}, CheckPort(t, kind, port, remote)
    PROVE  IInv'
<1> DEFINE c == [Idle EXCEPT !.at = "enter", !.do = kind, !.port = port, !.remote = remote]
<1>1. c \in CallRecord /\ Fits(t, c)
  BY DEF Idle, CallRecord, Places, Fits, OnSlot, OnSession
<1>2. c.at = "enter" /\ c.slot = 0
  BY DEF Idle
<1>3. call[t].at = "idle" /\ init /\ \A u \in Threads : call[u].at # "term"
  BY DEF CheckPort, MayCall, Idle
<1>4. call' = [call EXCEPT ![t] = c] /\ UNCHANGED <<init, table, heap, connect, open, ids, crashed>>
  BY DEF CheckPort
<1> HIDE DEF c
<1> QED
  BY <1>1, <1>2, <1>3, <1>4, MoveIsSafe, ZenonT(60) DEF Plain

LEMMA TermIsSafe ==
    ASSUME IInv, NEW t \in Threads, Term(t)
    PROVE  IInv'
<1> DEFINE c == [Idle EXCEPT !.at = "term"]
<1>1. c \in CallRecord /\ Fits(t, c) /\ c.at = "term" /\ c.slot = 0
  BY DEF Idle, CallRecord, Places, Fits, OnSlot, OnSession
<1>2. init /\ \A u \in Threads : call[u].at = "idle"
  BY DEF Term, Idle
<1>3. call' = [call EXCEPT ![t] = c] /\ UNCHANGED <<init, table, heap, connect, open, ids, crashed>>
  BY DEF Term
<1> HIDE DEF c
<1> QED
  BY <1>1, <1>2, <1>3, MoveIsSafe DEF Plain

(* The call that opens a stream returns when the connect thread runs.      *)
LEMMA OpenReturnsIsSafe ==
    ASSUME IInv, NEW t \in Threads, OpenReturns(t)
    PROVE  IInv'
<1>1. Idle \in CallRecord /\ Fits(t, Idle) /\ Idle.at = "idle" /\ Idle.slot = 0
  BY DEF Idle, CallRecord, Places, Fits, OnSlot, OnSession
<1> QED
  BY <1>1, MoveIsSafe DEF OpenReturns, Returns, Plain

(* A socket that is not shared is used by the thread that has got its id.  *)
LEMMA UnsharedIsOwn ==
    ASSUME SharedKinds \subseteq {"STREAM"}, NEW t \in Threads, NEW i \in Slots, MayUse(t, i),
           Socket(i).kind \in {"PDP", "LISTEN"}
    PROVE  i \in ids[t]
BY DEF MayUse

LEMMA UseSocketIsSafe ==
    ASSUME IInv, NEW t \in Threads, NEW i \in Slots, i \in ids[t],
           NEW do \in {"transfer", "accept", "poll"}, UseSocket(t, i, do)
    PROVE  IInv'
<1> DEFINE c == [Idle EXCEPT !.at = "recover", !.do = do, !.slot = i]
<1>1. table[i] # 0 /\ Socket(i).kind \in {"PDP", "LISTEN"}
  BY DEF UseSocket, IInv, IdsInv
<1>2. c \in CallRecord /\ c.at = "recover" /\ c.slot = i
  BY DEF Idle, CallRecord, Places
<1>3. call[t].at = "idle" /\ init /\ \A u \in Threads : call[u].at # "term"
  BY DEF UseSocket, MayUse, MayCall, Idle
<1>5. call' = [call EXCEPT ![t] = c] /\ UNCHANGED <<init, table, heap, connect, open, ids, crashed>>
  BY DEF UseSocket
<1> HIDE DEF c
<1>6. Fits(t, c)
  BY <1>1, <1>2 DEF Fits, OnSlot, OnSession
<1> QED
  BY <1>2, <1>3, <1>5, <1>6, MoveIsSafe, ZenonT(60) DEF Plain

LEMMA UsedIsThere ==
    ASSUME IInv, NEW t \in Threads, NEW i \in Slots, MayUse(t, i)
    PROVE  table[i] # 0
BY DEF IInv, IdsInv, MayUse

LEMMA UseStreamIsSafe ==
    ASSUME IInv, NEW t \in Threads, NEW i \in Slots, UseStream(t, i)
    PROVE  IInv'
<1> DEFINE c == [Idle EXCEPT !.at = "stream", !.slot = i]
<1>1. table[i] # 0 /\ Socket(i).kind = "STREAM"
  BY UsedIsThere DEF UseStream
<1>2. c \in CallRecord /\ c.at = "stream" /\ c.slot = i
  BY DEF Idle, CallRecord, Places
<1>3. call[t].at = "idle" /\ init /\ \A u \in Threads : call[u].at # "term"
  BY DEF UseStream, MayUse, MayCall, Idle
<1>5. call' = [call EXCEPT ![t] = c] /\ UNCHANGED <<init, table, heap, connect, open, ids, crashed>>
  BY DEF UseStream
<1> HIDE DEF c
<1>6. Fits(t, c)
  BY <1>1, <1>2 DEF Fits, OnSlot, OnSession
<1> QED
  BY <1>2, <1>3, <1>5, <1>6, MoveIsSafe, ZenonT(60) DEF Plain

LEMMA UseConnectIsSafe ==
    ASSUME IInv, NEW t \in Threads, NEW i \in Slots, UseConnect(t, i)
    PROVE  IInv'
<1> DEFINE c == [Idle EXCEPT !.at = "connect", !.slot = i, !.block = table[i]]
<1>1. table[i] # 0 /\ Socket(i).kind = "STREAM"
  BY UsedIsThere DEF UseConnect
<1>2. c \in CallRecord /\ c.at = "connect" /\ c.slot = i /\ c.block = table[i]
  BY DEF Idle, CallRecord, Places, IInv, Types
<1>3. call[t].at = "idle" /\ init /\ \A u \in Threads : call[u].at # "term"
  BY DEF UseConnect, MayUse, MayCall, Idle
<1>5. call' = [call EXCEPT ![t] = c] /\ UNCHANGED <<init, table, heap, connect, open, ids, crashed>>
  BY DEF UseConnect
<1> HIDE DEF c
<1>6. table[i] \in Blocks
  BY <1>1 DEF IInv, Types
<1>7. Fits(t, c)
  BY <1>2, <1>6 DEF Fits, OnSlot, OnSession
<1> QED
  BY <1>2, <1>3, <1>5, <1>7, MoveIsSafe, ZenonT(60) DEF Plain

(* A socket is closed by the thread that has got its id, in no other call. *)
LEMMA CloseIsSafe ==
    ASSUME IInv, NEW t \in Threads, NEW i \in Slots, Close(t, i)
    PROVE  IInv'
<1> DEFINE c == [Idle EXCEPT !.at = "unlink", !.slot = i, !.block = table[i]]
<1>1. i \in ids[t] /\ table[i] # 0
  BY DEF Close, MayClose, IInv, IdsInv
<1>2. c \in CallRecord /\ c.at = "unlink" /\ c.slot = i /\ c.block = table[i]
  BY DEF Idle, CallRecord, Places, IInv, Types
<1>3. call[t].at = "idle" /\ init /\ \A u \in Threads : call[u].at # "term"
  BY DEF Close, MayClose, MayCall, Idle
<1>5. call' = [call EXCEPT ![t] = c] /\ UNCHANGED <<init, table, heap, connect, open, ids, crashed>>
  BY DEF Close
<1> HIDE DEF c
<1>6. Fits(t, c)
  BY <1>1, <1>2 DEF Fits, OnSlot, OnSession
<1> QED
  BY <1>2, <1>3, <1>5, <1>6, MoveIsSafe, ZenonT(60) DEF Plain

-----------------------------------------------------------------------------
(* Calls on a PDP or listening socket. *)

(* A call that has picked up a place of its own finds a live structure     *)
(* there.                                                                  *)
LEMMA PlaceIsKept ==
    ASSUME IInv, NEW t \in Threads, call[t].at \in OnSlot
    PROVE  /\ call[t].slot \in Slots /\ table[call[t].slot] \in Blocks
           /\ Socket(call[t].slot).live
           /\ init /\ \A u \in Threads : u # t => call[u].at # "term"
<1>1. call[t].slot \in Slots /\ table[call[t].slot] # 0
  BY DEF IInv, CallsInv, Fits
<1>2. table[call[t].slot] \in Blocks /\ Socket(call[t].slot).live
  BY <1>1 DEF IInv, Types, TableInv, Socket
<1>3. init /\ \A u \in Threads : u # t => call[u].at # "term"
  BY DEF IInv, AloneInv, OnSlot, OnSession
<1> QED
  BY <1>1, <1>2, <1>3

(* What a step of such a call leaves as it was: everything but its own     *)
(* place, the handle of its own structure, and the sessions.               *)
OwnMove(t) ==
    /\ call' = [call EXCEPT ![t] = call'[t]] /\ call'[t] \in CallRecord
    /\ call'[t].at = "idle" \/ call'[t].at \in OnSession
    /\ call'[t].at # "idle" => call'[t].slot = call[t].slot
    /\ call'[t].at = "idle" => call'[t].slot = 0
    /\ heap' \in [Blocks -> SocketRecord]
    /\ \A b \in Blocks : /\ heap'[b].live = heap[b].live /\ heap'[b].kind = heap[b].kind
                         /\ heap'[b].state = heap[b].state
                         /\ b # table[call[t].slot] => heap'[b].handle = heap[b].handle
    /\ open' \subseteq Sessions
    /\ UNCHANGED <<init, table, connect, ids, crashed>>

LEMMA OwnMoveIsSafe ==
    ASSUME IInv, NEW t \in Threads, call[t].at \in OnSession, OwnMove(t),
           Fits(t, call[t])', SessionInv'
    PROVE  IInv'
<1> USE DEF IInv, Types, OwnMove
<1> DEFINE i == call[t].slot
           b == table[i]
<1>1. /\ \A u \in Threads : u # t => call'[u] = call[u]
      /\ call' \in [Threads -> CallRecord]
  OBVIOUS
<1>2. i \in Slots /\ b \in Blocks /\ init /\ \A u \in Threads : u # t => call[u].at # "term"
  BY PlaceIsKept DEF OnSlot
<1>3. i \in ids[t] /\ heap[b].kind \in {"PDP", "LISTEN"}
  BY DEF CallsInv, Fits, OnSlot, Socket
<1>4. Types' /\ TableInv' /\ IdsInv'
  <2>1. Types'
    BY <1>1
  <2>2. TableInv'
    <3>1. ASSUME NEW j \in Slots, table'[j] # 0 PROVE heap'[table'[j]].live
      <4>1. table'[j] = table[j] /\ table[j] \in Blocks /\ heap[table[j]].live
        BY <3>1 DEF TableInv
      <4> QED
        BY <4>1
    <3>2. \A j, k \in Slots : table'[j] = table'[k] /\ table'[j] # 0 => j = k
      BY DEF TableInv
    <3> QED
      BY <3>1, <3>2 DEF TableInv
  <2> QED
    BY <2>1, <2>2 DEF IdsInv
<1>5. JoinInv'
  <2>1. ~Joins(t) /\ ~Joins(t)'
    BY DEF Joins, OnSession
  <2>2. \A u \in Threads : Joins(u)' <=> Joins(u)
    BY <1>1, <2>1 DEF Joins
  <2>3. \A u \in Threads : Joins(u) => call'[u] = call[u]
    BY <1>1, <2>1
  <2> QED
    BY <2>2, <2>3 DEF JoinInv
<1>6. ASSUME NEW u \in Threads, u # t
      PROVE  Fits(u, call[u])'
  <2>1. call'[u] = call[u] /\ Fits(u, call[u])
    BY <1>1, <1>6 DEF CallsInv
  <2>2. ASSUME call[u].at \in OnSession PROVE table[call[u].slot] # b
    <3>1. call[u].slot \in ids[u] /\ call[u].slot \in Slots /\ table[call[u].slot] # 0
      BY <2>1, <2>2 DEF Fits, OnSlot
    <3>2. call[u].slot # i
      BY <3>1, <1>3, <1>6 DEF IdsInv
    <3> QED
      BY <3>1, <3>2, <1>2 DEF TableInv
  <2>3. call[u].at \in OnSlot => table[call[u].slot] \in Blocks
    BY <2>1 DEF Fits
  <2>4. ASSUME call[u].at \in OnSlot
        PROVE  LET d == table[call[u].slot]
               IN  /\ heap'[d].kind = heap[d].kind
                   /\ d # b => heap'[d].handle = heap[d].handle
    BY <1>1, <1>2, <2>3, <2>4
  <2>5. call[u].at \in OnSession => heap'[table[call[u].slot]].handle = heap[table[call[u].slot]].handle
    BY <2>2, <2>4 DEF OnSlot
  <2>6. call[u].at \in {"login", "dispose", "use"} => call[u].at \in OnSession
    BY DEF OnSession
  <2> QED
    BY <2>1, <2>4, <2>5, <2>6 DEF Fits, Socket, OnSlot, OnSession
<1>7. CallsInv'
  BY <1>6 DEF CallsInv
<1>8. AloneInv'
  BY <1>1, <1>2 DEF AloneInv, OnSession
<1>9. ConnectInv'
  <2>1. \A x \in Blocks : Awaited(x) => Awaited(x)'
    BY <1>1 DEF Awaited, OnSession
  <2> QED
    BY <2>1, <1>3 DEF ConnectInv
<1>10. EstablishedConnected'
  <2>1. ASSUME NEW x \in Blocks, heap'[x].live, heap'[x].kind = "STREAM",
               heap'[x].state = "ESTABLISHED"
        PROVE  heap'[x].handle \in open'
    <3>1. x # b /\ heap'[x].handle = heap[x].handle /\ heap[x].handle \in open
      BY <2>1, <1>3 DEF EstablishedConnected
    <3>2. heap'[x].handle # 0
      BY <3>1
    <3>3. \A u \in Threads : ~ (call'[u].at = "clear" /\ call'[u].block = x)
      BY <2>1, <1>7 DEF CallsInv, Fits, Socket, OnSlot, OnSession
    <3> QED
      BY <2>1, <3>2, <3>3 DEF SessionInv, Keeps, Stale
  <2> QED
    BY <2>1 DEF EstablishedConnected
<1> QED
  BY <1>4, <1>5, <1>7, <1>8, <1>9, <1>10

(* A step of t leaves what other calls and structures hold alone, and      *)
(* whether its own structure is stale is decided by its own place.         *)
LEMMA OthersHold ==
    ASSUME IInv, NEW t \in Threads, call[t].at \in OnSession, OwnMove(t), Fits(t, call[t])',
           NEW b \in Blocks, b = table[call[t].slot]
    PROVE  /\ OthersCarry(t) /\ OthersKeep(b)
           /\ Keeps(b) <=> heap[b].handle # 0 /\ call[t].at # "clear"
           /\ Keeps(b)' <=> heap'[b].handle # 0 /\ call'[t].at # "clear"
<1> DEFINE i == call[t].slot
<1>1. i \in Slots /\ i \in ids[t] /\ b # 0 /\ heap[b].live
  BY PlaceIsKept DEF OnSlot, IInv, CallsInv, Fits, Socket
<1>2. \A u \in Threads : u # t => call'[u] = call[u]
  BY DEF OwnMove, IInv, Types
<1>3. ASSUME NEW u \in Threads, u # t, call[u].at = "clear"
      PROVE  call[u].block # b
  <2>1. /\ call[u].slot \in ids[u] /\ call[u].slot \in Slots
        /\ table[call[u].slot] # 0 /\ call[u].block = table[call[u].slot]
    BY <1>3 DEF IInv, CallsInv, Fits, OnSlot, OnSession
  <2>2. call[u].slot # i
    BY <2>1, <1>1, <1>3 DEF IInv, IdsInv
  <2> QED
    BY <2>1, <2>2, <1>1 DEF IInv, TableInv
<1>4. /\ call[t].at = "clear" => call[t].block = b
      /\ call'[t].at = "clear" => call'[t].block = b
  BY DEF IInv, CallsInv, Fits, OnSlot, OnSession, OwnMove
<1>5. \A x \in Blocks : x # b => (Stale(x)' <=> Stale(x))
  BY <1>2, <1>4 DEF Stale
<1>6. Stale(b) <=> call[t].at = "clear"
  BY <1>3, <1>4 DEF Stale
<1>7. Stale(b)' <=> call'[t].at = "clear"
  BY <1>2, <1>3, <1>4 DEF Stale
<1>8. heap'[b].live
  BY <1>1 DEF OwnMove
<1>9. \A u \in Threads : u # t => (Carries(u)' <=> Carries(u)) /\ call'[u].session = call[u].session
  BY <1>2 DEF Carries
<1>10. \A x \in Blocks : x # b => (Keeps(x)' <=> Keeps(x)) /\ heap'[x].handle = heap[x].handle
  BY <1>5 DEF Keeps, OwnMove
<1> QED
  BY <1>1, <1>6, <1>7, <1>8, <1>9, <1>10 DEF Keeps, OthersCarry, OthersKeep, SameKept, SameCarried

(* A call on a session moves on at its place.                              *)
LEMMA SameSlotIsSafe ==
    ASSUME IInv, NEW t \in Threads, NEW c \in CallRecord, call' = [call EXCEPT ![t] = c],
           UNCHANGED <<init, table, heap, connect, open, ids, crashed>>,
           call[t].at \in {"recover", "login", "use"}, c.at \in {"recover", "login", "use"},
           c.slot = call[t].slot, Fits(t, c)
    PROVE  IInv'
<1>1. call[t].at \in OnSlot /\ call[t].at \in Plain /\ call[t].at # "opening"
  BY DEF OnSlot, OnSession, Plain
<1>2. c.at \in Plain /\ c.at \notin {"idle", "term", "unlink"}
  BY DEF Plain
<1>3. init /\ \A u \in Threads : u # t => call[u].at # "term"
  BY <1>1, PlaceIsKept
<1> QED
  BY <1>1, <1>2, <1>3, MoveIsSafe

LEMMA RecoverIsSafe ==
    ASSUME IInv, NEW t \in Threads, Recover(t)
    PROVE  IInv'
<1> DEFINE i == call[t].slot
           b == table[i]
<1>1. /\ call[t].at = "recover" /\ i \in Slots /\ b \in Blocks /\ b # 0
      /\ i \in ids[t] /\ Socket(i).kind \in {"PDP", "LISTEN"}
  BY PlaceIsKept DEF Recover, OnSlot, OnSession, IInv, CallsInv, Fits
<1>2. UNCHANGED <<init, table, heap, connect, open, ids, crashed>>
  BY <1>1 DEF Recover
<1>3. call[t] \in CallRecord /\ heap[b].handle \in Sessions \cup {0}
  BY <1>1 DEF IInv, Types, SocketRecord
<1>4. CASE heap[b].handle # 0
  <2> DEFINE c == [call[t] EXCEPT !.at = "use", !.block = b, !.session = heap[b].handle]
  <2>1. call' = [call EXCEPT ![t] = c]
    BY <1>1, <1>4 DEF Recover, Socket
  <2>2. c \in CallRecord /\ c.at = "use" /\ c.block = b /\ c.session = heap[b].handle /\ c.slot = i
    BY <1>1, <1>3 DEF CallRecord, Places
  <2> HIDE DEF c
  <2>3. Fits(t, c)
    BY <1>1, <1>4, <2>2 DEF Fits, OnSlot, OnSession, Socket
  <2> QED
    BY <1>1, <1>2, <2>1, <2>2, <2>3, SameSlotIsSafe
<1>5. CASE heap[b].handle = 0
  <2> DEFINE c == [call[t] EXCEPT !.at = "login", !.block = b]
  <2>1. call' = [call EXCEPT ![t] = c]
    BY <1>1, <1>5 DEF Recover, Socket
  <2>2. c \in CallRecord /\ c.at = "login" /\ c.block = b /\ c.slot = i
    BY <1>1, <1>3 DEF CallRecord, Places
  <2> HIDE DEF c
  <2>3. Fits(t, c)
    BY <1>1, <1>5, <2>2 DEF Fits, OnSlot, OnSession, Socket
  <2> QED
    BY <1>1, <1>2, <2>1, <2>2, <2>3, SameSlotIsSafe
<1> QED
  BY <1>4, <1>5

(* A call on a session tries again.                                        *)
LEMMA RetryIsSafe ==
    ASSUME IInv, NEW t \in Threads, call[t].at \in {"login", "use"}, Goes(t, "recover"),
           UNCHANGED <<init, table, heap, connect, open, ids, crashed>>
    PROVE  IInv'
<1> DEFINE c == [call[t] EXCEPT !.at = "recover"]
<1>1. call[t] \in CallRecord /\ Fits(t, call[t])
  BY DEF IInv, Types, CallsInv
<1>2. c \in CallRecord /\ c.at = "recover" /\ c.slot = call[t].slot
  BY <1>1 DEF CallRecord, Places
<1>3. call' = [call EXCEPT ![t] = c]
  BY DEF Goes
<1> HIDE DEF c
<1>4. Fits(t, c)
  BY <1>1, <1>2 DEF Fits, OnSlot, OnSession
<1> QED
  BY <1>2, <1>3, <1>4, SameSlotIsSafe

(* The session of a call in use is open.                                   *)
LEMMA UsedIsOpen ==
    ASSUME IInv, NEW t \in Threads, call[t].at = "use"
    PROVE  /\ call[t].session \in open
           /\ \A b \in Blocks : b = table[call[t].slot] => Keeps(b) /\ heap[b].handle = call[t].session
<1> DEFINE i == call[t].slot
           b == table[i]
<1>1. i \in Slots /\ b \in Blocks /\ b # 0 /\ heap[b].live /\ i \in ids[t] /\ heap[b].handle = call[t].session /\ call[t].session # 0
  BY PlaceIsKept DEF OnSlot, OnSession, IInv, CallsInv, Fits, Socket
<1>2. ASSUME NEW u \in Threads, call[u].at = "clear", call[u].block = b
      PROVE  FALSE
  <2>1. /\ call[u].slot \in ids[u] /\ call[u].slot \in Slots /\ u # t
        /\ table[call[u].slot] # 0 /\ call[u].block = table[call[u].slot]
    BY <1>2 DEF IInv, CallsInv, Fits, OnSlot, OnSession
  <2>2. call[u].slot # i
    BY <2>1, <1>1, <1>2 DEF IInv, IdsInv
  <2> QED
    BY <2>1, <2>2, <1>1, <1>2 DEF IInv, TableInv
<1>3. Keeps(b)
  BY <1>1, <1>2 DEF Keeps, Stale
<1> QED
  BY <1>1, <1>3 DEF IInv, SessionInv

LEMMA TransferIsSafe ==
    ASSUME IInv, NEW t \in Threads, Transfer(t)
    PROVE  IInv'
<1>1. call[t].at = "use" /\ call[t].session \in open
  BY UsedIsOpen DEF Transfer
<1>2. /\ Returns(t) \/ Goes(t, "recover")
      /\ UNCHANGED <<init, table, heap, connect, open, ids, crashed>>
  BY DEF Transfer
<1> QED
  BY <1>1, <1>2, ReturnIsSafe, RetryIsSafe DEF Plain

(* What a call on a session knows of its structure b.                      *)
LEMMA OwnStructure ==
    ASSUME IInv, NEW t \in Threads, call[t].at \in OnSession
    PROVE  \E b \in Blocks :
              /\ b = table[call[t].slot] /\ b # 0 /\ heap[b].live
              /\ call[t].slot \in Slots /\ call[t].slot \in ids[t]
              /\ heap[b].kind \in {"PDP", "LISTEN"}
              /\ call[t].at # "recover" => call[t].block = b
              /\ call[t].at \in {"login", "dispose"} => heap[b].handle = 0
              /\ call[t].at = "use" => heap[b].handle = call[t].session
              /\ call[t] \in CallRecord /\ heap[b] \in SocketRecord
BY PlaceIsKept DEF OnSlot, OnSession, IInv, Types, CallsInv, Fits, Socket

LEMMA SessionMadeIsSafe ==
    ASSUME IInv, NEW t \in Threads, SessionMade(t)
    PROVE  IInv'
<1>1. call[t].at = "login" /\ call[t].at \in OnSession /\ Sessions \ open # {}
  BY DEF SessionMade, OnSession
<1>2. PICK b \in Blocks :
              /\ b = table[call[t].slot] /\ b # 0 /\ heap[b].live
              /\ call[t].slot \in Slots /\ call[t].slot \in ids[t]
              /\ heap[b].kind \in {"PDP", "LISTEN"}
              /\ call[t].block = b /\ heap[b].handle = 0
              /\ call[t] \in CallRecord /\ heap[b] \in SocketRecord
  BY <1>1, OwnStructure
<1>3. PICK s : s = Min(Sessions \ open)
  OBVIOUS
<1>4. s \in Sessions /\ s \notin open /\ s # 0
  BY <1>1, <1>3, FirstFree
<1>5. /\ open' = open \cup {s}
      /\ heap' = [heap EXCEPT ![b].handle = s]
      /\ call' = [call EXCEPT ![t].at = "use", ![t].session = s]
      /\ UNCHANGED <<init, table, connect, dead, ids, crashed>>
  BY <1>2, <1>3 DEF SessionMade
<1>6. /\ call'[t] = [call[t] EXCEPT !.at = "use", !.session = s]
      /\ call' = [call EXCEPT ![t] = call'[t]]
  BY <1>5 DEF IInv, Types
<1>7. /\ call'[t].at = "use" /\ call'[t].session = s /\ call'[t].block = b
      /\ call'[t].slot = call[t].slot /\ call'[t] \in CallRecord
  BY <1>2, <1>4, <1>6, ZenonT(60) DEF CallRecord, Places
<1>8. [heap[b] EXCEPT !.handle = s] \in SocketRecord
  BY <1>2, <1>4 DEF SocketRecord
<1>9. /\ heap' \in [Blocks -> SocketRecord] /\ heap'[b] = [heap[b] EXCEPT !.handle = s]
      /\ \A x \in Blocks : x # b => heap'[x] = heap[x]
  BY <1>5, <1>8 DEF IInv, Types
<1>10. heap'[b].handle = s /\ heap'[b].live /\ heap'[b].kind = heap[b].kind /\ heap'[b].state = heap[b].state
  BY <1>2, <1>9, SMTT(30) DEF SocketRecord
<1>11. OwnMove(t)
  BY <1>2, <1>4, <1>5, <1>6, <1>7, <1>9, <1>10, ZenonT(60) DEF OwnMove, OnSession, IInv, Types
<1>12. Fits(t, call[t])'
  BY <1>2, <1>4, <1>5, <1>7, <1>10 DEF Fits, OnSlot, OnSession, Socket
<1>13. SessionInv'
  <2>1. OthersCarry(t) /\ OthersKeep(b) /\ ~Keeps(b) /\ Keeps(b)'
    BY <1>1, <1>2, <1>4, <1>7, <1>10, <1>11, <1>12, OthersHold
  <2>2. CarriedKept
    BY <1>1, <1>7, <2>1 DEF Carries, CarriedKept, OthersCarry, SameCarried
  <2> QED
    BY <2>1, <2>2, <1>4, <1>5, <1>10, KeeperGains DEF IInv
<1> QED
  BY <1>1, <1>11, <1>12, <1>13, OwnMoveIsSafe

LEMMA HandleIsSet ==
    ASSUME IInv, NEW b \in Blocks, NEW h \in Sessions \cup {0},
           heap' = [heap EXCEPT ![b].handle = h]
    PROVE  /\ heap' \in [Blocks -> SocketRecord]
           /\ heap'[b].handle = h
           /\ \A x \in Blocks : /\ heap'[x].live = heap[x].live /\ heap'[x].kind = heap[x].kind
                                /\ heap'[x].state = heap[x].state
                                /\ x # b => heap'[x].handle = heap[x].handle
<1>1. heap[b] \in SocketRecord
  BY DEF IInv, Types
<1> DEFINE r == [heap[b] EXCEPT !.handle = h]
<1>2. /\ r \in SocketRecord /\ r.handle = h /\ r.live = heap[b].live /\ r.kind = heap[b].kind
      /\ r.state = heap[b].state
  BY <1>1 DEF SocketRecord
<1>3. heap' = [heap EXCEPT ![b] = r]
  OBVIOUS
<1> HIDE DEF r
<1> QED
  BY <1>2, <1>3 DEF IInv, Types

LEMMA CallGoes ==
    ASSUME IInv, NEW t \in Threads, NEW place \in Places, Goes(t, place)
    PROVE  /\ call'[t] \in CallRecord /\ call' = [call EXCEPT ![t] = call'[t]]
           /\ call'[t].at = place /\ call'[t].slot = call[t].slot
           /\ call'[t].block = call[t].block /\ call'[t].session = call[t].session
<1>1. call[t] \in CallRecord
  BY DEF IInv, Types
<1> DEFINE r == [call[t] EXCEPT !.at = place]
<1>2. /\ r \in CallRecord /\ r.at = place /\ r.slot = call[t].slot
      /\ r.block = call[t].block /\ r.session = call[t].session
  BY <1>1 DEF CallRecord
<1>3. call' = [call EXCEPT ![t] = r]
  BY DEF Goes
<1> HIDE DEF r
<1> QED
  BY <1>2, <1>3 DEF IInv, Types

LEMMA CallReturns ==
    ASSUME IInv, NEW t \in Threads, Returns(t)
    PROVE  /\ call'[t] \in CallRecord /\ call' = [call EXCEPT ![t] = call'[t]]
           /\ call'[t].at = "idle" /\ call'[t].slot = 0
<1>1. Idle \in CallRecord /\ Idle.at = "idle" /\ Idle.slot = 0
  BY DEF Idle, CallRecord, Places
<1> QED
  BY <1>1 DEF Returns, IInv, Types

(* The call makes a session anew at its place, or gives up.                *)
LEMMA EndsOrRecovers ==
    ASSUME IInv, NEW t \in Threads, call[t].at \in OnSession, Returns(t) \/ Goes(t, "recover")
    PROVE  /\ call'[t] \in CallRecord /\ call' = [call EXCEPT ![t] = call'[t]]
           /\ call'[t].at \in {"idle", "recover"}
           /\ call'[t].at = "recover" => call'[t].slot = call[t].slot
           /\ call'[t].at = "idle" => call'[t].slot = 0
<1>1. CASE Returns(t)
  BY <1>1, CallReturns
<1>2. CASE Goes(t, "recover")
  BY <1>2, CallGoes DEF Places
<1> QED
  BY <1>1, <1>2

LEMMA SessionFailsIsSafe ==
    ASSUME IInv, NEW t \in Threads, SessionFails(t)
    PROVE  IInv'
<1>1. call[t].at = "login" /\ call[t].at \in OnSession
  BY DEF SessionFails, OnSession
<1>2. PICK b \in Blocks :
              /\ b = table[call[t].slot] /\ b # 0 /\ heap[b].live
              /\ call[t].slot \in Slots /\ call[t].slot \in ids[t]
              /\ heap[b].kind \in {"PDP", "LISTEN"}
              /\ call[t].block = b /\ heap[b].handle = 0
  BY <1>1, OwnStructure, ZenonT(60)
<1>3. /\ heap' = [heap EXCEPT ![b].handle = 0]
      /\ Returns(t) \/ Goes(t, "recover")
      /\ UNCHANGED <<init, table, connect, open, dead, ids, crashed>>
  BY <1>2 DEF SessionFails
<1>4. /\ call'[t] \in CallRecord /\ call' = [call EXCEPT ![t] = call'[t]]
      /\ call'[t].at \in {"idle", "recover"}
      /\ call'[t].at = "recover" => call'[t].slot = call[t].slot
      /\ call'[t].at = "idle" => call'[t].slot = 0
  BY <1>1, <1>3, EndsOrRecovers
<1>5. /\ heap' \in [Blocks -> SocketRecord] /\ heap'[b].handle = 0
      /\ \A x \in Blocks : /\ heap'[x].live = heap[x].live /\ heap'[x].kind = heap[x].kind
                           /\ heap'[x].state = heap[x].state
                           /\ x # b => heap'[x].handle = heap[x].handle
  BY <1>3, HandleIsSet, ZenonT(60)
<1>6. OwnMove(t)
  BY <1>2, <1>3, <1>4, <1>5, SMTT(30) DEF OwnMove, OnSession, IInv, Types
<1>7. Fits(t, call[t])'
  BY <1>2, <1>3, <1>4, <1>5 DEF Fits, OnSlot, OnSession, Socket
<1>8. SessionInv'
  <2>1. OthersCarry(t) /\ OthersKeep(b) /\ ~Keeps(b) /\ ~Keeps(b)'
    BY <1>1, <1>2, <1>5, <1>6, <1>7, OthersHold
  <2>2. CarriedKept /\ AllKeep
    BY <1>1, <1>4, <2>1 DEF Carries, CarriedKept, OthersCarry, SameCarried, AllKeep, OthersKeep, SameKept
  <2> QED
    BY <2>2, <1>3, SessionsKept DEF IInv, CarriedKept, SameCarried, AllKeep, SameKept
<1> QED
  BY <1>1, <1>6, <1>7, <1>8, OwnMoveIsSafe

LEMMA FindDeadIsSafe ==
    ASSUME IInv, NEW t \in Threads, FindDead(t)
    PROVE  IInv'
<1>1. call[t].at = "use" /\ call[t].at \in OnSession /\ call[t].session \in open
  BY UsedIsOpen DEF FindDead, OnSession
<1>2. PICK b \in Blocks :
              /\ b = table[call[t].slot] /\ b # 0 /\ heap[b].live
              /\ call[t].slot \in Slots /\ call[t].slot \in ids[t]
              /\ heap[b].kind \in {"PDP", "LISTEN"}
              /\ call[t].block = b /\ heap[b].handle = call[t].session
  BY <1>1, OwnStructure
<1>3. Keeps(b)
  BY <1>1, <1>2, UsedIsOpen
<1>4. ASSUME call[t].do = "poll"
      PROVE  IInv'
  <2>1. /\ heap' = [heap EXCEPT ![b].handle = 0]
        /\ Goes(t, "dispose")
        /\ UNCHANGED <<init, table, connect, open, dead, ids, crashed>>
    BY <1>1, <1>2, <1>4 DEF FindDead
  <2>2. /\ call'[t] \in CallRecord /\ call' = [call EXCEPT ![t] = call'[t]]
        /\ call'[t].at = "dispose" /\ call'[t].slot = call[t].slot
        /\ call'[t].block = b /\ call'[t].session = call[t].session
    BY <1>2, <2>1, CallGoes, SMTT(30) DEF Places
  <2>3. /\ heap' \in [Blocks -> SocketRecord] /\ heap'[b].handle = 0
        /\ \A x \in Blocks : /\ heap'[x].live = heap[x].live /\ heap'[x].kind = heap[x].kind
                             /\ heap'[x].state = heap[x].state
                             /\ x # b => heap'[x].handle = heap[x].handle
    BY <2>1, HandleIsSet, ZenonT(60)
  <2>4. OwnMove(t)
    BY <1>2, <2>1, <2>2, <2>3, SMTT(30) DEF OwnMove, OnSession, IInv, Types
  <2>5. Fits(t, call[t])'
    BY <1>2, <2>1, <2>2, <2>3 DEF Fits, OnSlot, OnSession, Socket
  <2>6. OthersCarry(t) /\ OthersKeep(b) /\ ~Keeps(b)'
    BY <1>1, <1>2, <2>3, <2>4, <2>5, OthersHold
  <2>7. ~Carries(t) /\ Carries(t)'
    BY <1>1, <2>2 DEF Carries
  <2>8. SessionInv'
    BY <1>2, <1>3, <2>1, <2>2, <2>6, <2>7, KeeperToCarrier DEF IInv
  <2> QED
    BY <1>1, <2>4, <2>5, <2>8, OwnMoveIsSafe
<1>5. ASSUME call[t].do # "poll"
      PROVE  IInv'
  <2>1. /\ open' = open \ {call[t].session}
        /\ Goes(t, "clear")
        /\ UNCHANGED <<init, table, heap, connect, ids, crashed>>
    BY <1>1, <1>2, <1>5 DEF FindDead, Disposed
  <2>2. /\ call'[t] \in CallRecord /\ call' = [call EXCEPT ![t] = call'[t]]
        /\ call'[t].at = "clear" /\ call'[t].slot = call[t].slot
        /\ call'[t].block = b
    BY <1>2, <2>1, CallGoes DEF Places
  <2>4. OwnMove(t)
    BY <1>2, <2>1, <2>2 DEF OwnMove, OnSession, IInv, Types
  <2>5. Fits(t, call[t])'
    BY <1>2, <2>1, <2>2 DEF Fits, OnSlot, OnSession, Socket
  <2>6. OthersCarry(t) /\ OthersKeep(b) /\ ~Keeps(b)'
    BY <1>1, <1>2, <2>2, <2>4, <2>5, OthersHold
  <2>7. CarriedKept
    BY <1>1, <2>2, <2>6 DEF Carries, CarriedKept, OthersCarry, SameCarried
  <2>8. SessionInv'
    BY <1>2, <1>3, <2>1, <2>6, <2>7, KeeperLoses DEF IInv
  <2> QED
    BY <1>1, <2>4, <2>5, <2>8, OwnMoveIsSafe
<1> QED
  BY <1>4, <1>5

LEMMA ClearIsSafe ==
    ASSUME IInv, NEW t \in Threads, Clear(t)
    PROVE  IInv'
<1>1. call[t].at = "clear" /\ call[t].at \in OnSession
  BY DEF Clear, OnSession
<1>2. PICK b \in Blocks :
              /\ b = table[call[t].slot] /\ b # 0 /\ heap[b].live
              /\ call[t].slot \in Slots /\ call[t].slot \in ids[t]
              /\ heap[b].kind \in {"PDP", "LISTEN"}
              /\ call[t].block = b
  BY <1>1, OwnStructure
<1>3. /\ heap' = [heap EXCEPT ![b].handle = 0]
      /\ Goes(t, "recover")
      /\ UNCHANGED <<init, table, connect, open, dead, ids, crashed>>
  BY <1>2 DEF Clear
<1>4. /\ call'[t] \in CallRecord /\ call' = [call EXCEPT ![t] = call'[t]]
      /\ call'[t].at = "recover" /\ call'[t].slot = call[t].slot
  BY <1>3, CallGoes DEF Places
<1>5. /\ heap' \in [Blocks -> SocketRecord] /\ heap'[b].handle = 0
      /\ \A x \in Blocks : /\ heap'[x].live = heap[x].live /\ heap'[x].kind = heap[x].kind
                           /\ heap'[x].state = heap[x].state
                           /\ x # b => heap'[x].handle = heap[x].handle
  BY <1>3, HandleIsSet
<1>6. OwnMove(t)
  BY <1>2, <1>3, <1>4, <1>5 DEF OwnMove, OnSession, IInv, Types
<1>7. Fits(t, call[t])'
  BY <1>2, <1>3, <1>4, <1>5 DEF Fits, OnSlot, OnSession, Socket
<1>8. SessionInv'
  <2>1. OthersCarry(t) /\ OthersKeep(b) /\ ~Keeps(b) /\ ~Keeps(b)'
    BY <1>1, <1>2, <1>5, <1>6, <1>7, OthersHold
  <2>2. CarriedKept /\ AllKeep
    BY <1>1, <1>4, <2>1 DEF Carries, CarriedKept, OthersCarry, SameCarried, AllKeep, OthersKeep, SameKept
  <2> QED
    BY <2>2, <1>3, SessionsKept DEF IInv, CarriedKept, SameCarried, AllKeep, SameKept
<1> QED
  BY <1>1, <1>6, <1>7, <1>8, OwnMoveIsSafe

(* A call that carries a session closes it.                                *)
LEMMA CarriedIsClosed ==
    ASSUME IInv, NEW t \in Threads, call[t].at \in {"accepted", "dispose"},
           open' = open \ {call[t].session}, Returns(t) \/ Goes(t, "recover"),
           UNCHANGED <<init, table, heap, connect, ids, crashed>>
    PROVE  IInv'
<1>1. call[t].at \in OnSession /\ call[t].at # "clear" /\ Carries(t)
  BY DEF OnSession, Carries
<1>2. PICK b \in Blocks :
              /\ b = table[call[t].slot] /\ b # 0 /\ heap[b].live
              /\ call[t].slot \in Slots /\ call[t].slot \in ids[t]
              /\ heap[b].kind \in {"PDP", "LISTEN"}
  BY <1>1, OwnStructure
<1>3. /\ call'[t] \in CallRecord /\ call' = [call EXCEPT ![t] = call'[t]]
      /\ call'[t].at \in {"idle", "recover"}
      /\ call'[t].at = "recover" => call'[t].slot = call[t].slot
      /\ call'[t].at = "idle" => call'[t].slot = 0
  BY <1>1, EndsOrRecovers
<1>4. OwnMove(t)
  BY <1>2, <1>3 DEF OwnMove, OnSession, IInv, Types
<1>5. Fits(t, call[t])'
  BY <1>2, <1>3 DEF Fits, OnSlot, OnSession, Socket
<1>6. SessionInv'
  <2>1. OthersCarry(t) /\ OthersKeep(b) /\ (Keeps(b)' <=> Keeps(b))
    BY <1>1, <1>2, <1>3, <1>4, <1>5, OthersHold
  <2>2. AllKeep /\ ~Carries(t)'
    BY <1>3, <2>1 DEF AllKeep, OthersKeep, SameKept, Carries
  <2> QED
    BY <1>1, <2>1, <2>2, CarrierLoses DEF IInv
<1> QED
  BY <1>1, <1>4, <1>5, <1>6, OwnMoveIsSafe

LEMMA DisposeIsSafe ==
    ASSUME IInv, NEW t \in Threads, Dispose(t)
    PROVE  IInv'
<1>1. call[t].at = "dispose" /\ call[t].session \in open
  BY DEF Dispose, IInv, SessionInv, Carries
<1> QED
  BY <1>1, CarriedIsClosed DEF Dispose, Disposed

LEMMA AcceptedTableFullIsSafe ==
    ASSUME IInv, NEW t \in Threads, AcceptedTableFull(t)
    PROVE  IInv'
BY CarriedIsClosed DEF AcceptedTableFull, Refused

LEMMA AcceptIsSafe ==
    ASSUME IInv, NEW t \in Threads, Accept(t)
    PROVE  IInv'
<1>1. call[t].at = "use" /\ call[t].at \in OnSession /\ Sessions \ open # {}
  BY DEF Accept, OnSession
<1>2. PICK b \in Blocks :
              /\ b = table[call[t].slot] /\ b # 0 /\ heap[b].live
              /\ call[t].slot \in Slots /\ call[t].slot \in ids[t]
              /\ heap[b].kind \in {"PDP", "LISTEN"}
              /\ call[t].block = b /\ call[t] \in CallRecord
  BY <1>1, OwnStructure
<1>3. PICK s : s = Min(Sessions \ open)
  OBVIOUS
<1>4. s \in Sessions /\ s \notin open
  BY <1>1, <1>3, FirstFree
<1>5. /\ open' = open \cup {s}
      /\ call' = [call EXCEPT ![t].at = "accepted", ![t].session = s]
      /\ UNCHANGED <<init, table, heap, connect, ids, crashed>>
  BY <1>3 DEF Accept
<1>6. /\ call'[t] = [call[t] EXCEPT !.at = "accepted", !.session = s]
      /\ call' = [call EXCEPT ![t] = call'[t]]
  BY <1>5 DEF IInv, Types
<1>7. /\ call'[t].at = "accepted" /\ call'[t].session = s /\ call'[t].block = b
      /\ call'[t].slot = call[t].slot /\ call'[t] \in CallRecord
  <2>1. call[t] \in CallRecord /\ s \in Sessions \cup {0}
    BY <1>2, <1>4
  <2>2. call'[t] \in CallRecord
    BY <1>6, <2>1 DEF CallRecord, Places
  <2> QED
    BY <1>2, <1>6, <2>1, <2>2 DEF CallRecord
<1>8. OwnMove(t)
  BY <1>2, <1>4, <1>5, <1>6, <1>7 DEF OwnMove, OnSession, IInv, Types
<1>9. Fits(t, call[t])'
  BY <1>2, <1>5, <1>7 DEF Fits, OnSlot, OnSession, Socket
<1>10. SessionInv'
  <2>1. OthersCarry(t) /\ OthersKeep(b) /\ (Keeps(b)' <=> Keeps(b))
    BY <1>1, <1>2, <1>5, <1>7, <1>8, <1>9, OthersHold
  <2>2. AllKeep /\ ~Carries(t) /\ Carries(t)'
    BY <1>1, <1>5, <1>7, <2>1 DEF AllKeep, OthersKeep, SameKept, Carries
  <2> QED
    BY <1>4, <1>5, <1>7, <2>1, <2>2, CarrierGains DEF IInv
<1> QED
  BY <1>1, <1>8, <1>9, <1>10, OwnMoveIsSafe

-----------------------------------------------------------------------------
(* Calls on a stream.                                                      *)

(* The handle of a structure is 0 or an open session, but for one whose    *)
(* session has just been deleted, and that is no stream.                   *)
LEMMA StreamsHandle ==
    ASSUME IInv, NEW b \in Blocks, heap[b].live, heap[b].kind = "STREAM"
    PROVE  heap[b].handle \in open \cup {0} /\ ~Stale(b)
<1>1. ASSUME NEW t \in Threads, call[t].at = "clear", call[t].block = b
      PROVE  FALSE
  BY <1>1 DEF IInv, CallsInv, Fits, OnSlot, OnSession, Socket
<1> QED
  BY <1>1 DEF IInv, SessionInv, Keeps, Stale

LEMMA StreamIsSafe ==
    ASSUME IInv, NEW t \in Threads, Stream(t)
    PROVE  IInv'
<1>1. call[t].at = "stream" /\ call[t].at \in Plain
  BY DEF Stream, Plain
<1>2. UNCHANGED <<init, table, heap, connect, open, ids, crashed>>
  BY DEF Stream
<1>3. CASE Returns(t)
  BY <1>1, <1>2, <1>3, ReturnIsSafe
<1>4. CASE Goes(t, "stream")
  <2>1. /\ call'[t] \in CallRecord /\ call' = [call EXCEPT ![t] = call'[t]]
        /\ call'[t].at = "stream"
    BY <1>4, CallGoes DEF Places
  <2>2. Fits(t, call'[t]) /\ call'[t].at \in Plain
    BY <2>1 DEF Fits, OnSlot, OnSession, Plain
  <2>3. init /\ \A u \in Threads : u # t => call[u].at # "term"
    BY <1>1 DEF IInv, AloneInv
  <2> QED
    BY <1>1, <1>2, <2>1, <2>2, <2>3, MoveIsSafe
<1> QED
  BY <1>3, <1>4 DEF Stream

LEMMA ConnectAnswersIsSafe ==
    ASSUME IInv, NEW t \in Threads, ConnectAnswers(t)
    PROVE  IInv'
<1> DEFINE b == call[t].block
<1>1. call[t].at = "connect" /\ call[t].at \in Plain /\ b \in Blocks
  BY DEF ConnectAnswers, Plain, IInv, CallsInv, Fits
<1>2. CASE ~heap[b].live
  BY <1>2, QuietIsSafe DEF ConnectAnswers, Crash
<1>3. CASE heap[b].live /\ heap[b].state = "SYN_SENT"
  BY <1>1, <1>3, ReturnIsSafe DEF ConnectAnswers
<1>4. CASE heap[b].live /\ heap[b].state # "SYN_SENT"
  <2>1. connect' = [connect EXCEPT ![b] = NoThread] /\ call' = [call EXCEPT ![t] = Idle]
    BY <1>4 DEF ConnectAnswers, Returns
  <2>2. UNCHANGED <<init, table, heap, open, ids, crashed>>
    BY <1>4 DEF ConnectAnswers
  <2>3. NoThread \in ConnectRecord /\ NoThread.at = "none"
    BY DEF NoThread, ConnectRecord
  <2>4. /\ connect' \in [Blocks -> ConnectRecord]
        /\ \A x \in Blocks : connect'[x] = connect[x] \/ connect'[x].at = "none"
    BY <2>1, <2>3, <1>1 DEF IInv, Types
  <2>5. Idle \in CallRecord /\ Fits(t, Idle) /\ Idle.at = "idle" /\ Idle.slot = 0
    BY DEF Idle, CallRecord, Places, Fits, OnSlot, OnSession
  <2>6. Idle.at \in Plain /\ call[t].at # "opening"
    BY <1>1, <2>5 DEF Plain
  <2> HIDE DEF b
  <2> QED
    <3>2. Idle.at \in Plain \cup {"unlink", "term"} /\ call[t].at \in Plain \cup {"opening"}
      BY <1>1, <2>6
    <3>3. Idle.at \notin {"term", "unlink"}
      BY <2>5
    <3>4. /\ Idle.at # "idle" => init /\ \A u \in Threads : u # t => call[u].at # "term"
          /\ Idle.at = "term" => \A u \in Threads : u # t => call[u].at = "idle"
          /\ call[t].at = "opening" => connect[call[t].block].at # "started"
      BY <2>5, <2>6
    <3> QED
      BY <2>1, <2>2, <2>4, <2>5, <3>2, <3>4, MoveAndForgetIsSafe
<1> QED
  BY <1>2, <1>3, <1>4

-----------------------------------------------------------------------------
(* The connect threads, and the relay.                                     *)

LEMMA ConnectRunsIsSafe ==
    ASSUME IInv, NEW b \in Blocks, ConnectRuns(b)
    PROVE  IInv'
<1>1. PICK t \in Threads : /\ call[t].at = "opening" /\ call[t].block = b
                           /\ call[t].slot = connect[b].slot
  BY DEF ConnectRuns, IInv, ConnectInv, Awaited
<1>2. connect[b].slot \in Slots /\ table[connect[b].slot] = b /\ b # 0
  BY <1>1 DEF IInv, CallsInv, Fits, OnSlot, OnSession
<1>3. /\ connect[b].at = "started"
      /\ connect' = [connect EXCEPT ![b].at = "connecting", ![b].block = b]
      /\ UNCHANGED <<init, table, heap, open, ids, call, crashed>>
  BY <1>2 DEF ConnectRuns
<1>4. connect[b] \in ConnectRecord
  BY DEF IInv, Types
<1> DEFINE r == [connect[b] EXCEPT !.at = "connecting", !.block = b]
<1>5. r \in ConnectRecord /\ r.at = "connecting" /\ r.block = b
  BY <1>4 DEF ConnectRecord
<1>6. connect' = [connect EXCEPT ![b] = r]
  BY <1>3
<1> HIDE DEF r
<1>7. /\ connect' \in [Blocks -> ConnectRecord]
      /\ connect'[b].at = "connecting" /\ connect'[b].block = b
      /\ \A x \in Blocks : x # b => connect'[x] = connect[x]
  BY <1>5, <1>6 DEF IInv, Types
<1>8. ConnectInv'
  BY <1>3, <1>7 DEF IInv, ConnectInv, Awaited
<1>9. Types' /\ TableInv' /\ JoinInv' /\ IdsInv'
  BY <1>3, <1>7 DEF IInv, Types, TableInv, JoinInv, Joins, IdsInv
<1>10. CallsInv' /\ AloneInv'
  BY <1>3 DEF IInv, CallsInv, Fits, Socket, AloneInv
<1>11. SessionInv' /\ EstablishedConnected'
  BY <1>3 DEF IInv, SessionInv, Keeps, Stale, Carries, EstablishedConnected
<1> QED
  BY <1>8, <1>9, <1>10, <1>11 DEF IInv

(* What a connect thread does to its stream: the state, and the handle.    *)
ThreadMove(b) ==
    /\ connect' \in [Blocks -> ConnectRecord] /\ heap' \in [Blocks -> SocketRecord]
    /\ \A x \in Blocks : x # b => connect'[x] = connect[x] /\ heap'[x] = heap[x]
    /\ heap'[b].live = heap[b].live /\ heap'[b].kind = heap[b].kind
    /\ open' \subseteq Sessions /\ open \subseteq open'
    /\ UNCHANGED <<init, table, ids, call, crashed>>

LEMMA ThreadMoveIsSafe ==
    ASSUME IInv, NEW b \in Blocks, connect[b].at \in {"connecting", "storing"}, ThreadMove(b),
           SessionInv',
           connect'[b].at \in {"storing", "ended"},
           connect'[b].at = "storing" => connect'[b].block = b /\ heap'[b].handle # 0,
           heap'[b].state = "ESTABLISHED" => heap'[b].handle \in open'
    PROVE  IInv'
<1> USE DEF IInv, Types, ThreadMove
<1>1. heap[b].live /\ heap[b].kind = "STREAM"
  BY DEF ConnectInv
<1>2. \A x \in Blocks : heap'[x].live = heap[x].live /\ heap'[x].kind = heap[x].kind
  OBVIOUS
<1>3. Types' /\ IdsInv' /\ AloneInv'
  BY DEF IdsInv, AloneInv
<1>4. TableInv'
  <2>1. ASSUME NEW j \in Slots, table'[j] # 0 PROVE heap'[table'[j]].live
    <3>1. table'[j] = table[j] /\ table[j] \in Blocks /\ heap[table[j]].live
      BY <2>1 DEF TableInv
    <3> QED
      BY <3>1, <1>2
  <2>2. \A j, k \in Slots : table'[j] = table'[k] /\ table'[j] # 0 => j = k
    BY DEF TableInv
  <2> QED
    BY <2>1, <2>2 DEF TableInv
<1>5. JoinInv'
  <2>1. /\ \A t \in Threads : Joins(t)' <=> Joins(t)
        /\ table' = table /\ call' = call
    BY DEF Joins
  <2>2. ASSUME NEW t \in Threads, Joins(t)
        PROVE  /\ call[t].block \in Blocks /\ heap'[call[t].block].live
               /\ \A i \in Slots : table[i] # call[t].block
               /\ \A u \in Threads : Joins(u) /\ call[u].block = call[t].block => u = t
    <3>1. call[t].block \in Blocks /\ heap[call[t].block].live
      BY <2>2 DEF JoinInv
    <3> QED
      BY <2>2, <3>1, <1>2 DEF JoinInv
  <2>3. \A x \in Blocks : heap'[x].live =>
          (\E i \in Slots : table[i] = x) \/ (\E t \in Threads : Joins(t) /\ call[t].block = x)
    BY <1>2 DEF JoinInv
  <2> QED
    BY <2>1, <2>2, <2>3 DEF JoinInv
<1>6. ASSUME NEW t \in Threads
      PROVE  Fits(t, call[t])'
  <2>1. Fits(t, call[t]) /\ call'[t] = call[t]
    BY DEF CallsInv
  <2>2. call[t].at \in OnSlot => call[t].slot \in Slots /\ table[call[t].slot] \in Blocks
    BY <2>1 DEF Fits
  <2>3. call[t].at \in OnSession => table[call[t].slot] # b
    BY <2>1, <1>1 DEF Fits, Socket
  <2>4. call[t].at \in OnSession => heap'[table[call[t].slot]] = heap[table[call[t].slot]]
    BY <2>2, <2>3 DEF OnSlot
  <2> QED
    BY <2>1, <2>2, <2>4, <1>2 DEF Fits, Socket, OnSlot, OnSession
<1>7. CallsInv'
  BY <1>6 DEF CallsInv
<1>8. ConnectInv'
  BY <1>1, <1>2 DEF ConnectInv, Awaited
<1>9. EstablishedConnected'
  BY <1>1, <1>2, ZenonT(60) DEF EstablishedConnected
<1> QED
  BY <1>3, <1>4, <1>5, <1>7, <1>8, <1>9

(* The stream a connect thread works on, while it works.                   *)
LEMMA ThreadsStream ==
    ASSUME IInv, NEW b \in Blocks, connect[b].at \in {"connecting", "storing"}
    PROVE  /\ connect[b].block = b /\ heap[b].live /\ heap[b].kind = "STREAM"
           /\ connect[b].at = "connecting" => heap[b].handle = 0
           /\ connect[b].at = "storing" => heap[b].handle # 0 /\ heap[b].handle \in open
           /\ heap[b] \in SocketRecord /\ connect[b] \in ConnectRecord
BY StreamsHandle DEF IInv, ConnectInv, Types

LEMMA ConnectFailsIsSafe ==
    ASSUME IInv, NEW b \in Blocks, ConnectFails(b)
    PROVE  IInv'
<1>1. /\ connect[b].at = "connecting" /\ connect[b].block = b /\ heap[b].live
      /\ heap[b] \in SocketRecord /\ connect[b] \in ConnectRecord
      /\ heap[b].kind = "STREAM" /\ heap[b].handle = 0
  BY ThreadsStream DEF ConnectFails
<1>2. /\ heap' = [heap EXCEPT ![b].state = "CLOSED"]
      /\ connect' = [connect EXCEPT ![b].at = "ended"]
      /\ UNCHANGED <<init, table, open, dead, ids, call, crashed>>
  BY <1>1 DEF ConnectFails
<1> DEFINE h == [heap[b] EXCEPT !.state = "CLOSED"]
           c == [connect[b] EXCEPT !.at = "ended"]
<1>3. /\ h \in SocketRecord /\ h.state = "CLOSED" /\ h.live = heap[b].live
      /\ h.kind = heap[b].kind /\ h.handle = heap[b].handle
  BY <1>1 DEF SocketRecord
<1>4. c \in ConnectRecord /\ c.at = "ended"
  BY <1>1 DEF ConnectRecord
<1>5. heap' = [heap EXCEPT ![b] = h] /\ connect' = [connect EXCEPT ![b] = c]
  BY <1>2
<1> HIDE DEF h, c
<1>6. ThreadMove(b) /\ connect'[b].at = "ended" /\ heap'[b].state = "CLOSED"
  BY <1>2, <1>3, <1>4, <1>5 DEF ThreadMove, IInv, Types
<1>7. \A x \in Blocks : heap'[x].handle = heap[x].handle /\ heap'[x].live = heap[x].live
  BY <1>3, <1>5 DEF IInv, Types
<1>8. SessionInv'
  BY <1>2, <1>7, SessionsKept DEF IInv, Keeps, Stale, Carries
<1> QED
  BY <1>1, <1>6, <1>8, ThreadMoveIsSafe

LEMMA ConnectStoresIsSafe ==
    ASSUME IInv, NEW b \in Blocks, ConnectStores(b)
    PROVE  IInv'
<1>1. /\ connect[b].at = "storing" /\ connect[b].block = b /\ heap[b].live
      /\ heap[b] \in SocketRecord /\ connect[b] \in ConnectRecord
      /\ heap[b].kind = "STREAM" /\ heap[b].handle \in open
  BY ThreadsStream DEF ConnectStores
<1>2. /\ heap' = [heap EXCEPT ![b] = [heap[b] EXCEPT !.state = "ESTABLISHED"]]
      /\ connect' = [connect EXCEPT ![b].at = "ended"]
      /\ UNCHANGED <<init, table, open, dead, ids, call, crashed>>
  BY <1>1 DEF ConnectStores, Stored
<1> DEFINE h == [heap[b] EXCEPT !.state = "ESTABLISHED"]
           c == [connect[b] EXCEPT !.at = "ended"]
<1>3. /\ h \in SocketRecord /\ h.live = heap[b].live
      /\ h.kind = heap[b].kind /\ h.handle = heap[b].handle
  BY <1>1 DEF SocketRecord
<1>4. c \in ConnectRecord /\ c.at = "ended"
  BY <1>1 DEF ConnectRecord
<1>5. heap' = [heap EXCEPT ![b] = h] /\ connect' = [connect EXCEPT ![b] = c]
  BY <1>2
<1> HIDE DEF h, c
<1>6. ThreadMove(b) /\ connect'[b].at = "ended" /\ heap'[b].handle \in open'
  <2>1. /\ connect' \in [Blocks -> ConnectRecord] /\ heap' \in [Blocks -> SocketRecord]
        /\ connect'[b] = c /\ heap'[b] = h
        /\ \A x \in Blocks : x # b => connect'[x] = connect[x] /\ heap'[x] = heap[x]
    BY <1>3, <1>4, <1>5 DEF IInv, Types
  <2>2. open' = open /\ open \subseteq Sessions
    BY <1>2 DEF IInv, Types
  <2> QED
    BY <1>1, <1>2, <1>3, <1>4, <2>1, <2>2 DEF ThreadMove
<1>7. \A x \in Blocks : heap'[x].handle = heap[x].handle /\ heap'[x].live = heap[x].live
  BY <1>3, <1>5 DEF IInv, Types
<1>8. SessionInv'
  BY <1>2, <1>7, SessionsKept DEF IInv, Keeps, Stale, Carries
<1> QED
  BY <1>1, <1>6, <1>8, ThreadMoveIsSafe

LEMMA ConnectSucceedsIsSafe ==
    ASSUME IInv, NEW b \in Blocks, ConnectSucceeds(b)
    PROVE  IInv'
<1>1. /\ connect[b].at = "connecting" /\ connect[b].block = b /\ heap[b].live
      /\ heap[b] \in SocketRecord /\ connect[b] \in ConnectRecord
      /\ heap[b].kind = "STREAM" /\ heap[b].handle = 0
  BY ThreadsStream DEF ConnectSucceeds
<1>2. PICK s : s = Min(Sessions \ open)
  OBVIOUS
<1>3. s \in Sessions /\ s \notin open /\ s # 0
  BY <1>2, FirstFree DEF ConnectSucceeds
<1>4. /\ open' = open \cup {s}
      /\ heap' = [heap EXCEPT ![b] = [heap[b] EXCEPT !.handle = s]]
      /\ connect' = [connect EXCEPT ![b].at = "storing", ![b].session = s]
      /\ UNCHANGED <<init, table, dead, ids, call, crashed>>
  BY <1>1, <1>2 DEF ConnectSucceeds, Stored
<1> DEFINE h == [heap[b] EXCEPT !.handle = s]
           c == [connect[b] EXCEPT !.at = "storing", !.session = s]
<1>5. /\ h \in SocketRecord /\ h.live = heap[b].live
      /\ h.kind = heap[b].kind /\ h.handle = s
  BY <1>1, <1>3 DEF SocketRecord
<1>6. c \in ConnectRecord /\ c.at = "storing" /\ c.block = b
  BY <1>1, <1>3 DEF ConnectRecord
<1>7. heap' = [heap EXCEPT ![b] = h] /\ connect' = [connect EXCEPT ![b] = c]
  BY <1>4
<1> HIDE DEF h, c
<1>8. /\ ThreadMove(b) /\ connect'[b].at = "storing" /\ connect'[b].block = b
      /\ heap'[b].handle = s /\ heap'[b].live
  <2>1. /\ connect' \in [Blocks -> ConnectRecord] /\ heap' \in [Blocks -> SocketRecord]
        /\ connect'[b] = c /\ heap'[b] = h
        /\ \A x \in Blocks : x # b => connect'[x] = connect[x] /\ heap'[x] = heap[x]
    BY <1>5, <1>6, <1>7 DEF IInv, Types
  <2>2. open' \subseteq Sessions /\ open \subseteq open'
    BY <1>3, <1>4 DEF IInv, Types
  <2> QED
    BY <1>1, <1>4, <1>5, <1>6, <2>1, <2>2 DEF ThreadMove
<1>9. SessionInv'
  <2>1. ~Keeps(b) /\ Keeps(b)'
    BY <1>1, <1>3, <1>4, <1>8, StreamsHandle DEF Keeps, Stale
  <2>2. OthersKeep(b) /\ CarriedKept
    BY <1>4, <1>8 DEF OthersKeep, SameKept, CarriedKept, SameCarried, Keeps, Stale, Carries, ThreadMove
  <2> QED
    BY <1>3, <1>4, <1>8, <2>1, <2>2, KeeperGains DEF IInv
<1>10. heap'[b].handle \in open' /\ heap'[b].handle # 0
  BY <1>3, <1>4, <1>8
<1>11. connect[b].at \in {"connecting", "storing"} /\ connect'[b].at \in {"storing", "ended"}
  BY <1>1, <1>8
<1> QED
  BY <1>8, <1>9, <1>10, <1>11, ThreadMoveIsSafe

LEMMA LoseSessionIsSafe ==
    ASSUME IInv, NEW s \in Sessions, LoseSession(s)
    PROVE  IInv'
<1>1. UNCHANGED <<init, table, heap, connect, open, ids, call, crashed>>
  BY DEF LoseSession
<1>2. Types' /\ TableInv' /\ JoinInv' /\ IdsInv'
  BY <1>1 DEF IInv, Types, TableInv, JoinInv, Joins, IdsInv
<1>3. CallsInv' /\ AloneInv' /\ ConnectInv'
  BY <1>1 DEF IInv, CallsInv, Fits, Socket, AloneInv, ConnectInv, Awaited
<1>4. SessionInv'
  BY <1>1, SessionsKept DEF IInv, Keeps, Stale, Carries
<1>5. EstablishedConnected'
  BY <1>1 DEF IInv, EstablishedConnected
<1> QED
  BY <1>2, <1>3, <1>4, <1>5 DEF IInv

-----------------------------------------------------------------------------
(* Closing, and the beginning and the end of the library.                  *)

LEMMA InitLibraryIsSafe ==
    ASSUME IInv, NEW t \in Threads, InitLibrary(t)
    PROVE  IInv'
<1>1. ~init /\ init' = TRUE /\ UNCHANGED <<heap, connect, open, ids, call, crashed>>
  BY DEF InitLibrary
<1>2. /\ \A u \in Threads : call[u].at = "idle" /\ ids[u] = {}
      /\ \A i \in Slots : table[i] = 0
  BY <1>1 DEF IInv, AloneInv
<1>3. table' = table
  BY <1>2 DEF InitLibrary, IInv, Types
<1>4. Types' /\ TableInv' /\ JoinInv' /\ IdsInv'
  BY <1>1, <1>3 DEF IInv, Types, TableInv, JoinInv, Joins, IdsInv
<1>5. CallsInv' /\ AloneInv' /\ ConnectInv'
  BY <1>1, <1>2, <1>3, ZenonT(60) DEF IInv, CallsInv, Fits, Socket, AloneInv, ConnectInv, Awaited
<1>6. SessionInv'
  BY <1>1, SessionsKept DEF IInv, Keeps, Stale, Carries
<1>7. EstablishedConnected'
  BY <1>1 DEF IInv, EstablishedConnected
<1> QED
  BY <1>4, <1>5, <1>6, <1>7 DEF IInv

LEMMA UnlinkIsSafe ==
    ASSUME IInv, NEW t \in Threads, Unlink(t)
    PROVE  IInv'
<1>1. call[t].at = "unlink" /\ call[t].at \in OnSlot
  BY DEF Unlink, OnSlot
<1>2. PICK i \in Slots : i = call[t].slot /\ table[i] # 0 /\ i \in ids[t] /\ call[t].block = table[i]
  BY <1>1 DEF IInv, CallsInv, Fits, OnSlot, OnSession
<1>3. PICK b \in Blocks : b = table[i] /\ heap[b].live /\ b # 0 /\ call[t].block = b
  BY <1>2 DEF IInv, Types, TableInv
<1>4. /\ init /\ \A u \in Threads : u # t => call[u].at # "term"
      /\ \A u \in Threads : u # t /\ call[u].at \in OnSlot => call[u].slot # i
  BY <1>1, <1>2 DEF IInv, AloneInv, IdsInv, CallsInv, Fits
<1>5. /\ table' = [table EXCEPT ![i] = 0]
      /\ ids' = [ids EXCEPT ![t] = @ \ {i}]
      /\ Goes(t, "join")
      /\ UNCHANGED <<init, heap, connect, open, dead, crashed>>
  BY <1>2 DEF Unlink, Unlinked
<1>6. /\ call'[t] \in CallRecord /\ call' = [call EXCEPT ![t] = call'[t]]
      /\ call'[t].at = "join" /\ call'[t].block = b /\ call'[t].slot = i
  BY <1>2, <1>3, <1>5, CallGoes DEF Places
<1>7. /\ \A u \in Threads : u # t => call'[u] = call[u] /\ ids'[u] = ids[u]
      /\ ids'[t] = ids[t] \ {i} /\ ids' \in [Threads -> SUBSET Slots]
      /\ table'[i] = 0 /\ table' \in [Slots -> Blocks \cup {0}]
      /\ \A j \in Slots : j # i => table'[j] = table[j]
      /\ call' \in [Threads -> CallRecord]
  BY <1>5, <1>6 DEF IInv, Types
<1>8. Types'
  BY <1>5, <1>7 DEF IInv, Types
<1>9. TableInv'
  BY <1>5, <1>7, MemoryAssumption DEF IInv, TableInv
<1>10. JoinInv'
  <2>1. /\ Joins(t)' /\ ~Joins(t)
        /\ \A u \in Threads : u # t => (Joins(u)' <=> Joins(u))
    BY <1>1, <1>6, <1>7 DEF Joins
  <2>2. \A u \in Threads : Joins(u) => call[u].block # b
    BY <1>3 DEF IInv, JoinInv
  <2>3. ASSUME NEW j \in Slots
        PROVE  table'[j] # b
    <3>1. j # i => table[j] # table[i]
      BY <1>2 DEF IInv, TableInv
    <3> QED
      BY <3>1, <1>3, <1>7
  <2>4. ASSUME NEW u \in Threads, Joins(u)'
        PROVE  /\ call'[u].block \in Blocks /\ heap'[call'[u].block].live
               /\ \A j \in Slots : table'[j] # call'[u].block
               /\ \A v \in Threads : Joins(v)' /\ call'[v].block = call'[u].block => v = u
    <3>1. CASE u = t
      BY <3>1, <2>1, <2>2, <2>3, <1>3, <1>5, <1>6, <1>7
    <3>2. CASE u # t
      <4>1. Joins(u) /\ call'[u] = call[u] /\ call[u].block # b
        BY <3>2, <2>1, <2>2, <2>4, <1>7
      <4>2. call[u].block \in Blocks /\ heap[call[u].block].live /\ call[u].block # 0
        BY <4>1 DEF IInv, JoinInv
      <4>3. \A j \in Slots : table'[j] # call[u].block
        BY <4>1, <4>2, <1>7 DEF IInv, JoinInv
      <4>4. \A v \in Threads : Joins(v)' /\ call'[v].block = call[u].block => v = u
        BY <4>1, <2>1, <1>6, <1>7 DEF IInv, JoinInv
      <4> QED
        BY <4>1, <4>2, <4>3, <4>4, <1>5
    <3> QED
      BY <3>1, <3>2
  <2>5. ASSUME NEW x \in Blocks, heap'[x].live
        PROVE  (\E j \in Slots : table'[j] = x) \/ (\E u \in Threads : Joins(u)' /\ call'[u].block = x)
    <3>1. CASE x = b
      BY <3>1, <2>1, <1>6
    <3>2. CASE x # b /\ \E j \in Slots : table[j] = x
      BY <3>2, <1>3, <1>7
    <3>3. CASE \E u \in Threads : Joins(u) /\ call[u].block = x
      BY <3>3, <2>1, <1>7
    <3> QED
      BY <3>1, <3>2, <3>3, <2>5, <1>5 DEF IInv, JoinInv
  <2> QED
    BY <2>4, <2>5 DEF JoinInv
<1>11. IdsInv'
  <2>1. \A u \in Threads : \A j \in ids'[u] : j # i /\ j \in ids[u]
    BY <1>2, <1>7 DEF IInv, IdsInv
  <2>2. \A u \in Threads : \A j \in ids'[u] : table'[j] # 0
    BY <2>1, <1>7 DEF IInv, IdsInv, Types
  <2> QED
    BY <2>1, <2>2 DEF IInv, IdsInv
<1>12. ASSUME NEW u \in Threads
       PROVE  Fits(u, call[u])'
  <2>1. CASE u = t
    BY <2>1, <1>6 DEF Fits, OnSlot, OnSession
  <2>2. CASE u # t
    <3>1. Fits(u, call[u]) /\ call'[u] = call[u] /\ ids'[u] = ids[u]
      BY <2>2, <1>7 DEF IInv, CallsInv
    <3>2. call[u].at \in OnSlot => call[u].slot \in Slots /\ table'[call[u].slot] = table[call[u].slot]
      BY <2>2, <3>1, <1>4, <1>7 DEF Fits
    <3> QED
      BY <3>1, <3>2, <1>5 DEF Fits, Socket, OnSlot, OnSession
  <2> QED
    BY <2>1, <2>2
<1>13. CallsInv'
  BY <1>12 DEF CallsInv
<1>14. AloneInv'
  BY <1>4, <1>5, <1>6, <1>7 DEF IInv, AloneInv
<1>15. ConnectInv'
  <2>1. \A x \in Blocks : Awaited(x) => Awaited(x)'
    BY <1>1, <1>5, <1>7 DEF Awaited
  <2> QED
    BY <2>1, <1>5 DEF IInv, ConnectInv
<1>16. SessionInv'
  <2>1. \A u \in Threads : (Carries(u)' <=> Carries(u)) /\ (Carries(u) => call'[u].session = call[u].session)
    BY <1>1, <1>6, <1>7 DEF Carries
  <2>2. \A x \in Blocks : Stale(x)' <=> Stale(x)
    BY <1>1, <1>6, <1>7 DEF Stale
  <2> QED
    BY <2>1, <2>2, <1>5, SessionsKept DEF IInv, Keeps
<1>17. EstablishedConnected'
  BY <1>5 DEF IInv, EstablishedConnected
<1> QED
  BY <1>8, <1>9, <1>10, <1>11, <1>13, <1>14, <1>15, <1>16, <1>17 DEF IInv

LEMMA FreeSocketIsSafe ==
    ASSUME IInv, NEW t \in Threads, FreeSocket(t)
    PROVE  IInv'
<1>1. PICK b \in Blocks :
         /\ b = call[t].block /\ call[t].at = "join" /\ heap[b].live /\ \A i \in Slots : table[i] # b
         /\ \A u \in Threads : Joins(u) /\ call[u].block = b => u = t
         /\ connect[b].at \in {"none", "ended"}
  BY DEF FreeSocket, Joined, IInv, JoinInv, Joins
<1>2. ~Stale(b)
  <2>1. ASSUME NEW u \in Threads, call[u].at = "clear"
        PROVE  call[u].slot \in Slots /\ call[u].block = table[call[u].slot]
    BY <2>1 DEF IInv, CallsInv, Fits, OnSlot, OnSession
  <2> QED
    BY <2>1, <1>1 DEF Stale
<1>3. heap[b].handle \in open \cup {0}
  BY <1>1, <1>2 DEF IInv, SessionInv, Keeps
<1>4. /\ open' = open \ {heap[b].handle}
      /\ heap' = [heap EXCEPT ![b] = Freed]
      /\ connect' = [connect EXCEPT ![b] = IF @.at = "ended" THEN NoThread ELSE @]
      /\ Returns(t)
      /\ UNCHANGED <<init, table, ids, crashed>>
  BY <1>1 DEF FreeSocket
<1>5. Freed \in SocketRecord /\ ~Freed.live
  BY DEF Freed, SocketRecord
<1>6. NoThread \in ConnectRecord /\ NoThread.at = "none"
  BY DEF NoThread, ConnectRecord
<1>7. /\ call'[t] \in CallRecord /\ call' = [call EXCEPT ![t] = call'[t]]
      /\ call'[t].at = "idle" /\ call'[t].slot = 0
  BY <1>4, CallReturns
<1>8. /\ heap' \in [Blocks -> SocketRecord] /\ ~heap'[b].live
      /\ \A x \in Blocks : x # b => heap'[x] = heap[x]
  BY <1>4, <1>5 DEF IInv, Types
<1>9. /\ connect' \in [Blocks -> ConnectRecord] /\ connect'[b].at = "none"
      /\ \A x \in Blocks : x # b => connect'[x] = connect[x]
  BY <1>1, <1>4, <1>6 DEF IInv, Types
<1>10. call' \in [Threads -> CallRecord] /\ \A u \in Threads : u # t => call'[u] = call[u]
  BY <1>7 DEF IInv, Types
<1>11. Types' /\ IdsInv'
  BY <1>4, <1>8, <1>9, <1>10 DEF IInv, Types, IdsInv
<1>12. TableInv'
  <2>1. ASSUME NEW j \in Slots, table[j] # 0
        PROVE  heap'[table[j]].live
    <3>1. table[j] \in Blocks /\ table[j] # b /\ heap[table[j]].live
      BY <2>1, <1>1 DEF IInv, Types, TableInv
    <3> QED
      BY <3>1, <1>8
  <2> QED
    BY <2>1, <1>4 DEF IInv, TableInv
<1>13. JoinInv'
  <2>1. ~Joins(t)' /\ \A u \in Threads : u # t => (Joins(u)' <=> Joins(u))
    BY <1>7, <1>10 DEF Joins
  <2>2. ASSUME NEW u \in Threads, Joins(u)'
        PROVE  /\ call'[u].block \in Blocks /\ heap'[call'[u].block].live
               /\ \A j \in Slots : table'[j] # call'[u].block
               /\ \A v \in Threads : Joins(v)' /\ call'[v].block = call'[u].block => v = u
    <3>1. u # t /\ Joins(u) /\ call'[u] = call[u]
      BY <2>1, <2>2, <1>10
    <3>2. /\ call[u].block \in Blocks /\ heap[call[u].block].live /\ call[u].block # b
          /\ \A j \in Slots : table[j] # call[u].block
      BY <3>1, <1>1 DEF IInv, JoinInv
    <3>3. \A v \in Threads : Joins(v)' /\ call'[v].block = call[u].block => v = u
      BY <3>1, <2>1, <1>10 DEF IInv, JoinInv
    <3> QED
      BY <3>1, <3>2, <3>3, <1>4, <1>8
  <2>3. ASSUME NEW x \in Blocks, heap'[x].live
        PROVE  (\E j \in Slots : table'[j] = x) \/ (\E u \in Threads : Joins(u)' /\ call'[u].block = x)
    <3>1. x # b /\ heap[x].live
      BY <2>3, <1>8
    <3>2. CASE \E j \in Slots : table[j] = x
      BY <3>2, <1>4
    <3>3. CASE \E u \in Threads : Joins(u) /\ call[u].block = x
      BY <3>1, <3>3, <2>1, <1>1, <1>10
    <3> QED
      BY <3>1, <3>2, <3>3 DEF IInv, JoinInv
  <2> QED
    BY <2>2, <2>3 DEF JoinInv
<1>14. ASSUME NEW u \in Threads
       PROVE  Fits(u, call[u])'
  <2>1. CASE u = t
    BY <2>1, <1>7 DEF Fits, OnSlot, OnSession
  <2>2. CASE u # t
    <3>1. Fits(u, call[u]) /\ call'[u] = call[u]
      BY <2>2, <1>10 DEF IInv, CallsInv
    <3>2. ASSUME call[u].at \in OnSlot
          PROVE  heap'[table[call[u].slot]] = heap[table[call[u].slot]]
      <4>1. call[u].slot \in Slots /\ table[call[u].slot] \in Blocks /\ table[call[u].slot] # b
        BY <3>1, <3>2, <1>1 DEF Fits, IInv, Types
      <4> QED
        BY <4>1, <1>8
    <3> QED
      BY <3>1, <3>2, <1>4 DEF Fits, Socket, OnSlot, OnSession
  <2> QED
    BY <2>1, <2>2
<1>15. CallsInv'
  BY <1>14 DEF CallsInv
<1>16. AloneInv'
  BY <1>1, <1>4, <1>7, <1>10 DEF IInv, AloneInv
<1>17. ConnectInv'
  <2>1. \A x \in Blocks : x # b /\ Awaited(x) => Awaited(x)'
    BY <1>1, <1>9, <1>10 DEF Awaited
  <2> QED
    BY <2>1, <1>8, <1>9 DEF IInv, ConnectInv
<1>18. CarriedKept /\ OthersKeep(b) /\ ~Keeps(b)'
  <2>1. CarriedKept
    BY <1>1, <1>7, <1>10 DEF CarriedKept, SameCarried, Carries
  <2>2. \A x \in Blocks : Stale(x)' <=> Stale(x)
    BY <1>1, <1>7, <1>10 DEF Stale
  <2> QED
    BY <2>1, <2>2, <1>8 DEF OthersKeep, SameKept, Keeps
<1>19. SessionInv'
  <2>1. CASE heap[b].handle # 0
    BY <2>1, <1>1, <1>2, <1>4, <1>18, KeeperLoses DEF IInv, Keeps
  <2>2. CASE heap[b].handle = 0
    <3>1. open' = open
      BY <2>2, <1>4, MemoryAssumption DEF IInv, Types
    <3>2. ~Keeps(b)
      BY <2>2 DEF Keeps
    <3> QED
      BY <3>1, <3>2, <1>18, SessionsKept DEF IInv, CarriedKept, SameCarried, OthersKeep, SameKept
  <2> QED
    BY <2>1, <2>2
<1>20. ASSUME NEW x \in Blocks, heap'[x].live, heap'[x].kind = "STREAM", heap'[x].state = "ESTABLISHED"
       PROVE  heap'[x].handle \in open'
  <2>1. x # b /\ heap'[x] = heap[x] /\ heap[x].handle \in open
    BY <1>8, <1>20 DEF IInv, EstablishedConnected
  <2>2. ~Stale(x) /\ heap[x].handle # 0
    BY <2>1, <1>20, StreamsHandle, MemoryAssumption DEF IInv, Types
  <2>3. Keeps(x)
    BY <2>1, <2>2, <1>20 DEF Keeps
  <2>4. heap[x].handle # heap[b].handle
    BY <2>1, <2>2, <2>3, <1>1, <1>2 DEF IInv, SessionInv, Keeps
  <2> QED
    BY <2>1, <2>4, <1>4
<1>21. EstablishedConnected'
  BY <1>20 DEF EstablishedConnected
<1> QED
  BY <1>11, <1>12, <1>13, <1>15, <1>16, <1>17, <1>19, <1>21 DEF IInv

LEMMA DeleteAllIsSafe ==
    ASSUME IInv, NEW t \in Threads, DeleteAll(t)
    PROVE  IInv'
<1> DEFINE gone == {table[i] : i \in Slots} \ {0}
           handles == {heap[b].handle : b \in gone}
<1>1. /\ call[t].at = "term" /\ open' = open \ handles /\ Returns(t)
      /\ heap' = [b \in Blocks |-> IF b \in gone THEN Freed ELSE heap[b]]
      /\ connect' = [b \in Blocks |-> IF b \in gone THEN NoThread ELSE connect[b]]
      /\ table' = [i \in Slots |-> 0] /\ ids' = [u \in Threads |-> {}]
      /\ init' = FALSE /\ crashed' = crashed
  BY DEF DeleteAll
<1>2. \A u \in Threads : u # t => call[u].at = "idle"
  BY <1>1 DEF IInv, AloneInv
<1>3. \A b \in Blocks : heap[b].live => b \in gone
  <2>1. \A u \in Threads : ~Joins(u)
    BY <1>1, <1>2 DEF Joins
  <2> QED
    BY <2>1, MemoryAssumption DEF IInv, JoinInv
<1>4. \A u \in Threads : ~Carries(u)
  BY <1>1, <1>2 DEF Carries
<1>5. open \subseteq handles
  BY <1>3, <1>4 DEF IInv, SessionInv, Keeps
<1>6. open' = {}
  BY <1>1, <1>5
<1>7. Freed \in SocketRecord /\ ~Freed.live
  BY DEF Freed, SocketRecord
<1>8. NoThread \in ConnectRecord /\ NoThread.at = "none"
  BY DEF NoThread, ConnectRecord
<1> HIDE DEF gone, handles
<1>9. heap' \in [Blocks -> SocketRecord] /\ \A b \in Blocks : ~heap'[b].live
  BY <1>1, <1>3, <1>7 DEF IInv, Types
<1>10. connect' \in [Blocks -> ConnectRecord] /\ \A b \in Blocks : connect'[b].at = "none"
  BY <1>1, <1>3, <1>8 DEF IInv, Types, ConnectInv
<1>11. /\ call'[t] \in CallRecord /\ call' = [call EXCEPT ![t] = call'[t]]
       /\ call'[t].at = "idle" /\ call'[t].slot = 0
  BY <1>1, CallReturns
<1>12. call' \in [Threads -> CallRecord] /\ \A u \in Threads : call'[u].at = "idle"
  BY <1>2, <1>11 DEF IInv, Types
<1>13. Types' /\ TableInv' /\ IdsInv'
  BY <1>1, <1>6, <1>9, <1>10, <1>12 DEF IInv, Types, TableInv, IdsInv
<1>14. JoinInv' /\ ConnectInv'
  BY <1>9, <1>10, <1>12 DEF JoinInv, Joins, ConnectInv
<1>15. CallsInv' /\ AloneInv'
  BY <1>1, <1>12 DEF CallsInv, Fits, OnSlot, OnSession, AloneInv
<1>16. SessionInv'
  BY <1>6, <1>9, <1>12 DEF SessionInv, Keeps, Carries
<1>17. EstablishedConnected'
  BY <1>9 DEF EstablishedConnected
<1> QED
  BY <1>13, <1>14, <1>15, <1>16, <1>17 DEF IInv

-----------------------------------------------------------------------------
(* New sockets.                                                            *)

LEMMA EnteredIsSafe ==
    ASSUME IInv, NEW t \in Threads, call[t].at \in {"enter", "accepted"},
           NEW i \in Slots, table[i] = 0, NEW b \in Blocks, ~heap[b].live,
           NEW r \in SocketRecord, r.live,
           table' = [table EXCEPT ![i] = b], heap' = [heap EXCEPT ![b] = r],
           ids' = [ids EXCEPT ![t] = @ \cup {i}],
           call' = [call EXCEPT ![t] = call'[t]], call'[t] \in CallRecord,
           connect' \in [Blocks -> ConnectRecord],
           \A x \in Blocks : x # b => connect'[x] = connect[x],
           UNCHANGED <<init, open, crashed>>,
           \/ call'[t].at = "idle" /\ call'[t].slot = 0 /\ connect'[b] = connect[b]
           \/ /\ call'[t].at = "opening" /\ call'[t].slot = i /\ call'[t].block = b
              /\ connect'[b].at = "started" /\ connect'[b].slot = i
              /\ r.kind = "STREAM" /\ r.handle = 0,
           SessionInv', r.kind = "STREAM" /\ r.state = "ESTABLISHED" => r.handle \in open
    PROVE  IInv'
<1>1. /\ table' \in [Slots -> Blocks \cup {0}] /\ table'[i] = b
      /\ \A j \in Slots : j # i => table'[j] = table[j]
      /\ heap' \in [Blocks -> SocketRecord] /\ heap'[b] = r
      /\ \A x \in Blocks : x # b => heap'[x] = heap[x]
      /\ ids' \in [Threads -> SUBSET Slots] /\ ids'[t] = ids[t] \cup {i}
      /\ \A u \in Threads : u # t => call'[u] = call[u] /\ ids'[u] = ids[u]
      /\ call' \in [Threads -> CallRecord]
  BY DEF IInv, Types
<1>2. b # 0
  BY MemoryAssumption
<1>3. \A j \in Slots : table[j] # b
  BY <1>2 DEF IInv, TableInv
<1>4. Types'
  BY <1>1 DEF IInv, Types
<1>5. TableInv'
  <2>1. ASSUME NEW j \in Slots, table'[j] # 0
        PROVE  heap'[table'[j]].live
    <3>1. CASE j = i
      BY <3>1, <1>1
    <3>2. CASE j # i
      <4>1. table'[j] = table[j] /\ table[j] \in Blocks /\ table[j] # b /\ heap[table[j]].live
        BY <3>2, <2>1, <1>1, <1>3 DEF IInv, Types, TableInv
      <4> QED
        BY <4>1, <1>1
    <3> QED
      BY <3>1, <3>2
  <2>2. \A j, k \in Slots : table'[j] = table'[k] /\ table'[j] # 0 => j = k
    BY <1>1, <1>3 DEF IInv, TableInv
  <2> QED
    BY <2>1, <2>2 DEF TableInv
<1>6. JoinInv'
  <2>1. \A u \in Threads : Joins(u)' <=> Joins(u)
    BY <1>1 DEF Joins
  <2>2. ASSUME NEW u \in Threads, Joins(u)
        PROVE  /\ call'[u].block \in Blocks /\ heap'[call'[u].block].live
               /\ \A j \in Slots : table'[j] # call'[u].block
               /\ \A v \in Threads : Joins(v) /\ call'[v].block = call'[u].block => v = u
    <3>1. call'[u] = call[u]
      BY <2>2, <1>1 DEF Joins
    <3>2. /\ call[u].block \in Blocks /\ heap[call[u].block].live /\ call[u].block # b
          /\ \A j \in Slots : table[j] # call[u].block
      BY <2>2 DEF IInv, JoinInv
    <3>3. \A v \in Threads : Joins(v) /\ call'[v].block = call[u].block => v = u
      BY <2>2, <1>1 DEF IInv, JoinInv, Joins
    <3>4. \A j \in Slots : table'[j] # call[u].block
      BY <3>2, <1>1
    <3> QED
      BY <3>1, <3>2, <3>3, <3>4, <1>1
  <2>3. ASSUME NEW x \in Blocks, heap'[x].live
        PROVE  (\E j \in Slots : table'[j] = x) \/ (\E u \in Threads : Joins(u) /\ call'[u].block = x)
    <3>1. CASE x = b
      BY <3>1, <1>1
    <3>2. CASE \E j \in Slots : table[j] = x
      BY <3>2, <1>1, MemoryAssumption
    <3>3. CASE \E u \in Threads : Joins(u) /\ call[u].block = x
      BY <3>3, <1>1 DEF Joins
    <3> QED
      BY <3>1, <3>2, <3>3, <2>3, <1>1 DEF IInv, JoinInv
  <2> QED
    BY <2>1, <2>2, <2>3 DEF JoinInv
<1>7. IdsInv'
  <2>1. \A u \in Threads : i \notin ids[u]
    BY DEF IInv, IdsInv
  <2>2. ASSUME NEW u \in Threads, NEW j \in ids'[u]
        PROVE  table'[j] # 0
    <3>1. j \in Slots /\ (j # i => j \in ids[u])
      BY <2>2, <1>1
    <3> QED
      BY <3>1, <1>1, <1>2 DEF IInv, IdsInv
  <2>3. \A u, v \in Threads : ids'[u] \cap ids'[v] # {} => u = v
    BY <2>1, <1>1 DEF IInv, IdsInv
  <2> QED
    BY <2>2, <2>3 DEF IdsInv
<1>8. ASSUME NEW u \in Threads
      PROVE  Fits(u, call[u])'
  <2>1. CASE u = t
    BY <2>1, <1>1, <1>2 DEF Fits, OnSlot, OnSession
  <2>2. CASE u # t
    <3>1. Fits(u, call[u]) /\ call'[u] = call[u] /\ ids'[u] = ids[u]
      BY <2>2, <1>1 DEF IInv, CallsInv
    <3>2. ASSUME call[u].at \in OnSlot
          PROVE  /\ table'[call[u].slot] = table[call[u].slot]
                 /\ heap'[table[call[u].slot]] = heap[table[call[u].slot]]
      <4>1. /\ call[u].slot \in Slots /\ call[u].slot # i
            /\ table[call[u].slot] \in Blocks /\ table[call[u].slot] # b
        <5>1. call[u].slot \in Slots /\ table[call[u].slot] # 0
          BY <3>1, <3>2 DEF Fits
        <5>2. table[call[u].slot] \in Blocks
          BY <5>1, ZenonT(60) DEF IInv, Types
        <5> QED
          BY <5>1, <5>2, <1>3
      <4> QED
        BY <4>1, <1>1
    <3> QED
      BY <3>1, <3>2 DEF Fits, Socket, OnSlot, OnSession
  <2> QED
    BY <2>1, <2>2
<1>9. CallsInv'
  BY <1>8 DEF CallsInv
<1>10. AloneInv'
  <2>2. init /\ \A u \in Threads : u # t => call[u].at # "term"
    BY DEF IInv, AloneInv
  <2> QED
    BY <2>2, <1>1 DEF IInv, AloneInv
<1>11. ConnectInv'
  <2>1. \A x \in Blocks : x # b /\ Awaited(x) => Awaited(x)'
    BY <1>1 DEF Awaited
  <2>2. connect[b].at = "none"
    BY DEF IInv, ConnectInv
  <2>3. connect'[b].at = "started" => Awaited(b)'
    BY <2>2 DEF Awaited
  <2> QED
    BY <2>1, <2>2, <2>3, <1>1 DEF IInv, ConnectInv
<1>12. EstablishedConnected'
  BY <1>1 DEF IInv, EstablishedConnected
<1> QED
  BY <1>4, <1>5, <1>6, <1>7, <1>9, <1>10, <1>11, <1>12 DEF IInv

(* A structure that is not live is no one's.                               *)
LEMMA FreeIsNobodys ==
    ASSUME IInv, NEW b \in Blocks, ~heap[b].live
    PROVE  \A u \in Threads : ~(call[u].at = "clear" /\ call[u].block = b)
<1>1. ASSUME NEW u \in Threads, call[u].at = "clear"
      PROVE  call[u].block # b
  <2>1. /\ call[u].slot \in Slots /\ table[call[u].slot] # 0
        /\ call[u].block = table[call[u].slot]
    BY <1>1 DEF IInv, CallsInv, Fits, OnSlot, OnSession
  <2> QED
    BY <2>1 DEF IInv, TableInv
<1> QED
  BY <1>1

LEMMA EnterIsSafe ==
    ASSUME IInv, NEW t \in Threads, Enter(t)
    PROVE  IInv'
<1>1. PICK i : i = Min(FreeSlots)
  OBVIOUS
<1>2. PICK b : b = Min(FreeBlocks)
  OBVIOUS
<1>3. i \in Slots /\ table[i] = 0 /\ b \in Blocks /\ ~heap[b].live
  BY <1>1, <1>2, FirstFree DEF Enter
<1> DEFINE r == [live |-> TRUE, kind |-> call[t].do, port |-> call[t].port,
                 remote |-> call[t].remote, handle |-> 0, state |-> FirstState(call[t].do)]
<1>4. call[t].at = "enter" /\ call[t].do \in SocketKinds /\ call[t] \in CallRecord
  BY DEF Enter, IInv, Types, CallsInv, Fits
<1>5. FirstState(call[t].do) \in {"CLOSED", "LISTEN", "SYN_SENT"}
  BY <1>4 DEF FirstState, SocketKinds
<1>6. r \in SocketRecord
  BY <1>4, <1>5 DEF SocketRecord, CallRecord, SocketKinds
<1>7. r.live /\ r.handle = 0 /\ r.kind = call[t].do /\ r.state # "ESTABLISHED"
  BY <1>5
<1>8. /\ table' = [table EXCEPT ![i] = b] /\ heap' = [heap EXCEPT ![b] = r]
      /\ ids' = [ids EXCEPT ![t] = @ \cup {i}]
  BY <1>1, <1>2 DEF Enter, Entered
<1>9. UNCHANGED <<init, open, crashed>>
  BY DEF Enter
<1>10. /\ heap'[b] = r /\ \A x \in Blocks : x # b => heap'[x] = heap[x]
  BY <1>3, <1>8 DEF IInv, Types
<1> HIDE DEF r
<1>11. ASSUME call' = [call EXCEPT ![t] = call'[t]], call'[t].at \in {"idle", "opening"}
       PROVE  SessionInv'
  <2>1. \A u \in Threads : u # t => call'[u] = call[u]
    BY <1>11 DEF IInv, Types
  <2>2. CarriedKept /\ \A x \in Blocks : Stale(x)' <=> Stale(x)
    BY <2>1, <1>4, <1>11 DEF CarriedKept, SameCarried, Carries, Stale
  <2>3. ~Keeps(b) /\ ~Keeps(b)'
    BY <1>3, <1>7, <1>10 DEF Keeps
  <2>4. AllKeep
    BY <2>2, <2>3, <1>10 DEF AllKeep, SameKept, Keeps
  <2> QED
    BY <2>2, <2>4, <1>9, SessionsKept DEF IInv, CarriedKept, SameCarried, AllKeep, SameKept
<1>12. CASE call[t].do # "STREAM"
  <2>1. Returns(t) /\ connect' = connect
    BY <1>12 DEF Enter
  <2>2. /\ call'[t] \in CallRecord /\ call' = [call EXCEPT ![t] = call'[t]]
        /\ call'[t].at = "idle" /\ call'[t].slot = 0
    BY <2>1, CallReturns
  <2>3. SessionInv'
    BY <2>2, <1>11
  <2>4. connect' \in [Blocks -> ConnectRecord] /\ \A x \in Blocks : connect'[x] = connect[x]
    BY <2>1 DEF IInv, Types
  <2> QED
    BY <2>2, <2>3, <2>4, <1>3, <1>4, <1>6, <1>7, <1>8, <1>9, EnteredIsSafe
<1>13. CASE call[t].do = "STREAM"
  <2> DEFINE c == [Idle EXCEPT !.at = "opening", !.slot = i, !.block = b]
             n == [NoThread EXCEPT !.at = "started", !.slot = i]
  <2>1. connect' = [connect EXCEPT ![b] = n] /\ call' = [call EXCEPT ![t] = c]
    BY <1>1, <1>2, <1>13 DEF Enter
  <2>2. c \in CallRecord /\ c.at = "opening" /\ c.slot = i /\ c.block = b
    BY <1>3 DEF Idle, CallRecord, Places
  <2>3. n \in ConnectRecord /\ n.at = "started" /\ n.slot = i
    BY <1>3 DEF NoThread, ConnectRecord
  <2> HIDE DEF c, n
  <2>4. call'[t] = c /\ call' = [call EXCEPT ![t] = call'[t]]
    BY <2>1 DEF IInv, Types
  <2>5. /\ connect' \in [Blocks -> ConnectRecord] /\ connect'[b] = n
        /\ \A x \in Blocks : x # b => connect'[x] = connect[x]
    BY <2>1, <2>3, <1>3 DEF IInv, Types
  <2>6. SessionInv'
    BY <2>2, <2>4, <1>11
  <2>7. /\ call'[t].at = "opening" /\ call'[t].slot = i /\ call'[t].block = b
        /\ connect'[b].at = "started" /\ connect'[b].slot = i
        /\ r.kind = "STREAM" /\ r.handle = 0
    BY <2>2, <2>3, <2>4, <2>5, <1>7, <1>13
  <2>8. call'[t] \in CallRecord
    BY <2>2, <2>4
  <2> QED
    BY <2>4, <2>5, <2>6, <2>7, <2>8, <1>3, <1>4, <1>6, <1>7, <1>8, <1>9, EnteredIsSafe
<1> QED
  BY <1>12, <1>13

LEMMA EnterAcceptedIsSafe ==
    ASSUME IInv, NEW t \in Threads, EnterAccepted(t)
    PROVE  IInv'
<1>1. PICK i : i = Min(FreeSlots)
  OBVIOUS
<1>2. PICK b : b = Min(FreeBlocks)
  OBVIOUS
<1>3. i \in Slots /\ table[i] = 0 /\ b \in Blocks /\ ~heap[b].live
  BY <1>1, <1>2, FirstFree DEF EnterAccepted
<1>4. call[t].at = "accepted" /\ call[t].at \in OnSession /\ Carries(t)
  BY DEF EnterAccepted, OnSession, Carries
<1>5. call[t].slot \in Slots /\ table[call[t].slot] \in Blocks /\ table[call[t].slot] # 0
  BY <1>4, PlaceIsKept, MemoryAssumption DEF OnSlot
<1>6. Socket(call[t].slot) \in SocketRecord /\ call[t].session \in open /\ call[t].session \in Sessions
  BY <1>4, <1>5 DEF IInv, Types, SessionInv, Socket
<1>7. PICK remote \in Remotes :
         Entered(t, [live |-> TRUE, kind |-> "STREAM", port |-> Socket(call[t].slot).port,
                     remote |-> remote, state |-> "ESTABLISHED", handle |-> call[t].session])
  BY <1>5 DEF EnterAccepted
<1>8. Returns(t) /\ UNCHANGED <<init, connect, open, dead, crashed>>
  BY <1>5 DEF EnterAccepted
<1> DEFINE r == [live |-> TRUE, kind |-> "STREAM", port |-> Socket(call[t].slot).port,
                 remote |-> remote, state |-> "ESTABLISHED", handle |-> call[t].session]
<1>9. r \in SocketRecord
  BY <1>6 DEF SocketRecord
<1>10. r.live /\ r.handle = call[t].session /\ r.handle # 0 /\ r.handle \in open
  BY <1>6, MemoryAssumption
<1>11. /\ table' = [table EXCEPT ![i] = b] /\ heap' = [heap EXCEPT ![b] = r]
       /\ ids' = [ids EXCEPT ![t] = @ \cup {i}]
  BY <1>1, <1>2, <1>7 DEF Entered
<1> HIDE DEF r
<1>12. /\ heap'[b] = r /\ \A x \in Blocks : x # b => heap'[x] = heap[x]
  BY <1>3, <1>11 DEF IInv, Types
<1>13. /\ call'[t] \in CallRecord /\ call' = [call EXCEPT ![t] = call'[t]]
       /\ call'[t].at = "idle" /\ call'[t].slot = 0
  BY <1>8, CallReturns
<1>14. \A u \in Threads : u # t => call'[u] = call[u]
  BY <1>13 DEF IInv, Types
<1>15. SessionInv'
  <2>1. OthersCarry(t) /\ ~Carries(t)'
    BY <1>13, <1>14 DEF OthersCarry, SameCarried, Carries
  <2>2. \A x \in Blocks : Stale(x)' <=> Stale(x)
    BY <1>4, <1>13, <1>14 DEF Stale
  <2>3. ~Stale(b)
    BY <1>3, FreeIsNobodys DEF Stale
  <2>4. ~Keeps(b) /\ Keeps(b)' /\ OthersKeep(b)
    BY <2>2, <2>3, <1>3, <1>10, <1>12 DEF Keeps, OthersKeep, SameKept
  <2> QED
    BY <2>1, <2>4, <1>3, <1>4, <1>8, <1>10, <1>12, CarrierToKeeper DEF IInv
<1>16. connect' \in [Blocks -> ConnectRecord] /\ \A x \in Blocks : connect'[x] = connect[x]
  BY <1>8 DEF IInv, Types
<1>17. UNCHANGED <<init, open, crashed>>
  BY <1>8
<1> QED
  BY <1>3, <1>4, <1>9, <1>10, <1>11, <1>13, <1>15, <1>16, <1>17, EnteredIsSafe

-----------------------------------------------------------------------------
(* The invariant holds, and with it the properties.                        *)

LEMMA TableFullIsSafe ==
    ASSUME IInv, NEW t \in Threads, TableFull(t)
    PROVE  IInv'
BY ReturnIsSafe DEF TableFull, Plain

LEMMA InitIsSafe ==
    ASSUME Init
    PROVE  IInv
<1>1. /\ Freed \in SocketRecord /\ ~Freed.live
      /\ NoThread \in ConnectRecord /\ NoThread.at = "none"
      /\ Idle \in CallRecord /\ Idle.at = "idle"
  BY DEF Freed, SocketRecord, NoThread, ConnectRecord, Idle, CallRecord, Places
<1>2. /\ \A i \in Slots : table[i] = 0
      /\ \A b \in Blocks : ~heap[b].live /\ connect[b].at = "none"
      /\ \A t \in Threads : call[t].at = "idle" /\ ids[t] = {}
      /\ open = {}
  BY <1>1 DEF Init
<1>3. Types
  BY <1>1 DEF Init, Types
<1>4. TableInv /\ JoinInv /\ IdsInv
  BY <1>2 DEF TableInv, JoinInv, Joins, IdsInv
<1>5. CallsInv /\ AloneInv /\ ConnectInv
  BY <1>2 DEF CallsInv, Fits, OnSlot, OnSession, AloneInv, ConnectInv
<1>6. SessionInv /\ EstablishedConnected
  BY <1>2 DEF SessionInv, Keeps, Carries, EstablishedConnected
<1> QED
  BY <1>3, <1>4, <1>5, <1>6 DEF IInv

LEMMA GameCallsAreSafe ==
    ASSUME SharedKinds \subseteq {"STREAM"}, IInv, NEW t \in Threads, GameCalls(t)
    PROVE  IInv'
<1>1. CASE InitLibrary(t)
  BY <1>1, InitLibraryIsSafe
<1>2. CASE Term(t)
  BY <1>2, TermIsSafe
<1>3. ASSUME NEW port \in Ports, CheckPort(t, "PDP", port, "none")
      PROVE  IInv'
  BY <1>3, CheckPortIsSafe DEF SocketKinds
<1>4. ASSUME NEW port \in Ports, CheckPort(t, "LISTEN", port, "none")
      PROVE  IInv'
  BY <1>4, CheckPortIsSafe DEF SocketKinds
<1>5. ASSUME NEW port \in Ports, NEW remote \in Remotes, CheckPort(t, "STREAM", port, remote)
      PROVE  IInv'
  BY <1>5, CheckPortIsSafe DEF SocketKinds
<1>6. ASSUME NEW i \in Slots, NEW do \in {"transfer", "accept", "poll"}, UseSocket(t, i, do)
      PROVE  IInv'
  <2>1. i \in ids[t]
    BY <1>6, UnsharedIsOwn DEF UseSocket
  <2> QED
    BY <1>6, <2>1, UseSocketIsSafe
<1>7. ASSUME NEW i \in Slots, UseStream(t, i)
      PROVE  IInv'
  BY <1>7, UseStreamIsSafe
<1>8. ASSUME NEW i \in Slots, UseConnect(t, i)
      PROVE  IInv'
  BY <1>8, UseConnectIsSafe
<1>9. ASSUME NEW i \in Slots, Close(t, i)
      PROVE  IInv'
  BY <1>9, CloseIsSafe
<1> QED
  BY <1>1, <1>2, <1>3, <1>4, <1>5, <1>6, <1>7, <1>8, <1>9 DEF GameCalls

LEMMA StepsAreSafe ==
    ASSUME SharedKinds \subseteq {"STREAM"}, IInv, [Next]_vars
    PROVE  IInv'
<1>1. ASSUME NEW t \in Threads, GameCalls(t)
      PROVE  IInv'
  BY <1>1, GameCallsAreSafe
<1>2. ASSUME NEW t \in Threads, CallGoesOn(t)
      PROVE  IInv'
  <2>1. CASE Enter(t) \/ TableFull(t) \/ OpenReturns(t)
    BY <2>1, EnterIsSafe, TableFullIsSafe, OpenReturnsIsSafe
  <2>2. CASE Recover(t) \/ SessionMade(t) \/ SessionFails(t)
    BY <2>2, RecoverIsSafe, SessionMadeIsSafe, SessionFailsIsSafe
  <2>3. CASE FindDead(t) \/ Clear(t) \/ Dispose(t) \/ Transfer(t)
    BY <2>3, FindDeadIsSafe, ClearIsSafe, DisposeIsSafe, TransferIsSafe
  <2>4. CASE Accept(t) \/ EnterAccepted(t) \/ AcceptedTableFull(t)
    BY <2>4, AcceptIsSafe, EnterAcceptedIsSafe, AcceptedTableFullIsSafe
  <2>5. CASE Stream(t) \/ ConnectAnswers(t)
    BY <2>5, StreamIsSafe, ConnectAnswersIsSafe
  <2>6. CASE Unlink(t) \/ FreeSocket(t) \/ DeleteAll(t)
    BY <2>6, UnlinkIsSafe, FreeSocketIsSafe, DeleteAllIsSafe
  <2> QED
    BY <1>2, <2>1, <2>2, <2>3, <2>4, <2>5, <2>6 DEF CallGoesOn
<1>3. ASSUME NEW b \in Blocks, ThreadStep(b)
      PROVE  IInv'
  BY <1>3, ConnectRunsIsSafe, ConnectFailsIsSafe, ConnectSucceedsIsSafe, ConnectStoresIsSafe
     DEF ThreadStep
<1>4. ASSUME NEW s \in Sessions, LoseSession(s)
      PROVE  IInv'
  BY <1>4, LoseSessionIsSafe
<1>5. CASE UNCHANGED vars
  BY <1>5, QuietIsSafe DEF vars
<1> QED
  BY <1>1, <1>2, <1>3, <1>4, <1>5 DEF Next

(* Whatever the threads of a game and the connect threads do between the   *)
(* steps of a call, every call finds what it has picked up: see IInv.      *)
(* PDP and listening sockets are each used by one thread, streams by any.  *)
THEOREM PostOfficeInvariant ==
    ASSUME SharedKinds \subseteq {"STREAM"}
    PROVE  Spec => []IInv
<1>1. Init => IInv
  BY InitIsSafe
<1>2. IInv /\ [Next]_vars => IInv'
  BY StepsAreSafe
<1> QED
  BY <1>1, <1>2, PTL DEF Spec

(* A stream that calls itself established has a session that is open, if   *)
(* PDP and listening sockets are each used by one thread.                  *)
THEOREM EstablishedAreConnected ==
    ASSUME SharedKinds \subseteq {"STREAM"}
    PROVE  Spec => []EstablishedConnected
<1>1. IInv => EstablishedConnected
  BY DEF IInv
<1> QED
  BY <1>1, PostOfficeInvariant, PTL

(* Every session with the relay is closed once: it is held by one          *)
(* structure or one call.  PDP and listening sockets are each used by one  *)
(* thread: two that find the session of one socket lost both delete it.    *)
THEOREM SessionsHaveOneHolder ==
    ASSUME SharedKinds \subseteq {"STREAM"}
    PROVE  Spec => []SessionsOwned
<1>1. ASSUME IInv, NEW s \in open
      PROVE  Cardinality(Holders(s)) = 1
  <2>1. s # 0
    BY <1>1, MemoryAssumption DEF IInv, Types
  <2> DEFINE K == {b \in Blocks : Keeps(b) /\ heap[b].handle = s}
             C == {t \in Threads : Carries(t) /\ call[t].session = s}
  <2>2. Holders(s) = K \cup C
    BY <2>1 DEF Holders, Keeps, Carries
  <2>3. CASE \E b \in Blocks : Keeps(b) /\ heap[b].handle = s
    <3>1. PICK b \in Blocks : Keeps(b) /\ heap[b].handle = s
      BY <2>3
    <3>2. \A x \in Blocks : Keeps(x) /\ heap[x].handle = s => x = b
      BY <3>1, <1>1 DEF IInv, SessionInv
    <3>3. \A t \in Threads : ~(Carries(t) /\ call[t].session = s)
      BY <3>1, <1>1 DEF IInv, SessionInv
    <3>4. Holders(s) = {b}
      BY <2>2, <3>1, <3>2, <3>3
    <3> QED
      BY <3>4, FS_Singleton
  <2>4. CASE \E t \in Threads : Carries(t) /\ call[t].session = s
    <3>1. PICK t \in Threads : Carries(t) /\ call[t].session = s
      BY <2>4
    <3>2. \A x \in Blocks : ~(Keeps(x) /\ heap[x].handle = s)
      BY <3>1, <1>1 DEF IInv, SessionInv
    <3>3. \A u \in Threads : Carries(u) /\ call[u].session = s => u = t
      BY <3>1, <1>1 DEF IInv, SessionInv
    <3>4. Holders(s) = {t}
      BY <2>2, <3>1, <3>2, <3>3
    <3> QED
      BY <3>4, FS_Singleton
  <2> QED
    BY <1>1, <2>3, <2>4 DEF IInv, SessionInv
<1>2. IInv => SessionsOwned
  BY <1>1 DEF SessionsOwned
<1> QED
  BY <1>2, PostOfficeInvariant, PTL

-----------------------------------------------------------------------------
(* However a game shares its sockets: places, structures and ids.          *)

Shaped ==
    /\ table \in [Slots -> Blocks \cup {0}] /\ ids \in [Threads -> SUBSET Slots]
    /\ DOMAIN heap = Blocks /\ DOMAIN connect = Blocks /\ DOMAIN call = Threads
    /\ \A b \in Blocks : /\ "live" \in DOMAIN heap[b] /\ "kind" \in DOMAIN heap[b]
                         /\ "at" \in DOMAIN connect[b] /\ "block" \in DOMAIN connect[b]
                         /\ "slot" \in DOMAIN connect[b]
    /\ \A t \in Threads : /\ "at" \in DOMAIN call[t] /\ "slot" \in DOMAIN call[t]
                          /\ "block" \in DOMAIN call[t]

(* A call that has entered a socket, or begins to close one, has its id.   *)
PlacesInv ==
    \A t \in Threads : call[t].at \in {"unlink", "opening"} =>
        call[t].slot \in ids[t] /\ call[t].block = table[call[t].slot]

ThreadsInv ==
    \A b \in Blocks :
        /\ connect[b].at # "none" => heap[b].live /\ heap[b].kind = "STREAM"
        /\ connect[b].at \in {"connecting", "storing"} => connect[b].block = b
        /\ connect[b].at = "started" => Awaited(b)

LinkInv == Shaped /\ TableInv /\ JoinInv /\ IdsInv /\ AloneInv /\ PlacesInv /\ ThreadsInv

(* Steps that neither make nor free a structure.                           *)
SameHeap ==
    /\ DOMAIN heap' = Blocks
    /\ \A b \in Blocks : /\ "live" \in DOMAIN heap'[b] /\ "kind" \in DOMAIN heap'[b]
                         /\ heap'[b].live = heap[b].live /\ heap'[b].kind = heap[b].kind

(* Connect threads go on, end or are forgotten.                            *)
ThreadsGoOn ==
    /\ DOMAIN connect' = Blocks
    /\ \A b \in Blocks :
        /\ "at" \in DOMAIN connect'[b] /\ "block" \in DOMAIN connect'[b] /\ "slot" \in DOMAIN connect'[b]
        /\ \/ connect'[b] = connect[b]
           \/ connect'[b].at = "none"
           \/ connect[b].at # "none" /\ connect'[b].at = "ended"
           \/ /\ connect[b].at # "none" /\ connect'[b].at \in {"connecting", "storing"}
              /\ connect'[b].block = b

LEMMA HandleKeepsHeap ==
    ASSUME Shaped, NEW b, NEW h, heap' = heap \/ heap' = [heap EXCEPT ![b].handle = h]
    PROVE  SameHeap
BY DEF Shaped, SameHeap

LEMMA QuietKeepsLinks ==
    ASSUME LinkInv, SameHeap, ThreadsGoOn, UNCHANGED <<init, table, ids, call>>
    PROVE  LinkInv'
<1> USE DEF LinkInv, Shaped
<1>1. Shaped'
  BY DEF SameHeap, ThreadsGoOn
<1>2. TableInv' /\ IdsInv' /\ AloneInv' /\ PlacesInv'
  <2>1. \A i \in Slots : table[i] # 0 => table[i] \in Blocks
    OBVIOUS
  <2> QED
    BY <2>1 DEF TableInv, IdsInv, AloneInv, PlacesInv, SameHeap
<1>3. JoinInv'
  BY DEF JoinInv, Joins, SameHeap
<1>4. ThreadsInv'
  BY DEF ThreadsInv, Awaited, SameHeap, ThreadsGoOn
<1> QED
  BY <1>1, <1>2, <1>3, <1>4

(* What a call may do between taking a socket out of the table and freeing *)
(* it is said elsewhere: t moves on, and others do not.                    *)
Moves(t) ==
    /\ DOMAIN call' = Threads
    /\ "at" \in DOMAIN call'[t] /\ "slot" \in DOMAIN call'[t] /\ "block" \in DOMAIN call'[t]
    /\ \A u \in Threads : u # t => call'[u] = call[u]
    /\ call[t].at \notin {"unlink", "join", "term"}
    /\ call[t].at = "opening" => connect[call[t].block].at # "started"
    /\ call'[t].at \notin {"join", "opening"}
    /\ call'[t].at = "unlink" => /\ call'[t].slot \in ids[t]
                                 /\ call'[t].block = table[call'[t].slot]
    /\ call'[t].at # "idle" => init /\ \A u \in Threads : u # t => call[u].at # "term"
    /\ call'[t].at = "term" => \A u \in Threads : call[u].at = "idle"

LEMMA MoveKeepsLinks ==
    ASSUME LinkInv, NEW t \in Threads, Moves(t), SameHeap, ThreadsGoOn, UNCHANGED <<init, table, ids>>
    PROVE  LinkInv'
<1> USE DEF LinkInv, Shaped, Moves
<1>1. Shaped'
  BY DEF SameHeap, ThreadsGoOn
<1>2. TableInv' /\ IdsInv'
  <2>1. \A i \in Slots : table[i] # 0 => table[i] \in Blocks
    OBVIOUS
  <2> QED
    BY <2>1 DEF TableInv, IdsInv, SameHeap
<1>3. AloneInv' /\ PlacesInv'
  BY DEF AloneInv, PlacesInv
<1>4. JoinInv'
  <2>1. \A u \in Threads : (Joins(u)' <=> Joins(u)) /\ (Joins(u) => call'[u] = call[u])
    BY DEF Joins
  <2>2. ASSUME NEW u \in Threads, Joins(u)'
        PROVE  /\ call'[u].block \in Blocks /\ heap'[call'[u].block].live
               /\ \A i \in Slots : table'[i] # call'[u].block
               /\ \A v \in Threads : Joins(v)' /\ call'[v].block = call'[u].block => v = u
    <3>1. Joins(u) /\ call'[u] = call[u] /\ table' = table
      BY <2>1, <2>2
    <3>2. /\ call[u].block \in Blocks /\ heap[call[u].block].live
          /\ \A i \in Slots : table[i] # call[u].block
          /\ \A v \in Threads : Joins(v) /\ call[v].block = call[u].block => v = u
      BY <3>1 DEF JoinInv
    <3>3. \A v \in Threads : Joins(v)' /\ call'[v].block = call[u].block => v = u
      BY <3>2, <2>1
    <3>4. heap'[call[u].block].live
      BY <3>2 DEF SameHeap
    <3> QED
      BY <3>1, <3>2, <3>3, <3>4
  <2>3. ASSUME NEW b \in Blocks, heap'[b].live
        PROVE  (\E i \in Slots : table'[i] = b) \/ (\E u \in Threads : Joins(u)' /\ call'[u].block = b)
    BY <2>1, <2>3 DEF JoinInv, SameHeap
  <2> QED
    BY <2>2, <2>3 DEF JoinInv
<1>5. ThreadsInv'
  BY DEF ThreadsInv, Awaited, SameHeap, ThreadsGoOn
<1> QED
  BY <1>1, <1>2, <1>3, <1>4, <1>5

(* A call that is at a place where it owns nothing goes on to another, or  *)
(* returns.                                                                *)
LEMMA MovesOn ==
    ASSUME LinkInv, NEW t \in Threads, NEW c, call' = [call EXCEPT ![t] = c],
           "at" \in DOMAIN c, "slot" \in DOMAIN c, "block" \in DOMAIN c,
           call[t].at \notin {"unlink", "join", "term", "idle"},
           call[t].at = "opening" => connect[call[t].block].at # "started",
           c.at \notin {"join", "opening", "unlink", "term"}
    PROVE  Moves(t)
<1>1. DOMAIN call' = Threads /\ call'[t] = c /\ \A u \in Threads : u # t => call'[u] = call[u]
  BY DEF LinkInv, Shaped
<1>2. init /\ \A u \in Threads : u # t => call[u].at # "term"
  BY DEF LinkInv, AloneInv
<1> QED
  BY <1>1, <1>2 DEF Moves

(* It returns, or goes on with what it has.                                *)
LEMMA ReturnMoves ==
    ASSUME LinkInv, NEW t \in Threads, Returns(t),
           call[t].at \notin {"unlink", "join", "term", "idle"},
           call[t].at = "opening" => connect[call[t].block].at # "started"
    PROVE  Moves(t)
<1>1. /\ Idle.at = "idle" /\ "at" \in DOMAIN Idle /\ "slot" \in DOMAIN Idle
      /\ "block" \in DOMAIN Idle
  BY DEF Idle
<1> QED
  BY <1>1, MovesOn DEF Returns

LEMMA GoMoves ==
    ASSUME LinkInv, NEW t \in Threads, NEW place,
           call[t].at \notin {"unlink", "join", "term", "idle", "opening"},
           place \notin {"join", "opening", "unlink", "term"},
           Goes(t, place)
    PROVE  Moves(t)
<1> DEFINE c == [call[t] EXCEPT !.at = place]
<1>1. c.at = place /\ "at" \in DOMAIN c /\ "slot" \in DOMAIN c /\ "block" \in DOMAIN c
  BY DEF LinkInv, Shaped
<1>2. call' = [call EXCEPT ![t] = c]
  BY DEF Goes
<1> HIDE DEF c
<1> QED
  BY <1>1, <1>2, MovesOn

LEMMA SameThreads ==
    ASSUME Shaped, connect' = connect
    PROVE  ThreadsGoOn
BY DEF Shaped, ThreadsGoOn

LEMMA CrashKeepsLinks ==
    ASSUME LinkInv, Crash
    PROVE  LinkInv'
BY QuietKeepsLinks, SameThreads, HandleKeepsHeap DEF Crash, LinkInv

(* Calls on sockets, whatever they do to sessions, follow no links.        *)
LEMMA BegunKeepsLinks ==
    ASSUME LinkInv, NEW t \in Threads,
           \/ TableFull(t) \/ OpenReturns(t) \/ Transfer(t) \/ Dispose(t) \/ Stream(t)
           \/ AcceptedTableFull(t)
    PROVE  LinkInv'
<1>1. UNCHANGED <<init, table, ids>> /\ SameHeap /\ ThreadsGoOn
  BY SameThreads, HandleKeepsHeap
     DEF LinkInv, TableFull, OpenReturns, Transfer, Dispose, Stream, AcceptedTableFull
<1>2. /\ call[t].at \in {"enter", "opening", "use", "dispose", "stream", "accepted"}
      /\ call[t].at = "opening" => connect[call[t].block].at # "started"
      /\ \/ Returns(t) \/ Goes(t, "recover") \/ Goes(t, "stream")
  BY DEF TableFull, OpenReturns, Transfer, Dispose, Stream, AcceptedTableFull
<1>3. Moves(t)
  <2>1. CASE Returns(t)
    BY <1>2, <2>1, ReturnMoves
  <2>2. CASE ~Returns(t)
    <3>1. call[t].at # "opening"
      BY <2>2 DEF TableFull, OpenReturns, Transfer, Dispose, Stream, AcceptedTableFull
    <3> QED
      BY <1>2, <2>2, <3>1, GoMoves
  <2> QED
    BY <2>1, <2>2
<1> QED
  BY <1>1, <1>3, MoveKeepsLinks

LEMMA RecoverKeepsLinks ==
    ASSUME LinkInv, NEW t \in Threads, Recover(t)
    PROVE  LinkInv'
<1>1. CASE Crash
  BY <1>1, CrashKeepsLinks
<1>2. CASE ~Crash
  <2>1. UNCHANGED <<init, table, ids>> /\ SameHeap /\ ThreadsGoOn
    BY <1>2, SameThreads, HandleKeepsHeap DEF LinkInv, Recover
  <2>2. PICK b : b = table[call[t].slot]
    OBVIOUS
  <2>3. PICK h : h = Socket(call[t].slot).handle
    OBVIOUS
  <2>4. call[t].at = "recover"
    BY <1>2 DEF Recover
  <2>5. \/ Returns(t)
        \/ call' = [call EXCEPT ![t] = [call[t] EXCEPT !.at = "login", !.block = b]]
        \/ call' = [call EXCEPT ![t] = [call[t] EXCEPT !.at = "use", !.block = b, !.session = h]]
    BY <1>2, <2>2, <2>3 DEF Recover, LinkInv, Shaped
  <2>6. Moves(t)
    <3>1. CASE Returns(t)
      BY <2>4, <3>1, ReturnMoves
    <3>2. CASE call' = [call EXCEPT ![t] = [call[t] EXCEPT !.at = "login", !.block = b]]
      <4>1. PICK c : c = [call[t] EXCEPT !.at = "login", !.block = b]
        OBVIOUS
      <4>2. c.at = "login" /\ "at" \in DOMAIN c /\ "slot" \in DOMAIN c /\ "block" \in DOMAIN c
        BY <4>1 DEF LinkInv, Shaped
      <4> QED
        BY <2>4, <3>2, <4>1, <4>2, MovesOn
    <3>3. CASE call' = [call EXCEPT ![t] = [call[t] EXCEPT !.at = "use", !.block = b, !.session = h]]
      <4>1. PICK c : c = [call[t] EXCEPT !.at = "use", !.block = b, !.session = h]
        OBVIOUS
      <4>2. c.at = "use" /\ "at" \in DOMAIN c /\ "slot" \in DOMAIN c /\ "block" \in DOMAIN c
        BY <4>1 DEF LinkInv, Shaped
      <4> QED
        BY <2>4, <3>3, <4>1, <4>2, MovesOn
    <3> QED
      BY <2>5, <3>1, <3>2, <3>3
  <2> QED
    BY <2>1, <2>6, MoveKeepsLinks
<1> QED
  BY <1>1, <1>2

LEMMA SessionKeepsLinks ==
    ASSUME LinkInv, NEW t \in Threads,
           SessionMade(t) \/ SessionFails(t) \/ FindDead(t) \/ Clear(t) \/ Accept(t)
    PROVE  LinkInv'
<1>1. CASE Crash
  BY <1>1, CrashKeepsLinks
<1>2. CASE ~Crash
  <2>1. UNCHANGED <<init, table, ids>> /\ SameHeap /\ ThreadsGoOn
    BY <1>2, SameThreads, HandleKeepsHeap
       DEF LinkInv, SessionMade, SessionFails, FindDead, Clear, Accept
  <2>2. PICK s : s = Min(Sessions \ open)
    OBVIOUS
  <2>3. /\ call[t].at \in {"login", "use", "clear"}
        /\ \/ Returns(t) \/ Goes(t, "recover") \/ Goes(t, "dispose") \/ Goes(t, "clear")
           \/ call' = [call EXCEPT ![t].at = "use", ![t].session = s]
           \/ call' = [call EXCEPT ![t].at = "accepted", ![t].session = s]
    BY <1>2, <2>2 DEF SessionMade, SessionFails, FindDead, Clear, Accept
  <2>4. Moves(t)
    <3>1. CASE Returns(t)
      BY <2>3, <3>1, ReturnMoves
    <3>2. CASE Goes(t, "recover") \/ Goes(t, "dispose") \/ Goes(t, "clear")
      BY <2>3, <3>2, GoMoves
    <3>3. CASE call' = [call EXCEPT ![t].at = "use", ![t].session = s]
      <4>1. PICK c : c = [call[t] EXCEPT !.at = "use", !.session = s]
        OBVIOUS
      <4>2. c.at = "use" /\ "at" \in DOMAIN c /\ "slot" \in DOMAIN c /\ "block" \in DOMAIN c
        BY <4>1 DEF LinkInv, Shaped
      <4>3. call' = [call EXCEPT ![t] = c]
        BY <3>3, <4>1 DEF LinkInv, Shaped
      <4> QED
        BY <2>3, <4>2, <4>3, MovesOn
    <3>4. CASE call' = [call EXCEPT ![t].at = "accepted", ![t].session = s]
      <4>1. PICK c : c = [call[t] EXCEPT !.at = "accepted", !.session = s]
        OBVIOUS
      <4>2. c.at = "accepted" /\ "at" \in DOMAIN c /\ "slot" \in DOMAIN c /\ "block" \in DOMAIN c
        BY <4>1 DEF LinkInv, Shaped
      <4>3. call' = [call EXCEPT ![t] = c]
        BY <3>4, <4>1 DEF LinkInv, Shaped
      <4> QED
        BY <2>3, <4>2, <4>3, MovesOn
    <3> QED
      BY <2>3, <3>1, <3>2, <3>3, <3>4
  <2> QED
    BY <2>1, <2>4, MoveKeepsLinks
<1> QED
  BY <1>1, <1>2

LEMMA AnswerKeepsLinks ==
    ASSUME LinkInv, NEW t \in Threads, ConnectAnswers(t)
    PROVE  LinkInv'
<1>1. CASE Crash
  BY <1>1, CrashKeepsLinks
<1>2. CASE ~Crash
  <2>1. UNCHANGED <<init, table, ids>> /\ SameHeap
    BY <1>2, HandleKeepsHeap DEF LinkInv, ConnectAnswers
  <2>2. ThreadsGoOn
    <3>1. /\ NoThread.at = "none" /\ "at" \in DOMAIN NoThread /\ "block" \in DOMAIN NoThread
          /\ "slot" \in DOMAIN NoThread
      BY DEF NoThread
    <3>2. connect' = connect \/ connect' = [connect EXCEPT ![call[t].block] = NoThread]
      BY <1>2 DEF ConnectAnswers
    <3> QED
      BY <3>1, <3>2 DEF LinkInv, Shaped, ThreadsGoOn
  <2>3. call[t].at = "connect" /\ Returns(t)
    BY <1>2 DEF ConnectAnswers
  <2>4. Moves(t)
    BY <2>3, ReturnMoves
  <2> QED
    BY <2>1, <2>2, <2>4, MoveKeepsLinks
<1> QED
  BY <1>1, <1>2

(* The connect threads, and the relay. *)
LEMMA ThreadKeepsLinks ==
    ASSUME LinkInv, NEW b \in Blocks, ThreadStep(b)
    PROVE  LinkInv'
<1>1. CASE Crash
  BY <1>1, CrashKeepsLinks
<1>2. CASE ~Crash /\ ConnectRuns(b)
  <2>1. PICK t \in Threads : /\ call[t].at = "opening" /\ call[t].block = b
                             /\ call[t].slot = connect[b].slot
    BY <1>2 DEF ConnectRuns, LinkInv, ThreadsInv, Awaited
  <2>2. table[connect[b].slot] = b /\ connect[b].at = "started"
    BY <1>2, <2>1 DEF LinkInv, PlacesInv, ConnectRuns
  <2>3. connect' = [connect EXCEPT ![b].at = "connecting", ![b].block = b]
    BY <1>2, <2>2 DEF ConnectRuns
  <2>4. ThreadsGoOn
    BY <2>2, <2>3 DEF LinkInv, Shaped, ThreadsGoOn
  <2>5. SameHeap /\ UNCHANGED <<init, table, ids, call>>
    BY <1>2, HandleKeepsHeap DEF LinkInv, ConnectRuns
  <2> QED
    BY <2>4, <2>5, QuietKeepsLinks
<1>3. CASE ~Crash /\ (ConnectFails(b) \/ ConnectSucceeds(b) \/ ConnectStores(b))
  <2>1. connect[b].block = b /\ connect[b].at # "none"
    BY <1>3 DEF ConnectFails, ConnectSucceeds, ConnectStores, LinkInv, ThreadsInv
  <2>2. PICK s : s = Min(Sessions \ open)
    OBVIOUS
  <2>3. \/ connect' = [connect EXCEPT ![b].at = "ended"]
        \/ connect' = [connect EXCEPT ![b].at = "storing", ![b].session = s]
    BY <1>3, <2>2 DEF ConnectFails, ConnectSucceeds, ConnectStores
  <2>4. ThreadsGoOn
    BY <2>1, <2>3 DEF LinkInv, Shaped, ThreadsGoOn
  <2>5. \/ heap' = [heap EXCEPT ![b].state = "CLOSED"]
        \/ heap' = [heap EXCEPT ![b] = [@ EXCEPT !.handle = s]]
        \/ heap' = [heap EXCEPT ![b] = [@ EXCEPT !.handle = connect[b].session]]
        \/ heap' = [heap EXCEPT ![b] = [@ EXCEPT !.state = "ESTABLISHED"]]
    BY <1>3, <2>1, <2>2 DEF ConnectFails, ConnectSucceeds, ConnectStores, Stored
  <2>6. SameHeap
    BY <2>5 DEF LinkInv, Shaped, SameHeap
  <2>7. UNCHANGED <<init, table, ids, call>>
    BY <1>3 DEF ConnectFails, ConnectSucceeds, ConnectStores
  <2> QED
    BY <2>4, <2>6, <2>7, QuietKeepsLinks
<1> QED
  BY <1>1, <1>2, <1>3 DEF ThreadStep

(* What the game begins.                                                   *)
LEMMA CheckPortKeepsLinks ==
    ASSUME LinkInv, NEW t \in Threads, NEW kind, NEW port, NEW remote,
           CheckPort(t, kind, port, remote)
    PROVE  LinkInv'
<1> DEFINE c == [Idle EXCEPT !.at = "enter", !.do = kind, !.port = port, !.remote = remote]
<1>1. c.at = "enter" /\ "at" \in DOMAIN c /\ "slot" \in DOMAIN c /\ "block" \in DOMAIN c
  BY DEF Idle
<1>2. /\ call' = [call EXCEPT ![t] = c] /\ UNCHANGED <<init, table, heap, connect, ids>>
      /\ init /\ call[t].at = "idle" /\ \A u \in Threads : call[u].at # "term"
  BY DEF CheckPort, MayCall, Idle
<1> HIDE DEF c
<1>3. Moves(t)
  BY <1>1, <1>2 DEF LinkInv, Shaped, Moves
<1> QED
  BY <1>2, <1>3, MoveKeepsLinks, SameThreads, HandleKeepsHeap DEF LinkInv

LEMMA UseKeepsLinks ==
    ASSUME LinkInv, NEW t \in Threads, NEW i \in Slots, NEW do,
           UseSocket(t, i, do) \/ UseStream(t, i) \/ UseConnect(t, i)
    PROVE  LinkInv'
<1> DEFINE session == [Idle EXCEPT !.at = "recover", !.do = do, !.slot = i]
           stream == [Idle EXCEPT !.at = "stream", !.slot = i]
           joins == [Idle EXCEPT !.at = "connect", !.slot = i, !.block = table[i]]
<1>1. /\ session.at = "recover" /\ "at" \in DOMAIN session /\ "slot" \in DOMAIN session
      /\ "block" \in DOMAIN session
  BY DEF Idle
<1>2. /\ stream.at = "stream" /\ "at" \in DOMAIN stream /\ "slot" \in DOMAIN stream
      /\ "block" \in DOMAIN stream
  BY DEF Idle
<1>3. /\ joins.at = "connect" /\ "at" \in DOMAIN joins /\ "slot" \in DOMAIN joins
      /\ "block" \in DOMAIN joins
  BY DEF Idle
<1>4. /\ \/ call' = [call EXCEPT ![t] = session] \/ call' = [call EXCEPT ![t] = stream]
         \/ call' = [call EXCEPT ![t] = joins]
      /\ UNCHANGED <<init, table, heap, connect, ids>>
      /\ init /\ call[t].at = "idle" /\ \A u \in Threads : call[u].at # "term"
  BY DEF UseSocket, UseStream, UseConnect, MayUse, MayCall, Idle
<1> HIDE DEF session, stream, joins
<1>5. Moves(t)
  BY <1>1, <1>2, <1>3, <1>4 DEF LinkInv, Shaped, Moves
<1> QED
  BY <1>4, <1>5, MoveKeepsLinks, SameThreads, HandleKeepsHeap DEF LinkInv

LEMMA CloseKeepsLinks ==
    ASSUME LinkInv, NEW t \in Threads, NEW i \in Slots, Close(t, i)
    PROVE  LinkInv'
<1> DEFINE c == [Idle EXCEPT !.at = "unlink", !.slot = i, !.block = table[i]]
<1>1. /\ c.at = "unlink" /\ c.slot = i /\ c.block = table[i]
      /\ "at" \in DOMAIN c /\ "slot" \in DOMAIN c /\ "block" \in DOMAIN c
  BY DEF Idle
<1>2. /\ call' = [call EXCEPT ![t] = c] /\ UNCHANGED <<init, table, heap, connect, ids>>
      /\ init /\ call[t].at = "idle" /\ \A u \in Threads : call[u].at # "term"
      /\ i \in ids[t]
  BY DEF Close, MayClose, MayCall, Idle
<1> HIDE DEF c
<1>3. Moves(t)
  BY <1>1, <1>2 DEF LinkInv, Shaped, Moves
<1> QED
  BY <1>2, <1>3, MoveKeepsLinks, SameThreads, HandleKeepsHeap DEF LinkInv

LEMMA TermKeepsLinks ==
    ASSUME LinkInv, NEW t \in Threads, Term(t)
    PROVE  LinkInv'
<1> DEFINE c == [Idle EXCEPT !.at = "term"]
<1>1. c.at = "term" /\ "at" \in DOMAIN c /\ "slot" \in DOMAIN c /\ "block" \in DOMAIN c
  BY DEF Idle
<1>2. /\ call' = [call EXCEPT ![t] = c] /\ UNCHANGED <<init, table, heap, connect, ids>>
      /\ init /\ \A u \in Threads : call[u].at = "idle"
  BY DEF Term, Idle
<1> HIDE DEF c
<1>3. Moves(t)
  BY <1>1, <1>2 DEF LinkInv, Shaped, Moves
<1> QED
  BY <1>2, <1>3, MoveKeepsLinks, SameThreads, HandleKeepsHeap DEF LinkInv

(* A new structure is entered at a free place, and its thread is started,  *)
(* or it has none.                                                         *)
OneThread(b) ==
    /\ DOMAIN connect' = Blocks /\ \A x \in Blocks : x # b => connect'[x] = connect[x]
    /\ "at" \in DOMAIN connect'[b] /\ "slot" \in DOMAIN connect'[b]
    /\ "block" \in DOMAIN connect'[b]

LEMMA EnteredKeepsLinks ==
    ASSUME LinkInv, NEW t \in Threads, call[t].at \in {"enter", "accepted"},
           NEW i \in Slots, table[i] = 0, NEW b \in Blocks, ~heap[b].live,
           NEW r, r.live, "live" \in DOMAIN r, "kind" \in DOMAIN r,
           table' = [table EXCEPT ![i] = b], heap' = [heap EXCEPT ![b] = r],
           ids' = [ids EXCEPT ![t] = @ \cup {i}],
           NEW c, call' = [call EXCEPT ![t] = c],
           "at" \in DOMAIN c, "slot" \in DOMAIN c, "block" \in DOMAIN c, init' = init,
           OneThread(b),
           \/ c.at = "idle" /\ connect'[b] = connect[b]
           \/ /\ connect'[b].at = "started" /\ connect'[b].slot = i /\ r.kind = "STREAM"
              /\ c.at = "opening" /\ c.slot = i /\ c.block = b
    PROVE  LinkInv'
<1>1. /\ table' \in [Slots -> Blocks \cup {0}] /\ table'[i] = b
      /\ \A j \in Slots : j # i => table'[j] = table[j]
      /\ DOMAIN heap' = Blocks /\ heap'[b] = r /\ \A x \in Blocks : x # b => heap'[x] = heap[x]
      /\ ids' \in [Threads -> SUBSET Slots] /\ ids'[t] = ids[t] \cup {i}
      /\ DOMAIN call' = Threads /\ call'[t] = c
      /\ \A u \in Threads : u # t => call'[u] = call[u] /\ ids'[u] = ids[u]
  BY DEF LinkInv, Shaped
<1>2. /\ DOMAIN connect' = Blocks /\ \A x \in Blocks : x # b => connect'[x] = connect[x]
      /\ "at" \in DOMAIN connect'[b] /\ "slot" \in DOMAIN connect'[b]
      /\ "block" \in DOMAIN connect'[b]
      /\ \/ c.at = "idle" /\ connect'[b] = connect[b]
         \/ /\ connect'[b].at = "started" /\ connect'[b].slot = i /\ r.kind = "STREAM"
            /\ c.at = "opening" /\ c.slot = i /\ c.block = b
  BY DEF OneThread
<1>3. b # 0 /\ connect[b].at = "none" /\ \A u \in Threads : i \notin ids[u]
  BY MemoryAssumption DEF LinkInv, ThreadsInv, IdsInv
<1>4. \A j \in Slots : table[j] # b
  BY <1>3 DEF LinkInv, TableInv
<1>5. Shaped'
  BY <1>1, <1>2 DEF LinkInv, Shaped
<1>6. TableInv'
  <2>1. ASSUME NEW j \in Slots, table'[j] # 0
        PROVE  heap'[table'[j]].live
    <3>1. CASE j = i
      BY <3>1, <1>1
    <3>2. CASE j # i
      <4>1. table'[j] = table[j] /\ table[j] \in Blocks /\ table[j] # b /\ heap[table[j]].live
        BY <3>2, <2>1, <1>1, <1>4 DEF LinkInv, Shaped, TableInv
      <4> QED
        BY <4>1, <1>1
    <3> QED
      BY <3>1, <3>2
  <2>2. \A j, k \in Slots : table'[j] = table'[k] /\ table'[j] # 0 => j = k
    BY <1>1, <1>4 DEF LinkInv, TableInv
  <2> QED
    BY <2>1, <2>2 DEF TableInv
<1>7. JoinInv'
  <2>1. \A u \in Threads : (Joins(u)' <=> Joins(u)) /\ (Joins(u) => call'[u] = call[u])
    BY <1>1, <1>2 DEF Joins
  <2>2. ASSUME NEW u \in Threads, Joins(u)'
        PROVE  /\ call'[u].block \in Blocks /\ heap'[call'[u].block].live
               /\ \A j \in Slots : table'[j] # call'[u].block
               /\ \A v \in Threads : Joins(v)' /\ call'[v].block = call'[u].block => v = u
    <3>1. /\ call'[u] = call[u] /\ call[u].block \in Blocks /\ heap[call[u].block].live
          /\ call[u].block # b /\ \A j \in Slots : table[j] # call[u].block
      BY <2>1, <2>2 DEF LinkInv, JoinInv
    <3>2. \A v \in Threads : Joins(v)' /\ call'[v].block = call'[u].block => v = u
      BY <2>1, <2>2 DEF LinkInv, JoinInv
    <3> QED
      BY <3>1, <3>2, <1>1
  <2>3. ASSUME NEW x \in Blocks, heap'[x].live
        PROVE  (\E j \in Slots : table'[j] = x) \/ (\E u \in Threads : Joins(u)' /\ call'[u].block = x)
    <3>1. CASE x = b
      BY <3>1, <1>1
    <3>2. CASE \E j \in Slots : table[j] = x
      BY <3>2, <1>1, MemoryAssumption
    <3>3. CASE \E u \in Threads : Joins(u) /\ call[u].block = x
      BY <3>3, <2>1
    <3> QED
      BY <3>1, <3>2, <3>3, <2>3, <1>1 DEF LinkInv, JoinInv
  <2> QED
    BY <2>2, <2>3 DEF JoinInv
<1>8. IdsInv'
  <2>1. ASSUME NEW u \in Threads, NEW j \in ids'[u]
        PROVE  table'[j] # 0
    <3>1. j \in Slots /\ (j # i => j \in ids[u])
      BY <2>1, <1>1
    <3> QED
      BY <3>1, <1>1, <1>3 DEF LinkInv, IdsInv
  <2>2. \A u, v \in Threads : ids'[u] \cap ids'[v] # {} => u = v
    BY <1>1, <1>3 DEF LinkInv, IdsInv
  <2> QED
    BY <2>1, <2>2 DEF IdsInv
<1>9. init /\ \A u \in Threads : u # t => call[u].at # "term"
  BY DEF LinkInv, AloneInv
<1>10. AloneInv'
  BY <1>1, <1>2, <1>9 DEF LinkInv, AloneInv
<1>11. PlacesInv'
  <2>1. ASSUME NEW u \in Threads, u # t, call[u].at \in {"unlink", "opening"}
        PROVE  call[u].slot \in ids[u] /\ call[u].block = table[call[u].slot] /\ call[u].slot # i
               /\ call[u].slot \in Slots
    BY <2>1, <1>3 DEF LinkInv, PlacesInv, Shaped
  <2> QED
    BY <2>1, <1>1, <1>2 DEF PlacesInv
<1>12. ThreadsInv'
  <2>1. \A x \in Blocks : x # b /\ Awaited(x) => Awaited(x)'
    BY <1>1, <1>2 DEF Awaited
  <2>2. connect'[b].at = "started" => Awaited(b)'
    BY <1>1, <1>2, <1>3 DEF Awaited
  <2> QED
    BY <2>1, <2>2, <1>1, <1>2, <1>3 DEF LinkInv, ThreadsInv
<1> QED
  BY <1>5, <1>6, <1>7, <1>8, <1>10, <1>11, <1>12 DEF LinkInv

LEMMA EnterKeepsLinks ==
    ASSUME LinkInv, NEW t \in Threads, Enter(t)
    PROVE  LinkInv'
<1>1. PICK i : i = Min(FreeSlots)
  OBVIOUS
<1>2. PICK b : b = Min(FreeBlocks)
  OBVIOUS
<1>3. i \in Slots /\ table[i] = 0 /\ b \in Blocks /\ ~heap[b].live
  BY <1>1, <1>2, FirstFree DEF Enter
<1> DEFINE r == [live |-> TRUE, kind |-> call[t].do, port |-> call[t].port,
                 remote |-> call[t].remote, handle |-> 0, state |-> FirstState(call[t].do)]
           c == [Idle EXCEPT !.at = "opening", !.slot = i, !.block = b]
           n == [NoThread EXCEPT !.at = "started", !.slot = i]
<1>4. r.live /\ r.kind = call[t].do /\ "live" \in DOMAIN r /\ "kind" \in DOMAIN r
  OBVIOUS
<1>5. /\ c.at = "opening" /\ c.slot = i /\ c.block = b
      /\ "at" \in DOMAIN c /\ "slot" \in DOMAIN c /\ "block" \in DOMAIN c
  BY DEF Idle
<1>6. /\ n.at = "started" /\ n.slot = i
      /\ "at" \in DOMAIN n /\ "slot" \in DOMAIN n /\ "block" \in DOMAIN n
  BY DEF NoThread
<1>7. /\ Idle.at = "idle" /\ "at" \in DOMAIN Idle /\ "slot" \in DOMAIN Idle
      /\ "block" \in DOMAIN Idle
  BY DEF Idle
<1>8. /\ table' = [table EXCEPT ![i] = b] /\ heap' = [heap EXCEPT ![b] = r]
      /\ ids' = [ids EXCEPT ![t] = @ \cup {i}] /\ init' = init /\ call[t].at = "enter"
  BY <1>1, <1>2 DEF Enter, Entered
<1>9. \/ call' = [call EXCEPT ![t] = Idle] /\ connect' = connect
      \/ /\ connect' = [connect EXCEPT ![b] = n] /\ call' = [call EXCEPT ![t] = c]
         /\ call[t].do = "STREAM"
  BY <1>1, <1>2 DEF Enter, Returns
<1>10. /\ DOMAIN connect = Blocks /\ "at" \in DOMAIN connect[b] /\ "slot" \in DOMAIN connect[b]
       /\ "block" \in DOMAIN connect[b]
  BY <1>3 DEF LinkInv, Shaped
<1> HIDE DEF r, c, n
<1>11. CASE call' = [call EXCEPT ![t] = Idle] /\ connect' = connect
  <2>1. OneThread(b)
    BY <1>10, <1>11 DEF OneThread
  <2> QED
    BY <1>3, <1>4, <1>7, <1>8, <1>11, <2>1, EnteredKeepsLinks
<1>12. CASE /\ connect' = [connect EXCEPT ![b] = n] /\ call' = [call EXCEPT ![t] = c]
            /\ call[t].do = "STREAM"
  <2>1. OneThread(b) /\ connect'[b] = n
    BY <1>3, <1>6, <1>10, <1>12 DEF OneThread
  <2>2. connect'[b].at = "started" /\ connect'[b].slot = i /\ r.kind = "STREAM"
    BY <1>4, <1>6, <1>12, <2>1
  <2> QED
    BY <1>3, <1>4, <1>5, <1>8, <1>12, <2>1, <2>2, EnteredKeepsLinks
<1> QED
  BY <1>9, <1>11, <1>12

LEMMA EnterAcceptedKeepsLinks ==
    ASSUME LinkInv, NEW t \in Threads, EnterAccepted(t)
    PROVE  LinkInv'
<1>1. CASE table[call[t].slot] = 0
  BY <1>1, CrashKeepsLinks DEF EnterAccepted
<1>2. CASE table[call[t].slot] # 0
  <2>1. PICK i : i = Min(FreeSlots)
    OBVIOUS
  <2>2. PICK b : b = Min(FreeBlocks)
    OBVIOUS
  <2>3. i \in Slots /\ table[i] = 0 /\ b \in Blocks /\ ~heap[b].live
    BY <2>1, <2>2, FirstFree DEF EnterAccepted
  <2>4. PICK remote \in Remotes :
           Entered(t, [live |-> TRUE, kind |-> "STREAM", port |-> Socket(call[t].slot).port,
                       remote |-> remote, state |-> "ESTABLISHED", handle |-> call[t].session])
    BY <1>2 DEF EnterAccepted
  <2> DEFINE r == [live |-> TRUE, kind |-> "STREAM", port |-> Socket(call[t].slot).port,
                   remote |-> remote, state |-> "ESTABLISHED", handle |-> call[t].session]
  <2>5. r.live /\ "live" \in DOMAIN r /\ "kind" \in DOMAIN r
    OBVIOUS
  <2>6. /\ Idle.at = "idle" /\ "at" \in DOMAIN Idle /\ "slot" \in DOMAIN Idle
        /\ "block" \in DOMAIN Idle
    BY DEF Idle
  <2>7. /\ table' = [table EXCEPT ![i] = b] /\ heap' = [heap EXCEPT ![b] = r]
        /\ ids' = [ids EXCEPT ![t] = @ \cup {i}]
    BY <2>1, <2>2, <2>4 DEF Entered
  <2>8. /\ call[t].at = "accepted" /\ call' = [call EXCEPT ![t] = Idle]
        /\ init' = init /\ connect' = connect
    BY <1>2 DEF EnterAccepted, Returns
  <2>9. OneThread(b)
    BY <2>3, <2>8 DEF LinkInv, Shaped, OneThread
  <2> HIDE DEF r
  <2> QED
    BY <2>3, <2>5, <2>6, <2>7, <2>8, <2>9, EnteredKeepsLinks
<1> QED
  BY <1>1, <1>2

(* Closing, and the beginning and the end of the library.                  *)
LEMMA UnlinkKeepsLinks ==
    ASSUME LinkInv, NEW t \in Threads, Unlink(t)
    PROVE  LinkInv'
<1>1. PICK i \in Slots : i = call[t].slot /\ i \in ids[t] /\ table[i] # 0 /\ call[t].block = table[i]
  BY DEF Unlink, LinkInv, Shaped, PlacesInv, IdsInv
<1>2. PICK b \in Blocks : b = table[i] /\ heap[b].live /\ b # 0 /\ call[t].block = b
  BY <1>1 DEF LinkInv, Shaped, TableInv
<1>3. call[t].at = "unlink" /\ init /\ \A u \in Threads : u # t => call[u].at # "term"
  BY DEF Unlink, LinkInv, AloneInv
<1>4. /\ table' \in [Slots -> Blocks \cup {0}] /\ table'[i] = 0
      /\ \A j \in Slots : j # i => table'[j] = table[j]
      /\ ids' \in [Threads -> SUBSET Slots] /\ ids'[t] = ids[t] \ {i}
      /\ \A u \in Threads : u # t => ids'[u] = ids[u]
      /\ UNCHANGED <<init, heap, connect>>
  BY <1>1 DEF Unlink, Unlinked, LinkInv, Shaped
<1>5. /\ DOMAIN call' = Threads /\ \A u \in Threads : u # t => call'[u] = call[u]
      /\ "at" \in DOMAIN call'[t] /\ "slot" \in DOMAIN call'[t] /\ "block" \in DOMAIN call'[t]
      /\ call'[t].at = "join" /\ call'[t].block = b
  BY <1>2 DEF Unlink, Goes, LinkInv, Shaped
<1>6. Shaped'
  BY <1>4, <1>5 DEF LinkInv, Shaped
<1>7. TableInv'
  BY <1>4 DEF LinkInv, TableInv
<1>8. \A j \in Slots : table[j] = b => j = i
  BY <1>1, <1>2 DEF LinkInv, TableInv
<1>9. JoinInv'
  <2>1. /\ Joins(t)' /\ ~Joins(t)
        /\ \A u \in Threads : u # t => (Joins(u)' <=> Joins(u)) /\ call'[u] = call[u]
    BY <1>3, <1>5 DEF Joins
  <2>2. ASSUME NEW u \in Threads, Joins(u)
        PROVE  call[u].block # b
    <3>1. \A j \in Slots : table[j] # call[u].block
      BY <2>2 DEF LinkInv, JoinInv
    <3> QED
      BY <3>1, <1>1, <1>2
  <2>3. ASSUME NEW u \in Threads, Joins(u)'
        PROVE  /\ call'[u].block \in Blocks /\ heap'[call'[u].block].live
               /\ \A j \in Slots : table'[j] # call'[u].block
               /\ \A v \in Threads : Joins(v)' /\ call'[v].block = call'[u].block => v = u
    <3>1. CASE u = t
      <4>1. call'[u].block = b /\ heap'[b].live /\ b \in Blocks
        BY <3>1, <1>2, <1>4, <1>5
      <4>2. \A j \in Slots : table'[j] # b
        BY <1>2, <1>4, <1>8
      <4>3. \A v \in Threads : Joins(v)' /\ call'[v].block = b => v = t
        BY <2>1, <2>2
      <4> QED
        BY <3>1, <4>1, <4>2, <4>3
    <3>2. CASE u # t
      <4>1. /\ Joins(u) /\ call'[u] = call[u] /\ call[u].block # b
            /\ call[u].block \in Blocks /\ heap[call[u].block].live
            /\ \A j \in Slots : table[j] # call[u].block
        BY <3>2, <2>1, <2>2, <2>3 DEF LinkInv, JoinInv
      <4>2. \A v \in Threads : Joins(v)' /\ call'[v].block = call[u].block => v = u
        BY <4>1, <1>5, <2>1 DEF LinkInv, JoinInv
      <4>3. call[u].block # 0
        BY <4>1, MemoryAssumption
      <4>4. \A j \in Slots : table'[j] # call[u].block
        BY <4>1, <4>3, <1>4
      <4> QED
        BY <4>1, <4>2, <4>4, <1>4
    <3> QED
      BY <3>1, <3>2
  <2>4. ASSUME NEW x \in Blocks, heap'[x].live
        PROVE  (\E j \in Slots : table'[j] = x) \/ (\E u \in Threads : Joins(u)' /\ call'[u].block = x)
    <3>1. CASE x = b
      BY <3>1, <1>5, <2>1
    <3>2. CASE x # b /\ \E j \in Slots : table[j] = x
      BY <3>2, <1>2, <1>4
    <3>3. CASE \E u \in Threads : Joins(u) /\ call[u].block = x
      BY <3>3, <2>1
    <3> QED
      BY <2>4, <3>1, <3>2, <3>3, <1>4 DEF LinkInv, JoinInv
  <2> QED
    BY <2>3, <2>4 DEF JoinInv
<1>10. IdsInv'
  <2>1. ASSUME NEW u \in Threads, NEW j \in ids'[u]
        PROVE  table'[j] # 0
    <3>1. j \in ids[u] /\ j \in Slots /\ j # i
      BY <2>1, <1>1, <1>4 DEF LinkInv, IdsInv, Shaped
    <3> QED
      BY <3>1, <1>4 DEF LinkInv, IdsInv
  <2>2. \A u, v \in Threads : ids'[u] \cap ids'[v] # {} => u = v
    BY <1>4 DEF LinkInv, IdsInv
  <2> QED
    BY <2>1, <2>2 DEF IdsInv
<1>11. AloneInv'
  BY <1>3, <1>4, <1>5 DEF LinkInv, AloneInv
<1>12. PlacesInv'
  <2>1. ASSUME NEW u \in Threads, u # t, call[u].at \in {"unlink", "opening"}
        PROVE  call[u].slot \in ids[u] /\ call[u].block = table[call[u].slot] /\ call[u].slot # i
               /\ call[u].slot \in Slots
    BY <2>1, <1>1 DEF LinkInv, PlacesInv, IdsInv, Shaped
  <2> QED
    BY <2>1, <1>4, <1>5 DEF PlacesInv
<1>13. ThreadsInv'
  BY <1>3, <1>4, <1>5 DEF LinkInv, ThreadsInv, Awaited
<1> QED
  BY <1>6, <1>7, <1>9, <1>10, <1>11, <1>12, <1>13 DEF LinkInv

LEMMA FreeSocketKeepsLinks ==
    ASSUME LinkInv, NEW t \in Threads, FreeSocket(t)
    PROVE  LinkInv'
<1>1. PICK b \in Blocks :
         /\ b = call[t].block /\ call[t].at = "join" /\ heap[b].live /\ \A i \in Slots : table[i] # b
         /\ \A u \in Threads : Joins(u) /\ call[u].block = b => u = t
         /\ connect[b].at \in {"none", "ended"}
  BY DEF FreeSocket, Joined, LinkInv, JoinInv, Joins
<1>2. /\ ~Freed.live /\ "live" \in DOMAIN Freed /\ "kind" \in DOMAIN Freed
      /\ NoThread.at = "none" /\ "at" \in DOMAIN NoThread /\ "block" \in DOMAIN NoThread
      /\ "slot" \in DOMAIN NoThread
      /\ Idle.at = "idle" /\ "at" \in DOMAIN Idle /\ "slot" \in DOMAIN Idle
      /\ "block" \in DOMAIN Idle
  BY DEF Freed, NoThread, Idle
<1>3. UNCHANGED <<init, table, ids>>
  BY DEF FreeSocket
<1>4. /\ DOMAIN heap' = Blocks /\ heap'[b] = Freed
      /\ \A x \in Blocks : x # b => heap'[x] = heap[x]
  BY <1>1 DEF FreeSocket, LinkInv, Shaped
<1>5. /\ DOMAIN connect' = Blocks /\ connect'[b].at = "none"
      /\ "at" \in DOMAIN connect'[b] /\ "slot" \in DOMAIN connect'[b]
      /\ "block" \in DOMAIN connect'[b]
      /\ \A x \in Blocks : x # b => connect'[x] = connect[x]
  BY <1>1, <1>2 DEF FreeSocket, LinkInv, Shaped
<1>6. /\ DOMAIN call' = Threads /\ call'[t] = Idle
      /\ \A u \in Threads : u # t => call'[u] = call[u]
  BY DEF FreeSocket, Returns, LinkInv, Shaped
<1>7. Shaped'
  BY <1>2, <1>3, <1>4, <1>5, <1>6 DEF LinkInv, Shaped
<1>8. TableInv' /\ IdsInv'
  <2>1. ASSUME NEW j \in Slots, table[j] # 0
        PROVE  heap'[table[j]].live
    <3>1. table[j] \in Blocks /\ table[j] # b /\ heap[table[j]].live
      BY <2>1, <1>1 DEF LinkInv, Shaped, TableInv
    <3> QED
      BY <3>1, <1>4
  <2> QED
    BY <2>1, <1>3 DEF LinkInv, TableInv, IdsInv
<1>9. JoinInv'
  <2>1. ~Joins(t)' /\ \A u \in Threads : u # t => (Joins(u)' <=> Joins(u))
    BY <1>2, <1>6 DEF Joins
  <2>2. ASSUME NEW u \in Threads, Joins(u)'
        PROVE  /\ call'[u].block \in Blocks /\ heap'[call'[u].block].live
               /\ \A j \in Slots : table'[j] # call'[u].block
               /\ \A v \in Threads : Joins(v)' /\ call'[v].block = call'[u].block => v = u
    <3>1. u # t /\ Joins(u) /\ call'[u] = call[u]
      BY <2>1, <2>2, <1>6
    <3>2. /\ call[u].block \in Blocks /\ heap[call[u].block].live /\ call[u].block # b
          /\ \A j \in Slots : table[j] # call[u].block
      BY <3>1, <1>1 DEF LinkInv, JoinInv
    <3>3. \A v \in Threads : Joins(v)' /\ call'[v].block = call[u].block => v = u
      BY <3>1, <2>1, <1>6 DEF LinkInv, JoinInv
    <3> QED
      BY <3>1, <3>2, <3>3, <1>3, <1>4
  <2>3. ASSUME NEW x \in Blocks, heap'[x].live
        PROVE  (\E j \in Slots : table'[j] = x) \/ (\E u \in Threads : Joins(u)' /\ call'[u].block = x)
    <3>1. x # b /\ heap[x].live
      BY <2>3, <1>2, <1>4
    <3>2. CASE \E j \in Slots : table[j] = x
      BY <3>2, <1>3
    <3>3. CASE \E u \in Threads : Joins(u) /\ call[u].block = x
      BY <3>1, <3>3, <2>1, <1>1, <1>6
    <3> QED
      BY <3>1, <3>2, <3>3 DEF LinkInv, JoinInv
  <2> QED
    BY <2>2, <2>3 DEF JoinInv
<1>10. AloneInv' /\ PlacesInv'
  BY <1>2, <1>3, <1>6 DEF LinkInv, AloneInv, PlacesInv
<1>11. ThreadsInv'
  <2>1. ASSUME NEW x \in Blocks, x # b, Awaited(x)
        PROVE  Awaited(x)'
    <3>1. PICK u \in Threads : /\ call[u].at = "opening" /\ call[u].block = x
                               /\ call[u].slot = connect[x].slot
      BY <2>1 DEF Awaited
    <3>2. u # t /\ call'[u] = call[u] /\ connect'[x] = connect[x]
      BY <3>1, <2>1, <1>1, <1>5, <1>6
    <3> QED
      BY <3>1, <3>2 DEF Awaited
  <2> QED
    BY <2>1, <1>4, <1>5 DEF LinkInv, ThreadsInv
<1> QED
  BY <1>7, <1>8, <1>9, <1>10, <1>11 DEF LinkInv

LEMMA InitLibraryKeepsLinks ==
    ASSUME LinkInv, NEW t \in Threads, InitLibrary(t)
    PROVE  LinkInv'
<1>1. ~init /\ UNCHANGED <<heap, connect, ids, call>>
  BY DEF InitLibrary
<1>2. /\ \A u \in Threads : call[u].at = "idle" /\ ids[u] = {}
      /\ \A i \in Slots : table[i] = 0
  BY <1>1 DEF LinkInv, AloneInv
<1>3. table' = table
  BY <1>2 DEF InitLibrary, LinkInv, Shaped
<1>4. Shaped' /\ TableInv' /\ JoinInv' /\ IdsInv'
  BY <1>1, <1>3 DEF LinkInv, Shaped, TableInv, JoinInv, Joins, IdsInv
<1>5. AloneInv' /\ PlacesInv' /\ ThreadsInv'
  BY <1>1, <1>2, <1>3 DEF LinkInv, AloneInv, PlacesInv, ThreadsInv, Awaited
<1> QED
  BY <1>4, <1>5 DEF LinkInv

LEMMA DeleteAllKeepsLinks ==
    ASSUME LinkInv, NEW t \in Threads, DeleteAll(t)
    PROVE  LinkInv'
<1> DEFINE gone == {table[i] : i \in Slots} \ {0}
<1>1. /\ call[t].at = "term" /\ Returns(t)
      /\ heap' = [b \in Blocks |-> IF b \in gone THEN Freed ELSE heap[b]]
      /\ connect' = [b \in Blocks |-> IF b \in gone THEN NoThread ELSE connect[b]]
      /\ table' = [i \in Slots |-> 0] /\ ids' = [u \in Threads |-> {}]
  BY DEF DeleteAll
<1>2. \A u \in Threads : u # t => call[u].at = "idle"
  BY <1>1 DEF LinkInv, AloneInv
<1>3. \A b \in Blocks : heap[b].live => b \in gone
  <2>1. \A u \in Threads : ~Joins(u)
    BY <1>1, <1>2 DEF Joins
  <2> QED
    BY <2>1, MemoryAssumption DEF LinkInv, JoinInv
<1>4. /\ ~Freed.live /\ "live" \in DOMAIN Freed /\ "kind" \in DOMAIN Freed
      /\ NoThread.at = "none" /\ "at" \in DOMAIN NoThread /\ "block" \in DOMAIN NoThread
      /\ "slot" \in DOMAIN NoThread
      /\ Idle.at = "idle" /\ "at" \in DOMAIN Idle /\ "slot" \in DOMAIN Idle
      /\ "block" \in DOMAIN Idle
  BY DEF Freed, NoThread, Idle
<1> HIDE DEF gone
<1>5. /\ DOMAIN heap' = Blocks
      /\ \A b \in Blocks : ~heap'[b].live /\ "live" \in DOMAIN heap'[b] /\ "kind" \in DOMAIN heap'[b]
  BY <1>1, <1>3, <1>4 DEF LinkInv, Shaped
<1>6. /\ DOMAIN connect' = Blocks
      /\ \A b \in Blocks : /\ connect'[b].at = "none" /\ "at" \in DOMAIN connect'[b]
                           /\ "block" \in DOMAIN connect'[b] /\ "slot" \in DOMAIN connect'[b]
  BY <1>1, <1>3, <1>4 DEF LinkInv, Shaped, ThreadsInv
<1>7. /\ DOMAIN call' = Threads /\ call'[t] = Idle
      /\ \A u \in Threads : u # t => call'[u] = call[u]
  BY <1>1 DEF Returns, LinkInv, Shaped
<1>8. \A u \in Threads : call'[u].at = "idle"
  BY <1>2, <1>4, <1>7
<1>9. Shaped'
  BY <1>1, <1>4, <1>5, <1>6, <1>7 DEF LinkInv, Shaped
<1>10. TableInv' /\ IdsInv' /\ AloneInv'
  BY <1>1, <1>8 DEF TableInv, IdsInv, AloneInv
<1>11. JoinInv' /\ PlacesInv' /\ ThreadsInv'
  BY <1>5, <1>6, <1>8 DEF JoinInv, Joins, PlacesInv, ThreadsInv
<1> QED
  BY <1>9, <1>10, <1>11 DEF LinkInv

LEMMA LinksAreMade ==
    ASSUME Init
    PROVE  LinkInv
<1>1. /\ ~Freed.live /\ "live" \in DOMAIN Freed /\ "kind" \in DOMAIN Freed
      /\ NoThread.at = "none" /\ "at" \in DOMAIN NoThread /\ "block" \in DOMAIN NoThread
      /\ "slot" \in DOMAIN NoThread
      /\ Idle.at = "idle" /\ "at" \in DOMAIN Idle /\ "slot" \in DOMAIN Idle
      /\ "block" \in DOMAIN Idle
  BY DEF Freed, NoThread, Idle
<1>2. Shaped
  BY <1>1 DEF Init, Shaped
<1>3. /\ \A i \in Slots : table[i] = 0
      /\ \A b \in Blocks : ~heap[b].live /\ connect[b].at = "none"
      /\ \A t \in Threads : call[t].at = "idle" /\ ids[t] = {}
  BY <1>1 DEF Init
<1>4. TableInv /\ JoinInv /\ IdsInv
  BY <1>3 DEF TableInv, JoinInv, Joins, IdsInv
<1>5. AloneInv /\ PlacesInv /\ ThreadsInv
  BY <1>3 DEF AloneInv, PlacesInv, ThreadsInv
<1> QED
  BY <1>2, <1>4, <1>5 DEF LinkInv

LEMMA StepsKeepLinks ==
    ASSUME LinkInv, [Next]_vars
    PROVE  LinkInv'
<1>1. ASSUME NEW t \in Threads, GameCalls(t)
      PROVE  LinkInv'
  BY <1>1, InitLibraryKeepsLinks, TermKeepsLinks, CheckPortKeepsLinks, UseKeepsLinks,
     CloseKeepsLinks DEF GameCalls
<1>2. ASSUME NEW t \in Threads, CallGoesOn(t)
      PROVE  LinkInv'
  <2>1. CASE Enter(t) \/ EnterAccepted(t) \/ Recover(t) \/ ConnectAnswers(t)
    BY <2>1, EnterKeepsLinks, EnterAcceptedKeepsLinks, RecoverKeepsLinks, AnswerKeepsLinks
  <2>2. CASE \/ TableFull(t) \/ OpenReturns(t) \/ Transfer(t) \/ Dispose(t) \/ Stream(t)
             \/ AcceptedTableFull(t)
    BY <2>2, BegunKeepsLinks
  <2>3. CASE SessionMade(t) \/ SessionFails(t) \/ FindDead(t) \/ Clear(t) \/ Accept(t)
    BY <2>3, SessionKeepsLinks
  <2>4. CASE Unlink(t) \/ FreeSocket(t) \/ DeleteAll(t)
    BY <2>4, UnlinkKeepsLinks, FreeSocketKeepsLinks, DeleteAllKeepsLinks
  <2> QED
    BY <1>2, <2>1, <2>2, <2>3, <2>4 DEF CallGoesOn
<1>3. ASSUME NEW b \in Blocks, ThreadStep(b)
      PROVE  LinkInv'
  BY <1>3, ThreadKeepsLinks
<1>4. CASE UNCHANGED vars \/ \E s \in Sessions : LoseSession(s)
  <2>1. UNCHANGED <<init, table, heap, connect, ids, call>>
    BY <1>4 DEF vars, LoseSession
  <2> QED
    BY <2>1, QuietKeepsLinks, SameThreads, HandleKeepsHeap DEF LinkInv
<1> QED
  BY <1>1, <1>2, <1>3, <1>4 DEF Next

(* Places, structures and ids agree however a game shares its sockets and  *)
(* whatever it closes while another of its threads uses it: see LinkInv.   *)
THEOREM LinkInvariant == Spec => []LinkInv
<1>1. Init => LinkInv
  BY LinksAreMade
<1>2. LinkInv /\ [Next]_vars => LinkInv'
  BY StepsKeepLinks
<1> QED
  BY <1>1, <1>2, PTL DEF Spec

(* A connect thread finds its structure in the table and keeps it until it *)
(* ends, however a game shares its sockets and whatever it closes.         *)
THEOREM ConnectThreadsAreSafe == Spec => []ConnectThreadsSafe
<1>1. ASSUME LinkInv, NEW b \in Blocks
      PROVE  /\ connect[b].at = "started" => table[connect[b].slot] = b
             /\ connect[b].at \in {"connecting", "storing"} =>
                   connect[b].block = b /\ heap[b].live /\ heap[b].kind = "STREAM"
  BY <1>1 DEF LinkInv, ThreadsInv, Awaited, PlacesInv
<1>2. LinkInv => ConnectThreadsSafe
  BY <1>1 DEF ConnectThreadsSafe
<1> QED
  BY <1>2, LinkInvariant, PTL

(* Every structure is in the table once, or is about to be freed by one    *)
(* call: none is leaked and none is freed twice.                           *)
THEOREM StructuresAreReachable == Spec => []SocketsReachable
<1>1. ASSUME LinkInv, NEW b \in Blocks, heap[b].live
      PROVE  Cardinality({i \in Slots : table[i] = b})
               + Cardinality({t \in Threads : call[t].at = "join" /\ call[t].block = b}) = 1
  <2> DEFINE P == {i \in Slots : table[i] = b}
             J == {t \in Threads : call[t].at = "join" /\ call[t].block = b}
  <2>1. CASE \E i \in Slots : table[i] = b
    <3>1. PICK i \in Slots : table[i] = b
      BY <2>1
    <3>2. P = {i}
      BY <3>1, <1>1, MemoryAssumption DEF LinkInv, TableInv
    <3>3. J = {}
      BY <3>1, <1>1 DEF LinkInv, JoinInv, Joins
    <3>4. Cardinality(P) = 1 /\ Cardinality(J) = 0
      BY <3>2, <3>3, FS_Singleton, FS_EmptySet
    <3> QED
      BY <3>4
  <2>2. CASE \E t \in Threads : Joins(t) /\ call[t].block = b
    <3>1. PICK t \in Threads : Joins(t) /\ call[t].block = b
      BY <2>2
    <3>2. P = {} /\ J = {t}
      <4>1. P = {}
        BY <3>1, <1>1 DEF LinkInv, JoinInv
      <4>2. \A u \in Threads : Joins(u) /\ call[u].block = b => u = t
        BY <3>1, <1>1 DEF LinkInv, JoinInv
      <4>3. J = {t}
        BY <3>1, <4>2 DEF Joins
      <4> QED
        BY <4>1, <4>3
    <3>3. Cardinality(P) = 0 /\ Cardinality(J) = 1
      BY <3>2, FS_Singleton, FS_EmptySet
    <3> QED
      BY <3>3
  <2> QED
    BY <1>1, <2>1, <2>2 DEF LinkInv, JoinInv
<1>2. LinkInv => SocketsReachable
  BY <1>1 DEF SocketsReachable
<1> QED
  BY <1>2, LinkInvariant, PTL
=============================================================================
