---------------------------- MODULE DirectProofs ----------------------------
(***************************************************************************)
(* For any number of threads, sockets, structures and ports.  Whatever the *)
(* game does, a published router is there to be asked and a request to     *)
(* stop is heard, until a second upnp thread is started.  In a game that   *)
(* keeps to what the sockets are made for every socket of the console has  *)
(* one owner, the router is asked to take every forward away, and no       *)
(* listener loses its forward before it is closed.                         *)
(*                                                                         *)
(* Which habits each result excludes is a hypothesis of its theorem.       *)
(***************************************************************************)
EXTENDS DirectSockets, ListTheorems, FiniteSetTheorems

SocketKinds == {"PDP", "LISTEN", "STREAM"}
Using == {"connect", "poll", "transfer", "accept", "accepted"}
Forwarding == {"forward", "forwarding"}
Holding == Closing \cup Forwarding

CallRecord == [at : {"idle", "socket", "enter"} \cup Using \cup Holding \cup Terming,
               do : SocketKinds \cup {"none", "block", "nonblock", "adhocctl", "adhoc"},
               port : Ports \cup {"none"}, remote : Remotes \cup {"none"},
               slot : Slots \cup {0}, block : Blocks \cup {0}, fd : Fds \cup {0}]

Types ==
    /\ table \in [Slots -> Blocks \cup {0}]
    /\ heap \in [Blocks -> SocketRecord]
    /\ ids \in [Threads -> SUBSET Slots]
    /\ call \in [Threads -> CallRecord]
    /\ fds \subseteq Fds

(* A call has the place i of the table to itself: it is making or closing  *)
(* the socket there.  Once it has freed the structure, the place may point *)
(* to one that an accepted socket has taken.                               *)
Holds(t, i) == call[t].at \in Holding /\ call[t].slot = i
Gone(i) == \E t \in Threads : call[t].at = "clear" /\ call[t].slot = i

(* Every place that is taken has one owner, and but for the gone ones a    *)
(* structure of its own.                                                   *)
OwnInv ==
    /\ \A t \in Threads : \A i \in ids[t] : table[i] # 0 /\ \A u \in Threads : ~Holds(u, i)
    /\ \A t, u \in Threads : ids[t] \cap ids[u] # {} => t = u
    /\ \A t, u \in Threads : call[t].at \in Holding /\ Holds(u, call[t].slot) => t = u
    /\ \A i \in Slots : table[i] # 0 => \E t \in Threads : i \in ids[t] \/ Holds(t, i)

TableInv ==
    /\ \A i \in Slots : table[i] # 0 /\ ~Gone(i) => Socket(i).live
    /\ \A i, j \in Slots : table[i] = table[j] /\ table[i] # 0 /\ ~Gone(i) /\ ~Gone(j) => i = j

(* What a call that is at c knows.                                         *)
Fits(c) ==
    /\ c.at \in Creating => c.do \in SocketKinds
    /\ c.at \in Holding => c.slot \in Slots /\ table[c.slot] # 0
    /\ c.at \in Forwarding \cup {"unforward", "unforwarding"} =>
          c.do = Socket(c.slot).kind /\ c.port = Socket(c.slot).port
    /\ c.at \in Forwarding => Socket(c.slot).mode = "LISTEN"
    /\ c.at \in Using => c.slot \in Slots /\ \E u \in Threads : c.slot \in ids[u]
    /\ c.at \in {"poll", "transfer", "accept"} => c.block = table[c.slot]

CallsInv == \A t \in Threads : Fits(call[t])

(* Nothing is created while something is closed; nothing happens beside    *)
(* the termination, or before the library is initialised.                  *)
ApartInv ==
    /\ \A t, u \in Threads : ~(call[t].at \in Creating /\ call[u].at \in Closing)
    /\ \A t, u \in Threads : t # u /\ call[t].at \in Terming => call[u].at = "idle"
    /\ ~init => /\ \A t \in Threads : call[t].at = "idle" /\ ids[t] = {}
                /\ \A i \in Slots : table[i] = 0

(* A socket of the console is that of a structure, or of a call.           *)
Carries(t) == call[t].fd # 0
Keeps(i) == Live(i) /\ \A t \in Threads : call[t].at \in Closing \ {"close"} => call[t].slot # i

FdInv ==
    /\ \A t \in Threads : Carries(t) <=> call[t].at \in {"enter", "accepted"}
    /\ \A i \in Slots : Keeps(i) => Socket(i).fd \in fds
    /\ \A i, j \in Slots : Keeps(i) /\ Keeps(j) /\ Socket(i).fd = Socket(j).fd => i = j
    /\ \A t \in Threads : Carries(t) => call[t].fd \in fds
    /\ \A t, u \in Threads : Carries(t) /\ Carries(u) /\ call[t].fd = call[u].fd => t = u
    /\ \A t \in Threads, i \in Slots : Carries(t) /\ Keeps(i) => call[t].fd # Socket(i).fd
    /\ \A fd \in fds : \/ \E i \in Slots : Keeps(i) /\ Socket(i).fd = fd
                       \/ \E t \in Threads : Carries(t) /\ call[t].fd = fd

SocketInv == Types /\ OwnInv /\ TableInv /\ CallsInv /\ ApartInv /\ FdInv

(* The one thread that looks for a router, and the status it has set.      *)
Active(w) == finder[w] # "none"

FinderInv ==
    /\ finder \in [Finders -> {"none", "top", "discover", "igd", "address", "serve"}]
    /\ status \in {-1, 0, 1}
    /\ \A v, w \in Finders : Active(v) /\ Active(w) => v = w
    /\ \A w \in Finders :
          /\ finder[w] \in {"igd", "address", "serve"} => devlist \in lists
          /\ finder[w] \in {"address", "serve"} => urls
          /\ finder[w] \in {"discover", "igd", "address"} => status = 0
          /\ finder[w] = "top" => status # 1
          /\ finder[w] = "serve" => status # 0
    /\ status # 0 => \E w \in Finders : finder[w] \in {"serve", "top"}

(* Whoever waits for the end has asked a thread that serves.               *)
StopInv ==
    \A t \in Threads : call[t].at = "stopping" =>
        status # 1 /\ \A w \in Finders : Active(w) => status = -1

UpnpInv == FinderInv /\ StopInv

(* Nothing happens beside the termination, so the status is 1 as long as a *)
(* call that has seen it waits for the router.                             *)
PlacesInv ==
    /\ DOMAIN call = Threads
    /\ \A t \in Threads : DOMAIN call[t] = DOMAIN Idle
    /\ \A t, u \in Threads : t # u /\ call[t].at \in Terming => call[u].at = "idle"

StatusInv == \A t \in Threads : call[t].at \in {"forwarding", "unforwarding"} => status = 1

RouterInv == PlacesInv /\ StatusInv /\ (~twice => UpnpInv)

IInv == SocketInv /\ RouterInv

(* What the router was not yet asked to take away is owned by a socket     *)
(* that still has to ask.                                                  *)
Owed == forwards \ stuck

Owning(i) ==
    /\ table[i] # 0 /\ ~Gone(i) /\ Socket(i).mode # "ACCEPT"
    /\ \A t \in Threads : call[t].at = "free" => call[t].slot # i

ForwardInv ==
    /\ \A f \in Owed : \E i \in Slots :
          Owning(i) /\ f = <<Protocol(Socket(i).kind), Socket(i).port>>
    /\ Owed # {} => status = 1
    /\ \A t \in Threads : call[t].at \in Terming => \A u \in Threads : ids[u] = {}

(* No two listening sockets have one port, and no port is used for         *)
(* listening and for connections.                                          *)
Listens(i, port) ==
    table[i] # 0 /\ ~Gone(i) /\ Socket(i).kind = "LISTEN" /\ Socket(i).port = port

WillListen(t, port) ==
    call[t].at \in {"socket", "enter"} /\ call[t].do = "LISTEN" /\ call[t].port = port

ListenersApart ==
    /\ \A i, j \in Slots, port \in Ports : Listens(i, port) /\ Listens(j, port) => i = j
    /\ \A t \in Threads, i \in Slots, port \in Ports : ~(WillListen(t, port) /\ Listens(i, port))
    /\ \A t, u \in Threads, port \in Ports : WillListen(t, port) /\ WillListen(u, port) => t = u

CalledPorts ==
    \A t \in Threads : call[t].at \in {"socket", "enter"} =>
       /\ call[t].do = "LISTEN" => call[t].port \in ListenPorts
       /\ call[t].do = "STREAM" => call[t].port \in OpenPorts

SocketPorts ==
    \A b \in Blocks : heap[b].live =>
       /\ heap[b].kind = "LISTEN" => heap[b].port \in ListenPorts
       /\ heap[b].kind = "STREAM" /\ heap[b].mode # "ACCEPT" => heap[b].port \in OpenPorts

(* Only an accepted socket takes a structure whose old place is not yet    *)
(* cleared, and only the others take their forward away.                   *)
GoneAreStreams ==
    \A i \in Slots : table[i] # 0 /\ Gone(i) /\ Socket(i).live => Socket(i).kind = "STREAM"

OwnersUnforward ==
    \A t \in Threads :
       call[t].at \in {"unforward", "unforwarding"} => Socket(call[t].slot).mode # "ACCEPT"

PortInv == ListenersApart /\ CalledPorts /\ SocketPorts /\ GoneAreStreams /\ OwnersUnforward

USE NumbersAssumption

-----------------------------------------------------------------------------
(* The first free place, structure or number of a socket is a free one.    *)
LEMMA FirstFree ==
    /\ FreeSlots # {} => Min(FreeSlots) \in Slots /\ table[Min(FreeSlots)] = 0
    /\ FreeBlocks # {} => Min(FreeBlocks) \in Blocks /\ ~heap[Min(FreeBlocks)].live
    /\ Fds \ fds # {} => Min(Fds \ fds) \in Fds \ fds
BY MinIn DEF FreeSlots, FreeBlocks

(* What a step leaves to other calls, or other places, than one.           *)
Carrying(u) == call[u].at \in {"enter", "accepted"}
SameCarried(u) ==
    /\ Carries(u)' <=> Carries(u)
    /\ Carries(u) => call'[u].fd = call[u].fd
SameKept(i) ==
    /\ Keeps(i)' <=> Keeps(i)
    /\ Keeps(i) => heap'[table'[i]].fd = heap[table[i]].fd

CarriedKept == \A u \in Threads : SameCarried(u)
OthersCarry(t) == \A u \in Threads : u # t => SameCarried(u)
OthersKeep(i) == \A j \in Slots : j # i => SameKept(j)
AllKeep == \A j \in Slots : SameKept(j)
CarriersInv == \A t \in Threads : Carries(t) <=> Carrying(t)

(* The ways a socket of the console is made, closed or handed on.          *)
LEMMA FdsKept ==
    ASSUME FdInv, CarriersInv', CarriedKept, AllKeep, fds' = fds
    PROVE  FdInv'
<1>1. \A i \in Slots : Keeps(i)' => heap'[table'[i]].fd \in fds'
  BY DEF FdInv, Socket, CarriedKept, AllKeep, SameKept, SameCarried, CarriersInv, Carrying
<1>2. \A i, j \in Slots : Keeps(i)' /\ Keeps(j)' /\ heap'[table'[i]].fd = heap'[table'[j]].fd => i = j
  BY DEF FdInv, Socket, CarriedKept, AllKeep, SameKept, SameCarried, CarriersInv, Carrying
<1>3. \A u \in Threads : Carries(u)' => call'[u].fd \in fds'
  BY DEF FdInv, CarriedKept, AllKeep, SameKept, SameCarried, CarriersInv, Carrying
<1>4. \A u, v \in Threads : Carries(u)' /\ Carries(v)' /\ call'[u].fd = call'[v].fd => u = v
  BY DEF FdInv, CarriedKept, AllKeep, SameKept, SameCarried, CarriersInv, Carrying
<1>5. \A u \in Threads, i \in Slots : Carries(u)' /\ Keeps(i)' => call'[u].fd # heap'[table'[i]].fd
  BY DEF FdInv, Socket, CarriedKept, AllKeep, SameKept, SameCarried, CarriersInv, Carrying
<1>6. \A n \in fds' : \/ \E i \in Slots : Keeps(i)' /\ heap'[table'[i]].fd = n
                      \/ \E u \in Threads : Carries(u)' /\ call'[u].fd = n
  BY DEF FdInv, Socket, CarriedKept, AllKeep, SameKept, SameCarried, CarriersInv, Carrying
<1> QED
  BY <1>1, <1>2, <1>3, <1>4, <1>5, <1>6 DEF FdInv, Socket, CarriersInv, Carrying

LEMMA KeeperLoses ==
    ASSUME FdInv, CarriersInv', NEW k \in Slots, OthersKeep(k), CarriedKept, Keeps(k), ~Keeps(k)',
           fds' = fds \ {heap[table[k]].fd}
    PROVE  FdInv'
<1>1. \A i \in Slots : Keeps(i)' => heap'[table'[i]].fd \in fds'
  BY DEF FdInv, Socket, OthersKeep, SameKept, CarriedKept, SameCarried, CarriersInv, Carrying
<1>2. \A i, j \in Slots : Keeps(i)' /\ Keeps(j)' /\ heap'[table'[i]].fd = heap'[table'[j]].fd => i = j
  BY DEF FdInv, Socket, OthersKeep, SameKept, CarriedKept, SameCarried, CarriersInv, Carrying
<1>3. \A u \in Threads : Carries(u)' => call'[u].fd \in fds'
  <2>1. \A u \in Threads : Carries(u) => call[u].fd \in fds /\ call[u].fd # heap[table[k]].fd
    BY DEF FdInv, Socket
  <2> QED
    BY <2>1 DEF CarriedKept, SameCarried
<1>4. \A u, v \in Threads : Carries(u)' /\ Carries(v)' /\ call'[u].fd = call'[v].fd => u = v
  BY DEF FdInv, OthersKeep, SameKept, CarriedKept, SameCarried, CarriersInv, Carrying
<1>5. \A u \in Threads, i \in Slots : Carries(u)' /\ Keeps(i)' => call'[u].fd # heap'[table'[i]].fd
  BY DEF FdInv, Socket, OthersKeep, SameKept, CarriedKept, SameCarried, CarriersInv, Carrying
<1>6. \A n \in fds' : \/ \E i \in Slots : Keeps(i)' /\ heap'[table'[i]].fd = n
                      \/ \E u \in Threads : Carries(u)' /\ call'[u].fd = n
  BY DEF FdInv, Socket, OthersKeep, SameKept, CarriedKept, SameCarried, CarriersInv, Carrying
<1> QED
  BY <1>1, <1>2, <1>3, <1>4, <1>5, <1>6 DEF FdInv, Socket, CarriersInv, Carrying

LEMMA CarrierGains ==
    ASSUME FdInv, CarriersInv', NEW t \in Threads, OthersCarry(t), AllKeep, ~Carries(t), Carries(t)',
           call'[t].fd \notin fds, fds' = fds \cup {call'[t].fd}
    PROVE  FdInv'
<1>1. \A i \in Slots : Keeps(i)' => heap'[table'[i]].fd \in fds'
  BY DEF FdInv, Socket, OthersCarry, AllKeep, SameKept, SameCarried, CarriersInv, Carrying
<1>2. \A i, j \in Slots : Keeps(i)' /\ Keeps(j)' /\ heap'[table'[i]].fd = heap'[table'[j]].fd => i = j
  BY DEF FdInv, Socket, OthersCarry, AllKeep, SameKept, SameCarried, CarriersInv, Carrying
<1>3. \A u \in Threads : Carries(u)' => call'[u].fd \in fds'
  BY DEF FdInv, OthersCarry, AllKeep, SameKept, SameCarried, CarriersInv, Carrying
<1>4. \A u, v \in Threads : Carries(u)' /\ Carries(v)' /\ call'[u].fd = call'[v].fd => u = v
  BY DEF FdInv, OthersCarry, AllKeep, SameKept, SameCarried, CarriersInv, Carrying
<1>5. \A u \in Threads, i \in Slots : Carries(u)' /\ Keeps(i)' => call'[u].fd # heap'[table'[i]].fd
  BY DEF FdInv, Socket, OthersCarry, AllKeep, SameKept, SameCarried, CarriersInv, Carrying
<1>6. \A n \in fds' : \/ \E i \in Slots : Keeps(i)' /\ heap'[table'[i]].fd = n
                      \/ \E u \in Threads : Carries(u)' /\ call'[u].fd = n
  BY DEF FdInv, Socket, OthersCarry, AllKeep, SameKept, SameCarried, CarriersInv, Carrying
<1> QED
  BY <1>1, <1>2, <1>3, <1>4, <1>5, <1>6 DEF FdInv, Socket, CarriersInv, Carrying

LEMMA CarrierLoses ==
    ASSUME FdInv, CarriersInv', NEW t \in Threads, OthersCarry(t), AllKeep, Carries(t), ~Carries(t)',
           fds' = fds \ {call[t].fd}
    PROVE  FdInv'
<1>1. \A i \in Slots : Keeps(i)' => heap'[table'[i]].fd \in fds'
  BY DEF FdInv, Socket, OthersCarry, AllKeep, SameKept, SameCarried, CarriersInv, Carrying
<1>2. \A i, j \in Slots : Keeps(i)' /\ Keeps(j)' /\ heap'[table'[i]].fd = heap'[table'[j]].fd => i = j
  BY DEF FdInv, Socket, OthersCarry, AllKeep, SameKept, SameCarried, CarriersInv, Carrying
<1>3. \A u \in Threads : Carries(u)' => call'[u].fd \in fds'
  BY DEF FdInv, OthersCarry, AllKeep, SameKept, SameCarried, CarriersInv, Carrying
<1>4. \A u, v \in Threads : Carries(u)' /\ Carries(v)' /\ call'[u].fd = call'[v].fd => u = v
  BY DEF FdInv, OthersCarry, AllKeep, SameKept, SameCarried, CarriersInv, Carrying
<1>5. \A u \in Threads, i \in Slots : Carries(u)' /\ Keeps(i)' => call'[u].fd # heap'[table'[i]].fd
  BY DEF FdInv, Socket, OthersCarry, AllKeep, SameKept, SameCarried, CarriersInv, Carrying
<1>6. \A n \in fds' : \/ \E i \in Slots : Keeps(i)' /\ heap'[table'[i]].fd = n
                      \/ \E u \in Threads : Carries(u)' /\ call'[u].fd = n
  BY DEF FdInv, Socket, OthersCarry, AllKeep, SameKept, SameCarried, CarriersInv, Carrying
<1> QED
  BY <1>1, <1>2, <1>3, <1>4, <1>5, <1>6 DEF FdInv, Socket, CarriersInv, Carrying

LEMMA CarrierToKeeper ==
    ASSUME FdInv, CarriersInv', NEW t \in Threads, NEW k \in Slots, OthersCarry(t), OthersKeep(k),
           fds' = fds, ~Keeps(k), Keeps(k)', Carries(t), ~Carries(t)',
           heap'[table'[k]].fd = call[t].fd
    PROVE  FdInv'
<1>1. \A i \in Slots : Keeps(i)' => heap'[table'[i]].fd \in fds'
  BY DEF FdInv, Socket, OthersCarry, OthersKeep, SameKept, SameCarried, CarriersInv, Carrying
<1>2. \A i, j \in Slots : Keeps(i)' /\ Keeps(j)' /\ heap'[table'[i]].fd = heap'[table'[j]].fd => i = j
  BY DEF FdInv, Socket, OthersCarry, OthersKeep, SameKept, SameCarried, CarriersInv, Carrying
<1>3. \A u \in Threads : Carries(u)' => call'[u].fd \in fds'
  BY DEF FdInv, OthersCarry, OthersKeep, SameKept, SameCarried, CarriersInv, Carrying
<1>4. \A u, v \in Threads : Carries(u)' /\ Carries(v)' /\ call'[u].fd = call'[v].fd => u = v
  BY DEF FdInv, OthersCarry, OthersKeep, SameKept, SameCarried, CarriersInv, Carrying
<1>5. \A u \in Threads, i \in Slots : Carries(u)' /\ Keeps(i)' => call'[u].fd # heap'[table'[i]].fd
  BY DEF FdInv, Socket, OthersCarry, OthersKeep, SameKept, SameCarried, CarriersInv, Carrying
<1>6. \A n \in fds' : \/ \E i \in Slots : Keeps(i)' /\ heap'[table'[i]].fd = n
                      \/ \E u \in Threads : Carries(u)' /\ call'[u].fd = n
  BY DEF FdInv, Socket, OthersCarry, OthersKeep, SameKept, SameCarried, CarriersInv, Carrying
<1> QED
  BY <1>1, <1>2, <1>3, <1>4, <1>5, <1>6 DEF FdInv, Socket, CarriersInv, Carrying

-----------------------------------------------------------------------------
(* Steps that leave the table and what the structures are as they were.    *)
SameSockets ==
    /\ UNCHANGED <<init, table, ids>>
    /\ heap' \in [Blocks -> SocketRecord]
    /\ \A b \in Blocks : /\ heap'[b].live = heap[b].live /\ heap'[b].kind = heap[b].kind
                         /\ heap'[b].port = heap[b].port /\ heap'[b].mode = heap[b].mode
                         /\ heap'[b].fd = heap[b].fd

(* A call may go from p to q as far as its place in the table is concerned.*)
SameHold(p, q) ==
    /\ q.at \in Holding <=> p.at \in Holding
    /\ q.at \in Holding => q.slot = p.slot
    /\ q.at = "clear" <=> p.at = "clear"
    /\ q.at \in Closing <=> p.at \in Closing

(* What has to be so for a call to be at c in t.                           *)
MayBeAt(t, c) ==
    /\ c.at \in Creating => \A u \in Threads : u # t => call[u].at \notin Closing
    /\ c.at \in Terming => \A u \in Threads : u # t => call[u].at = "idle"
    /\ c.at # "idle" => init /\ \A u \in Threads : u # t => call[u].at \notin Terming

LEMMA MoveIsSafe ==
    ASSUME SocketInv, NEW t \in Threads, NEW c \in CallRecord, call' = [call EXCEPT ![t] = c],
           SameSockets, fds' \subseteq Fds, FdInv', SameHold(call[t], c), Fits(c), MayBeAt(t, c)
    PROVE  SocketInv'
<1> USE DEF SocketInv, Types, SameSockets
<1>1. /\ call'[t] = c /\ \A u \in Threads : u # t => call'[u] = call[u]
      /\ call' \in [Threads -> CallRecord]
  OBVIOUS
<1>2. Types'
  BY <1>1
<1>3. \A u \in Threads : /\ call'[u].at \in Holding <=> call[u].at \in Holding
                         /\ call[u].at \in Holding => call'[u].slot = call[u].slot
  BY <1>1 DEF SameHold
<1>4. \A u \in Threads, i \in Slots : Holds(u, i)' <=> Holds(u, i)
  BY <1>3 DEF Holds
<1>5. \A i \in Slots : Gone(i)' <=> Gone(i)
  BY <1>1 DEF Gone, SameHold, Holding, Closing
<1>6. OwnInv'
  <2>1. \A u \in Threads : \A i \in ids[u] : table[i] # 0 /\ \A v \in Threads : ~Holds(v, i)'
    BY <1>4 DEF OwnInv
  <2>2. \A u, v \in Threads : call'[u].at \in Holding /\ Holds(v, call[u].slot) => u = v
    BY <1>3 DEF OwnInv
  <2>3. \A u, v \in Threads : call'[u].at \in Holding /\ Holds(v, call[u].slot)' => u = v
    BY <1>3, <2>2 DEF Holds
  <2>4. \A i \in Slots : table[i] # 0 => \E u \in Threads : i \in ids[u] \/ Holds(u, i)'
    BY <1>4 DEF OwnInv
  <2> QED
    BY <1>3, <2>1, <2>3, <2>4 DEF OwnInv, Holds
<1>7. TableInv'
  <2>1. ASSUME NEW i \in Slots, table[i] # 0, ~Gone(i)
        PROVE  heap'[table[i]].live
    BY <2>1 DEF TableInv, Socket
  <2> QED
    BY <1>5, <2>1 DEF TableInv, Socket
<1>8. ASSUME NEW u \in Threads
      PROVE  Fits(call[u])'
  <2>1. Fits(call'[u])
    BY <1>1 DEF CallsInv
  <2>2. call'[u].at \in Holding => call'[u].slot \in Slots /\ table[call'[u].slot] \in Blocks
    BY <2>1 DEF Fits
  <2> QED
    BY <2>1, <2>2 DEF Fits, Socket, Holding, Forwarding, Closing
<1>9. CallsInv'
  BY <1>8 DEF CallsInv
<1>10. ApartInv'
  BY <1>1 DEF ApartInv, MayBeAt, SameHold, Creating, Closing, Terming
<1> QED
  BY <1>2, <1>6, <1>7, <1>9, <1>10

(* Such a step that also leaves the sockets of the console as they were.   *)
LEMMA CallMoveIsSafe ==
    ASSUME SocketInv, NEW t \in Threads, NEW c \in CallRecord, call' = [call EXCEPT ![t] = c],
           SameSockets, fds' = fds, SameHold(call[t], c), Fits(c), MayBeAt(t, c),
           c.fd = call[t].fd, c.at \in {"enter", "accepted"} <=> call[t].at \in {"enter", "accepted"},
           c.at = "close" <=> call[t].at = "close"
    PROVE  SocketInv'
<1>1. /\ call'[t] = c /\ \A u \in Threads : u # t => call'[u] = call[u]
      /\ fds' \subseteq Fds
  BY DEF SocketInv, Types
<1>2. CarriedKept /\ CarriersInv'
  BY <1>1 DEF CarriedKept, SameCarried, Carries, CarriersInv, Carrying, SocketInv, FdInv
<1>3. \A i \in Slots : Live(i)' <=> Live(i)
  BY DEF Live, Socket, SameSockets, SocketInv, Types
<1>4. AllKeep
  <2>1. \A u \in Threads : call'[u].at \in Closing \ {"close"} <=> call[u].at \in Closing \ {"close"}
    BY <1>1 DEF SameHold, Holding, Closing, Forwarding
  <2>2. \A u \in Threads : call[u].at \in Closing \ {"close"} => call'[u].slot = call[u].slot
    BY <1>1 DEF SameHold, Holding, Closing
  <2>3. \A i \in Slots : Keeps(i)' <=> Keeps(i)
    BY <1>3, <2>1, <2>2 DEF Keeps
  <2>4. \A i \in Slots : Keeps(i) => heap'[table'[i]].fd = heap[table[i]].fd
    BY DEF Keeps, Live, SameSockets, SocketInv, Types
  <2> QED
    BY <2>3, <2>4 DEF AllKeep, SameKept
<1>5. FdInv'
  BY <1>2, <1>4, FdsKept DEF SocketInv
<1> QED
  BY <1>1, <1>5, MoveIsSafe

LEMMA HeapIsSame ==
    ASSUME SocketInv, UNCHANGED <<init, table, ids, heap>>
    PROVE  SameSockets
BY DEF SameSockets, SocketInv, Types

LEMMA StateIsSet ==
    ASSUME SocketInv, NEW b \in Blocks, NEW state \in {"CLOSED", "LISTEN", "ESTABLISHED"},
           SetsState(b, state), UNCHANGED <<init, table, ids>>
    PROVE  SameSockets
<1>1. heap[b] \in SocketRecord
  BY DEF SocketInv, Types
<1> DEFINE r == [heap[b] EXCEPT !.state = state]
<1>2. /\ r \in SocketRecord /\ r.live = heap[b].live /\ r.kind = heap[b].kind
      /\ r.port = heap[b].port /\ r.mode = heap[b].mode /\ r.fd = heap[b].fd
  BY <1>1 DEF SocketRecord
<1>3. heap' = [heap EXCEPT ![b] = r]
  BY DEF SetsState
<1> HIDE DEF r
<1> QED
  BY <1>2, <1>3 DEF SameSockets, SocketInv, Types

LEMMA IdleFits ==
    Idle \in CallRecord /\ Fits(Idle) /\ Idle.at = "idle" /\ Idle.fd = 0
BY DEF Idle, CallRecord, Fits, Creating, Holding, Closing, Forwarding, Using

(* A call that holds no place and carries no socket returns.               *)
LEMMA ReturnIsSafe ==
    ASSUME SocketInv, NEW t \in Threads, Returns(t), SameSockets, fds' = fds,
           call[t].at \in {"socket", "connect", "poll", "transfer", "accept"} \cup Terming
    PROVE  SocketInv'
<1>1. call[t].fd = 0
  BY DEF SocketInv, FdInv, Carries, Terming
<1>2. SameHold(call[t], Idle) /\ MayBeAt(t, Idle)
  BY IdleFits DEF SameHold, MayBeAt, Holding, Closing, Forwarding, Creating, Terming
<1>3. /\ Idle.at \in {"enter", "accepted"} <=> call[t].at \in {"enter", "accepted"}
      /\ Idle.at = "close" <=> call[t].at = "close"
  BY IdleFits DEF Terming
<1>4. call' = [call EXCEPT ![t] = Idle]
  BY DEF Returns
<1> QED
  BY <1>1, <1>2, <1>3, <1>4, IdleFits, CallMoveIsSafe

(* A call that begins at c.                                                *)
LEMMA BeginIsSafe ==
    ASSUME SocketInv, NEW t \in Threads, NEW c \in CallRecord, call' = [call EXCEPT ![t] = c],
           SameSockets, fds' = fds, call[t] = Idle, Fits(c), c.fd = 0,
           c.at \in {"socket", "connect", "transfer", "accept"} \cup Terming,
           c.at = "socket" => \A u \in Threads : call[u].at \notin Closing,
           c.at \in Terming => \A u \in Threads : call[u].at = "idle",
           init, \A u \in Threads : call[u].at \notin Terming
    PROVE  SocketInv'
<1>1. call[t].fd = 0 /\ call[t].at = "idle"
  BY IdleFits
<1>2. SameHold(call[t], c)
  BY <1>1 DEF SameHold, Holding, Closing, Forwarding, Terming
<1>3. MayBeAt(t, c)
  BY DEF MayBeAt, Creating, Terming
<1>4. /\ c.at \in {"enter", "accepted"} <=> call[t].at \in {"enter", "accepted"}
      /\ c.at = "close" <=> call[t].at = "close"
  BY <1>1 DEF Terming
<1> QED
  BY <1>1, <1>2, <1>3, <1>4, CallMoveIsSafe

(* Nothing is created while something is closed, so the look at the table  *)
(* meets no structure that has been freed.                                 *)
LEMMA CheckPortFindsLive ==
    ASSUME SocketInv, "overlap" \notin Habits, NEW t \in Threads, NEW kind, NEW port, NEW remote,
           CheckPort(t, kind, port, remote)
    PROVE  /\ \A i \in Slots : table[i] # 0 => Socket(i).live
           /\ \A u \in Threads : call[u].at \notin Closing
           /\ call[t] = Idle /\ init /\ \A u \in Threads : call[u].at \notin Terming
<1>1. \A u \in Threads : call[u].at \notin Closing
  BY DEF CheckPort, MayCreate
<1>2. \A i \in Slots : ~Gone(i)
  BY <1>1 DEF Gone, Closing
<1>3. \A i \in Slots : table[i] # 0 => Socket(i).live
  BY <1>2 DEF SocketInv, TableInv
<1>4. call[t] = Idle /\ init /\ \A u \in Threads : call[u].at \notin Terming
  BY DEF CheckPort, MayCreate, MayCall
<1> QED
  BY <1>1, <1>3, <1>4

LEMMA CheckPortKeepsSockets ==
    ASSUME SocketInv, "overlap" \notin Habits, NEW t \in Threads, NEW kind \in SocketKinds,
           NEW port \in Ports, NEW remote \in Remotes \cup {"none"},
           CheckPort(t, kind, port, remote)
    PROVE  SocketInv'
<1> DEFINE c == [Idle EXCEPT !.at = "socket", !.do = kind, !.port = port, !.remote = remote]
<1>1. c \in CallRecord /\ c.at = "socket" /\ c.do = kind /\ c.fd = 0
  BY DEF Idle, CallRecord
<1>2. /\ \A u \in Threads : call[u].at \notin Closing
      /\ call[t] = Idle /\ init /\ \A u \in Threads : call[u].at \notin Terming
  BY CheckPortFindsLive
<1>3. \A i \in Slots : table[i] # 0 => Socket(i).live
  BY CheckPortFindsLive
<1>4. call' = [call EXCEPT ![t] = c] /\ UNCHANGED <<init, table, ids, heap>> /\ fds' = fds
  BY <1>3 DEF CheckPort
<1> HIDE DEF c
<1>5. Fits(c) /\ c.at \notin Terming
  BY <1>1 DEF Fits, Creating, Holding, Closing, Forwarding, Using, Terming
<1>6. SameSockets
  BY <1>4, HeapIsSame
<1> QED
  BY <1>1, <1>2, <1>4, <1>5, <1>6, BeginIsSafe

(* A call on the socket i begins.                                          *)
LEMMA UseIsSafe ==
    ASSUME SocketInv, NEW t \in Threads, NEW i \in Slots, MayUse(t, i),
           NEW c \in CallRecord, call' = [call EXCEPT ![t] = c],
           UNCHANGED <<init, table, ids, heap>>, fds' = fds,
           c.at \in {"connect", "transfer", "accept"}, c.slot = i, c.fd = 0,
           c.at # "connect" => c.block = table[i]
    PROVE  SocketInv'
<1>1. Fits(c)
  BY DEF Fits, MayUse, Creating, Holding, Closing, Forwarding, Using
<1>2. call[t] = Idle /\ init /\ \A u \in Threads : call[u].at \notin Terming
  BY DEF MayUse, MayCall
<1>3. SameSockets
  BY HeapIsSame
<1>4. c.at # "socket" /\ c.at \notin Terming
  BY DEF Terming
<1> QED
  BY <1>1, <1>2, <1>3, <1>4, BeginIsSafe

LEMMA UseConnectKeepsSockets ==
    ASSUME SocketInv, NEW t \in Threads, NEW i \in Slots, NEW do \in {"block", "nonblock"},
           UseConnect(t, i, do)
    PROVE  SocketInv'
<1> DEFINE c == [Idle EXCEPT !.at = "connect", !.do = do, !.slot = i]
<1>1. c \in CallRecord /\ c.at = "connect" /\ c.slot = i /\ c.fd = 0
  BY DEF Idle, CallRecord, Using
<1>2. /\ MayUse(t, i) /\ call' = [call EXCEPT ![t] = c]
      /\ UNCHANGED <<init, table, ids, heap>> /\ fds' = fds
  BY DEF UseConnect
<1> HIDE DEF c
<1> QED
  BY <1>1, <1>2, UseIsSafe

LEMMA UseStreamKeepsSockets ==
    ASSUME SocketInv, NEW t \in Threads, NEW i \in Slots, UseStream(t, i)
    PROVE  SocketInv'
<1> DEFINE c == [Idle EXCEPT !.at = "transfer", !.slot = i, !.block = table[i]]
<1>1. c \in CallRecord /\ c.at = "transfer" /\ c.slot = i /\ c.block = table[i] /\ c.fd = 0
  BY DEF Idle, CallRecord, Using, SocketInv, Types
<1>2. /\ MayUse(t, i) /\ call' = [call EXCEPT ![t] = c]
      /\ UNCHANGED <<init, table, ids, heap>> /\ fds' = fds
  BY DEF UseStream
<1> HIDE DEF c
<1> QED
  BY <1>1, <1>2, UseIsSafe

LEMMA UseAcceptKeepsSockets ==
    ASSUME SocketInv, NEW t \in Threads, NEW i \in Slots, UseAccept(t, i)
    PROVE  SocketInv'
<1> DEFINE c == [Idle EXCEPT !.at = "accept", !.slot = i, !.block = table[i]]
<1>1. c \in CallRecord /\ c.at = "accept" /\ c.slot = i /\ c.block = table[i] /\ c.fd = 0
  BY DEF Idle, CallRecord, Using, SocketInv, Types
<1>2. /\ MayUse(t, i) /\ call' = [call EXCEPT ![t] = c]
      /\ UNCHANGED <<init, table, ids, heap>> /\ fds' = fds
  BY DEF UseAccept
<1> HIDE DEF c
<1> QED
  BY <1>1, <1>2, UseIsSafe

LEMMA TermKeepsSockets ==
    ASSUME SocketInv, NEW t \in Threads, NEW do \in {"adhocctl", "adhoc"}, Term(t, do)
    PROVE  SocketInv'
<1> DEFINE c == [Idle EXCEPT !.at = IF ctl THEN "stop" ELSE "deleting", !.do = do]
<1>1. c \in CallRecord /\ c.at \in {"stop", "deleting"} /\ c.fd = 0
  BY DEF Idle, CallRecord, Terming
<1>2. /\ \A u \in Threads : call[u] = Idle
      /\ init /\ call' = [call EXCEPT ![t] = c]
      /\ UNCHANGED <<init, table, ids, heap>> /\ fds' = fds
  BY DEF Term, MayTerm
<1> HIDE DEF c
<1>3. Fits(c) /\ c.at \in Terming /\ c.at # "socket"
  BY <1>1 DEF Fits, Creating, Holding, Closing, Forwarding, Using, Terming
<1>4. SameSockets
  BY <1>2, HeapIsSame
<1>5. \A u \in Threads : call[u].at = "idle" /\ call[u].at \notin Terming
  BY <1>2, IdleFits DEF Terming
<1> QED
  BY <1>1, <1>2, <1>3, <1>4, <1>5, BeginIsSafe

-----------------------------------------------------------------------------
(* Calls that go on.                                                       *)

LEMMA CallGoes ==
    ASSUME SocketInv, NEW t \in Threads, NEW place, Goes(t, place),
           place \in {"idle", "socket", "enter"} \cup Using \cup Holding \cup Terming
    PROVE  /\ call'[t] \in CallRecord /\ call' = [call EXCEPT ![t] = call'[t]]
           /\ call'[t].at = place /\ call'[t].slot = call[t].slot /\ call'[t].do = call[t].do
           /\ call'[t].port = call[t].port
           /\ call'[t].block = call[t].block /\ call'[t].fd = call[t].fd
<1>1. call[t] \in CallRecord
  BY DEF SocketInv, Types
<1> DEFINE r == [call[t] EXCEPT !.at = place]
<1>2. /\ r \in CallRecord /\ r.at = place /\ r.slot = call[t].slot /\ r.do = call[t].do
      /\ r.port = call[t].port /\ r.block = call[t].block /\ r.fd = call[t].fd
  BY <1>1 DEF CallRecord
<1>3. call' = [call EXCEPT ![t] = r]
  BY DEF Goes
<1> HIDE DEF r
<1> QED
  BY <1>2, <1>3 DEF SocketInv, Types

(* The next place of a call that talks to the router, or terminates.       *)
Follows(p, q) ==
    \/ p = "forward" /\ q = "forwarding"
    \/ p = "unforward" /\ q \in {"unforwarding", "free"}
    \/ p = "unforwarding" /\ q = "free"
    \/ p = "stop" /\ q \in {"stopping", "deleting"}
    \/ p = "stopping" /\ q = "deleting"

LEMMA GoesIsSafe ==
    ASSUME SocketInv, NEW t \in Threads, NEW place, Goes(t, place), Follows(call[t].at, place),
           UNCHANGED <<init, table, ids, heap>>, fds' = fds
    PROVE  SocketInv'
<1>1. place \in {"idle", "socket", "enter"} \cup Using \cup Holding \cup Terming
  BY DEF Follows, Holding, Forwarding, Closing, Terming
<1>2. /\ call'[t] \in CallRecord /\ call' = [call EXCEPT ![t] = call'[t]]
      /\ call'[t].at = place /\ call'[t].slot = call[t].slot /\ call'[t].do = call[t].do
      /\ call'[t].port = call[t].port
      /\ call'[t].fd = call[t].fd
  BY <1>1, CallGoes
<1>3. SameHold(call[t], call'[t])
  BY <1>2 DEF SameHold, Follows, Holding, Forwarding, Closing
<1>4. Fits(call'[t])
  BY <1>2 DEF SocketInv, CallsInv, Fits, Follows, Holding, Forwarding, Closing, Using, Creating
<1>5. MayBeAt(t, call'[t])
  BY <1>2 DEF SocketInv, ApartInv, MayBeAt, Follows, Creating, Terming
<1>6. SameSockets
  BY HeapIsSame
<1>7. /\ call'[t].at \in {"enter", "accepted"} <=> call[t].at \in {"enter", "accepted"}
      /\ call'[t].at = "close" <=> call[t].at = "close"
  BY <1>2 DEF Follows
<1> QED
  BY <1>2, <1>3, <1>4, <1>5, <1>6, <1>7, CallMoveIsSafe

(* The place a call uses is that of a socket which nobody closes.          *)
LEMMA UsedIsThere ==
    ASSUME SocketInv, NEW t \in Threads, call[t].at \in Using
    PROVE  /\ call[t].slot \in Slots /\ table[call[t].slot] \in Blocks /\ table[call[t].slot] # 0
           /\ Socket(call[t].slot).live
           /\ call[t].at \in {"poll", "transfer", "accept"} => call[t].block = table[call[t].slot]
<1>1. /\ call[t].slot \in Slots /\ \E u \in Threads : call[t].slot \in ids[u]
      /\ call[t].at \in {"poll", "transfer", "accept"} => call[t].block = table[call[t].slot]
  BY DEF SocketInv, CallsInv, Fits
<1>2. table[call[t].slot] # 0 /\ \A u \in Threads : ~Holds(u, call[t].slot)
  BY <1>1 DEF SocketInv, OwnInv
<1>3. ~Gone(call[t].slot)
  BY <1>2 DEF Gone, Holds, Holding, Closing
<1> QED
  BY <1>1, <1>2, <1>3 DEF SocketInv, TableInv, Types

LEMMA ConnectKeepsSockets ==
    ASSUME SocketInv, NEW t \in Threads, Connect(t)
    PROVE  SocketInv' /\ crashed' = crashed
<1>1. call[t].at = "connect" /\ call[t].at \in Using
  BY DEF Connect, Using
<1>2. PICK b \in Blocks : b = table[call[t].slot] /\ b # 0 /\ heap[b].live
  BY <1>1, UsedIsThere DEF Socket
<1>3. /\ UNCHANGED <<init, table, ids, crashed>> /\ fds' = fds
      /\ \/ SetsState(b, "ESTABLISHED") /\ Returns(t)
         \/ UNCHANGED heap /\ Returns(t)
         \/ UNCHANGED heap /\ call' = [call EXCEPT ![t].at = "poll", ![t].block = b]
  BY <1>2 DEF Connect
<1>4. CASE SetsState(b, "ESTABLISHED") /\ Returns(t)
  BY <1>1, <1>3, <1>4, StateIsSet, ReturnIsSafe
<1>5. CASE UNCHANGED heap /\ Returns(t)
  BY <1>1, <1>3, <1>5, HeapIsSame, ReturnIsSafe
<1>6. CASE UNCHANGED heap /\ call' = [call EXCEPT ![t].at = "poll", ![t].block = b]
  <2> DEFINE c == [call[t] EXCEPT !.at = "poll", !.block = b]
  <2>1. call[t] \in CallRecord /\ Fits(call[t])
    BY DEF SocketInv, Types, CallsInv
  <2>2. c \in CallRecord
    BY <2>1 DEF CallRecord, Using
  <2>3. c.at = "poll" /\ c.block = b /\ c.slot = call[t].slot /\ c.fd = call[t].fd
    BY <2>1 DEF CallRecord
  <2>4. call' = [call EXCEPT ![t] = c]
    BY <1>6
  <2> HIDE DEF c
  <2>5. Fits(c)
    BY <2>1, <2>3, <1>1, <1>2 DEF Fits, Creating, Holding, Closing, Forwarding, Using
  <2>6. SameHold(call[t], c) /\ MayBeAt(t, c)
    BY <2>3, <1>1 DEF SameHold, MayBeAt, Holding, Closing, Forwarding, Creating, Terming, SocketInv, ApartInv
  <2>7. SameSockets
    BY <1>3, <1>6, HeapIsSame
  <2>8. /\ c.at \in {"enter", "accepted"} <=> call[t].at \in {"enter", "accepted"}
        /\ c.at = "close" <=> call[t].at = "close"
    BY <2>3, <1>1
  <2> QED
    BY <1>3, <2>2, <2>3, <2>4, <2>5, <2>6, <2>7, <2>8, CallMoveIsSafe
<1> QED
  BY <1>3, <1>4, <1>5, <1>6

LEMMA PollKeepsSockets ==
    ASSUME SocketInv, NEW t \in Threads, Poll(t)
    PROVE  SocketInv' /\ crashed' = crashed
<1>1. call[t].at = "poll" /\ call[t].at \in Using
  BY DEF Poll, Using
<1>2. PICK b \in Blocks : b = call[t].block /\ heap[b].live
  BY <1>1, UsedIsThere DEF Socket
<1>3. /\ UNCHANGED <<init, table, ids, crashed>> /\ fds' = fds /\ Returns(t)
      /\ SetsState(b, "ESTABLISHED") \/ UNCHANGED heap
  BY <1>2 DEF Poll
<1>4. SameSockets
  BY <1>3, StateIsSet, HeapIsSame
<1> QED
  BY <1>1, <1>3, <1>4, ReturnIsSafe

LEMMA TransferKeepsSockets ==
    ASSUME SocketInv, NEW t \in Threads, Transfer(t)
    PROVE  SocketInv' /\ crashed' = crashed
<1>1. call[t].at = "transfer" /\ call[t].at \in Using
  BY DEF Transfer, Using
<1>2. PICK b \in Blocks : b = call[t].block /\ heap[b].live
  BY <1>1, UsedIsThere DEF Socket
<1>3. /\ UNCHANGED <<init, table, ids, crashed>> /\ fds' = fds /\ Returns(t)
      /\ SetsState(b, "CLOSED") \/ UNCHANGED heap
  BY <1>2 DEF Transfer
<1>4. SameSockets
  BY <1>3, StateIsSet, HeapIsSame
<1> QED
  BY <1>1, <1>3, <1>4, ReturnIsSafe

LEMMA NoSocketKeepsSockets ==
    ASSUME SocketInv, NEW t \in Threads, NoSocket(t)
    PROVE  SocketInv'
BY HeapIsSame, ReturnIsSafe DEF NoSocket

LEMMA CtlStoppedKeepsSockets ==
    ASSUME SocketInv, NEW t \in Threads, call[t].at \in {"stop", "stopping"}, CtlStopped(t),
           UNCHANGED <<init, table, ids, heap>>, fds' = fds
    PROVE  SocketInv'
<1>1. CASE Returns(t)
  BY <1>1, HeapIsSame, ReturnIsSafe DEF Terming
<1>2. CASE Goes(t, "deleting")
  BY <1>2, GoesIsSafe DEF Follows
<1> QED
  BY <1>1, <1>2 DEF CtlStopped

LEMMA StopUpnpKeepsSockets ==
    ASSUME SocketInv, NEW t \in Threads, StopUpnp(t)
    PROVE  SocketInv'
<1>1. call[t].at = "stop" /\ UNCHANGED <<init, table, ids, heap>> /\ fds' = fds
  BY DEF StopUpnp
<1>2. CASE Goes(t, "stopping")
  BY <1>1, <1>2, GoesIsSafe DEF Follows
<1>3. CASE CtlStopped(t)
  BY <1>1, <1>3, CtlStoppedKeepsSockets
<1> QED
  BY <1>2, <1>3 DEF StopUpnp

LEMMA UpnpIsStoppedKeepsSockets ==
    ASSUME SocketInv, NEW t \in Threads, UpnpIsStopped(t)
    PROVE  SocketInv'
BY CtlStoppedKeepsSockets DEF UpnpIsStopped

LEMMA RouterReadyKeepsSockets ==
    ASSUME SocketInv, NEW t \in Threads, RouterReady(t)
    PROVE  SocketInv'
<1>1. UNCHANGED <<init, table, ids, heap>> /\ fds' = fds
  BY DEF RouterReady
<1>2. CASE call[t].at = "forward" /\ Goes(t, "forwarding")
  BY <1>1, <1>2, GoesIsSafe DEF Follows
<1>3. CASE call[t].at = "unforward" /\ Goes(t, "unforwarding")
  BY <1>1, <1>3, GoesIsSafe DEF Follows
<1> QED
  BY <1>2, <1>3 DEF RouterReady

-----------------------------------------------------------------------------
(* Sockets of the console are made and closed.                             *)

(* A step that concerns no place of the table leaves what is kept there.   *)
LEMMA PlacesKept ==
    ASSUME SocketInv, NEW t \in Threads, NEW c \in CallRecord, call' = [call EXCEPT ![t] = c],
           UNCHANGED <<init, table, ids, heap>>, call[t].at \notin Holding, c.at \notin Holding
    PROVE  /\ AllKeep /\ OthersCarry(t) /\ SameSockets /\ SameHold(call[t], c) /\ call'[t] = c
           /\ c.at \in {"enter", "accepted"} <=> c.fd # 0 => CarriersInv'
<1>1. call'[t] = c /\ \A u \in Threads : u # t => call'[u] = call[u]
  BY DEF SocketInv, Types
<1>2. AllKeep
  BY <1>1 DEF AllKeep, SameKept, Keeps, Live, Socket, Holding
<1>3. OthersCarry(t)
  BY <1>1 DEF OthersCarry, SameCarried, Carries
<1>4. SameHold(call[t], c)
  BY DEF SameHold, Holding, Closing
<1>5. c.at \in {"enter", "accepted"} <=> c.fd # 0 => CarriersInv'
  BY <1>1 DEF CarriersInv, Carries, Carrying, SocketInv, FdInv
<1> QED
  BY <1>1, <1>2, <1>3, <1>4, <1>5, HeapIsSame

LEMMA MakeSocketKeepsSockets ==
    ASSUME SocketInv, NEW t \in Threads, MakeSocket(t)
    PROVE  SocketInv'
<1>1. PICK n \in Fds : n = Min(Fds \ fds) /\ n \notin fds /\ n # 0
  BY FirstFree DEF MakeSocket
<1> DEFINE c == [call[t] EXCEPT !.at = "enter", !.fd = n]
<1>2. /\ call[t].at = "socket" /\ call' = [call EXCEPT ![t] = c] /\ fds' = fds \cup {n}
      /\ UNCHANGED <<init, table, ids, heap>>
  BY <1>1 DEF MakeSocket
<1>3. call[t] \in CallRecord /\ Fits(call[t])
  BY DEF SocketInv, Types, CallsInv
<1>4. c \in CallRecord
  BY <1>1, <1>3, ZenonT(60) DEF CallRecord
<1>5. c.at = "enter" /\ c.fd = n /\ c.do = call[t].do
  BY <1>3 DEF CallRecord
<1> HIDE DEF c
<1>6. call[t].at \notin Holding /\ c.at \notin Holding
  BY <1>2, <1>5 DEF Holding, Closing, Forwarding
<1>7. /\ AllKeep /\ OthersCarry(t) /\ SameSockets /\ SameHold(call[t], c) /\ call'[t] = c /\ CarriersInv'
  BY <1>1, <1>2, <1>4, <1>5, <1>6, PlacesKept
<1>8. Fits(c)
  BY <1>2, <1>3, <1>5 DEF Fits, Creating, Holding, Closing, Forwarding, Using
<1>9. MayBeAt(t, c)
  BY <1>2, <1>5 DEF SocketInv, ApartInv, MayBeAt, Creating, Terming
<1>10. ~Carries(t) /\ Carries(t)' /\ call'[t].fd = n
  BY <1>1, <1>2, <1>5, <1>7 DEF SocketInv, FdInv, Carries
<1>11. FdInv'
  BY <1>1, <1>2, <1>7, <1>10, CarrierGains DEF SocketInv
<1>12. fds' \subseteq Fds
  BY <1>1, <1>2 DEF SocketInv, Types
<1> QED
  BY <1>2, <1>4, <1>7, <1>8, <1>9, <1>11, <1>12, MoveIsSafe

(* A call that carries a socket closes it.                                 *)
LEMMA CarriedIsClosed ==
    ASSUME SocketInv, NEW t \in Threads, call[t].at \in {"enter", "accepted"}, Returns(t),
           fds' = TurnedAway(call[t].fd), UNCHANGED <<init, table, ids, heap>>
    PROVE  SocketInv'
<1>1. call[t].at \notin Holding /\ Idle.at \notin Holding
  BY IdleFits DEF Holding, Closing, Forwarding
<1>2. call' = [call EXCEPT ![t] = Idle]
  BY DEF Returns
<1>3. /\ AllKeep /\ OthersCarry(t) /\ SameSockets /\ SameHold(call[t], Idle) /\ call'[t] = Idle
      /\ CarriersInv'
  BY <1>1, <1>2, IdleFits, PlacesKept
<1>4. MayBeAt(t, Idle)
  BY IdleFits DEF MayBeAt, Creating, Terming
<1>5. Carries(t) /\ ~Carries(t)'
  BY <1>3, IdleFits DEF SocketInv, FdInv, Carries
<1>6. fds' = fds \ {call[t].fd} /\ fds' \subseteq Fds
  BY DEF TurnedAway, SocketInv, Types
<1>7. FdInv'
  BY <1>3, <1>5, <1>6, CarrierLoses DEF SocketInv
<1> QED
  BY <1>2, <1>3, <1>4, <1>6, <1>7, IdleFits, MoveIsSafe

LEMMA TableFullKeepsSockets ==
    ASSUME SocketInv, NEW t \in Threads, TableFull(t)
    PROVE  SocketInv'
BY CarriedIsClosed DEF TableFull

LEMMA RefuseAcceptedKeepsSockets ==
    ASSUME SocketInv, NEW t \in Threads, RefuseAccepted(t)
    PROVE  SocketInv'
BY CarriedIsClosed DEF RefuseAccepted

LEMMA AcceptKeepsSockets ==
    ASSUME SocketInv, NEW t \in Threads, Accept(t)
    PROVE  SocketInv' /\ crashed' = crashed
<1>1. call[t].at = "accept" /\ call[t].at \in Using
  BY DEF Accept, Using
<1>2. PICK b \in Blocks : b = call[t].block /\ heap[b].live
  BY <1>1, UsedIsThere DEF Socket
<1>3. /\ UNCHANGED <<init, table, ids, heap>> /\ crashed' = crashed
      /\ \/ Returns(t) /\ fds' = fds
         \/ /\ Fds \ fds # {} /\ fds' = fds \cup {Min(Fds \ fds)}
            /\ call' = [call EXCEPT ![t].at = "accepted", ![t].fd = Min(Fds \ fds),
                                    ![t].port = heap[call[t].block].port]
  BY <1>2 DEF Accept
<1>4. CASE Returns(t) /\ fds' = fds
  BY <1>1, <1>3, <1>4, HeapIsSame, ReturnIsSafe
<1>5. CASE /\ Fds \ fds # {} /\ fds' = fds \cup {Min(Fds \ fds)}
           /\ call' = [call EXCEPT ![t].at = "accepted", ![t].fd = Min(Fds \ fds),
                                   ![t].port = heap[call[t].block].port]
  <2>1. PICK n \in Fds : n = Min(Fds \ fds) /\ n \notin fds /\ n # 0
    BY <1>5, FirstFree
  <2> DEFINE c == [call[t] EXCEPT !.at = "accepted", !.fd = n, !.port = heap[b].port]
  <2>2. call' = [call EXCEPT ![t] = c] /\ fds' = fds \cup {n}
    BY <1>2, <1>5, <2>1
  <2>3. call[t] \in CallRecord /\ Fits(call[t]) /\ heap[b].port \in Ports \cup {"none"}
    BY DEF SocketInv, Types, CallsInv, SocketRecord
  <2>4. c \in CallRecord
    BY <2>1, <2>3, ZenonT(60) DEF CallRecord, Using
  <2>5. c.at = "accepted" /\ c.fd = n /\ c.slot = call[t].slot
    BY <2>3 DEF CallRecord
  <2> HIDE DEF c
  <2>6. call[t].at \notin Holding /\ c.at \notin Holding
    BY <1>1, <2>5 DEF Holding, Closing, Forwarding
  <2>7. /\ AllKeep /\ OthersCarry(t) /\ SameSockets /\ SameHold(call[t], c) /\ call'[t] = c /\ CarriersInv'
    BY <1>3, <2>1, <2>2, <2>4, <2>5, <2>6, PlacesKept
  <2>8. Fits(c)
    BY <1>1, <2>3, <2>5 DEF Fits, Creating, Holding, Closing, Forwarding, Using
  <2>9. MayBeAt(t, c)
    BY <1>1, <2>5 DEF SocketInv, ApartInv, MayBeAt, Creating, Terming
  <2>10. ~Carries(t) /\ Carries(t)' /\ call'[t].fd = n
    BY <1>1, <2>1, <2>5, <2>7 DEF SocketInv, FdInv, Carries
  <2>11. FdInv'
    BY <2>1, <2>2, <2>7, <2>10, CarrierGains DEF SocketInv
  <2>12. fds' \subseteq Fds
    BY <2>1, <2>2 DEF SocketInv, Types
  <2> QED
    BY <1>3, <2>2, <2>4, <2>7, <2>8, <2>9, <2>11, <2>12, MoveIsSafe
<1> QED
  BY <1>3, <1>4, <1>5

(* A place that is held by a call is held by no other, and is in use.      *)
LEMMA HeldIsThere ==
    ASSUME SocketInv, NEW t \in Threads, call[t].at \in Holding
    PROVE  /\ call[t].slot \in Slots /\ table[call[t].slot] \in Blocks /\ table[call[t].slot] # 0
           /\ \A u \in Threads : u # t => ~Holds(u, call[t].slot)
           /\ \A u \in Threads : call[t].slot \notin ids[u]
           /\ Gone(call[t].slot) <=> call[t].at = "clear"
           /\ call[t].at # "clear" => Socket(call[t].slot).live
<1> DEFINE i == call[t].slot
<1>1. i \in Slots /\ table[i] # 0
  BY DEF SocketInv, CallsInv, Fits
<1>2. \A u \in Threads : u # t => ~Holds(u, i)
  BY DEF SocketInv, OwnInv
<1>3. \A u \in Threads : i \notin ids[u]
  BY DEF SocketInv, OwnInv, Holds
<1>4. Gone(i) <=> call[t].at = "clear"
  BY <1>2 DEF Gone, Holds, Holding, Closing
<1> QED
  BY <1>1, <1>2, <1>3, <1>4 DEF SocketInv, TableInv, Types

LEMMA CloseSocketKeepsSockets ==
    ASSUME SocketInv, NEW t \in Threads, CloseSocket(t)
    PROVE  SocketInv'
<1>1. call[t].at = "close" /\ call[t].at \in Holding
  BY DEF CloseSocket, Holding, Closing
<1>2. PICK i \in Slots :
         /\ i = call[t].slot /\ table[i] \in Blocks /\ table[i] # 0 /\ Socket(i).live /\ ~Gone(i)
         /\ \A u \in Threads : u # t => ~Holds(u, i)
  BY <1>1, HeldIsThere
<1>3. PICK place \in {"unforward", "free"} :
         call' = [call EXCEPT ![t].at = place, ![t].do = Socket(i).kind, ![t].port = Socket(i).port]
  BY <1>2 DEF CloseSocket
<1> DEFINE c == [call[t] EXCEPT !.at = place, !.do = Socket(i).kind, !.port = Socket(i).port]
<1>4. call' = [call EXCEPT ![t] = c]
  BY <1>3
<1>5. /\ call[t] \in CallRecord /\ Fits(call[t])
      /\ Socket(i).kind \in SocketKinds /\ Socket(i).port \in Ports \cup {"none"}
  BY <1>2 DEF SocketInv, Types, CallsInv, Socket, SocketRecord, SocketKinds
<1>6. c \in CallRecord
  BY <1>5, ZenonT(60) DEF CallRecord, Holding, Closing
<1>7. /\ c.at = place /\ c.slot = i /\ c.do = Socket(i).kind /\ c.port = Socket(i).port
      /\ c.fd = call[t].fd
  BY <1>2, <1>5 DEF CallRecord
<1> HIDE DEF c
<1>8. fds' = fds \ {heap[table[i]].fd} /\ fds' \subseteq Fds /\ UNCHANGED <<init, table, ids, heap>>
  BY <1>2 DEF CloseSocket, Socket, SocketInv, Types
<1>9. call'[t] = c /\ \A u \in Threads : u # t => call'[u] = call[u]
  BY <1>4 DEF SocketInv, Types
<1>10. SameHold(call[t], c) /\ MayBeAt(t, c) /\ Fits(c)
  <2>1. SameHold(call[t], c)
    BY <1>1, <1>2, <1>7 DEF SameHold, Holding, Closing
  <2>2. MayBeAt(t, c)
    BY <1>1, <1>7 DEF SocketInv, ApartInv, MayBeAt, Creating, Terming
  <2>3. Fits(c)
    BY <1>2, <1>7 DEF Fits, Creating, Holding, Closing, Forwarding, Using
  <2> QED
    BY <2>1, <2>2, <2>3
<1>11. CarriedKept /\ CarriersInv'
  BY <1>1, <1>7, <1>9 DEF CarriedKept, SameCarried, Carries, CarriersInv, Carrying, SocketInv, FdInv
<1>12. Keeps(i) /\ ~Keeps(i)' /\ OthersKeep(i)
  <2>1. Keeps(i)
    BY <1>1, <1>2 DEF Keeps, Live, Holds, Holding
  <2>2. ~Keeps(i)'
    BY <1>7, <1>9 DEF Keeps, Closing
  <2>3. OthersKeep(i)
    BY <1>1, <1>2, <1>7, <1>8, <1>9 DEF OthersKeep, SameKept, Keeps, Live, Socket
  <2> QED
    BY <2>1, <2>2, <2>3
<1>13. FdInv'
  BY <1>8, <1>11, <1>12, KeeperLoses DEF SocketInv
<1>14. SameSockets
  BY <1>8, HeapIsSame
<1> QED
  BY <1>4, <1>6, <1>8, <1>10, <1>13, <1>14, MoveIsSafe

-----------------------------------------------------------------------------
(* Steps that change who owns a place of the table.                        *)

(* The call of t goes on at c; what that means for the places.             *)
LEMMA CallIsAt ==
    ASSUME SocketInv, NEW t \in Threads, NEW c \in CallRecord, call' = [call EXCEPT ![t] = c]
    PROVE  /\ call'[t] = c /\ \A u \in Threads : u # t => call'[u] = call[u]
           /\ call' \in [Threads -> CallRecord]
           /\ \A i \in Slots : Holds(t, i)' <=> c.at \in Holding /\ c.slot = i
           /\ \A u \in Threads, i \in Slots : u # t => (Holds(u, i)' <=> Holds(u, i))
<1>1. /\ call'[t] = c /\ \A u \in Threads : u # t => call'[u] = call[u]
      /\ call' \in [Threads -> CallRecord]
  BY DEF SocketInv, Types
<1> QED
  BY <1>1 DEF Holds

(* One place changes its owner: t has it, or holds it, or it is free.      *)
LEMMA OwnerChanges ==
    ASSUME SocketInv, Types', NEW i \in Slots, NEW t \in Threads,
           \A j \in Slots : j # i => table'[j] = table[j],
           \A u \in Threads, j \in Slots : j # i => (j \in ids'[u] <=> j \in ids[u]),
           \A u \in Threads, j \in Slots : j # i => (Holds(u, j)' <=> Holds(u, j)),
           \A u \in Threads : i \in ids'[u] \/ Holds(u, i)' => u = t /\ table'[i] # 0,
           ~(i \in ids'[t] /\ Holds(t, i)'),
           table'[i] # 0 => i \in ids'[t] \/ Holds(t, i)',
           \A u \in Threads : call'[u].at \in Holding => call'[u].slot \in Slots
    PROVE  OwnInv'
<1>1. \A u \in Threads : ids[u] \subseteq Slots /\ ids'[u] \subseteq Slots
  BY DEF SocketInv, Types
<1>2. \A u \in Threads : \A j \in ids'[u] : table'[j] # 0 /\ \A v \in Threads : ~Holds(v, j)'
  <2> SUFFICES ASSUME NEW u \in Threads, NEW j \in ids'[u]
               PROVE  table'[j] # 0 /\ \A v \in Threads : ~Holds(v, j)'
    OBVIOUS
  <2>1. CASE j = i
    BY <2>1
  <2>2. CASE j # i
    <3>1. j \in Slots /\ j \in ids[u]
      BY <1>1, <2>2
    <3>2. table[j] # 0 /\ \A v \in Threads : ~Holds(v, j)
      BY <3>1 DEF SocketInv, OwnInv
    <3> QED
      BY <2>2, <3>1, <3>2
  <2> QED
    BY <2>1, <2>2
<1>3. \A u, v \in Threads : ids'[u] \cap ids'[v] # {} => u = v
  <2> SUFFICES ASSUME NEW u \in Threads, NEW v \in Threads, NEW j \in ids'[u], j \in ids'[v]
               PROVE  u = v
    OBVIOUS
  <2>1. CASE j = i
    BY <2>1
  <2>2. CASE j # i
    <3>1. j \in ids[u] /\ j \in ids[v]
      BY <1>1, <2>2
    <3> QED
      BY <3>1 DEF SocketInv, OwnInv
  <2> QED
    BY <2>1, <2>2
<1>4. \A u, v \in Threads : call'[u].at \in Holding /\ Holds(v, call[u].slot)' => u = v
  <2> SUFFICES ASSUME NEW u \in Threads, NEW v \in Threads, NEW j \in Slots,
                      Holds(u, j)', Holds(v, j)'
               PROVE  u = v
    BY DEF Holds
  <2>1. CASE j = i
    BY <2>1
  <2>2. CASE j # i
    <3>1. Holds(u, j) /\ Holds(v, j)
      BY <2>2
    <3> QED
      BY <3>1 DEF SocketInv, OwnInv, Holds
  <2> QED
    BY <2>1, <2>2
<1>5. \A j \in Slots : table'[j] # 0 => \E u \in Threads : j \in ids'[u] \/ Holds(u, j)'
  BY DEF SocketInv, OwnInv
<1> QED
  BY <1>2, <1>3, <1>4, <1>5 DEF OwnInv, Holds

(* The calls of the other threads go on as they were.                      *)
LEMMA OthersFit ==
    ASSUME SocketInv, NEW t \in Threads, Fits(call[t])',
           \A u \in Threads : u # t => call'[u] = call[u],
           \A u \in Threads : u # t /\ call[u].at \in Holding \cup Using =>
              table'[call[u].slot] = table[call[u].slot],
           \A u \in Threads : u # t /\ call[u].at \in Forwarding \cup {"unforward", "unforwarding"} =>
              heap'[table[call[u].slot]] = heap[table[call[u].slot]],
           \A u \in Threads : u # t /\ call[u].at \in Using => \E v \in Threads : call[u].slot \in ids'[v]
    PROVE  CallsInv'
<1> SUFFICES ASSUME NEW u \in Threads, u # t
             PROVE  Fits(call[u])'
  BY DEF CallsInv
<1>1. Fits(call[u]) /\ call'[u] = call[u]
  BY DEF SocketInv, CallsInv
<1>2. /\ call[u].at \in Creating => call[u].do \in SocketKinds
      /\ call[u].at \in Holding => call[u].slot \in Slots /\ table'[call[u].slot] # 0
  BY <1>1 DEF Fits
<1>3. /\ call[u].at \in Forwarding \cup {"unforward", "unforwarding"} =>
            /\ call[u].do = heap'[table'[call[u].slot]].kind
            /\ call[u].port = heap'[table'[call[u].slot]].port
      /\ call[u].at \in Forwarding => heap'[table'[call[u].slot]].mode = "LISTEN"
  BY <1>1 DEF Fits, Socket, Holding, Closing
<1>4. /\ call[u].at \in Using => call[u].slot \in Slots /\ \E v \in Threads : call[u].slot \in ids'[v]
      /\ call[u].at \in {"poll", "transfer", "accept"} => call[u].block = table'[call[u].slot]
  BY <1>1 DEF Fits, Using
<1> QED
  BY <1>1, <1>2, <1>3, <1>4 DEF Fits, Socket

(* A thread that closes a socket it has got.                               *)
LEMMA CloseKeepsSockets ==
    ASSUME SocketInv, "overlap" \notin Habits, "abort" \notin Habits,
           NEW t \in Threads, NEW i \in Slots, Close(t, i)
    PROVE  SocketInv'
<1> DEFINE c == [Idle EXCEPT !.at = "close", !.slot = i]
<1>1. c \in CallRecord /\ c.at = "close" /\ c.at \in Holding /\ c.slot = i /\ c.fd = 0
  BY DEF Idle, CallRecord, Holding, Closing
<1>2. /\ call' = [call EXCEPT ![t] = c] /\ ids' = [ids EXCEPT ![t] = @ \ {i}]
      /\ UNCHANGED <<init, table, heap>> /\ fds' = fds
  BY DEF Close
<1> HIDE DEF c
<1>3. /\ init /\ call[t] = Idle /\ i \in ids[t]
      /\ \A u \in Threads : call[u].slot # i /\ call[u].at \notin Creating /\ call[u].at \notin Terming
  BY DEF Close, MayClose, MayCall
<1>4. call[t].at = "idle" /\ call[t].fd = 0 /\ call[t].at \notin Holding
  BY <1>3, IdleFits DEF Holding, Closing, Forwarding
<1>5. /\ call'[t] = c /\ \A u \in Threads : u # t => call'[u] = call[u]
      /\ call' \in [Threads -> CallRecord]
      /\ \A j \in Slots : Holds(t, j)' <=> j = i
      /\ \A u \in Threads, j \in Slots : u # t => (Holds(u, j)' <=> Holds(u, j))
  BY <1>1, <1>2, CallIsAt, ZenonT(60)
<1>6. /\ ids' \in [Threads -> SUBSET Slots] /\ ids'[t] = ids[t] \ {i}
      /\ \A u \in Threads : u # t => ids'[u] = ids[u] /\ i \notin ids[u]
  BY <1>2, <1>3 DEF SocketInv, Types, OwnInv
<1>7. table[i] # 0 /\ \A u \in Threads : ~Holds(u, i)
  BY <1>3 DEF SocketInv, OwnInv
<1>8. Types'
  BY <1>2, <1>5, <1>6 DEF SocketInv, Types
<1>9. \A u \in Threads : call'[u].at \in Holding => call'[u].slot \in Slots
  BY <1>1, <1>5 DEF SocketInv, CallsInv, Fits
<1>10. OwnInv'
  <2>1. \A u \in Threads, j \in Slots : j # i => (j \in ids'[u] <=> j \in ids[u])
    BY <1>6
  <2>2. \A u \in Threads, j \in Slots : j # i => (Holds(u, j)' <=> Holds(u, j))
    BY <1>4, <1>5 DEF Holds
  <2>3. \A u \in Threads : i \in ids'[u] \/ Holds(u, i)' => u = t /\ table'[i] # 0
    BY <1>2, <1>5, <1>6, <1>7
  <2>4. ~(i \in ids'[t] /\ Holds(t, i)') /\ Holds(t, i)'
    BY <1>5, <1>6
  <2> QED
    BY <1>2, <1>8, <1>9, <2>1, <2>2, <2>3, <2>4, OwnerChanges
<1>11. \A j \in Slots : Gone(j)' <=> Gone(j)
  BY <1>1, <1>4, <1>5 DEF Gone
<1>12. TableInv'
  BY <1>2, <1>11 DEF SocketInv, TableInv, Socket
<1>13. CallsInv'
  <2>1. Fits(call[t])'
    BY <1>1, <1>2, <1>5, <1>7 DEF Fits, Creating, Forwarding, Using
  <2>2. \A u \in Threads : u # t /\ call[u].at \in Using => \E v \in Threads : call[u].slot \in ids'[v]
    BY <1>3, <1>6 DEF SocketInv, CallsInv, Fits
  <2> QED
    BY <1>2, <1>5, <2>1, <2>2, OthersFit
<1>14. ApartInv'
  BY <1>1, <1>2, <1>3, <1>4, <1>5 DEF SocketInv, ApartInv, Creating, Closing, Terming
<1>15. CarriedKept /\ CarriersInv'
  BY <1>1, <1>4, <1>5 DEF CarriedKept, SameCarried, Carries, CarriersInv, Carrying, SocketInv, FdInv
<1>16. AllKeep
  BY <1>1, <1>2, <1>4, <1>5 DEF AllKeep, SameKept, Keeps, Live, Socket, Closing
<1>17. FdInv'
  BY <1>2, <1>15, <1>16, FdsKept DEF SocketInv
<1> QED
  BY <1>8, <1>10, <1>12, <1>13, <1>14, <1>17 DEF SocketInv

(* The id is returned: what the call has held is the thread's.             *)
LEMMA MadeKeepsSockets ==
    ASSUME SocketInv, NEW t \in Threads, call[t].at \in Forwarding, Made(t),
           UNCHANGED <<init, table>>, fds' = fds
    PROVE  SocketInv'
<1>1. call[t].at \in Holding /\ call[t].at \in Creating /\ call[t].at # "clear"
  BY DEF Holding, Forwarding, Creating
<1>2. PICK i \in Slots :
         /\ i = call[t].slot /\ table[i] \in Blocks /\ table[i] # 0 /\ Socket(i).live /\ ~Gone(i)
         /\ \A u \in Threads : u # t => ~Holds(u, i)
         /\ \A u \in Threads : i \notin ids[u]
  BY <1>1, HeldIsThere
<1>3. PICK c \in CallRecord :
         /\ call' = [call EXCEPT ![t] = c] /\ c.at \in {"idle", "connect"} /\ c.fd = 0
         /\ c.at = "connect" => c.slot = i
  <2>1. CASE call[t].do = "STREAM"
    <3> DEFINE c == [Idle EXCEPT !.at = "connect", !.do = "nonblock", !.slot = i]
    <3>1. c \in CallRecord /\ c.at = "connect" /\ c.slot = i /\ c.fd = 0
      BY DEF Idle, CallRecord, Using
    <3>2. call' = [call EXCEPT ![t] = c]
      BY <1>2, <2>1 DEF Made
    <3> HIDE DEF c
    <3> QED
      BY <3>1, <3>2
  <2>2. CASE call[t].do # "STREAM"
    BY <2>2, IdleFits DEF Made, Returns
  <2> QED
    BY <2>1, <2>2
<1>4. c.at \notin Holding /\ c.at \notin Creating /\ c.at \notin Closing /\ c.at \notin Terming
  BY <1>3 DEF Holding, Closing, Forwarding, Creating, Terming
<1>5. /\ call'[t] = c /\ \A u \in Threads : u # t => call'[u] = call[u]
      /\ call' \in [Threads -> CallRecord]
      /\ \A j \in Slots : ~Holds(t, j)'
      /\ \A u \in Threads, j \in Slots : u # t => (Holds(u, j)' <=> Holds(u, j))
  BY <1>3, <1>4, CallIsAt
<1>6. /\ ids' \in [Threads -> SUBSET Slots] /\ ids'[t] = ids[t] \cup {i}
      /\ \A u \in Threads : u # t => ids'[u] = ids[u]
  BY <1>2 DEF Made, SocketInv, Types
<1>7. /\ heap' \in [Blocks -> SocketRecord]
      /\ \A b \in Blocks : /\ heap'[b].live = heap[b].live /\ heap'[b].fd = heap[b].fd
                           /\ b # table[i] => heap'[b] = heap[b]
  <2>1. CASE heap' = [heap EXCEPT ![table[i]].mode = "OPEN"]
    <3> DEFINE r == [heap[table[i]] EXCEPT !.mode = "OPEN"]
    <3>1. r \in SocketRecord /\ r.live = heap[table[i]].live /\ r.fd = heap[table[i]].fd
      <4>1. heap[table[i]] \in SocketRecord
        BY <1>2 DEF SocketInv, Types
      <4> QED
        BY <4>1 DEF SocketRecord
    <3>2. heap' = [heap EXCEPT ![table[i]] = r]
      BY <2>1
    <3> HIDE DEF r
    <3> QED
      BY <1>2, <3>1, <3>2 DEF SocketInv, Types
  <2>2. CASE heap' = heap
    BY <2>2 DEF SocketInv, Types
  <2> QED
    BY <1>2, <2>1, <2>2 DEF Made
<1>8. Types'
  BY <1>5, <1>6, <1>7 DEF SocketInv, Types
<1>9. OwnInv'
  <2>1. \A u \in Threads, j \in Slots : j # i => (j \in ids'[u] <=> j \in ids[u])
    BY <1>6
  <2>2. \A u \in Threads, j \in Slots : j # i => (Holds(u, j)' <=> Holds(u, j))
    BY <1>2, <1>5 DEF Holds
  <2>3. \A u \in Threads : i \in ids'[u] \/ Holds(u, i)' => u = t /\ table'[i] # 0
    BY <1>2, <1>5, <1>6
  <2>4. ~(i \in ids'[t] /\ Holds(t, i)') /\ i \in ids'[t]
    BY <1>5, <1>6
  <2>5. \A u \in Threads : call'[u].at \in Holding => call'[u].slot \in Slots
    BY <1>4, <1>5 DEF SocketInv, CallsInv, Fits
  <2> QED
    BY <1>8, <2>1, <2>2, <2>3, <2>4, <2>5, OwnerChanges
<1>10. \A j \in Slots : Gone(j)' <=> Gone(j)
  BY <1>1, <1>3, <1>5 DEF Gone
<1>11. TableInv'
  BY <1>7, <1>10 DEF SocketInv, TableInv, Socket, Types
<1>12. CallsInv'
  <2>1. Fits(call[t])'
    <3>1. c.at = "connect" => c.slot \in Slots /\ \E u \in Threads : c.slot \in ids'[u]
      BY <1>3, <1>6
    <3> QED
      BY <1>3, <1>5, <3>1 DEF Fits, Holding, Closing, Forwarding, Creating, Using
  <2>2. \A u \in Threads : u # t /\ call[u].at \in Using => \E v \in Threads : call[u].slot \in ids'[v]
    BY <1>6 DEF SocketInv, CallsInv, Fits
  <2>3. ASSUME NEW u \in Threads, u # t, call[u].at \in Forwarding \cup {"unforward", "unforwarding"}
        PROVE  heap'[table[call[u].slot]] = heap[table[call[u].slot]]
    <3>1. call[u].at \in Holding /\ call[u].at # "clear"
      BY <2>3 DEF Holding, Closing, Forwarding
    <3>2. call[u].slot \in Slots /\ table[call[u].slot] \in Blocks /\ ~Gone(call[u].slot)
      BY <3>1, HeldIsThere
    <3>3. call[u].slot # i
      BY <1>2, <2>3, <3>1 DEF Holds
    <3>4. table[call[u].slot] # table[i]
      BY <1>2, <3>2, <3>3 DEF SocketInv, TableInv
    <3> QED
      BY <1>7, <3>2, <3>4
  <2> QED
    BY <1>5, <2>1, <2>2, <2>3, OthersFit
<1>13. ApartInv'
  <2>1. init
    BY <1>1 DEF SocketInv, ApartInv, Creating
  <2>2. \A u \in Threads : call[u].at \notin Terming
    BY <1>1 DEF SocketInv, ApartInv, Creating, Terming
  <2> QED
    BY <1>4, <1>5, <2>1, <2>2 DEF SocketInv, ApartInv
<1>14. CarriedKept /\ CarriersInv'
  BY <1>1, <1>3, <1>5 DEF CarriedKept, SameCarried, Carries, CarriersInv, Carrying, SocketInv, FdInv, Creating, Holding, Closing, Forwarding
<1>15. AllKeep
  <2>1. call[t].at \notin Closing
    BY DEF Forwarding, Closing
  <2> QED
    BY <1>4, <1>5, <1>7, <2>1 DEF AllKeep, SameKept, Keeps, Live, Socket, SocketInv, Types
<1>16. FdInv'
  BY <1>14, <1>15, FdsKept DEF SocketInv
<1> QED
  BY <1>8, <1>9, <1>11, <1>12, <1>13, <1>16 DEF SocketInv

LEMMA NoRouterYetKeepsSockets ==
    ASSUME SocketInv, NEW t \in Threads, NoRouterYet(t)
    PROVE  SocketInv'
<1>1. UNCHANGED <<init, table>> /\ fds' = fds
  BY DEF NoRouterYet
<1>2. CASE call[t].at = "forward" /\ Made(t)
  BY <1>1, <1>2, MadeKeepsSockets DEF Forwarding
<1>3. CASE call[t].at = "unforward" /\ Goes(t, "free") /\ UNCHANGED <<heap, mutex, ids>>
  BY <1>1, <1>3, GoesIsSafe DEF Follows
<1> QED
  BY <1>2, <1>3 DEF NoRouterYet

LEMMA SocketsUnchanged ==
    ASSUME SocketInv, UNCHANGED socketVars
    PROVE  SocketInv'
BY DEF SocketInv, socketVars, Types, OwnInv, TableInv, CallsInv, Fits, FdInv, Holds, Gone, Keeps, Live,
       Carries, Socket, ApartInv

LEMMA ForwardedKeepsSockets ==
    ASSUME SocketInv, NEW t \in Threads, Forwarded(t)
    PROVE  SocketInv'
<1>1. CASE urls
  BY <1>1, MadeKeepsSockets DEF Forwarded, Forwarding
<1>2. CASE ~urls
  BY <1>2, SocketsUnchanged DEF Forwarded, Crash
<1> QED
  BY <1>1, <1>2

LEMMA UnforwardedKeepsSockets ==
    ASSUME SocketInv, NEW t \in Threads, Unforwarded(t)
    PROVE  SocketInv'
<1>1. CASE urls
  <2>1. /\ UNCHANGED <<init, table, ids, heap>> /\ fds' = fds
        /\ Goes(t, "free") /\ call[t].at = "unforwarding"
    BY <1>1 DEF Unforwarded
  <2> QED
    BY <2>1, GoesIsSafe DEF Follows
<1>2. CASE ~urls
  BY <1>2, SocketsUnchanged DEF Unforwarded, Crash
<1> QED
  BY <1>1, <1>2

(* A structure is put into the first free place.  No place that is in use  *)
(* points to it, but those of structures that have been freed.             *)
LEMMA EnteredIsApart ==
    ASSUME SocketInv, NEW t \in Threads, NEW s \in SocketRecord, FreeSlots # {}, FreeBlocks # {},
           Entered(t, s)
    PROVE  LET i == Min(FreeSlots)
               b == Min(FreeBlocks)
           IN  /\ i \in Slots /\ b \in Blocks /\ b # 0 /\ table[i] = 0
               /\ table' \in [Slots -> Blocks \cup {0}] /\ heap' \in [Blocks -> SocketRecord]
               /\ table'[i] = b /\ heap'[b] = s
               /\ \A j \in Slots : j # i => table'[j] = table[j]
               /\ \A d \in Blocks : d # b => heap'[d] = heap[d]
               /\ \A j \in Slots : table[j] # 0 /\ ~Gone(j) => table[j] # b
               /\ \A u \in Threads : i \notin ids[u] /\ ~Holds(u, i)
<1>1. Min(FreeSlots) \in Slots /\ table[Min(FreeSlots)] = 0
  BY FirstFree
<1>2. Min(FreeBlocks) \in Blocks /\ ~heap[Min(FreeBlocks)].live
  BY FirstFree
<1>3. \A j \in Slots : table[j] # 0 /\ ~Gone(j) => table[j] # Min(FreeBlocks)
  BY <1>2 DEF SocketInv, TableInv, Socket
<1>4. \A u \in Threads : Min(FreeSlots) \notin ids[u] /\ ~Holds(u, Min(FreeSlots))
  BY <1>1 DEF SocketInv, OwnInv, CallsInv, Fits, Holds
<1> QED
  BY <1>1, <1>2, <1>3, <1>4 DEF Entered, SocketInv, Types

(* The new place is held by the call that goes on, or is the thread's.     *)
LEMMA NewPlaceIsOwned ==
    ASSUME SocketInv, NEW t \in Threads, NEW s \in SocketRecord, NEW c \in CallRecord, NEW i \in Slots,
           call[t].at \in {"enter", "accepted"}, call' = [call EXCEPT ![t] = c], c.fd = 0,
           FreeSlots # {}, FreeBlocks # {}, Entered(t, s), s.live, s.fd = call[t].fd,
           i = Min(FreeSlots), UNCHANGED init, fds' = fds,
           \/ /\ call[t].at = "enter" /\ c.at = "forward" /\ c.slot = i /\ ids' = ids
              /\ c.do = s.kind /\ c.port = s.port /\ s.mode = "LISTEN"
           \/ c = Idle /\ ids' = [ids EXCEPT ![t] = @ \cup {i}]
    PROVE  SocketInv'
<1>1. PICK b \in Blocks :
         /\ b # 0 /\ table[i] = 0
         /\ table' \in [Slots -> Blocks \cup {0}] /\ heap' \in [Blocks -> SocketRecord]
         /\ table'[i] = b /\ heap'[b] = s
         /\ \A j \in Slots : j # i => table'[j] = table[j]
         /\ \A d \in Blocks : d # b => heap'[d] = heap[d]
         /\ \A j \in Slots : table[j] # 0 /\ ~Gone(j) => table[j] # b
         /\ \A u \in Threads : i \notin ids[u] /\ ~Holds(u, i)
  BY EnteredIsApart
<1>2. /\ call'[t] = c /\ \A u \in Threads : u # t => call'[u] = call[u]
      /\ call' \in [Threads -> CallRecord]
      /\ \A j \in Slots : Holds(t, j)' <=> c.at \in Holding /\ c.slot = j
      /\ \A u \in Threads, j \in Slots : u # t => (Holds(u, j)' <=> Holds(u, j))
  BY CallIsAt
<1>3. call[t].at \notin Holding /\ call[t].at \notin Closing /\ call[t].at \notin Terming
  BY DEF Holding, Closing, Forwarding, Terming
<1>4. c.at \in {"forward", "idle"} /\ c.at \notin Closing /\ c.at \notin Terming
  BY IdleFits DEF Closing, Terming
<1>5. c.at \in Holding <=> c.at = "forward"
  BY <1>4 DEF Holding, Closing, Forwarding
<1>6. /\ ids' \in [Threads -> SUBSET Slots]
      /\ \A u \in Threads, j \in Slots : j # i => (j \in ids'[u] <=> j \in ids[u])
      /\ \A u \in Threads : i \in ids'[u] <=> u = t /\ c.at = "idle"
  BY <1>1, IdleFits DEF SocketInv, Types
<1>7. Types'
  BY <1>1, <1>2, <1>6 DEF SocketInv, Types
<1>8. OwnInv'
  <2>1. \A u \in Threads, j \in Slots : j # i => (Holds(u, j)' <=> Holds(u, j))
    BY <1>2, <1>3, <1>5, IdleFits DEF Holds
  <2>2. \A u \in Threads : Holds(u, i)' <=> u = t /\ c.at = "forward"
    BY <1>1, <1>2, <1>5, IdleFits
  <2>3. \A u \in Threads : i \in ids'[u] \/ Holds(u, i)' => u = t /\ table'[i] # 0
    BY <1>1, <1>6, <2>2
  <2>4. ~(i \in ids'[t] /\ Holds(t, i)') /\ (i \in ids'[t] \/ Holds(t, i)')
    BY <1>4, <1>6, <2>2
  <2>5. \A u \in Threads : call'[u].at \in Holding => call'[u].slot \in Slots
    BY <1>2, <1>5, IdleFits DEF SocketInv, CallsInv, Fits
  <2> QED
    BY <1>1, <1>6, <1>7, <2>1, <2>3, <2>4, <2>5, OwnerChanges
<1>9. \A j \in Slots : Gone(j)' <=> Gone(j)
  BY <1>2, <1>4 DEF Gone
<1>10. ~Gone(i)
  BY <1>1 DEF Gone, Holds, Holding, Closing
<1>11. TableInv'
  <2>1. ASSUME NEW j \in Slots, table'[j] # 0, ~Gone(j)
        PROVE  heap'[table'[j]].live
    BY <1>1, <2>1 DEF SocketInv, TableInv, Socket, Types
  <2>2. ASSUME NEW j \in Slots, NEW k \in Slots, table'[j] = table'[k], table'[j] # 0, ~Gone(j), ~Gone(k)
        PROVE  j = k
    BY <1>1, <2>2 DEF SocketInv, TableInv
  <2> QED
    BY <1>9, <2>1, <2>2 DEF TableInv, Socket
<1>12. CallsInv'
  <2>1. Fits(call[t])'
    <3>1. CASE c.at = "forward"
      <4>1. /\ c.do = heap'[table'[c.slot]].kind /\ c.port = heap'[table'[c.slot]].port
            /\ heap'[table'[c.slot]].mode = "LISTEN" /\ c.slot \in Slots /\ table'[c.slot] # 0
            /\ c.do \in SocketKinds
        BY <1>1, <3>1, IdleFits DEF SocketRecord, SocketKinds
      <4> QED
        BY <1>2, <3>1, <4>1 DEF Fits, Socket, Creating, Holding, Closing, Forwarding, Using
    <3>2. CASE c.at = "idle"
      BY <1>2, <3>2 DEF Fits, Creating, Holding, Closing, Forwarding, Using
    <3> QED
      BY <1>4, <3>1, <3>2
  <2>2. ASSUME NEW u \in Threads, u # t, call[u].at \in Holding \cup Using
        PROVE  call[u].slot \in Slots /\ call[u].slot # i /\ table[call[u].slot] # 0
    <3>1. CASE call[u].at \in Holding
      BY <1>1, <3>1, HeldIsThere
    <3>2. CASE call[u].at \in Using
      BY <1>1, <3>2, UsedIsThere
    <3> QED
      BY <2>2, <3>1, <3>2
  <2>3. \A u \in Threads : u # t /\ call[u].at \in Holding \cup Using =>
           table'[call[u].slot] = table[call[u].slot]
    BY <1>1, <2>2
  <2>4. ASSUME NEW u \in Threads, u # t, call[u].at \in Forwarding \cup {"unforward", "unforwarding"}
        PROVE  heap'[table[call[u].slot]] = heap[table[call[u].slot]]
    <3>1. call[u].at \in Holding /\ call[u].at # "clear"
      BY <2>4 DEF Holding, Closing, Forwarding
    <3>2. call[u].slot \in Slots /\ table[call[u].slot] \in Blocks /\ table[call[u].slot] # 0 /\ ~Gone(call[u].slot)
      BY <3>1, HeldIsThere
    <3> QED
      BY <1>1, <3>2
  <2>5. \A u \in Threads : u # t /\ call[u].at \in Using => \E v \in Threads : call[u].slot \in ids'[v]
    BY <1>6, <2>2 DEF SocketInv, CallsInv, Fits
  <2> QED
    BY <1>2, <2>1, <2>3, <2>4, <2>5, OthersFit
<1>13. ApartInv'
  <2>1. init
    BY DEF SocketInv, ApartInv
  <2>2. \A u \in Threads : call[u].at \notin Terming
    BY <1>3 DEF SocketInv, ApartInv, Terming
  <2>3. c.at \in Creating => \A u \in Threads : call[u].at \notin Closing
    BY IdleFits DEF SocketInv, ApartInv, Creating
  <2> QED
    BY <1>2, <1>4, <2>1, <2>2, <2>3 DEF SocketInv, ApartInv
<1>14. Carries(t) /\ ~Carries(t)' /\ OthersCarry(t) /\ CarriersInv'
  BY <1>2, <1>4 DEF SocketInv, FdInv, Carries, Carrying, CarriersInv, OthersCarry, SameCarried
<1>15. ~Keeps(i) /\ Keeps(i)' /\ OthersKeep(i)
  <2>1. ~Keeps(i)
    BY <1>1 DEF Keeps, Live
  <2>2. \A u \in Threads : call'[u].at \in Closing \ {"close"} => call'[u].slot # i
    BY <1>1, <1>2, <1>4 DEF Holds, Holding
  <2>3. Keeps(i)'
    BY <1>1, <2>2 DEF Keeps, Live, Socket
  <2>4. \A j \in Slots : Keeps(j) => ~Gone(j)
    BY DEF Keeps, Gone, Closing
  <2>5. \A j \in Slots : Keeps(j)' => ~Gone(j)
    BY <1>2, <1>3 DEF Keeps, Gone, Closing
  <2>6. ASSUME NEW j \in Slots, j # i
        PROVE  SameKept(j)
    <3>1. CASE table[j] # 0 /\ ~Gone(j)
      <4>1. table[j] # b /\ table[j] \in Blocks /\ table'[j] = table[j] /\ heap'[table[j]] = heap[table[j]]
        BY <1>1, <2>6, <3>1 DEF SocketInv, Types
      <4>2. Live(j)' <=> Live(j)
        BY <4>1 DEF Live, Socket
      <4>3. Keeps(j)' <=> Keeps(j)
        BY <1>2, <1>3, <1>4, <4>2 DEF Keeps
      <4> QED
        BY <4>1, <4>3 DEF SameKept
    <3>2. CASE table[j] = 0 \/ Gone(j)
      <4>1. ~Keeps(j) /\ ~Keeps(j)'
        BY <1>1, <2>4, <2>5, <2>6, <3>2 DEF Keeps, Live
      <4> QED
        BY <4>1 DEF SameKept
    <3> QED
      BY <3>1, <3>2
  <2> QED
    BY <2>1, <2>3, <2>6 DEF OthersKeep
<1>16. FdInv'
  BY <1>1, <1>14, <1>15, CarrierToKeeper DEF SocketInv
<1> QED
  BY <1>7, <1>8, <1>11, <1>12, <1>13, <1>16 DEF SocketInv

LEMMA EnterKeepsSockets ==
    ASSUME SocketInv, NEW t \in Threads, Enter(t)
    PROVE  SocketInv'
<1> DEFINE s == [live |-> TRUE, kind |-> call[t].do, port |-> call[t].port,
                 remote |-> call[t].remote, mode |-> "LISTEN", fd |-> call[t].fd,
                 state |-> IF call[t].do = "LISTEN" THEN "LISTEN" ELSE "CLOSED"]
           c == [call[t] EXCEPT !.at = "forward", !.slot = Min(FreeSlots), !.fd = 0]
<1>1. /\ call[t].at = "enter" /\ FreeSlots # {} /\ FreeBlocks # {} /\ Entered(t, s)
      /\ call' = [call EXCEPT ![t] = c] /\ UNCHANGED <<init, ids>> /\ fds' = fds
  BY DEF Enter
<1>2. PICK i \in Slots : i = Min(FreeSlots)
  BY <1>1, FirstFree
<1>3. call[t] \in CallRecord /\ call[t].do \in SocketKinds
  BY <1>1 DEF SocketInv, Types, CallsInv, Fits, Creating
<1>4. s \in SocketRecord /\ s.live /\ s.fd = call[t].fd /\ s.mode = "LISTEN" /\ s.kind = call[t].do /\ s.port = call[t].port
  BY <1>3 DEF CallRecord, SocketRecord, SocketKinds
<1>5. /\ c \in CallRecord /\ c.at = "forward" /\ c.slot = i /\ c.fd = 0
      /\ c.do = call[t].do /\ c.port = call[t].port
  BY <1>2, <1>3 DEF CallRecord, Holding, Forwarding
<1> HIDE DEF s, c
<1> QED
  BY <1>1, <1>2, <1>4, <1>5, NewPlaceIsOwned

LEMMA EnterAcceptedKeepsSockets ==
    ASSUME SocketInv, NEW t \in Threads, EnterAccepted(t)
    PROVE  SocketInv'
<1>1. PICK remote \in Remotes :
         Entered(t, [live |-> TRUE, kind |-> "STREAM", port |-> call[t].port, remote |-> remote,
                     mode |-> AcceptedMode, fd |-> call[t].fd, state |-> "ESTABLISHED"])
  BY DEF EnterAccepted
<1> DEFINE s == [live |-> TRUE, kind |-> "STREAM", port |-> call[t].port, remote |-> remote,
                 mode |-> AcceptedMode, fd |-> call[t].fd, state |-> "ESTABLISHED"]
<1>2. PICK i \in Slots : i = Min(FreeSlots)
  BY FirstFree DEF EnterAccepted
<1>3. /\ call[t].at = "accepted" /\ FreeSlots # {} /\ FreeBlocks # {} /\ Entered(t, s)
      /\ call' = [call EXCEPT ![t] = Idle] /\ UNCHANGED init /\ fds' = fds
      /\ ids' = [ids EXCEPT ![t] = @ \cup {i}]
  BY <1>1, <1>2 DEF EnterAccepted, Returns
<1>4. call[t] \in CallRecord
  BY DEF SocketInv, Types
<1>5. s \in SocketRecord /\ s.live /\ s.fd = call[t].fd
  BY <1>4 DEF CallRecord, SocketRecord, AcceptedMode
<1> HIDE DEF s
<1> QED
  BY <1>2, <1>3, <1>5, IdleFits, NewPlaceIsOwned

(* A structure is freed; its place is gone until it is cleared.            *)
LEMMA FreeSocketKeepsSockets ==
    ASSUME SocketInv, NEW t \in Threads, FreeSocket(t)
    PROVE  SocketInv'
<1>1. call[t].at = "free" /\ call[t].at \in Holding /\ call[t].at \in Closing /\ Goes(t, "clear")
  BY DEF FreeSocket, Holding, Closing
<1>2. PICK i \in Slots :
         /\ i = call[t].slot /\ table[i] \in Blocks /\ table[i] # 0 /\ Socket(i).live /\ ~Gone(i)
         /\ \A u \in Threads : u # t => ~Holds(u, i)
         /\ \A u \in Threads : i \notin ids[u]
  BY <1>1, HeldIsThere
<1>3. PICK c \in CallRecord :
         call' = [call EXCEPT ![t] = c] /\ c.at = "clear" /\ c.slot = i /\ c.fd = call[t].fd
  <2>1. "clear" \in Holding
    BY DEF Holding, Closing
  <2> QED
    BY <1>1, <1>2, <2>1, CallGoes
<1>4. c.at \in Holding /\ c.at \in Closing /\ c.at \notin Creating /\ c.at \notin Terming
  BY <1>3 DEF Holding, Closing, Creating, Terming
<1>5. /\ call'[t] = c /\ \A u \in Threads : u # t => call'[u] = call[u]
      /\ call' \in [Threads -> CallRecord]
      /\ \A j \in Slots : Holds(t, j)' <=> j = i
      /\ \A u \in Threads, j \in Slots : u # t => (Holds(u, j)' <=> Holds(u, j))
  BY <1>3, <1>4, CallIsAt, ZenonT(60)
<1>6. /\ UNCHANGED <<init, table, ids>> /\ fds' = fds
      /\ heap' \in [Blocks -> SocketRecord] /\ heap'[table[i]] = Freed /\ ~Freed.live
      /\ \A b \in Blocks : b # table[i] => heap'[b] = heap[b]
  BY <1>2 DEF FreeSocket, SocketInv, Types, Freed, SocketRecord
<1>7. Types'
  BY <1>5, <1>6 DEF SocketInv, Types
<1>8. \A j \in Slots : Gone(j)' <=> Gone(j) \/ j = i
  BY <1>1, <1>3, <1>5 DEF Gone
<1>9. \A j \in Slots : j # i /\ table[j] # 0 /\ ~Gone(j) => table[j] \in Blocks /\ table[j] # table[i]
  BY <1>2 DEF SocketInv, TableInv, Types
<1>10. OwnInv'
  <2>1. \A u \in Threads, j \in Slots : Holds(u, j)' <=> Holds(u, j)
    BY <1>1, <1>2, <1>5 DEF Holds
  <2>2. \A u \in Threads : i \notin ids'[u] /\ (Holds(u, i)' <=> u = t)
    BY <1>2, <1>5, <1>6
  <2>3. \A u \in Threads : call'[u].at \in Holding => call'[u].slot \in Slots
    BY <1>3, <1>5 DEF SocketInv, CallsInv, Fits
  <2> QED
    BY <1>2, <1>6, <1>7, <2>1, <2>2, <2>3, OwnerChanges
<1>11. TableInv'
  <2>1. \A j \in Slots : table[j] # 0 /\ ~Gone(j)' => heap'[table[j]].live
    BY <1>6, <1>8, <1>9 DEF SocketInv, TableInv, Socket
  <2>2. \A j, k \in Slots : table[j] = table[k] /\ table[j] # 0 /\ ~Gone(j)' /\ ~Gone(k)' => j = k
    BY <1>8 DEF SocketInv, TableInv
  <2> QED
    BY <1>6, <2>1, <2>2 DEF TableInv, Socket
<1>12. CallsInv'
  <2>1. Fits(call[t])'
    BY <1>2, <1>3, <1>4, <1>5, <1>6 DEF Fits, Forwarding, Using
  <2>2. ASSUME NEW u \in Threads, u # t, call[u].at \in Forwarding \cup {"unforward", "unforwarding"}
        PROVE  heap'[table[call[u].slot]] = heap[table[call[u].slot]]
    <3>1. call[u].at \in Holding /\ call[u].at # "clear"
      BY <2>2 DEF Holding, Closing, Forwarding
    <3>2. call[u].slot \in Slots /\ table[call[u].slot] # 0 /\ ~Gone(call[u].slot)
      BY <3>1, HeldIsThere
    <3>3. call[u].slot # i
      BY <1>2, <2>2, <3>1 DEF Holds
    <3> QED
      BY <1>6, <1>9, <3>2, <3>3
  <2>3. \A u \in Threads : u # t /\ call[u].at \in Using => \E v \in Threads : call[u].slot \in ids'[v]
    BY <1>6 DEF SocketInv, CallsInv, Fits
  <2> QED
    BY <1>5, <1>6, <2>1, <2>2, <2>3, OthersFit
<1>13. ApartInv'
  <2>1. init /\ \A u \in Threads : call[u].at \notin Terming /\ call[u].at \notin Creating
    BY <1>1 DEF SocketInv, ApartInv, Terming
  <2> QED
    BY <1>4, <1>5, <1>6, <2>1 DEF SocketInv, ApartInv
<1>14. CarriedKept /\ CarriersInv'
  BY <1>1, <1>3, <1>5 DEF CarriedKept, SameCarried, Carries, CarriersInv, Carrying, SocketInv, FdInv
<1>15. AllKeep
  <2>1. ~Keeps(i) /\ ~Keeps(i)'
    BY <1>1, <1>2, <1>3, <1>5 DEF Keeps, Closing
  <2>2. ASSUME NEW j \in Slots, j # i
        PROVE  SameKept(j)
    <3>1. CASE table[j] # 0 /\ ~Gone(j)
      <4>1. table[j] \in Blocks /\ heap'[table[j]] = heap[table[j]]
        BY <1>6, <1>9, <2>2, <3>1
      <4>2. Live(j)' <=> Live(j)
        BY <1>6, <4>1 DEF Live, Socket
      <4>3. Keeps(j)' <=> Keeps(j)
        BY <1>1, <1>2, <1>3, <1>5, <2>2, <4>2 DEF Keeps
      <4> QED
        BY <1>6, <4>1, <4>3 DEF SameKept
    <3>2. CASE table[j] = 0 \/ Gone(j)
      <4>1. ~Keeps(j) /\ ~Keeps(j)'
        BY <1>5, <1>6, <1>8, <3>2 DEF Keeps, Live, Gone, Closing
      <4> QED
        BY <4>1 DEF SameKept
    <3> QED
      BY <3>1, <3>2
  <2> QED
    BY <2>1, <2>2 DEF AllKeep, SameKept
<1>16. FdInv'
  BY <1>6, <1>14, <1>15, FdsKept DEF SocketInv
<1> QED
  BY <1>7, <1>10, <1>11, <1>12, <1>13, <1>16 DEF SocketInv

(* The place of a structure that has been freed is cleared.                *)
LEMMA ClearSlotKeepsSockets ==
    ASSUME SocketInv, NEW t \in Threads, ClearSlot(t)
    PROVE  SocketInv'
<1>1. call[t].at = "clear" /\ call[t].at \in Holding /\ call[t].at \in Closing
  BY DEF ClearSlot, Holding, Closing
<1>2. PICK i \in Slots :
         /\ i = call[t].slot /\ Gone(i)
         /\ \A u \in Threads : u # t => ~Holds(u, i)
         /\ \A u \in Threads : i \notin ids[u]
  BY <1>1, HeldIsThere
<1>3. call' = [call EXCEPT ![t] = Idle]
  BY DEF ClearSlot, Returns
<1>4. Idle.at \notin Holding /\ Idle.at \notin Closing /\ Idle.at \notin Creating /\ Idle.at \notin Terming
  BY IdleFits DEF Holding, Closing, Forwarding, Creating, Terming
<1>5. /\ call'[t] = Idle /\ \A u \in Threads : u # t => call'[u] = call[u]
      /\ call' \in [Threads -> CallRecord]
      /\ \A j \in Slots : ~Holds(t, j)'
      /\ \A u \in Threads, j \in Slots : u # t => (Holds(u, j)' <=> Holds(u, j))
  BY <1>3, <1>4, IdleFits, CallIsAt
<1>6. /\ UNCHANGED <<init, heap, ids>> /\ fds' = fds
      /\ table' \in [Slots -> Blocks \cup {0}] /\ table'[i] = 0
      /\ \A j \in Slots : j # i => table'[j] = table[j]
  BY <1>2 DEF ClearSlot, SocketInv, Types
<1>7. Types'
  BY <1>5, <1>6 DEF SocketInv, Types
<1>8. \A j \in Slots : j # i => (Gone(j)' <=> Gone(j))
  BY <1>1, <1>2, <1>5, IdleFits DEF Gone
<1>9. OwnInv'
  <2>1. \A u \in Threads, j \in Slots : j # i => (Holds(u, j)' <=> Holds(u, j))
    BY <1>2, <1>5 DEF Holds
  <2>2. \A u \in Threads : i \notin ids'[u] /\ ~Holds(u, i)'
    BY <1>2, <1>5, <1>6
  <2>3. \A u \in Threads : call'[u].at \in Holding => call'[u].slot \in Slots
    BY <1>4, <1>5 DEF SocketInv, CallsInv, Fits
  <2> QED
    BY <1>6, <1>7, <2>1, <2>2, <2>3, OwnerChanges
<1>10. TableInv'
  <2>1. \A j \in Slots : table'[j] # 0 /\ ~Gone(j)' => heap'[table'[j]].live
    BY <1>6, <1>8 DEF SocketInv, TableInv, Socket
  <2>2. ASSUME NEW j \in Slots, NEW k \in Slots, table'[j] = table'[k], table'[j] # 0, ~Gone(j)', ~Gone(k)'
        PROVE  j = k
    <3>1. j # i /\ k # i
      BY <1>6, <2>2
    <3> QED
      BY <1>6, <1>8, <2>2, <3>1 DEF SocketInv, TableInv
  <2> QED
    BY <2>1, <2>2 DEF TableInv, Socket
<1>11. CallsInv'
  <2>1. Fits(call[t])'
    BY <1>5, IdleFits DEF Fits, Creating, Holding, Closing, Forwarding, Using
  <2>2. ASSUME NEW u \in Threads, u # t, call[u].at \in Holding \cup Using
        PROVE  table'[call[u].slot] = table[call[u].slot]
    <3>1. CASE call[u].at \in Holding
      <4>1. call[u].slot \in Slots /\ call[u].slot # i
        BY <1>2, <2>2, <3>1, HeldIsThere DEF Holds
      <4> QED
        BY <1>6, <4>1
    <3>2. CASE call[u].at \in Using
      <4>1. call[u].slot \in Slots /\ \E v \in Threads : call[u].slot \in ids[v]
        BY <3>2 DEF SocketInv, CallsInv, Fits
      <4> QED
        BY <1>2, <1>6, <4>1
    <3> QED
      BY <2>2, <3>1, <3>2
  <2>3. \A u \in Threads : u # t /\ call[u].at \in Using => \E v \in Threads : call[u].slot \in ids'[v]
    BY <1>6 DEF SocketInv, CallsInv, Fits
  <2> QED
    BY <1>5, <1>6, <2>1, <2>2, <2>3, OthersFit
<1>12. ApartInv'
  <2>1. init /\ \A u \in Threads : call[u].at \notin Terming
    BY <1>1 DEF SocketInv, ApartInv, Terming
  <2> QED
    BY <1>4, <1>5, <1>6, <2>1 DEF SocketInv, ApartInv
<1>13. CarriedKept /\ CarriersInv'
  BY <1>1, <1>5, IdleFits DEF CarriedKept, SameCarried, Carries, CarriersInv, Carrying, SocketInv, FdInv
<1>14. AllKeep
  <2>1. ~Keeps(i) /\ ~Keeps(i)'
    BY <1>1, <1>2, <1>6 DEF Keeps, Live, Closing
  <2>2. ASSUME NEW j \in Slots, j # i
        PROVE  SameKept(j)
    <3>1. Live(j)' <=> Live(j)
      BY <1>6, <2>2 DEF Live, Socket
    <3>2. Keeps(j)' <=> Keeps(j)
      BY <1>1, <1>2, <1>4, <1>5, <2>2, <3>1 DEF Keeps
    <3> QED
      BY <1>6, <2>2, <3>2 DEF SameKept
  <2> QED
    BY <2>1, <2>2 DEF AllKeep, SameKept
<1>15. FdInv'
  BY <1>6, <1>13, <1>14, FdsKept DEF SocketInv
<1> QED
  BY <1>7, <1>9, <1>10, <1>11, <1>12, <1>15 DEF SocketInv

(* While one thread terminates, the others are idle: every socket of the   *)
(* console is that of a structure in the table.                            *)
LEMMA DeleteAllKeepsSockets ==
    ASSUME SocketInv, NEW t \in Threads, DeleteAll(t)
    PROVE  SocketInv' /\ \A i \in Slots : table[i] # 0 => Live(i)
<1>1. call[t].at = "deleting" /\ call[t].at \in Terming
  BY DEF DeleteAll, Terming
<1>2. \A u \in Threads : u # t => call[u].at = "idle"
  BY <1>1 DEF SocketInv, ApartInv
<1>3. \A u \in Threads : call[u].at \notin Closing /\ ~Carries(u)
  BY <1>1, <1>2 DEF Closing, SocketInv, FdInv
<1>4. \A i \in Slots : table[i] # 0 => Live(i)
  BY <1>3 DEF SocketInv, TableInv, Gone, Live, Closing
<1>5. \A n \in fds : \E i \in Slots : table[i] # 0 /\ heap[table[i]].fd = n
  BY <1>3 DEF SocketInv, FdInv, Keeps, Live, Socket
<1> DEFINE gone == {table[i] : i \in Slots} \ {0}
<1>6. fds' = {}
  <2>1. fds' = fds \ {heap[b].fd : b \in gone}
    BY DEF DeleteAll
  <2>2. \A n \in fds : n \in {heap[b].fd : b \in gone}
    BY <1>5
  <2> QED
    BY <2>1, <2>2
<1>7. heap' \in [Blocks -> SocketRecord]
  BY DEF DeleteAll, SocketInv, Types, Freed, SocketRecord
<1>8. /\ table' = [i \in Slots |-> 0] /\ ids' = [u \in Threads |-> {}]
      /\ call' = [call EXCEPT ![t] = Idle] /\ init' = FALSE
  BY DEF DeleteAll, Returns
<1>9. /\ call' \in [Threads -> CallRecord]
      /\ \A u \in Threads : call'[u].at = "idle" /\ call'[u].fd = 0
  BY <1>2, <1>3, <1>8, IdleFits DEF SocketInv, Types, Carries
<1>10. Types'
  BY <1>6, <1>7, <1>8, <1>9 DEF Types
<1>11. \A u \in Threads : call'[u].at \notin Holding /\ call'[u].at \notin Creating /\ call'[u].at \notin Using
                          /\ call'[u].at \notin Terming
  BY <1>9 DEF Holding, Closing, Forwarding, Creating, Using, Terming
<1>12. OwnInv' /\ TableInv'
  BY <1>8, <1>11 DEF OwnInv, TableInv, Holds
<1>13. CallsInv'
  BY <1>9 DEF CallsInv, Fits, Holding, Closing, Forwarding, Creating, Using
<1>14. ApartInv'
  BY <1>8, <1>9, <1>11 DEF ApartInv
<1>15. FdInv'
  <2>1. \A i \in Slots : ~Keeps(i)'
    BY <1>8 DEF Keeps, Live
  <2>2. \A u \in Threads : ~Carries(u)'
    BY <1>9 DEF Carries
  <2> QED
    BY <1>6, <1>9, <2>1, <2>2 DEF FdInv
<1> QED
  BY <1>4, <1>10, <1>12, <1>13, <1>14, <1>15 DEF SocketInv

LEMMA InitSocketsKeepsSockets ==
    ASSUME SocketInv, NEW t \in Threads, InitSockets(t)
    PROVE  SocketInv' /\ table' = table
<1>1. /\ \A u \in Threads : call[u].at = "idle" /\ ids[u] = {}
      /\ \A i \in Slots : table[i] = 0
  BY DEF InitSockets, SocketInv, ApartInv
<1>2. table' = table
  BY <1>1 DEF InitSockets, SocketInv, Types
<1>3. UNCHANGED <<table, heap, fds, ids, call>> /\ init'
  BY <1>2 DEF InitSockets
<1>4. Types' /\ OwnInv' /\ TableInv' /\ CallsInv' /\ FdInv'
  BY <1>3 DEF SocketInv, Types, OwnInv, TableInv, CallsInv, Fits, FdInv, Holds, Gone, Keeps, Live, Carries, Socket
<1>5. ApartInv'
  BY <1>1, <1>3 DEF ApartInv, Creating, Closing, Terming
<1> QED
  BY <1>2, <1>4, <1>5 DEF SocketInv

LEMMA InitHasSockets ==
    ASSUME Init
    PROVE  SocketInv
<1>1. Types
  BY IdleFits DEF Init, Types, Freed, SocketRecord
<1>2. \A t \in Threads : call[t] = Idle /\ call[t].at = "idle" /\ call[t].fd = 0 /\ ids[t] = {}
  BY IdleFits DEF Init
<1>3. \A i \in Slots : table[i] = 0
  BY DEF Init
<1>4. fds = {}
  BY DEF Init
<1>5. OwnInv /\ TableInv
  BY <1>2, <1>3 DEF OwnInv, TableInv, Holding, Closing, Forwarding
<1>6. CallsInv
  BY <1>2, IdleFits DEF CallsInv
<1>7. ApartInv
  BY <1>2, <1>3 DEF ApartInv, Creating, Terming
<1>8. FdInv
  BY <1>2, <1>3, <1>4 DEF FdInv, Keeps, Live, Carries
<1> QED
  BY <1>1, <1>5, <1>6, <1>7, <1>8 DEF SocketInv

-----------------------------------------------------------------------------
(* The router: what the calls and the one upnp thread make of the status.  *)
(* Nothing here depends on what the game does, nor on the sockets.         *)

Steady == UNCHANGED <<status, finder, devlist, lists, urls, twice>>
Waiting == {"forwarding", "unforwarding"}

(* Any other step of a call than the one that asks for a stop.             *)
Ordinary(t) ==
    /\ Steady
    /\ DOMAIN call' = DOMAIN call /\ \A u \in Threads : u # t => call'[u] = call[u]
    /\ DOMAIN call'[t] = DOMAIN Idle
    /\ call[t].at # "idle" \/ \A u \in Threads : call[u].at \notin Terming
    /\ call'[t].at \in Terming =>
          call[t].at \in Terming \/ \A u \in Threads : call[u].at = "idle"
    /\ call'[t].at \in Waiting => status = 1
    /\ call'[t].at # "stopping"

LEMMA OrdinaryKeepsRouter ==
    ASSUME RouterInv, NEW t \in Threads, Ordinary(t)
    PROVE  RouterInv'
<1>1. PlacesInv'
  BY DEF RouterInv, PlacesInv, Ordinary, Terming
<1>2. StatusInv'
  BY DEF RouterInv, StatusInv, Ordinary, Steady, Waiting
<1>3. ASSUME ~twice'
      PROVE  UpnpInv'
  <2>1. UpnpInv /\ Steady /\ call'[t].at # "stopping"
    BY <1>3 DEF RouterInv, Ordinary, Steady
  <2>2. FinderInv'
    BY <2>1 DEF UpnpInv, FinderInv, Active, Steady
  <2>3. StopInv'
    BY <2>1 DEF UpnpInv, StopInv, Active, Steady, Ordinary
  <2> QED
    BY <2>2, <2>3 DEF UpnpInv
<1> QED
  BY <1>1, <1>2, <1>3 DEF RouterInv

LEMMA RouterUnchanged ==
    ASSUME RouterInv, Steady, call' = call
    PROVE  RouterInv'
BY DEF RouterInv, PlacesInv, StatusInv, UpnpInv, FinderInv, StopInv, Active, Steady

(* How a call is changed.                                                  *)
LEMMA CallShapes ==
    ASSUME PlacesInv, NEW t \in Threads, NEW place, NEW c
    PROVE  /\ call' = [call EXCEPT ![t] = c] =>
                 /\ DOMAIN call' = DOMAIN call /\ call'[t] = c
                 /\ \A u \in Threads : u # t => call'[u] = call[u]
           /\ Goes(t, place) =>
                 /\ DOMAIN call' = DOMAIN call /\ DOMAIN call'[t] = DOMAIN Idle /\ call'[t].at = place
                 /\ \A u \in Threads : u # t => call'[u] = call[u]
           /\ Returns(t) =>
                 /\ DOMAIN call' = DOMAIN call /\ DOMAIN call'[t] = DOMAIN Idle /\ call'[t].at = "idle"
                 /\ \A u \in Threads : u # t => call'[u] = call[u]
BY DEF PlacesInv, Goes, Returns, Idle

LEMMA CallGoesOnIsOrdinary ==
    ASSUME RouterInv, NEW t \in Threads, CallGoesOn(t), ~StopUpnp(t)
    PROVE  Ordinary(t) \/ (Steady /\ call' = call)
<1>1. DOMAIN call = Threads /\ DOMAIN call[t] = DOMAIN Idle /\ PlacesInv
  BY DEF RouterInv, PlacesInv
<1>2. Crash => Steady /\ call' = call
  BY DEF Crash, Steady, upnpVars, socketVars
<1>3. ASSUME Steady, call[t].at # "idle", Returns(t)
      PROVE  Ordinary(t)
  BY <1>1, <1>3, CallShapes DEF Ordinary, Terming, Waiting
<1>4. ASSUME Steady, call[t].at # "idle", NEW place, Goes(t, place),
             place \in Terming => call[t].at \in Terming,
             place \in Waiting => status = 1, place # "stopping"
      PROVE  Ordinary(t)
  BY <1>1, <1>4, CallShapes DEF Ordinary
<1>5. CASE MakeSocket(t)
  BY <1>1, <1>5 DEF MakeSocket, Ordinary, Steady, upnpVars, Terming, Waiting, Idle
<1>6. CASE NoSocket(t) \/ TableFull(t) \/ EnterAccepted(t) \/ RefuseAccepted(t) \/ ClearSlot(t) \/ DeleteAll(t)
  BY <1>3, <1>6 DEF NoSocket, TableFull, EnterAccepted, RefuseAccepted, ClearSlot, DeleteAll, Steady, upnpVars
<1>7. CASE Enter(t)
  BY <1>1, <1>7 DEF Enter, Ordinary, Steady, upnpVars, Terming, Waiting, Idle
<1>8. CASE RouterReady(t)
  <2>1. PICK place \in {"forwarding", "unforwarding"} : Goes(t, place)
    BY <1>8 DEF RouterReady
  <2>2. Steady /\ call[t].at # "idle" /\ status = 1
    BY <1>8 DEF RouterReady, Steady, upnpVars
  <2> QED
    BY <1>4, <2>1, <2>2 DEF Terming
<1>9. ASSUME Made(t), Steady, call[t].at # "idle"
      PROVE  Ordinary(t)
  <2>1. CASE call[t].do = "STREAM"
    <3>1. call' = [call EXCEPT ![t] = [Idle EXCEPT !.at = "connect", !.do = "nonblock",
                                                   !.slot = call[t].slot]]
      BY <1>9, <2>1 DEF Made
    <3>2. /\ DOMAIN call' = DOMAIN call /\ DOMAIN call'[t] = DOMAIN Idle /\ call'[t].at = "connect"
          /\ \A u \in Threads : u # t => call'[u] = call[u]
      BY <1>1, <3>1 DEF Idle
    <3> QED
      BY <1>9, <3>2 DEF Ordinary, Terming, Waiting
  <2>2. CASE call[t].do # "STREAM"
    BY <1>3, <1>9, <2>2 DEF Made
  <2> QED
    BY <2>1, <2>2
<1>10. CASE NoRouterYet(t)
  <2>1. Steady
    BY <1>10 DEF NoRouterYet, Steady, upnpVars
  <2>2. CASE call[t].at = "forward" /\ Made(t)
    BY <1>9, <2>1, <2>2
  <2>3. CASE call[t].at = "unforward" /\ Goes(t, "free")
    BY <1>4, <2>1, <2>3 DEF Terming, Waiting
  <2> QED
    BY <1>10, <2>2, <2>3 DEF NoRouterYet
<1>11. CASE Forwarded(t)
  BY <1>2, <1>9, <1>11 DEF Forwarded, Forward, Steady
<1>12. CASE Unforwarded(t)
  <2>1. CASE urls
    <3>1. Steady /\ Goes(t, "free") /\ call[t].at # "idle"
      BY <1>12, <2>1 DEF Unforwarded, Unforward, Steady
    <3> QED
      BY <1>4, <3>1 DEF Terming, Waiting
  <2>2. CASE ~urls
    BY <1>2, <1>12, <2>2 DEF Unforwarded
  <2> QED
    BY <2>1, <2>2
<1>13. CASE Connect(t)
  <2>1. call[t].at = "connect" /\ (Crash \/ Steady)
    BY <1>13 DEF Connect, Steady, upnpVars
  <2>2. CASE call' = [call EXCEPT ![t].at = "poll", ![t].block = table[call[t].slot]]
    BY <1>1, <1>2, <2>1, <2>2 DEF Ordinary, Terming, Waiting, Idle
  <2>3. CASE Returns(t)
    BY <1>2, <1>3, <2>1, <2>3
  <2> QED
    BY <1>2, <1>13, <2>2, <2>3 DEF Connect
<1>14. CASE Poll(t) \/ Transfer(t)
  <2>1. call[t].at # "idle" /\ (Crash \/ (Steady /\ Returns(t)))
    BY <1>14 DEF Poll, Transfer, Steady, upnpVars
  <2> QED
    BY <1>2, <1>3, <2>1
<1>15. CASE Accept(t)
  <2>1. call[t].at = "accept" /\ (Crash \/ Steady)
    BY <1>15 DEF Accept, Steady, upnpVars
  <2>2. CASE call' = [call EXCEPT ![t].at = "accepted", ![t].fd = Min(Fds \ fds),
                                  ![t].port = heap[call[t].block].port]
    BY <1>1, <1>2, <2>1, <2>2 DEF Ordinary, Terming, Waiting, Idle
  <2>3. CASE Returns(t)
    BY <1>2, <1>3, <2>1, <2>3
  <2> QED
    BY <1>2, <1>15, <2>2, <2>3 DEF Accept
<1>16. CASE CloseSocket(t)
  <2>1. call[t].at = "close" /\ Steady
    BY <1>16 DEF CloseSocket, Steady, upnpVars
  <2>2. /\ DOMAIN call' = DOMAIN call /\ DOMAIN call'[t] = DOMAIN Idle
        /\ call'[t].at \in {"unforward", "free"}
        /\ \A u \in Threads : u # t => call'[u] = call[u]
    BY <1>1, <1>16 DEF CloseSocket, Idle
  <2> QED
    BY <2>1, <2>2 DEF Ordinary, Terming, Waiting
<1>17. CASE FreeSocket(t)
  <2>1. Steady /\ Goes(t, "clear") /\ call[t].at # "idle"
    BY <1>17 DEF FreeSocket, Steady, upnpVars
  <2> QED
    BY <1>4, <2>1 DEF Terming, Waiting
<1>18. CASE UpnpIsStopped(t)
  <2>1. Steady /\ call[t].at = "stopping" /\ CtlStopped(t)
    BY <1>18 DEF UpnpIsStopped, Steady, upnpVars
  <2> QED
    BY <1>3, <1>4, <2>1 DEF CtlStopped, Terming, Waiting
<1> QED
  BY <1>5, <1>6, <1>7, <1>8, <1>10, <1>11, <1>12, <1>13, <1>14, <1>15, <1>16, <1>17, <1>18 DEF CallGoesOn

(* A call begins: any but the start of adhocctl leaves the router alone.   *)
LEMMA GameCallsAreOrdinary ==
    ASSUME RouterInv, NEW t \in Threads, GameCalls(t), ~InitAdhocctl(t)
    PROVE  Ordinary(t) \/ (Steady /\ call' = call)
<1>1. DOMAIN call = Threads /\ DOMAIN call[t] = DOMAIN Idle /\ PlacesInv
  BY DEF RouterInv, PlacesInv
<1>2. ASSUME Steady, MayCall(t), NEW c, call' = [call EXCEPT ![t] = c], DOMAIN c = DOMAIN Idle,
             c.at \in {"socket", "connect", "transfer", "accept", "close"}
      PROVE  Ordinary(t)
  <2>1. \A u \in Threads : call[u].at \notin Terming
    BY <1>2 DEF MayCall
  <2>2. /\ DOMAIN call' = DOMAIN call /\ call'[t] = c
        /\ \A u \in Threads : u # t => call'[u] = call[u]
    BY <1>1, <1>2, CallShapes
  <2> QED
    BY <1>2, <2>1, <2>2 DEF Ordinary, Terming, Waiting
<1>3. ASSUME NEW kind, NEW port, NEW remote, CheckPort(t, kind, port, remote)
      PROVE  Ordinary(t) \/ (Steady /\ call' = call)
  <2> DEFINE c == [Idle EXCEPT !.at = "socket", !.do = kind, !.port = port, !.remote = remote]
  <2>1. DOMAIN c = DOMAIN Idle /\ c.at = "socket"
    BY DEF Idle
  <2>2. MayCall(t) /\ Steady /\ (call' = call \/ call' = [call EXCEPT ![t] = c])
    BY <1>3 DEF CheckPort, MayCreate, Crash, Steady, upnpVars, socketVars
  <2> HIDE DEF c
  <2> QED
    BY <1>2, <2>1, <2>2
<1>4. ASSUME NEW i, NEW do, UseConnect(t, i, do)
      PROVE  Ordinary(t)
  <2> DEFINE c == [Idle EXCEPT !.at = "connect", !.do = do, !.slot = i]
  <2>1. DOMAIN c = DOMAIN Idle /\ c.at = "connect"
    BY DEF Idle
  <2>2. MayCall(t) /\ Steady /\ call' = [call EXCEPT ![t] = c]
    BY <1>4 DEF UseConnect, MayUse, Steady, upnpVars
  <2> HIDE DEF c
  <2> QED
    BY <1>2, <2>1, <2>2
<1>5. ASSUME NEW i, UseStream(t, i) \/ UseAccept(t, i)
      PROVE  Ordinary(t)
  <2>1. PICK at \in {"transfer", "accept"} :
           call' = [call EXCEPT ![t] = [Idle EXCEPT !.at = at, !.slot = i, !.block = table[i]]]
    BY <1>5 DEF UseStream, UseAccept
  <2> DEFINE c == [Idle EXCEPT !.at = at, !.slot = i, !.block = table[i]]
  <2>2. DOMAIN c = DOMAIN Idle /\ c.at = at
    BY DEF Idle
  <2>3. MayCall(t) /\ Steady /\ call' = [call EXCEPT ![t] = c]
    BY <1>5, <2>1 DEF UseStream, UseAccept, MayUse, Steady, upnpVars
  <2> HIDE DEF c
  <2> QED
    BY <1>2, <2>2, <2>3
<1>6. ASSUME NEW i, Close(t, i)
      PROVE  Ordinary(t)
  <2> DEFINE c == [Idle EXCEPT !.at = "close", !.slot = i]
  <2>1. DOMAIN c = DOMAIN Idle /\ c.at = "close"
    BY DEF Idle
  <2>2. MayCall(t) /\ Steady /\ call' = [call EXCEPT ![t] = c]
    BY <1>6 DEF Close, MayClose, Steady, upnpVars
  <2> HIDE DEF c
  <2> QED
    BY <1>2, <2>1, <2>2
<1>7. CASE InitSockets(t)
  BY <1>7 DEF InitSockets, Steady, upnpVars
<1>8. ASSUME NEW do, Term(t, do)
      PROVE  Ordinary(t)
  <2> DEFINE place == IF ctl THEN "stop" ELSE "deleting"
  <2> DEFINE c == [Idle EXCEPT !.at = place, !.do = do]
  <2>1. DOMAIN c = DOMAIN Idle /\ c.at = place /\ place \in {"stop", "deleting"}
    BY DEF Idle
  <2>2. Steady /\ call' = [call EXCEPT ![t] = c] /\ \A u \in Threads : call[u].at = "idle"
    BY <1>8, IdleFits DEF Term, MayTerm, Steady, upnpVars
  <2> HIDE DEF c, place
  <2>3. /\ DOMAIN call' = DOMAIN call /\ call'[t] = c
        /\ \A u \in Threads : u # t => call'[u] = call[u]
    BY <1>1, <2>2, CallShapes
  <2> QED
    BY <2>1, <2>2, <2>3 DEF Ordinary, Terming, Waiting
<1> QED
  BY <1>3, <1>4, <1>5, <1>6, <1>7, <1>8 DEF GameCalls

(* A request to stop is made of a thread that serves.                      *)
LEMMA StopUpnpKeepsRouter ==
    ASSUME RouterInv, NEW t \in Threads, StopUpnp(t)
    PROVE  RouterInv'
<1>1. /\ call[t].at = "stop" /\ UNCHANGED <<finder, devlist, lists, urls, twice>>
      /\ status' = IF status = 1 THEN -1 ELSE status
  BY DEF StopUpnp, StopStatus
<1>2. \A u \in Threads : u # t => call[u].at = "idle"
  BY <1>1 DEF RouterInv, PlacesInv, Terming
<1>3. PlacesInv
  BY DEF RouterInv
<1>4. CASE status' = -1
  <2>1. Goes(t, "stopping")
    BY <1>4 DEF StopUpnp
  <2>2. /\ DOMAIN call' = DOMAIN call /\ DOMAIN call'[t] = DOMAIN Idle /\ call'[t].at = "stopping"
        /\ \A u \in Threads : u # t => call'[u] = call[u]
    BY <1>3, <2>1, CallShapes
  <2>3. PlacesInv' /\ StatusInv'
    BY <1>2, <1>3, <2>2 DEF PlacesInv, StatusInv, Terming
  <2>4. UpnpInv => UpnpInv'
    BY <1>1, <1>2, <1>4, <2>2 DEF UpnpInv, FinderInv, StopInv, Active
  <2> QED
    BY <1>1, <2>3, <2>4 DEF RouterInv
<1>5. CASE status' # -1
  <2>1. status' = status /\ CtlStopped(t)
    BY <1>1, <1>5 DEF StopUpnp
  <2>2. Steady
    BY <1>1, <2>1 DEF Steady
  <2>3. /\ DOMAIN call' = DOMAIN call /\ DOMAIN call'[t] = DOMAIN Idle /\ call'[t].at \in {"idle", "deleting"}
        /\ \A u \in Threads : u # t => call'[u] = call[u]
    BY <1>3, <2>1, CallShapes DEF CtlStopped
  <2>4. Ordinary(t)
    BY <1>1, <2>2, <2>3 DEF Ordinary, Terming, Waiting
  <2> QED
    BY <2>4, OrdinaryKeepsRouter
<1> QED
  BY <1>4, <1>5

(* As long as no thread is started beside another, one is at work.         *)
LEMMA InitAdhocctlKeepsRouter ==
    ASSUME RouterInv, NEW t \in Threads, InitAdhocctl(t)
    PROVE  RouterInv'
<1>1. /\ UNCHANGED <<status, devlist, lists, urls, call>>
      /\ \/ /\ \E w \in Finders : finder[w] = "none" /\ FinderGoes(w, "top")
            /\ twice' = (twice \/ \E w \in Finders : Active(w))
         \/ UNCHANGED <<finder, twice>>
      /\ \A u \in Threads : call[u].at \notin Terming
  BY DEF InitAdhocctl, StartUpnp, Active, MayCall
<1>2. PlacesInv' /\ StatusInv'
  BY <1>1 DEF RouterInv, PlacesInv, StatusInv
<1>3. CASE UNCHANGED <<finder, twice>>
  BY <1>1, <1>3, RouterUnchanged DEF Steady
<1>4. ASSUME NEW w \in Finders, finder[w] = "none", FinderGoes(w, "top"), ~twice,
             \A v \in Finders : ~Active(v)
      PROVE  UpnpInv'
  <2>1. UpnpInv /\ status = 0
    BY <1>4 DEF RouterInv, UpnpInv, FinderInv, Active
  <2>2. /\ finder' \in [Finders -> {"none", "top", "discover", "igd", "address", "serve"}]
        /\ finder'[w] = "top" /\ \A v \in Finders : v # w => finder'[v] = "none"
    BY <1>4, <2>1 DEF FinderGoes, UpnpInv, FinderInv, Active
  <2>3. FinderInv'
    BY <1>1, <2>1, <2>2 DEF FinderInv, Active
  <2>4. StopInv'
    BY <1>1 DEF StopInv, Terming
  <2> QED
    BY <2>3, <2>4 DEF UpnpInv
<1> QED
  BY <1>1, <1>2, <1>3, <1>4 DEF RouterInv

(* A upnp thread goes on.  Only a published router is taken back by the    *)
(* end of its thread, so a call that waits for it still sees it.           *)
LEMMA FinderMoves ==
    ASSUME UpnpInv, NEW w \in Finders, finder[w] # "none",
           NEW place \in {"none", "top", "discover", "igd", "address", "serve"}, FinderGoes(w, place),
           call' = call, status' \in {-1, 0, 1},
           place \in {"igd", "address", "serve"} => devlist' \in lists',
           place \in {"address", "serve"} => urls',
           place \in {"discover", "igd", "address"} => status' = 0,
           place = "top" => status' # 1,
           place = "serve" => status' # 0,
           status' # 0 => place \in {"serve", "top"},
           place = "none" => status' = 0,
           status' # status => (place = "serve" /\ status = 0 /\ status' = 1) \/ place = "none"
    PROVE  UpnpInv'
<1>1. /\ finder' \in [Finders -> {"none", "top", "discover", "igd", "address", "serve"}]
      /\ finder'[w] = place /\ \A v \in Finders : v # w => finder'[v] = "none" /\ finder[v] = "none"
  BY DEF FinderGoes, UpnpInv, FinderInv, Active
<1>2. FinderInv'
  BY <1>1 DEF FinderInv, Active
<1>3. \A u \in Threads : call[u].at = "stopping" => status = -1
  BY DEF UpnpInv, StopInv, Active
<1>4. StopInv'
  BY <1>1, <1>3 DEF StopInv, Active
<1> QED
  BY <1>2, <1>4 DEF UpnpInv

LEMMA ListIsFreed ==
    ASSUME UpnpInv, NEW w \in Finders, NEW filled, FreesList(w, filled),
           call' = call, finder[w] \in {"igd", "address", "serve"}, status # 1
    PROVE  UpnpInv'
<1>1. devlist \in lists /\ status \in {-1, 0}
  BY DEF UpnpInv, FinderInv
<1>2. FinderGoes(w, "top") /\ status' = status
  BY <1>1 DEF FreesList
<1> QED
  BY <1>1, <1>2, FinderMoves

LEMMA FinderKeepsUpnp ==
    ASSUME UpnpInv, NEW w \in Finders, FinderStep(w), call' = call
    PROVE  UpnpInv'
<1>1. /\ status \in {-1, 0, 1}
      /\ finder[w] \in {"igd", "address", "serve"} => devlist \in lists
      /\ finder[w] \in {"address", "serve"} => urls
      /\ finder[w] \in {"discover", "igd", "address"} => status = 0
      /\ finder[w] = "top" => status # 1
  BY DEF UpnpInv, FinderInv
<1>2. CASE Discover(w)
  <2>1. finder[w] = "top" /\ FinderGoes(w, "discover") /\ status' = status /\ status = 0
    BY <1>1, <1>2 DEF Discover
  <2> QED
    BY <1>1, <2>1, FinderMoves
<1>3. CASE DevicesFound(w)
  <2>1. finder[w] = "discover" /\ FinderGoes(w, "igd") /\ status' = status /\ status = 0 /\ devlist' \in lists'
    BY <1>1, <1>3 DEF DevicesFound
  <2> QED
    BY <1>1, <2>1, FinderMoves
<1>4. CASE NothingFound(w)
  <2>1. finder[w] = "discover" /\ FinderGoes(w, "top") /\ status' = status /\ status = 0
    BY <1>1, <1>4 DEF NothingFound
  <2> QED
    BY <1>1, <2>1, FinderMoves
<1>5. CASE GatewayFound(w)
  <2>1. /\ finder[w] = "igd" /\ FinderGoes(w, "address") /\ status' = status /\ status = 0
        /\ devlist' \in lists' /\ urls'
    BY <1>1, <1>5 DEF GatewayFound
  <2> QED
    BY <1>1, <2>1, FinderMoves
<1>6. CASE NoGateway(w)
  <2>1. finder[w] = "igd" /\ FreesList(w, urls)
    BY <1>6 DEF NoGateway
  <2>2. status # 1
    BY <1>1, <2>1
  <2> QED
    BY <2>1, <2>2, ListIsFreed
<1>7. CASE NoAddress(w)
  <2>1. finder[w] = "address" /\ FreesList(w, FALSE)
    BY <1>7 DEF NoAddress
  <2>2. status # 1
    BY <1>1, <2>1
  <2> QED
    BY <2>1, <2>2, ListIsFreed
<1>8. CASE Publish(w)
  <2>1. /\ finder[w] = "address" /\ FinderGoes(w, "serve") /\ status' = 1 /\ status = 0
        /\ devlist' \in lists' /\ urls'
    BY <1>1, <1>8 DEF Publish, Published
  <2> QED
    BY <1>1, <2>1, FinderMoves
<1>9. CASE Retire(w)
  <2>1. finder[w] = "serve" /\ FreesList(w, FALSE) /\ status # 1
    BY <1>9 DEF Retire
  <2> QED
    BY <2>1, ListIsFreed
<1>10. CASE FinderEnds(w)
  <2>1. finder[w] = "top" /\ FinderGoes(w, "none") /\ status' = 0
    BY <1>10 DEF FinderEnds
  <2> QED
    BY <1>1, <2>1, FinderMoves
<1> QED
  BY <1>2, <1>3, <1>4, <1>5, <1>6, <1>7, <1>8, <1>9, <1>10 DEF FinderStep

(* The status is 1 until a call asks for the end.                          *)
LEMMA FinderKeepsStatus ==
    ASSUME NEW w \in Finders, FinderStep(w)
    PROVE  twice' = twice /\ (status = 1 => status' = 1)
BY DEF FinderStep, Discover, DevicesFound, NothingFound, GatewayFound, NoGateway, NoAddress, Publish,
       Retire, FinderEnds, FreesList, UpnpCrash, upnpVars

LEMMA FinderKeepsRouter ==
    ASSUME RouterInv, NEW w \in Finders, FinderRuns(w)
    PROVE  RouterInv'
<1>1. call' = call /\ FinderStep(w)
  BY DEF FinderRuns, socketVars
<1>2. twice' = twice /\ (status = 1 => status' = 1)
  BY <1>1, FinderKeepsStatus
<1>3. PlacesInv' /\ StatusInv'
  BY <1>1, <1>2 DEF RouterInv, PlacesInv, StatusInv
<1>4. UpnpInv => UpnpInv'
  BY <1>1, FinderKeepsUpnp
<1> QED
  BY <1>2, <1>3, <1>4 DEF RouterInv

LEMMA NextKeepsRouter ==
    ASSUME RouterInv, [Next]_vars
    PROVE  RouterInv'
<1>1. ASSUME NEW t \in Threads, GameCalls(t) \/ CallGoesOn(t)
      PROVE  RouterInv'
  BY <1>1, GameCallsAreOrdinary, CallGoesOnIsOrdinary, OrdinaryKeepsRouter, RouterUnchanged,
     StopUpnpKeepsRouter, InitAdhocctlKeepsRouter
<1>2. ASSUME NEW w \in Finders, FinderRuns(w)
      PROVE  RouterInv'
  BY <1>2, FinderKeepsRouter
<1>3. CASE UNCHANGED vars
  BY <1>3, RouterUnchanged DEF vars, Steady
<1> QED
  BY <1>1, <1>2, <1>3 DEF Next

LEMMA InitHasRouter ==
    ASSUME Init
    PROVE  RouterInv
<1>1. \A t \in Threads : call[t] = Idle /\ Idle.at = "idle"
  BY IdleFits DEF Init
<1>2. UpnpInv
  BY <1>1 DEF Init, UpnpInit, UpnpInv, FinderInv, StopInv, Active
<1> QED
  BY <1>1, <1>2 DEF Init, RouterInv, PlacesInv, StatusInv, Terming

(* What the upnp thread has in hand at each of its steps, and what _status *)
(* says of it, whatever a game does and whatever the router refuses.       *)
THEOREM RouterInvariant == Spec => []RouterInv
BY InitHasRouter, NextKeepsRouter, PTL DEF Spec

(* Whatever a game does, a published router is there to be asked, by       *)
(* everyone who has seen it published, as long as no upnp thread has been  *)
(* started beside another.                                                 *)
THEOREM PublishedIsThere == Spec => []RouterPublished
<1>1. RouterInv => RouterPublished
  <2> SUFFICES ASSUME RouterInv, ~twice
               PROVE  /\ status = 1 => urls /\ devlist \in lists
                      /\ \A t \in Threads :
                            call[t].at \in {"forwarding", "unforwarding"} => urls /\ devlist \in lists
    BY DEF RouterPublished
  <2>1. status = 1 => urls /\ devlist \in lists
    BY DEF RouterInv, UpnpInv, FinderInv
  <2> QED
    BY <2>1 DEF RouterInv, StatusInv
<1> QED
  BY <1>1, RouterInvariant, PTL

(* Whatever a game does, sceNetAdhocctlTerm waits for a upnp thread only   *)
(* when one is about to see its request, and the request is not            *)
(* overwritten, as long as no upnp thread has been started beside another. *)
THEOREM StopsAreHeard == Spec => []StopIsHeard
<1>1. RouterInv => StopIsHeard
  <2> SUFFICES ASSUME RouterInv, ~twice, NEW t \in Threads, call[t].at = "stopping"
               PROVE  status = 0 \/ (status = -1 /\ \E w \in Finders : finder[w] \in {"serve", "top"})
    BY DEF StopIsHeard
  <2>1. status # 1 /\ status \in {-1, 0, 1}
    BY DEF RouterInv, UpnpInv, FinderInv, StopInv
  <2> QED
    BY <2>1 DEF RouterInv, UpnpInv, FinderInv
<1> QED
  BY <1>1, RouterInvariant, PTL

-----------------------------------------------------------------------------
(* What the calls do to the sockets.                                       *)

LEMMA CallGoesOnKeepsSockets ==
    ASSUME SocketInv, NEW t \in Threads, CallGoesOn(t)
    PROVE  SocketInv'
BY MakeSocketKeepsSockets, NoSocketKeepsSockets, EnterKeepsSockets, TableFullKeepsSockets,
   RouterReadyKeepsSockets, NoRouterYetKeepsSockets, ForwardedKeepsSockets,
   ConnectKeepsSockets, PollKeepsSockets, TransferKeepsSockets,
   AcceptKeepsSockets, EnterAcceptedKeepsSockets, RefuseAcceptedKeepsSockets,
   CloseSocketKeepsSockets, UnforwardedKeepsSockets, FreeSocketKeepsSockets, ClearSlotKeepsSockets,
   StopUpnpKeepsSockets, UpnpIsStoppedKeepsSockets, DeleteAllKeepsSockets
   DEF CallGoesOn

LEMMA GameCallsKeepSockets ==
    ASSUME SocketInv, "overlap" \notin Habits, "abort" \notin Habits, NEW t \in Threads, GameCalls(t)
    PROVE  SocketInv'
<1>1. CASE InitAdhocctl(t)
  <2>1. UNCHANGED <<init, table, heap, fds, mutex, ids, call>>
    BY <1>1 DEF InitAdhocctl
  <2> QED
    BY <2>1 DEF SocketInv, Types, OwnInv, TableInv, CallsInv, Fits, FdInv, Holds, Gone, Keeps, Live,
                Carries, Socket, ApartInv
<1>2. \A port \in PdpPorts : port \in Ports /\ "PDP" \in SocketKinds
  BY DEF Ports, SocketKinds
<1>3. \A port \in ListenPorts : port \in Ports /\ "LISTEN" \in SocketKinds
  BY DEF Ports, SocketKinds
<1>4. \A port \in OpenPorts : port \in Ports /\ "STREAM" \in SocketKinds
  BY DEF Ports, SocketKinds
<1>5. ASSUME NEW kind \in SocketKinds, NEW port \in Ports, NEW remote \in Remotes \cup {"none"},
             CheckPort(t, kind, port, remote)
      PROVE  SocketInv'
  BY <1>5, CheckPortKeepsSockets
<1>6. ASSUME NEW i \in Slots,
             \/ \E do \in {"block", "nonblock"} : UseConnect(t, i, do)
             \/ UseStream(t, i) \/ UseAccept(t, i) \/ Close(t, i)
      PROVE  SocketInv'
  BY <1>6, UseConnectKeepsSockets, UseStreamKeepsSockets, UseAcceptKeepsSockets, CloseKeepsSockets
<1>7. CASE InitSockets(t) \/ \E do \in {"adhocctl", "adhoc"} : Term(t, do)
  BY <1>7, InitSocketsKeepsSockets, TermKeepsSockets
<1> QED
  BY <1>1, <1>2, <1>3, <1>4, <1>5, <1>6, <1>7 DEF GameCalls

-----------------------------------------------------------------------------
LEMMA InitHasInv ==
    ASSUME Init
    PROVE  IInv
BY InitHasSockets, InitHasRouter DEF IInv

LEMMA NextKeepsInv ==
    ASSUME IInv, "overlap" \notin Habits, "abort" \notin Habits, [Next]_vars
    PROVE  IInv'
<1>1. SocketInv /\ RouterInv'
  BY NextKeepsRouter DEF IInv
<1>2. ASSUME NEW t \in Threads, GameCalls(t) \/ CallGoesOn(t)
      PROVE  SocketInv'
  BY <1>1, <1>2, GameCallsKeepSockets, CallGoesOnKeepsSockets
<1>3. ASSUME (\E w \in Finders : FinderRuns(w)) \/ UNCHANGED vars
      PROVE  SocketInv'
  <2>1. UNCHANGED socketVars
    BY <1>3 DEF FinderRuns, vars, socketVars
  <2> QED
    BY <1>1, <2>1, SocketsUnchanged
<1> QED
  BY <1>1, <1>2, <1>3 DEF Next, IInv

(* The inductive invariant, for a game that neither creates a socket while *)
(* another thread closes one, nor closes one that is in use.               *)
THEOREM DirectInvariant ==
    ASSUME "overlap" \notin Habits, "abort" \notin Habits
    PROVE  Spec => []IInv
<1>1. Init => IInv
  BY InitHasInv
<1>2. IInv /\ [Next]_vars => IInv'
  BY NextKeepsInv
<1> QED
  BY <1>1, <1>2, PTL DEF Spec

LEMMA SocketInvOwns ==
    ASSUME SocketInv
    PROVE  ConsoleSocketsOwned
<1> SUFFICES ASSUME NEW fd \in Fds
             PROVE  Cardinality(Owners(fd)) = IF fd \in fds THEN 1 ELSE 0
  BY DEF ConsoleSocketsOwned
<1>1. Owners(fd) = {i \in Slots : Keeps(i) /\ Socket(i).fd = fd} \cup {t \in Threads : call[t].fd = fd}
  BY DEF Owners, Keeps
<1>2. \A t \in Threads : call[t].fd = fd => Carries(t)
  BY DEF Carries
<1>3. CASE fd \in fds
  <2>1. \E x : Owners(fd) = {x}
    <3>1. CASE \E i \in Slots : Keeps(i) /\ Socket(i).fd = fd
      <4>1. PICK i \in Slots : Keeps(i) /\ Socket(i).fd = fd
        BY <3>1
      <4>2. \A t \in Threads : call[t].fd # fd
        BY <1>2, <4>1 DEF SocketInv, FdInv
      <4>3. \A j \in Slots : Keeps(j) /\ Socket(j).fd = fd => j = i
        BY <4>1 DEF SocketInv, FdInv
      <4>4. Owners(fd) = {i}
        BY <1>1, <4>1, <4>2, <4>3
      <4> QED
        BY <4>4
    <3>2. CASE \E t \in Threads : Carries(t) /\ call[t].fd = fd
      <4>1. PICK t \in Threads : Carries(t) /\ call[t].fd = fd
        BY <3>2
      <4>2. \A i \in Slots : Keeps(i) => Socket(i).fd # fd
        BY <4>1 DEF SocketInv, FdInv
      <4>3. \A u \in Threads : call[u].fd = fd => u = t
        BY <1>2, <4>1 DEF SocketInv, FdInv
      <4>4. Owners(fd) = {t}
        BY <1>1, <4>1, <4>2, <4>3
      <4> QED
        BY <4>4
    <3> QED
      BY <1>3, <3>1, <3>2 DEF SocketInv, FdInv
  <2> QED
    BY <1>3, <2>1, FS_Singleton
<1>4. CASE fd \notin fds
  <2>1. Owners(fd) = {}
    BY <1>1, <1>2, <1>4 DEF SocketInv, FdInv
  <2> QED
    BY <1>4, <2>1, FS_EmptySet
<1> QED
  BY <1>3, <1>4

(* In such a game every open socket of the console has one owner, the      *)
(* structure or the call that will close it: none leaks, none is closed    *)
(* twice.                                                                  *)
THEOREM ConsoleSocketsAreOwned ==
    ASSUME "overlap" \notin Habits, "abort" \notin Habits
    PROVE  Spec => []ConsoleSocketsOwned
<1>1. IInv => ConsoleSocketsOwned
  BY SocketInvOwns DEF IInv
<1> QED
  BY <1>1, DirectInvariant, PTL

-----------------------------------------------------------------------------
(* Most calls leave the places of the table, and what the structures are,  *)
(* as they were.                                                           *)
Quiet(t) ==
    /\ \A u \in Threads : u # t => call'[u] = call[u]
    /\ table' = table
    /\ \A b \in Blocks : /\ heap'[b].live = heap[b].live /\ heap'[b].kind = heap[b].kind
                         /\ heap'[b].port = heap[b].port
                         /\ \/ heap'[b].mode = heap[b].mode
                            \/ heap[b].mode = "LISTEN" /\ heap'[b].mode = "OPEN"
    /\ call[t].at # "clear" /\ call'[t].at \notin {"clear", "unforward"}
    /\ call'[t].at = "unforwarding" => call[t].at = "unforward" /\ call'[t].slot = call[t].slot
    /\ call'[t].at = "enter" =>
          call[t].at = "socket" /\ call'[t].do = call[t].do /\ call'[t].port = call[t].port

LEMMA QuietMove ==
    ASSUME SocketInv, NEW t \in Threads, NEW c \in CallRecord, call' = [call EXCEPT ![t] = c],
           UNCHANGED <<table, heap>>, call[t].at # "clear",
           c.at \notin {"clear", "unforward", "unforwarding", "enter"}
    PROVE  Quiet(t) /\ call'[t] = c
<1>1. call'[t] = c /\ \A u \in Threads : u # t => call'[u] = call[u]
  BY DEF SocketInv, Types
<1> QED
  BY <1>1 DEF Quiet

LEMMA QuietReturn ==
    ASSUME SocketInv, NEW t \in Threads, Returns(t), table' = table, call[t].at # "clear",
           \/ UNCHANGED heap
           \/ \E b \in Blocks, state \in {"CLOSED", "LISTEN", "ESTABLISHED"} : SetsState(b, state)
    PROVE  Quiet(t) /\ call'[t].at = "idle"
<1>1. call'[t] = Idle /\ \A u \in Threads : u # t => call'[u] = call[u]
  BY DEF Returns, SocketInv, Types
<1>2. \A b \in Blocks : heap[b] \in SocketRecord
  BY DEF SocketInv, Types
<1>3. \A b \in Blocks : /\ heap'[b].live = heap[b].live /\ heap'[b].kind = heap[b].kind
                        /\ heap'[b].port = heap[b].port /\ heap'[b].mode = heap[b].mode
  BY <1>2 DEF SetsState, SocketInv, Types, SocketRecord
<1> QED
  BY <1>1, <1>3, IdleFits DEF Quiet

LEMMA CallsBeginQuietly ==
    ASSUME IInv, "overlap" \notin Habits, NEW t \in Threads, GameCalls(t)
    PROVE  /\ Quiet(t) /\ UNCHANGED <<status, forwards, stuck>> /\ \A u \in Threads : ids'[u] \subseteq ids[u]
           /\ call'[t].at \in {"idle", "socket", "connect", "transfer", "accept", "close", "stop", "deleting"}
<1> USE DEF upnpVars
<1>1. SocketInv
  BY DEF IInv
<1> DEFINE Begun == /\ Quiet(t) /\ UNCHANGED <<status, forwards, stuck>> /\ \A u \in Threads : ids'[u] \subseteq ids[u]
                    /\ call'[t].at \in {"idle", "socket", "connect", "transfer", "accept", "close", "stop", "deleting"}
<1>2. ASSUME NEW at \in {"socket", "connect", "transfer", "accept", "close", "stop", "deleting"},
             NEW c \in CallRecord, c.at = at, call[t] = Idle, call' = [call EXCEPT ![t] = c],
             UNCHANGED <<table, heap, status, forwards, stuck>>, \A u \in Threads : ids'[u] \subseteq ids[u]
      PROVE  Begun
  <2>1. call[t].at # "clear" /\ c.at \notin {"clear", "unforward", "unforwarding", "enter"}
    BY <1>2, IdleFits
  <2>2. Quiet(t) /\ call'[t] = c
    BY <1>1, <1>2, <2>1, QuietMove
  <2> QED
    BY <1>2, <2>2
<1>3. ASSUME NEW kind \in SocketKinds, NEW port \in Ports, NEW remote \in Remotes \cup {"none"},
             CheckPort(t, kind, port, remote)
      PROVE  Begun
  <2>1. \A i \in Slots : table[i] # 0 => Socket(i).live
    BY <1>1, <1>3, CheckPortFindsLive
  <2> DEFINE c == [Idle EXCEPT !.at = "socket", !.do = kind, !.port = port, !.remote = remote]
  <2>2. /\ call[t] = Idle /\ call' = [call EXCEPT ![t] = c]
        /\ UNCHANGED <<table, heap, ids, status, forwards, stuck>>
    BY <1>3, <2>1 DEF CheckPort, MayCreate, MayCall
  <2>3. c \in CallRecord /\ c.at = "socket"
    BY DEF Idle, CallRecord
  <2> HIDE DEF c, Begun
  <2> QED
    BY <1>2, <2>2, <2>3
<1>4. ASSUME NEW i \in Slots, NEW do \in {"block", "nonblock"}, UseConnect(t, i, do)
      PROVE  Begun
  <2> DEFINE c == [Idle EXCEPT !.at = "connect", !.do = do, !.slot = i]
  <2>1. /\ call[t] = Idle /\ call' = [call EXCEPT ![t] = c]
        /\ UNCHANGED <<table, heap, ids, status, forwards, stuck>>
    BY <1>4 DEF UseConnect, MayUse, MayCall
  <2>2. c \in CallRecord /\ c.at = "connect"
    BY DEF Idle, CallRecord, Using
  <2> HIDE DEF c, Begun
  <2> QED
    BY <1>2, <2>1, <2>2
<1>5. ASSUME NEW i \in Slots, UseStream(t, i) \/ UseAccept(t, i)
      PROVE  Begun
  <2>1. PICK at \in {"transfer", "accept"} :
           call' = [call EXCEPT ![t] = [Idle EXCEPT !.at = at, !.slot = i, !.block = table[i]]]
    BY <1>5 DEF UseStream, UseAccept
  <2> DEFINE c == [Idle EXCEPT !.at = at, !.slot = i, !.block = table[i]]
  <2>2. /\ call[t] = Idle /\ call' = [call EXCEPT ![t] = c]
        /\ UNCHANGED <<table, heap, ids, status, forwards, stuck>>
    BY <1>5, <2>1 DEF UseStream, UseAccept, MayUse, MayCall
  <2>3. c \in CallRecord /\ c.at = at
    BY <1>1 DEF Idle, CallRecord, Using, SocketInv, Types
  <2> HIDE DEF c, Begun
  <2> QED
    BY <1>2, <2>2, <2>3
<1>6. ASSUME NEW i \in Slots, Close(t, i)
      PROVE  Begun
  <2> DEFINE c == [Idle EXCEPT !.at = "close", !.slot = i]
  <2>1. /\ call[t] = Idle /\ call' = [call EXCEPT ![t] = c]
        /\ UNCHANGED <<table, heap, status, forwards, stuck>>
    BY <1>6 DEF Close, MayClose, MayCall
  <2>2. \A u \in Threads : ids'[u] \subseteq ids[u]
    BY <1>1, <1>6 DEF Close, SocketInv, Types
  <2>3. c \in CallRecord /\ c.at = "close"
    BY DEF Idle, CallRecord, Holding, Closing
  <2> HIDE DEF c, Begun
  <2> QED
    BY <1>2, <2>1, <2>2, <2>3
<1>7. ASSUME NEW do \in {"adhocctl", "adhoc"}, Term(t, do)
      PROVE  Begun
  <2> DEFINE c == [Idle EXCEPT !.at = IF ctl THEN "stop" ELSE "deleting", !.do = do]
  <2>1. /\ call[t] = Idle /\ call' = [call EXCEPT ![t] = c]
        /\ UNCHANGED <<table, heap, ids, status, forwards, stuck>>
    BY <1>7 DEF Term, MayTerm
  <2>2. c \in CallRecord /\ c.at \in {"stop", "deleting"}
    BY DEF Idle, CallRecord, Terming
  <2> HIDE DEF c, Begun
  <2> QED
    BY <1>2, <2>1, <2>2
<1>8. ASSUME InitSockets(t) \/ InitAdhocctl(t)
      PROVE  Begun
  <2>1. table' = table
    BY <1>1, <1>8, InitSocketsKeepsSockets DEF InitAdhocctl
  <2>2. UNCHANGED <<heap, ids, call, status, forwards, stuck>> /\ call[t].at = "idle"
    BY <1>8, IdleFits DEF InitSockets, InitAdhocctl, MayCall
  <2> QED
    BY <2>1, <2>2 DEF Quiet
<1>9. \A port \in PdpPorts : port \in Ports /\ "PDP" \in SocketKinds
  BY DEF Ports, SocketKinds
<1>10. \A port \in ListenPorts : port \in Ports /\ "LISTEN" \in SocketKinds
  BY DEF Ports, SocketKinds
<1>11. \A port \in OpenPorts : port \in Ports /\ "STREAM" \in SocketKinds
  BY DEF Ports, SocketKinds
<1> HIDE DEF Begun
<1>12. Begun
  BY <1>3, <1>4, <1>5, <1>6, <1>7, <1>8, <1>9, <1>10, <1>11 DEF GameCalls
<1> QED
  BY <1>12 DEF Begun

LEMMA MadeIsQuiet ==
    ASSUME SocketInv, NEW t \in Threads, call[t].at \in Forwarding, Made(t), table' = table
    PROVE  Quiet(t) /\ call'[t].at \in {"idle", "connect"}
<1>1. call'[t].at \in {"idle", "connect"} /\ \A u \in Threads : u # t => call'[u] = call[u]
  <2>1. CASE call[t].do = "STREAM"
    <3>1. call' = [call EXCEPT ![t] = [Idle EXCEPT !.at = "connect", !.do = "nonblock",
                                                   !.slot = call[t].slot]]
      BY <2>1 DEF Made
    <3> QED
      BY <3>1 DEF SocketInv, Types, Idle
  <2>2. CASE call[t].do # "STREAM"
    BY <2>2, IdleFits DEF Made, Returns, SocketInv, Types
  <2> QED
    BY <2>1, <2>2
<1>2. table[call[t].slot] \in Blocks /\ heap[table[call[t].slot]].mode = "LISTEN"
  BY HeldIsThere DEF Holding, SocketInv, CallsInv, Fits, Socket
<1>3. heap[table[call[t].slot]] \in SocketRecord
  BY <1>2 DEF SocketInv, Types
<1>4. heap' = heap \/ heap' = [heap EXCEPT ![table[call[t].slot]].mode = "OPEN"]
  BY DEF Made
<1>5. \A b \in Blocks : /\ heap'[b].live = heap[b].live /\ heap'[b].kind = heap[b].kind
                        /\ heap'[b].port = heap[b].port
                        /\ \/ heap'[b].mode = heap[b].mode
                           \/ heap[b].mode = "LISTEN" /\ heap'[b].mode = "OPEN"
  BY <1>2, <1>3, <1>4 DEF SocketInv, Types, SocketRecord
<1> QED
  BY <1>1, <1>5 DEF Quiet, Forwarding

(* The calls that go on with one socket, or with none.                     *)
QuietSteps(t) ==
    \/ MakeSocket(t) \/ NoSocket(t) \/ TableFull(t) \/ RouterReady(t)
    \/ Connect(t) \/ Poll(t) \/ Transfer(t) \/ Accept(t) \/ RefuseAccepted(t)

LEMMA CallsGoOnQuietly ==
    ASSUME IInv, NEW t \in Threads, QuietSteps(t)
    PROVE  /\ Quiet(t) /\ UNCHANGED <<ids, status, forwards, stuck>> /\ call[t].at # "idle"
           /\ call'[t].at \in {"idle", "enter", "forwarding", "unforwarding", "poll", "accepted"}
<1> USE DEF upnpVars
<1>1. SocketInv
  BY DEF IInv
<1>2. call[t] \in CallRecord
  BY <1>1 DEF SocketInv, Types
<1>3. CASE MakeSocket(t)
  <2>1. /\ call'[t].at = "enter" /\ call'[t].do = call[t].do /\ call'[t].port = call[t].port
        /\ \A u \in Threads : u # t => call'[u] = call[u]
    BY <1>1, <1>2, <1>3 DEF MakeSocket, SocketInv, Types, CallRecord
  <2>2. UNCHANGED <<table, heap, ids, status, forwards, stuck>> /\ call[t].at = "socket"
    BY <1>3 DEF MakeSocket
  <2> QED
    BY <2>1, <2>2 DEF Quiet
<1>4. CASE NoSocket(t) \/ TableFull(t) \/ RefuseAccepted(t)
  <2>1. /\ Returns(t) /\ UNCHANGED <<table, heap, ids, status, forwards, stuck>>
        /\ call[t].at \in {"socket", "enter", "accepted"}
    BY <1>4 DEF NoSocket, TableFull, RefuseAccepted
  <2> QED
    BY <1>1, <2>1, QuietReturn
<1>5. CASE RouterReady(t)
  <2>1. /\ call'[t].at = IF call[t].at = "forward" THEN "forwarding" ELSE "unforwarding"
        /\ call'[t].slot = call[t].slot /\ \A u \in Threads : u # t => call'[u] = call[u]
    BY <1>1, <1>2, <1>5 DEF RouterReady, Goes, SocketInv, Types, CallRecord
  <2>2. UNCHANGED <<table, heap, ids, status, forwards, stuck>> /\ call[t].at \in {"forward", "unforward"}
    BY <1>5 DEF RouterReady
  <2> QED
    BY <2>1, <2>2 DEF Quiet
<1>6. CASE Connect(t)
  <2>1. table[call[t].slot] # 0 /\ heap[table[call[t].slot]].live
    BY <1>1, <1>6, UsedIsThere DEF Connect, Using, Socket
  <2>2. table[call[t].slot] \in Blocks /\ call[t].at = "connect"
    BY <1>1, <1>6, UsedIsThere DEF Connect, Using
  <2>3. UNCHANGED <<table, ids, status, forwards, stuck>>
    BY <1>6, <2>1 DEF Connect
  <2>4. \/ SetsState(table[call[t].slot], "ESTABLISHED") /\ Returns(t)
        \/ UNCHANGED heap /\ Returns(t)
        \/ UNCHANGED heap /\ call' = [call EXCEPT ![t].at = "poll", ![t].block = table[call[t].slot]]
    BY <1>6, <2>1 DEF Connect
  <2>5. CASE SetsState(table[call[t].slot], "ESTABLISHED") /\ Returns(t)
    BY <1>1, <2>2, <2>3, <2>5, QuietReturn
  <2>6. CASE UNCHANGED heap /\ Returns(t)
    BY <1>1, <2>2, <2>3, <2>6, QuietReturn
  <2>7. CASE UNCHANGED heap /\ call' = [call EXCEPT ![t].at = "poll", ![t].block = table[call[t].slot]]
    <3>1. call'[t].at = "poll" /\ \A u \in Threads : u # t => call'[u] = call[u]
      BY <1>1, <1>2, <2>7 DEF SocketInv, Types, CallRecord
    <3> QED
      BY <2>2, <2>3, <2>7, <3>1 DEF Quiet
  <2> QED
    BY <2>4, <2>5, <2>6, <2>7
<1>7. CASE Poll(t) \/ Transfer(t)
  <2>1. heap[call[t].block].live
    BY <1>1, <1>7, UsedIsThere DEF Poll, Transfer, Using, Socket
  <2>2. call[t].block \in Blocks /\ call[t].at \in {"poll", "transfer"}
    BY <1>1, <1>7, UsedIsThere DEF Poll, Transfer, Using
  <2>3. Returns(t) /\ UNCHANGED <<table, ids, status, forwards, stuck>>
    BY <1>7, <2>1 DEF Poll, Transfer
  <2>4. SetsState(call[t].block, "ESTABLISHED") \/ SetsState(call[t].block, "CLOSED") \/ UNCHANGED heap
    BY <1>7, <2>1 DEF Poll, Transfer
  <2> QED
    BY <1>1, <2>2, <2>3, <2>4, QuietReturn
<1>8. CASE Accept(t)
  <2>1. heap[call[t].block].live /\ call[t].at = "accept"
    BY <1>1, <1>8, UsedIsThere DEF Accept, Using, Socket
  <2>2. UNCHANGED <<table, heap, ids, status, forwards, stuck>>
    BY <1>8, <2>1 DEF Accept
  <2>3. CASE Returns(t)
    BY <1>1, <2>1, <2>2, <2>3, QuietReturn
  <2>4. CASE call' = [call EXCEPT ![t].at = "accepted", ![t].fd = Min(Fds \ fds),
                                  ![t].port = heap[call[t].block].port]
    <3>1. call'[t].at = "accepted" /\ \A u \in Threads : u # t => call'[u] = call[u]
      BY <1>1, <1>2, <2>4 DEF SocketInv, Types, CallRecord
    <3> QED
      BY <2>1, <2>2, <3>1 DEF Quiet
  <2> QED
    BY <1>8, <2>1, <2>3, <2>4 DEF Accept
<1> QED
  BY <1>3, <1>4, <1>5, <1>6, <1>7, <1>8 DEF QuietSteps

LEMMA CtlStopsQuietly ==
    ASSUME SocketInv, NEW t \in Threads, StopUpnp(t) \/ UpnpIsStopped(t)
    PROVE  /\ Quiet(t) /\ UNCHANGED <<ids, forwards, stuck>> /\ call[t].at \in Terming
           /\ call'[t].at \in {"stopping", "deleting", "idle"}
<1>1. call[t] \in CallRecord
  BY DEF SocketInv, Types
<1>2. UNCHANGED <<table, heap, ids, forwards, stuck>> /\ call[t].at \in {"stop", "stopping"}
  BY DEF StopUpnp, UpnpIsStopped, upnpVars
<1>3. Goes(t, "stopping") \/ CtlStopped(t)
  BY DEF StopUpnp, UpnpIsStopped
<1>4. /\ \A u \in Threads : u # t => call'[u] = call[u]
      /\ call'[t].at \in {"stopping", "deleting", "idle"}
  BY <1>1, <1>3, IdleFits DEF CtlStopped, Goes, Returns, SocketInv, Types, CallRecord
<1> QED
  BY <1>2, <1>4 DEF Quiet, Terming

-----------------------------------------------------------------------------
(* What the router forwards.                                               *)

TermingHasNone == \A t \in Threads : call[t].at \in Terming => \A u \in Threads : ids[u] = {}

(* What is forwarded still has its owner.                                  *)
LEMMA ForwardsKept ==
    ASSUME ForwardInv, Owed' \subseteq Owed, Owed' # {} => status' = 1, TermingHasNone',
           \A i \in Slots : Owning(i) =>
              \/ Owning(i)' /\ heap'[table'[i]].kind = heap[table[i]].kind
                            /\ heap'[table'[i]].port = heap[table[i]].port
              \/ <<Protocol(heap[table[i]].kind), heap[table[i]].port>> \notin Owed'
    PROVE  ForwardInv'
<1>1. ASSUME NEW f \in Owed'
      PROVE  \E i \in Slots : Owning(i)' /\ f = <<Protocol(heap'[table'[i]].kind), heap'[table'[i]].port>>
  <2>1. PICK i \in Slots : Owning(i) /\ f = <<Protocol(heap[table[i]].kind), heap[table[i]].port>>
    BY DEF ForwardInv, Socket
  <2> QED
    BY <2>1
<1> QED
  BY <1>1 DEF ForwardInv, TermingHasNone, Socket

LEMMA ForwardsUnchanged ==
    ASSUME ForwardInv, UNCHANGED <<table, heap, ids, call, forwards, stuck, status>>
    PROVE  ForwardInv'
<1>1. \A i \in Slots : Owning(i)' <=> Owning(i)
  BY DEF Owning, Gone, Socket
<1>2. Owed' = Owed
  BY DEF Owed
<1>3. TermingHasNone' /\ (Owed' # {} => status' = 1)
  BY <1>2 DEF ForwardInv, TermingHasNone
<1> QED
  BY <1>1, <1>2, <1>3, ForwardsKept

(* A call that goes on, but not to free a structure.                       *)
LEMMA QuietKeepsForwards ==
    ASSUME SocketInv, ForwardInv, NEW t \in Threads, Quiet(t), call'[t].at # "free",
           UNCHANGED <<forwards, stuck>>, status' = status \/ Owed = {},
           (\A u \in Threads : ids'[u] \subseteq ids[u]) \/ call[t].at # "idle",
           call'[t].at \in Terming => \A u \in Threads : ids'[u] = {}
    PROVE  ForwardInv'
<1>1. \A i \in Slots : Owning(i) => Owning(i)' /\ heap'[table'[i]].kind = heap[table[i]].kind
                                               /\ heap'[table'[i]].port = heap[table[i]].port
  <2> SUFFICES ASSUME NEW i \in Slots, Owning(i)
               PROVE  Owning(i)' /\ heap'[table'[i]].kind = heap[table[i]].kind
                                 /\ heap'[table'[i]].port = heap[table[i]].port
    OBVIOUS
  <2>1. table[i] \in Blocks
    BY DEF Owning, SocketInv, Types
  <2>2. ~Gone(i)'
    BY DEF Owning, Gone, Quiet
  <2> QED
    BY <2>1, <2>2 DEF Owning, Socket, Quiet
<1>2. TermingHasNone'
  <2> SUFFICES ASSUME NEW u \in Threads, call'[u].at \in Terming, u # t
               PROVE  \A v \in Threads : ids'[v] = {}
    BY DEF TermingHasNone
  <2>1. call[u].at \in Terming /\ call[t].at = "idle"
    BY DEF SocketInv, ApartInv, Quiet
  <2> QED
    BY <2>1 DEF ForwardInv
<1>3. Owed' = Owed
  BY DEF Owed
<1> QED
  BY <1>1, <1>2, <1>3, ForwardsKept DEF ForwardInv

(* While a thread terminates the router owes nothing to be asked for.      *)
LEMMA TermingForwardsNone ==
    ASSUME SocketInv, ForwardInv, NEW t \in Threads, call[t].at \in Terming
    PROVE  Owed = {} /\ \A u \in Threads : ids[u] = {}
<1>1. \A u \in Threads : ids[u] = {} /\ (u # t => call[u].at = "idle")
  BY DEF ForwardInv, SocketInv, ApartInv
<1>2. \A u \in Threads : call[u].at \notin Holding
  BY <1>1 DEF Holding, Closing, Forwarding, Terming
<1>3. \A i \in Slots : ~Owning(i)
  BY <1>1, <1>2 DEF Owning, SocketInv, OwnInv, Holds
<1> QED
  BY <1>1, <1>3 DEF ForwardInv

LEMMA GameCallsKeepForwards ==
    ASSUME IInv, ForwardInv, "overlap" \notin Habits, "leave" \notin Habits, NEW t \in Threads, GameCalls(t)
    PROVE  ForwardInv'
<1>1. /\ Quiet(t) /\ UNCHANGED <<status, forwards, stuck>> /\ \A u \in Threads : ids'[u] \subseteq ids[u]
      /\ call'[t].at # "free"
  BY CallsBeginQuietly
<1>2. call'[t].at \in Terming => \A u \in Threads : ids'[u] = {}
  <2> SUFFICES ASSUME call'[t].at \in Terming
               PROVE  \A u \in Threads : ids[u] = {}
    BY <1>1
  <2>1. CASE \E do \in {"adhocctl", "adhoc"} : Term(t, do)
    BY <2>1 DEF Term, MayTerm
  <2>2. CASE InitSockets(t) \/ InitAdhocctl(t)
    <3>1. call'[t].at = "idle"
      BY <2>2, IdleFits DEF InitSockets, InitAdhocctl, MayCall
    <3> QED
      BY <3>1 DEF Terming
  <2>3. CASE \E i \in Slots : UseStream(t, i) \/ UseAccept(t, i) \/ Close(t, i)
    <3>1. PICK i \in Slots : UseStream(t, i) \/ UseAccept(t, i) \/ Close(t, i)
      BY <2>3
    <3>2. CASE UseStream(t, i) \/ UseAccept(t, i)
      <4>1. PICK at \in {"transfer", "accept"} :
               call' = [call EXCEPT ![t] = [Idle EXCEPT !.at = at, !.slot = i, !.block = table[i]]]
        BY <3>2 DEF UseStream, UseAccept
      <4>2. call'[t].at = at
        BY <4>1 DEF IInv, SocketInv, Types, Idle
      <4> QED
        BY <4>2 DEF Terming
    <3>3. CASE Close(t, i)
      <4>1. call'[t].at = "close"
        BY <3>3 DEF Close, IInv, SocketInv, Types, Idle
      <4> QED
        BY <4>1 DEF Terming
    <3> QED
      BY <3>1, <3>2, <3>3
  <2>4. CASE \E i \in Slots, do \in {"block", "nonblock"} : UseConnect(t, i, do)
    <3>1. call'[t].at = "connect"
      BY <2>4 DEF UseConnect, IInv, SocketInv, Types, Idle
    <3> QED
      BY <3>1 DEF Terming
  <2>5. ASSUME NEW kind, NEW port, NEW remote, CheckPort(t, kind, port, remote)
        PROVE  FALSE
    <3>1. \A i \in Slots : table[i] # 0 => Socket(i).live
      BY <2>5, CheckPortFindsLive DEF IInv
    <3>2. call' = [call EXCEPT ![t] = [Idle EXCEPT !.at = "socket", !.do = kind,
                                                   !.port = port, !.remote = remote]]
      BY <2>5, <3>1 DEF CheckPort
    <3>3. call'[t].at = "socket"
      BY <3>2 DEF IInv, SocketInv, Types, Idle
    <3> QED
      BY <3>3 DEF Terming
  <2> QED
    BY <2>1, <2>2, <2>3, <2>4, <2>5 DEF GameCalls
<1> QED
  BY <1>1, <1>2, QuietKeepsForwards DEF IInv

LEMMA ForwardedKeepsForwards ==
    ASSUME IInv, ForwardInv, NEW t \in Threads, Forwarded(t), urls
    PROVE  ForwardInv'
<1>1. /\ SocketInv /\ call[t].at = "forwarding" /\ call[t].at \in Holding
      /\ call[t].at \in Forwarding
  BY DEF IInv, Forwarded, Holding, Forwarding
<1>2. status = 1 /\ status' = status
  BY <1>1 DEF Forwarded, Forward, IInv, RouterInv, StatusInv
<1>3. PICK i \in Slots :
         /\ i = call[t].slot /\ table[i] # 0 /\ ~Gone(i)
         /\ \A u \in Threads : u # t => ~Holds(u, i)
  BY <1>1, HeldIsThere
<1>4. Quiet(t) /\ call'[t].at \in {"idle", "connect"}
  BY <1>1, MadeIsQuiet DEF Forwarded
<1>5. table' = table /\ table \in [Slots -> Blocks \cup {0}]
  BY <1>1 DEF Forwarded, SocketInv, Types
<1>6. \A j \in Slots : Owning(j) => Owning(j)' /\ heap'[table'[j]].kind = heap[table[j]].kind
                                               /\ heap'[table'[j]].port = heap[table[j]].port
  BY <1>4, <1>5 DEF Owning, Socket, Gone, Quiet
<1>7. /\ call[t].do = heap[table[i]].kind /\ call[t].port = heap[table[i]].port
      /\ heap[table[i]].mode = "LISTEN"
  BY <1>1, <1>3 DEF SocketInv, CallsInv, Fits, Socket, Forwarding
<1>8. Owning(i)'
  <2>1. table'[i] # 0 /\ ~Gone(i)' /\ heap'[table'[i]].mode # "ACCEPT"
    BY <1>3, <1>4, <1>5, <1>7 DEF Gone, Quiet
  <2>2. \A u \in Threads : call'[u].at = "free" => call'[u].slot # i
    BY <1>3, <1>4 DEF Holds, Holding, Closing, Quiet
  <2> QED
    BY <2>1, <2>2 DEF Owning, Socket
<1>9. Owed' \subseteq Owed \cup {<<Protocol(call[t].do), call[t].port>>}
  BY DEF Forwarded, Forward, Owed
<1>10. \A f \in Owed' : \E j \in Slots :
          Owning(j)' /\ f = <<Protocol(heap'[table'[j]].kind), heap'[table'[j]].port>>
  <2> SUFFICES ASSUME NEW f \in Owed'
               PROVE  \E j \in Slots : Owning(j)' /\ f = <<Protocol(heap'[table'[j]].kind), heap'[table'[j]].port>>
    OBVIOUS
  <2>1. CASE f \in Owed
    <3>1. PICK j \in Slots : Owning(j) /\ f = <<Protocol(heap[table[j]].kind), heap[table[j]].port>>
      BY <2>1 DEF ForwardInv, Socket
    <3> QED
      BY <1>6, <3>1
  <2>2. CASE f = <<Protocol(call[t].do), call[t].port>>
    <3>1. heap'[table'[i]].kind = call[t].do /\ heap'[table'[i]].port = call[t].port
      BY <1>3, <1>4, <1>5, <1>7 DEF Quiet
    <3> QED
      BY <1>8, <2>2, <3>1
  <2> QED
    BY <1>9, <2>1, <2>2
<1>11. TermingHasNone'
  <2>1. \A u \in Threads : call'[u].at \notin Terming
    BY <1>1, <1>4 DEF SocketInv, ApartInv, Terming, Quiet
  <2> QED
    BY <2>1 DEF TermingHasNone
<1> QED
  BY <1>2, <1>10, <1>11 DEF ForwardInv, TermingHasNone, Socket

LEMMA UnforwardedKeepsForwards ==
    ASSUME IInv, ForwardInv, NEW t \in Threads, Unforwarded(t), urls
    PROVE  ForwardInv'
<1>1. SocketInv /\ call[t].at = "unforwarding" /\ call[t].at \in Holding
  BY DEF IInv, Unforwarded, Holding, Closing
<1>2. status = 1 /\ status' = status
  BY <1>1 DEF Unforwarded, Unforward, IInv, RouterInv, StatusInv
<1> DEFINE f == <<Protocol(call[t].do), call[t].port>>
<1>3. Owed' \subseteq Owed /\ f \notin Owed'
  BY DEF Unforwarded, Unforward, Owed
<1>4. call[t].do = heap[table[call[t].slot]].kind /\ call[t].port = heap[table[call[t].slot]].port
  BY <1>1 DEF SocketInv, CallsInv, Fits, Socket
<1>5. UNCHANGED <<table, heap, ids>>
  BY DEF Unforwarded
<1>6. /\ \A u \in Threads : u # t => call'[u] = call[u]
      /\ call'[t].at = "free" /\ call'[t].slot = call[t].slot
  <2>1. call[t] \in CallRecord
    BY <1>1 DEF SocketInv, Types
  <2> QED
    BY <1>1, <2>1 DEF Unforwarded, Goes, SocketInv, Types, CallRecord
<1>7. \A i \in Slots : Owning(i) =>
         \/ Owning(i)' /\ heap'[table'[i]].kind = heap[table[i]].kind
                       /\ heap'[table'[i]].port = heap[table[i]].port
         \/ <<Protocol(heap[table[i]].kind), heap[table[i]].port>> \notin Owed'
  <2> SUFFICES ASSUME NEW i \in Slots, Owning(i)
               PROVE  \/ Owning(i)' /\ heap'[table'[i]].kind = heap[table[i]].kind
                                    /\ heap'[table'[i]].port = heap[table[i]].port
                      \/ <<Protocol(heap[table[i]].kind), heap[table[i]].port>> \notin Owed'
    OBVIOUS
  <2>1. CASE i = call[t].slot
    BY <1>3, <1>4, <2>1
  <2>2. CASE i # call[t].slot
    BY <1>5, <1>6, <2>2 DEF Owning, Socket, Gone
  <2> QED
    BY <2>1, <2>2
<1>8. TermingHasNone'
  <2>1. \A u \in Threads : call'[u].at \notin Terming
    BY <1>1, <1>6 DEF SocketInv, ApartInv, Terming
  <2> QED
    BY <2>1 DEF TermingHasNone
<1> QED
  BY <1>2, <1>3, <1>7, <1>8, ForwardsKept

(* The end of a close: the place of t does not own a forward any more.     *)
LEMMA ClosingKeepsForwards ==
    ASSUME SocketInv, ForwardInv, NEW t \in Threads,
           CloseSocket(t) \/ FreeSocket(t) \/ ClearSlot(t)
    PROVE  ForwardInv'
<1>1. call[t].at \in {"close", "free", "clear"} /\ call[t].at \in Holding /\ call[t].at \in Closing
  BY DEF CloseSocket, FreeSocket, ClearSlot, Holding, Closing
<1>2. PICK k \in Slots :
         /\ k = call[t].slot /\ table[k] \in Blocks
         /\ Gone(k) <=> call[t].at = "clear"
  BY <1>1, HeldIsThere
<1>3. call[t] \in CallRecord
  BY DEF SocketInv, Types
<1>4. /\ \A u \in Threads : u # t => call'[u] = call[u]
      /\ call'[t].at \in {"unforward", "free", "clear", "idle"}
      /\ call'[t].at = "idle" \/ call'[t].slot = k
  <2>1. CASE CloseSocket(t)
    BY <1>2, <1>3, <2>1 DEF CloseSocket, SocketInv, Types, CallRecord
  <2>2. CASE FreeSocket(t)
    BY <1>2, <1>3, <2>2 DEF FreeSocket, Goes, SocketInv, Types, CallRecord
  <2>3. CASE ClearSlot(t)
    BY <2>3, IdleFits DEF ClearSlot, Returns, SocketInv, Types
  <2> QED
    BY <2>1, <2>2, <2>3
<1>5. UNCHANGED <<status, Owed, ids>>
  BY DEF CloseSocket, FreeSocket, ClearSlot, upnpVars, Owed
<1>6. ASSUME NEW i \in Slots, Owning(i)
      PROVE  Owning(i)' /\ heap'[table'[i]].kind = heap[table[i]].kind
                        /\ heap'[table'[i]].port = heap[table[i]].port
  <2>1. table[i] \in Blocks /\ table[i] # 0 /\ ~Gone(i)
    BY <1>6 DEF Owning, SocketInv, Types
  <2>2. i = k => call[t].at = "close" /\ heap[table[k]].mode # "ACCEPT"
    BY <1>1, <1>2, <1>6, <2>1 DEF Owning, Socket
  <2>3. table'[i] = table[i] /\ heap'[table[i]] = heap[table[i]]
    <3>1. CASE CloseSocket(t)
      BY <3>1 DEF CloseSocket
    <3>2. CASE FreeSocket(t)
      <4>1. call[t].at = "free" /\ i # k /\ ~Gone(k)
        BY <1>2, <2>2, <3>2 DEF FreeSocket
      <4>2. table[i] # table[k]
        BY <1>2, <2>1, <4>1 DEF SocketInv, TableInv
      <4> QED
        BY <1>2, <2>1, <3>2, <4>2 DEF FreeSocket, SocketInv, Types
    <3>3. CASE ClearSlot(t)
      <4>1. i # k
        BY <2>2, <3>3 DEF ClearSlot
      <4> QED
        BY <1>2, <3>3, <4>1 DEF ClearSlot, SocketInv, Types
    <3> QED
      BY <3>1, <3>2, <3>3
  <2>4. call'[t].at \in {"free", "clear"} => i # k
    <3>1. CASE CloseSocket(t)
      <4>1. call'[t].at = IF OwnsForward(Socket(k).mode) THEN "unforward" ELSE "free"
        BY <1>2, <1>3, <3>1 DEF CloseSocket, SocketInv, Types, CallRecord
      <4> QED
        BY <2>2, <4>1 DEF OwnsForward, Socket
    <3>2. CASE FreeSocket(t)
      BY <2>2, <3>2 DEF FreeSocket
    <3>3. CASE ClearSlot(t)
      BY <2>2, <3>3 DEF ClearSlot
    <3> QED
      BY <3>1, <3>2, <3>3
  <2>5. ~Gone(i)'
    BY <1>4, <2>1, <2>4 DEF Gone
  <2>6. \A u \in Threads : call'[u].at = "free" => call'[u].slot # i
    BY <1>4, <1>6, <2>4 DEF Owning
  <2> QED
    BY <1>6, <2>1, <2>3, <2>5, <2>6 DEF Owning, Socket
<1>7. TermingHasNone'
  <2>1. \A u \in Threads : call'[u].at \notin Terming
    BY <1>1, <1>4 DEF SocketInv, ApartInv, Terming
  <2> QED
    BY <2>1 DEF TermingHasNone
<1> QED
  BY <1>5, <1>6, <1>7, ForwardsKept DEF ForwardInv

(* A new structure is at a place nobody owned a forward for.               *)
LEMMA EnteringKeepsForwards ==
    ASSUME SocketInv, ForwardInv, NEW t \in Threads, NEW s \in SocketRecord,
           FreeSlots # {}, FreeBlocks # {}, Entered(t, s),
           call[t].at \in {"enter", "accepted"},
           \A u \in Threads : u # t => call'[u] = call[u],
           call'[t].at \in {"forward", "idle"}, UNCHANGED <<status, forwards, stuck>>
    PROVE  ForwardInv'
<1>1. PICK k \in Slots, b \in Blocks :
         /\ table[k] = 0
         /\ \A j \in Slots : j # k => table'[j] = table[j]
         /\ \A d \in Blocks : d # b => heap'[d] = heap[d]
         /\ \A j \in Slots : table[j] # 0 /\ ~Gone(j) => table[j] # b
  BY EnteredIsApart
<1>2. ASSUME NEW i \in Slots, Owning(i)
      PROVE  Owning(i)' /\ heap'[table'[i]].kind = heap[table[i]].kind
                        /\ heap'[table'[i]].port = heap[table[i]].port
  <2>1. table[i] \in Blocks /\ table[i] # 0 /\ ~Gone(i)
    BY <1>2 DEF Owning, SocketInv, Types
  <2>2. table'[i] = table[i] /\ heap'[table[i]] = heap[table[i]]
    BY <1>1, <2>1
  <2>3. ~Gone(i)'
    BY <2>1 DEF Gone
  <2> QED
    BY <1>2, <2>1, <2>2, <2>3 DEF Owning, Socket
<1>3. TermingHasNone'
  <2>1. \A u \in Threads : call'[u].at \notin Terming
    BY DEF SocketInv, ApartInv, Terming
  <2> QED
    BY <2>1 DEF TermingHasNone
<1>4. Owed' = Owed
  BY DEF Owed
<1> QED
  BY <1>2, <1>3, <1>4, ForwardsKept DEF ForwardInv

LEMMA NoRouterYetKeepsForwards ==
    ASSUME SocketInv, ForwardInv, NEW t \in Threads, NoRouterYet(t)
    PROVE  ForwardInv'
<1>1. status # 1 /\ Owed = {} /\ Owed' = Owed /\ UNCHANGED <<table, status>>
  BY DEF NoRouterYet, ForwardInv, upnpVars, Owed
<1>2. call[t].at \notin Terming /\ call[t].at # "idle"
  BY DEF NoRouterYet, Terming
<1>3. /\ \A u \in Threads : u # t => call'[u] = call[u]
      /\ call'[t].at \in {"idle", "connect", "free"}
  <2>1. CASE call[t].at = "forward" /\ Made(t)
    BY <1>1, <2>1, MadeIsQuiet DEF Forwarding, Quiet
  <2>2. CASE call[t].at = "unforward" /\ Goes(t, "free")
    <3>1. call[t] \in CallRecord
      BY DEF SocketInv, Types
    <3> QED
      BY <2>2, <3>1 DEF Goes, SocketInv, Types, CallRecord
  <2> QED
    BY <2>1, <2>2 DEF NoRouterYet
<1>4. \A u \in Threads : call'[u].at \notin Terming
  BY <1>2, <1>3 DEF SocketInv, ApartInv, Terming
<1> QED
  BY <1>1, <1>4 DEF ForwardInv

(* What Enter and EnterAccepted put into the table.                        *)
LEMMA EnterMakes ==
    ASSUME SocketInv, NEW t \in Threads, Enter(t)
    PROVE  /\ \E s \in SocketRecord : Entered(t, s) /\ s.kind = call[t].do /\ s.port = call[t].port
                                      /\ s.mode = "LISTEN"
           /\ FreeSlots # {} /\ FreeBlocks # {} /\ call[t].at = "enter" /\ UNCHANGED <<status, forwards, stuck>>
           /\ call'[t].at = "forward" /\ call'[t].slot = Min(FreeSlots)
           /\ \A u \in Threads : u # t => call'[u] = call[u]
<1>1. call[t] \in CallRecord
  BY DEF SocketInv, Types
<1>2. /\ call'[t].at = "forward" /\ call'[t].slot = Min(FreeSlots)
      /\ \A u \in Threads : u # t => call'[u] = call[u]
  BY <1>1 DEF Enter, SocketInv, Types, CallRecord
<1> DEFINE s == [live |-> TRUE, kind |-> call[t].do, port |-> call[t].port,
                 remote |-> call[t].remote, mode |-> "LISTEN", fd |-> call[t].fd,
                 state |-> IF call[t].do = "LISTEN" THEN "LISTEN" ELSE "CLOSED"]
<1>3. /\ FreeSlots # {} /\ FreeBlocks # {} /\ Entered(t, s) /\ call[t].at = "enter"
      /\ UNCHANGED <<status, forwards, stuck>>
  BY DEF Enter, upnpVars
<1>4. call[t].do \in SocketKinds
  BY <1>3 DEF SocketInv, CallsInv, Fits, Creating
<1>5. s \in SocketRecord /\ s.kind = call[t].do /\ s.port = call[t].port /\ s.mode = "LISTEN"
  BY <1>1, <1>4 DEF CallRecord, SocketRecord, SocketKinds
<1> HIDE DEF s
<1> QED
  BY <1>2, <1>3, <1>5

LEMMA EnterAcceptedMakes ==
    ASSUME SocketInv, NEW t \in Threads, EnterAccepted(t)
    PROVE  /\ \E s \in SocketRecord : Entered(t, s) /\ s.kind = "STREAM" /\ s.mode = "ACCEPT"
           /\ FreeSlots # {} /\ FreeBlocks # {} /\ call[t].at = "accepted" /\ UNCHANGED <<status, forwards, stuck>>
           /\ call'[t].at = "idle" /\ \A u \in Threads : u # t => call'[u] = call[u]
<1>1. call[t] \in CallRecord
  BY DEF SocketInv, Types
<1>2. PICK remote \in Remotes :
         Entered(t, [live |-> TRUE, kind |-> "STREAM", port |-> call[t].port, remote |-> remote,
                     mode |-> AcceptedMode, fd |-> call[t].fd, state |-> "ESTABLISHED"])
  BY DEF EnterAccepted
<1> DEFINE s == [live |-> TRUE, kind |-> "STREAM", port |-> call[t].port, remote |-> remote,
                 mode |-> AcceptedMode, fd |-> call[t].fd, state |-> "ESTABLISHED"]
<1>3. Entered(t, s) /\ s \in SocketRecord /\ s.kind = "STREAM" /\ s.mode = "ACCEPT"
  BY <1>1, <1>2 DEF CallRecord, SocketRecord, AcceptedMode
<1> HIDE DEF s
<1>4. call'[t].at = "idle" /\ \A u \in Threads : u # t => call'[u] = call[u]
  BY IdleFits DEF EnterAccepted, Returns, SocketInv, Types
<1>5. FreeSlots # {} /\ FreeBlocks # {} /\ call[t].at = "accepted" /\ UNCHANGED <<status, forwards, stuck>>
  BY DEF EnterAccepted, upnpVars
<1> QED
  BY <1>3, <1>4, <1>5

LEMMA CallGoesOnKeepsForwards ==
    ASSUME IInv, ForwardInv, NEW t \in Threads, CallGoesOn(t)
    PROVE  ForwardInv'
<1>1. SocketInv
  BY DEF IInv
<1>2. CASE QuietSteps(t)
  <2>1. /\ Quiet(t) /\ UNCHANGED <<ids, status, forwards, stuck>>
        /\ call'[t].at \in {"idle", "enter", "forwarding", "unforwarding", "poll", "accepted"}
    BY <1>2, CallsGoOnQuietly
  <2>2. call'[t].at \notin Terming
    BY <2>1 DEF Terming
  <2> QED
    BY <1>1, <2>1, <2>2, QuietKeepsForwards
<1>3. CASE Enter(t) \/ EnterAccepted(t)
  BY <1>1, <1>3, EnterMakes, EnterAcceptedMakes, EnteringKeepsForwards
<1>4. CASE NoRouterYet(t)
  BY <1>1, <1>4, NoRouterYetKeepsForwards
<1>5. CASE StopUpnp(t) \/ UpnpIsStopped(t)
  <2>1. /\ Quiet(t) /\ UNCHANGED <<ids, forwards, stuck>> /\ call[t].at \in Terming
        /\ call'[t].at \in {"stopping", "deleting", "idle"}
    BY <1>1, <1>5, CtlStopsQuietly
  <2>2. Owed = {} /\ \A u \in Threads : ids[u] = {}
    BY <1>1, <2>1, TermingForwardsNone
  <2> QED
    BY <1>1, <2>1, <2>2, QuietKeepsForwards
<1>6. CASE DeleteAll(t)
  <2>1. Owed' = {}
    BY <1>1, <1>6, TermingForwardsNone DEF DeleteAll, Terming, upnpVars, Owed
  <2>2. TermingHasNone'
    BY <1>6 DEF DeleteAll, TermingHasNone
  <2> QED
    BY <2>1, <2>2 DEF ForwardInv, TermingHasNone
<1>7. CASE CloseSocket(t) \/ FreeSocket(t) \/ ClearSlot(t)
  BY <1>1, <1>7, ClosingKeepsForwards
<1>8. CASE Forwarded(t) \/ Unforwarded(t)
  <2>1. CASE urls
    BY <1>8, <2>1, ForwardedKeepsForwards, UnforwardedKeepsForwards
  <2>2. CASE ~urls
    <3>1. UNCHANGED <<table, heap, ids, call, forwards, stuck, status>>
      BY <1>8, <2>2 DEF Forwarded, Unforwarded, Crash, upnpVars, socketVars
    <3> QED
      BY <3>1, ForwardsUnchanged
  <2> QED
    BY <2>1, <2>2
<1> QED
  BY <1>2, <1>3, <1>4, <1>5, <1>6, <1>7, <1>8 DEF CallGoesOn, QuietSteps

LEMMA FinderKeepsForwards ==
    ASSUME ForwardInv, NEW w \in Finders, FinderRuns(w)
    PROVE  ForwardInv'
<1>1. UNCHANGED <<table, heap, ids, call>> /\ FinderStep(w)
  BY DEF FinderRuns, socketVars
<1>2. Owed' = Owed
  BY <1>1 DEF FinderStep, Discover, DevicesFound, NothingFound, GatewayFound, NoGateway, NoAddress,
              Publish, Retire, FinderEnds, FreesList, UpnpCrash, upnpVars, Owed
<1>3. Owed' # {} => status' = 1
  BY <1>1, <1>2, FinderKeepsStatus DEF ForwardInv
<1>4. \A i \in Slots : Owning(i)' <=> Owning(i)
  BY <1>1 DEF Owning, Gone, Socket
<1>5. TermingHasNone'
  BY <1>1 DEF ForwardInv, TermingHasNone
<1> QED
  BY <1>1, <1>2, <1>3, <1>4, <1>5, ForwardsKept

LEMMA NextKeepsForwards ==
    ASSUME IInv, ForwardInv, "overlap" \notin Habits, "leave" \notin Habits, [Next]_vars
    PROVE  ForwardInv'
<1>1. CASE UNCHANGED vars
  BY <1>1, ForwardsUnchanged DEF vars
<1> QED
  BY <1>1, GameCallsKeepForwards, CallGoesOnKeepsForwards, FinderKeepsForwards DEF Next

LEMMA InitHasForwards ==
    ASSUME Init
    PROVE  ForwardInv
<1>1. \A t \in Threads : ids[t] = {}
  BY DEF Init
<1> QED
  BY <1>1 DEF Init, UpnpInit, ForwardInv, Owed

(* In a game that also closes its sockets before it terminates, what is    *)
(* forwarded belongs to a socket whose close will ask the router to take   *)
(* it away; only what the router then refuses to take away is left.        *)
THEOREM ForwardsHaveOwners ==
    ASSUME "overlap" \notin Habits, "abort" \notin Habits, "leave" \notin Habits
    PROVE  Spec => []ForwardsOwned
<1>1. Init => IInv /\ ForwardInv
  BY InitHasInv, InitHasForwards
<1>2. IInv /\ ForwardInv /\ [Next]_vars => (IInv /\ ForwardInv)'
  BY NextKeepsInv, NextKeepsForwards
<1>3. IInv /\ ForwardInv => ForwardsOwned
  <2> SUFFICES ASSUME IInv, ForwardInv, NEW f \in forwards \ stuck
               PROVE  \E i \in Slots :
                         Live(i) /\ Socket(i).mode # "ACCEPT" /\ f = <<Protocol(Socket(i).kind), Socket(i).port>>
    BY DEF ForwardsOwned
  <2>1. PICK i \in Slots : Owning(i) /\ f = <<Protocol(Socket(i).kind), Socket(i).port>>
    BY DEF ForwardInv, Owed
  <2>2. Live(i) /\ Socket(i).mode # "ACCEPT"
    BY <2>1 DEF Owning, Live, IInv, SocketInv, TableInv
  <2> QED
    BY <2>1, <2>2
<1> QED
  BY <1>1, <1>2, <1>3, PTL DEF Spec

-----------------------------------------------------------------------------
(* Who listens at a port.                                                  *)

LEMMA ListenersKept ==
    ASSUME ListenersApart,
           \A i \in Slots, port \in Ports : Listens(i, port)' => Listens(i, port),
           \A u \in Threads, port \in Ports : WillListen(u, port)' => WillListen(u, port)
    PROVE  ListenersApart'
<1>1. \A i, j \in Slots, port \in Ports : Listens(i, port)' /\ Listens(j, port)' => i = j
  BY DEF ListenersApart
<1>2. \A u \in Threads, i \in Slots, port \in Ports : ~(WillListen(u, port)' /\ Listens(i, port)')
  BY DEF ListenersApart
<1>3. \A u, v \in Threads, port \in Ports : WillListen(u, port)' /\ WillListen(v, port)' => u = v
  BY DEF ListenersApart
<1> QED
  BY <1>1, <1>2, <1>3 DEF ListenersApart

LEMMA QuietKeepsPorts ==
    ASSUME SocketInv, PortInv, NEW t \in Threads, Quiet(t)
    PROVE  /\ \A i \in Slots, port \in Ports : Listens(i, port)' <=> Listens(i, port)
           /\ call'[t].at # "socket" => ListenersApart' /\ CalledPorts'
           /\ SocketPorts' /\ GoneAreStreams' /\ OwnersUnforward'
<1> USE DEF Quiet
<1>1. \A i \in Slots : Gone(i)' <=> Gone(i)
  BY DEF Gone
<1>2. \A i \in Slots : table[i] \in Blocks \cup {0}
  BY DEF SocketInv, Types
<1>3. \A i \in Slots, port \in Ports : Listens(i, port)' <=> Listens(i, port)
  BY <1>1, <1>2 DEF Listens, Socket
<1>4. ASSUME call'[t].at # "socket"
      PROVE  ListenersApart' /\ CalledPorts'
  <2>1. \A u \in Threads, port \in Ports : WillListen(u, port)' => WillListen(u, port)
    BY <1>4 DEF WillListen
  <2>2. CalledPorts'
    BY <1>4 DEF PortInv, CalledPorts
  <2> QED
    BY <1>3, <2>1, <2>2, ListenersKept DEF PortInv
<1>5. SocketPorts'
  BY DEF PortInv, SocketPorts
<1>6. GoneAreStreams'
  BY <1>1, <1>2 DEF PortInv, GoneAreStreams, Socket
<1>7. OwnersUnforward'
  <2> SUFFICES ASSUME NEW u \in Threads, call'[u].at \in {"unforward", "unforwarding"}
               PROVE  heap'[table'[call'[u].slot]].mode # "ACCEPT"
    BY DEF OwnersUnforward, Socket
  <2>1. call[u].at \in {"unforward", "unforwarding"} /\ call'[u].slot = call[u].slot
    OBVIOUS
  <2>2. table[call[u].slot] \in Blocks
    BY <2>1, HeldIsThere DEF Holding, Closing
  <2>3. heap[table[call[u].slot]].mode # "ACCEPT"
    BY <2>1 DEF PortInv, OwnersUnforward, Socket
  <2> QED
    BY <2>1, <2>2, <2>3
<1> QED
  BY <1>3, <1>4, <1>5, <1>6, <1>7

(* A call to PtpListen looks for the port first, and no other thread makes *)
(* a listener for it.                                                      *)
LEMMA CheckPortKeepsPorts ==
    ASSUME IInv, PortInv, "overlap" \notin Habits, "race" \notin Habits, NEW t \in Threads,
           NEW kind \in SocketKinds, NEW port \in Ports, NEW remote \in Remotes \cup {"none"},
           kind = "LISTEN" => port \in ListenPorts, kind = "STREAM" => port \in OpenPorts,
           CheckPort(t, kind, port, remote), Quiet(t)
    PROVE  PortInv'
<1>1. \A i \in Slots : table[i] # 0 => Socket(i).live
  BY CheckPortFindsLive DEF IInv
<1>2. /\ \A i \in Slots : table[i] # 0 => ~Collides(Socket(i), kind, port, remote)
      /\ call' = [call EXCEPT ![t] = [Idle EXCEPT !.at = "socket", !.do = kind,
                                                  !.port = port, !.remote = remote]]
  BY <1>1 DEF CheckPort
<1>3. /\ call'[t].at = "socket" /\ call'[t].do = kind /\ call'[t].port = port
      /\ \A u \in Threads : u # t => call'[u] = call[u]
  BY <1>2 DEF IInv, SocketInv, Types, Idle
<1>4. \A u \in Threads : ~(call[u].do = kind /\ call[u].port = port)
  BY DEF CheckPort, MayCreate
<1>5. \A i \in Slots, p \in Ports : Listens(i, p)' <=> Listens(i, p)
  BY QuietKeepsPorts DEF IInv
<1>6. \A p \in Ports : WillListen(t, p)' <=> kind = "LISTEN" /\ p = port
  BY <1>3 DEF WillListen
<1>7. \A u \in Threads, p \in Ports : u # t => (WillListen(u, p)' <=> WillListen(u, p))
  BY <1>3 DEF WillListen
<1>8. kind = "LISTEN" => /\ \A i \in Slots : ~Listens(i, port)
                         /\ \A u \in Threads : ~WillListen(u, port)
  BY <1>2, <1>4 DEF Listens, WillListen, Collides
<1>9. ListenersApart'
  <2>1. \A i, j \in Slots, p \in Ports : Listens(i, p)' /\ Listens(j, p)' => i = j
    BY <1>5 DEF PortInv, ListenersApart
  <2>2. \A u \in Threads, i \in Slots, p \in Ports : ~(WillListen(u, p)' /\ Listens(i, p)')
    BY <1>5, <1>6, <1>7, <1>8 DEF PortInv, ListenersApart
  <2>3. \A u, v \in Threads, p \in Ports : WillListen(u, p)' /\ WillListen(v, p)' => u = v
    BY <1>6, <1>7, <1>8 DEF PortInv, ListenersApart
  <2> QED
    BY <2>1, <2>2, <2>3 DEF ListenersApart
<1>10. CalledPorts'
  BY <1>3 DEF PortInv, CalledPorts
<1>11. SocketPorts' /\ GoneAreStreams' /\ OwnersUnforward'
  BY QuietKeepsPorts DEF IInv
<1> QED
  BY <1>9, <1>10, <1>11 DEF PortInv

LEMMA GameCallsKeepPorts ==
    ASSUME IInv, PortInv, "overlap" \notin Habits, "race" \notin Habits, NEW t \in Threads, GameCalls(t)
    PROVE  PortInv'
<1>1. Quiet(t) /\ SocketInv
  BY CallsBeginQuietly DEF IInv
<1>2. CASE call'[t].at # "socket"
  BY <1>1, <1>2, QuietKeepsPorts DEF PortInv
<1>3. CASE call'[t].at = "socket"
  <2>1. CASE \E port \in PdpPorts : CheckPort(t, "PDP", port, "none")
    BY <1>1, <2>1, CheckPortKeepsPorts DEF Ports, SocketKinds
  <2>2. CASE \E port \in ListenPorts : CheckPort(t, "LISTEN", port, "none")
    BY <1>1, <2>2, CheckPortKeepsPorts DEF Ports, SocketKinds
  <2>3. CASE \E port \in OpenPorts, remote \in Remotes : CheckPort(t, "STREAM", port, remote)
    BY <1>1, <2>3, CheckPortKeepsPorts DEF Ports, SocketKinds
  <2>4. CASE InitSockets(t) \/ InitAdhocctl(t)
    BY <1>3, <2>4, IdleFits DEF InitSockets, InitAdhocctl, MayCall
  <2>5. CASE \E do \in {"adhocctl", "adhoc"} : Term(t, do)
    <3>1. call'[t].at = IF ctl THEN "stop" ELSE "deleting"
      BY <1>1, <2>5 DEF Term, SocketInv, Types, Idle
    <3> QED
      BY <1>3, <3>1
  <2>6. CASE \E i \in Slots, do \in {"block", "nonblock"} : UseConnect(t, i, do)
    BY <1>1, <1>3, <2>6 DEF UseConnect, SocketInv, Types, Idle
  <2>7. CASE \E i \in Slots : UseStream(t, i)
    BY <1>1, <1>3, <2>7 DEF UseStream, SocketInv, Types, Idle
  <2>8. CASE \E i \in Slots : UseAccept(t, i)
    BY <1>1, <1>3, <2>8 DEF UseAccept, SocketInv, Types, Idle
  <2>9. CASE \E i \in Slots : Close(t, i)
    BY <1>1, <1>3, <2>9 DEF Close, SocketInv, Types, Idle
  <2> QED
    BY <2>1, <2>2, <2>3, <2>4, <2>5, <2>6, <2>7, <2>8, <2>9 DEF GameCalls
<1> QED
  BY <1>2, <1>3

(* A call that goes to free its structure owns the forward no more.        *)
LEMMA PortsUnchanged ==
    ASSUME PortInv, UNCHANGED <<table, heap, call>>
    PROVE  PortInv'
BY DEF PortInv, ListenersApart, CalledPorts, SocketPorts, GoneAreStreams, OwnersUnforward, Listens,
       WillListen, Gone, Socket

LEMMA ToFreeKeepsPorts ==
    ASSUME IInv, PortInv, NEW t \in Threads, NoRouterYet(t) \/ Forwarded(t) \/ Unforwarded(t)
    PROVE  PortInv'
<1>1. SocketInv
  BY DEF IInv
<1>2. CASE call[t].at \in Forwarding /\ Made(t) /\ table' = table
  <2>1. Quiet(t) /\ call'[t].at # "socket"
    BY <1>1, <1>2, MadeIsQuiet
  <2> QED
    BY <1>1, <2>1, QuietKeepsPorts DEF PortInv
<1>3. CASE call[t].at \in {"unforward", "unforwarding"} /\ Goes(t, "free") /\ UNCHANGED <<table, heap>>
  <2>1. call[t] \in CallRecord
    BY <1>1 DEF SocketInv, Types
  <2>2. call'[t].at = "free" /\ \A u \in Threads : u # t => call'[u] = call[u]
    BY <1>1, <1>3, <2>1 DEF Goes, SocketInv, Types, CallRecord
  <2>3. Quiet(t) /\ call'[t].at # "socket"
    BY <1>3, <2>2 DEF Quiet
  <2> QED
    BY <1>1, <2>3, QuietKeepsPorts DEF PortInv
<1>4. CASE UNCHANGED <<table, heap, call>>
  BY <1>4, PortsUnchanged
<1> QED
  BY <1>2, <1>3, <1>4 DEF NoRouterYet, Forwarded, Unforwarded, Forwarding, Crash, socketVars

(* A call that has held the place k and the structure there goes on; the   *)
(* other places are as they were.                                          *)
LEMMA ClosingKeepsPorts ==
    ASSUME SocketInv, PortInv, NEW t \in Threads,
           CloseSocket(t) \/ FreeSocket(t) \/ ClearSlot(t)
    PROVE  PortInv'
<1>1. call[t].at \in {"close", "free", "clear"} /\ call[t].at \in Holding
  BY DEF CloseSocket, FreeSocket, ClearSlot, Holding, Closing
<1>2. PICK k \in Slots :
         /\ k = call[t].slot /\ table[k] \in Blocks
         /\ Gone(k) <=> call[t].at = "clear"
         /\ \A u \in Threads : u # t => ~Holds(u, k)
  BY <1>1, HeldIsThere
<1>3. call[t] \in CallRecord
  BY DEF SocketInv, Types
<1>4. /\ \A u \in Threads : u # t => call'[u] = call[u]
      /\ \/ /\ CloseSocket(t) /\ call'[t].at = IF OwnsForward(Socket(k).mode) THEN "unforward" ELSE "free"
            /\ call'[t].slot = k
         \/ FreeSocket(t) /\ call'[t].at = "clear" /\ call'[t].slot = k
         \/ ClearSlot(t) /\ call'[t].at = "idle"
  <2>1. CASE CloseSocket(t)
    BY <1>2, <1>3, <2>1 DEF CloseSocket, SocketInv, Types, CallRecord
  <2>2. CASE FreeSocket(t)
    BY <1>2, <1>3, <2>2 DEF FreeSocket, Goes, SocketInv, Types, CallRecord
  <2>3. CASE ClearSlot(t)
    BY <2>3, IdleFits DEF ClearSlot, Returns, SocketInv, Types
  <2> QED
    BY <2>1, <2>2, <2>3
<1>5. /\ \A i \in Slots : i # k => table'[i] = table[i]
      /\ table'[k] = table[k] \/ table'[k] = 0
      /\ \A b \in Blocks : b # table[k] => heap'[b] = heap[b]
      /\ FreeSocket(t) => heap'[table[k]] = Freed /\ table' = table
      /\ CloseSocket(t) \/ ClearSlot(t) => heap' = heap
      /\ ClearSlot(t) => table'[k] = 0
      /\ CloseSocket(t) => table' = table
  BY <1>2 DEF CloseSocket, FreeSocket, ClearSlot, SocketInv, Types
<1>6. /\ \A i \in Slots : i # k => (Gone(i)' <=> Gone(i))
      /\ Gone(k)' <=> FreeSocket(t)
  <2>1. \A u \in Threads : u # t /\ call[u].at = "clear" => call[u].slot # k
    BY <1>2 DEF Holds, Holding, Closing
  <2> QED
    BY <1>1, <1>2, <1>4, <2>1 DEF Gone, FreeSocket, CloseSocket, ClearSlot, OwnsForward
<1>7. \A i \in Slots : table[i] \in Blocks \cup {0}
  BY DEF SocketInv, Types
<1>8. ASSUME NEW i \in Slots, i # k, table[i] # 0, ~Gone(i), heap'[table[i]] # heap[table[i]]
      PROVE  FALSE
  <2>1. table[i] = table[k] /\ FreeSocket(t)
    BY <1>4, <1>5, <1>7, <1>8
  <2>2. ~Gone(k)
    BY <1>2, <2>1 DEF FreeSocket
  <2> QED
    BY <1>8, <2>1, <2>2 DEF SocketInv, TableInv
<1>9. ASSUME NEW i \in Slots, NEW port \in Ports, Listens(i, port)'
      PROVE  Listens(i, port)
  <2>1. table'[i] # 0 /\ ~Gone(i)'
    BY <1>9 DEF Listens
  <2>2. CASE i = k
    <3>1. CloseSocket(t)
      BY <1>4, <1>5, <1>6, <2>1, <2>2
    <3>2. ~Gone(k)
      BY <1>2, <3>1 DEF CloseSocket
    <3> QED
      BY <1>5, <1>9, <2>2, <3>1, <3>2 DEF Listens, Socket
  <2>3. CASE i # k
    <3>1. table'[i] = table[i] /\ ~Gone(i) /\ heap'[table[i]] = heap[table[i]]
      BY <1>5, <1>6, <1>8, <2>1, <2>3
    <3> QED
      BY <1>9, <3>1 DEF Listens, Socket
  <2> QED
    BY <2>2, <2>3
<1>10. \A u \in Threads, port \in Ports : WillListen(u, port)' => WillListen(u, port)
  BY <1>4 DEF WillListen
<1>11. ListenersApart'
  BY <1>9, <1>10, ListenersKept DEF PortInv
<1>12. CalledPorts'
  BY <1>4 DEF PortInv, CalledPorts
<1>13. \A b \in Blocks : heap'[b].live => heap'[b] = heap[b]
  BY <1>4, <1>5 DEF Freed
<1>14. SocketPorts'
  BY <1>13 DEF PortInv, SocketPorts
<1>15. GoneAreStreams'
  <2> SUFFICES ASSUME NEW i \in Slots, table'[i] # 0, Gone(i)', heap'[table'[i]].live
               PROVE  heap'[table'[i]].kind = "STREAM"
    BY DEF GoneAreStreams, Socket
  <2>1. i # k
    BY <1>2, <1>5, <1>6 DEF Freed
  <2>2. table'[i] = table[i] /\ Gone(i) /\ heap'[table[i]] = heap[table[i]]
    BY <1>5, <1>6, <1>7, <1>13, <2>1
  <2> QED
    BY <2>2 DEF PortInv, GoneAreStreams, Socket
<1>16. OwnersUnforward'
  <2> SUFFICES ASSUME NEW u \in Threads, call'[u].at \in {"unforward", "unforwarding"}
               PROVE  heap'[table'[call'[u].slot]].mode # "ACCEPT"
    BY DEF OwnersUnforward, Socket
  <2>1. CASE u = t
    <3>1. CloseSocket(t) /\ heap[table[k]].mode # "ACCEPT" /\ call'[t].slot = k
      BY <1>4, <2>1 DEF OwnsForward, Socket
    <3> QED
      BY <1>5, <2>1, <3>1
  <2>2. CASE u # t
    <3>1. call'[u] = call[u] /\ call[u].at \in Holding /\ call[u].at # "clear"
      BY <1>4, <2>2 DEF Holding, Closing
    <3>2. call[u].slot \in Slots /\ table[call[u].slot] # 0 /\ ~Gone(call[u].slot)
      BY <3>1, HeldIsThere
    <3>3. call[u].slot # k
      BY <1>2, <2>2, <3>1 DEF Holds
    <3>4. heap[table[call[u].slot]].mode # "ACCEPT"
      BY <3>1 DEF PortInv, OwnersUnforward, Socket
    <3> QED
      BY <1>5, <1>8, <3>1, <3>2, <3>3, <3>4
  <2> QED
    BY <2>1, <2>2
<1> QED
  BY <1>11, <1>12, <1>14, <1>15, <1>16 DEF PortInv

(* A structure that is entered: a listener the call has announced, or an   *)
(* accepted socket.                                                        *)
LEMMA EnteringKeepsPorts ==
    ASSUME SocketInv, PortInv, NEW t \in Threads, NEW s \in SocketRecord,
           FreeSlots # {}, FreeBlocks # {}, Entered(t, s),
           call[t].at \in {"enter", "accepted"}, call'[t].at \in {"forward", "idle"},
           \A u \in Threads : u # t => call'[u] = call[u],
           \/ call[t].at = "enter" /\ s.kind = call[t].do /\ s.port = call[t].port
           \/ s.kind = "STREAM" /\ s.mode = "ACCEPT"
    PROVE  PortInv'
<1>1. PICK k \in Slots, b \in Blocks :
         /\ b # 0 /\ table[k] = 0 /\ table'[k] = b /\ heap'[b] = s
         /\ \A j \in Slots : j # k => table'[j] = table[j]
         /\ \A d \in Blocks : d # b => heap'[d] = heap[d]
         /\ \A j \in Slots : table[j] # 0 /\ ~Gone(j) => table[j] # b
         /\ \A u \in Threads : ~Holds(u, k)
  BY EnteredIsApart
<1>2. \A i \in Slots : table[i] \in Blocks \cup {0}
  BY DEF SocketInv, Types
<1>3. \A i \in Slots : Gone(i)' <=> Gone(i)
  BY DEF Gone
<1>4. ASSUME NEW i \in Slots, i # k, NEW port \in Ports
      PROVE  Listens(i, port)' <=> Listens(i, port)
  BY <1>1, <1>2, <1>3, <1>4 DEF Listens, Socket
<1>5. ASSUME NEW port \in Ports, Listens(k, port)'
      PROVE  WillListen(t, port) /\ call[t].at = "enter"
  <2>1. s.kind = "LISTEN" /\ s.port = port
    BY <1>1, <1>5 DEF Listens, Socket
  <2> QED
    BY <2>1 DEF WillListen
<1>6. /\ \A u \in Threads, port \in Ports : u # t => (WillListen(u, port)' <=> WillListen(u, port))
      /\ \A port \in Ports : ~WillListen(t, port)'
  BY DEF WillListen
<1>7. ListenersApart'
  <2>1. \A i, j \in Slots, port \in Ports : Listens(i, port)' /\ Listens(j, port)' => i = j
    BY <1>4, <1>5 DEF PortInv, ListenersApart
  <2>2. \A u \in Threads, i \in Slots, port \in Ports : ~(WillListen(u, port)' /\ Listens(i, port)')
    BY <1>4, <1>5, <1>6 DEF PortInv, ListenersApart
  <2>3. \A u, v \in Threads, port \in Ports : WillListen(u, port)' /\ WillListen(v, port)' => u = v
    BY <1>6 DEF PortInv, ListenersApart
  <2> QED
    BY <2>1, <2>2, <2>3 DEF ListenersApart
<1>8. CalledPorts'
  BY DEF PortInv, CalledPorts
<1>9. SocketPorts'
  BY <1>1 DEF PortInv, SocketPorts, CalledPorts
<1>10. GoneAreStreams'
  <2> SUFFICES ASSUME NEW i \in Slots, table'[i] # 0, Gone(i), heap'[table'[i]].live
               PROVE  heap'[table'[i]].kind = "STREAM"
    BY <1>3 DEF GoneAreStreams, Socket
  <2>1. \E u \in Threads : call[u].at \in Closing
    BY DEF Gone, Closing
  <2>2. s.kind = "STREAM"
    BY <2>1 DEF SocketInv, ApartInv, Creating
  <2>3. i # k
    BY <1>1 DEF Gone, Holds, Holding, Closing
  <2> QED
    BY <1>1, <1>2, <2>2, <2>3 DEF PortInv, GoneAreStreams, Socket
<1>11. OwnersUnforward'
  <2> SUFFICES ASSUME NEW u \in Threads, call'[u].at \in {"unforward", "unforwarding"}
               PROVE  heap'[table'[call'[u].slot]].mode # "ACCEPT"
    BY DEF OwnersUnforward, Socket
  <2>1. call'[u] = call[u] /\ call[u].at \in Holding /\ call[u].at # "clear"
    BY DEF Holding, Closing
  <2>2. call[u].slot \in Slots /\ table[call[u].slot] \in Blocks /\ table[call[u].slot] # 0 /\ ~Gone(call[u].slot)
    BY <2>1, HeldIsThere
  <2>3. heap[table[call[u].slot]].mode # "ACCEPT"
    BY <2>1 DEF PortInv, OwnersUnforward, Socket
  <2> QED
    BY <1>1, <2>1, <2>2, <2>3
<1> QED
  BY <1>7, <1>8, <1>9, <1>10, <1>11 DEF PortInv

LEMMA CallGoesOnKeepsPorts ==
    ASSUME IInv, PortInv, NEW t \in Threads, CallGoesOn(t)
    PROVE  PortInv'
<1>1. SocketInv
  BY DEF IInv
<1>2. CASE QuietSteps(t) \/ StopUpnp(t) \/ UpnpIsStopped(t)
  <2>1. Quiet(t) /\ call'[t].at # "socket"
    BY <1>1, <1>2, CallsGoOnQuietly, CtlStopsQuietly
  <2> QED
    BY <1>1, <2>1, QuietKeepsPorts DEF PortInv
<1>3. CASE Enter(t) \/ EnterAccepted(t)
  BY <1>1, <1>3, EnterMakes, EnterAcceptedMakes, EnteringKeepsPorts
<1>4. CASE NoRouterYet(t) \/ Forwarded(t) \/ Unforwarded(t)
  BY <1>4, ToFreeKeepsPorts
<1>5. CASE CloseSocket(t) \/ FreeSocket(t) \/ ClearSlot(t)
  BY <1>1, <1>5, ClosingKeepsPorts
<1>6. CASE DeleteAll(t)
  <2>1. /\ \A i \in Slots : table'[i] = 0
        /\ \A b \in Blocks : heap'[b] = heap[b] \/ heap'[b] = Freed
    BY <1>6 DEF DeleteAll
  <2>2. \A u \in Threads : call'[u].at = "idle"
    BY <1>1, <1>6, IdleFits DEF DeleteAll, Returns, SocketInv, Types, ApartInv, Terming
  <2>3. ListenersApart'
    BY <2>1, <2>2 DEF ListenersApart, Listens, WillListen
  <2>4. CalledPorts' /\ OwnersUnforward'
    BY <2>2 DEF CalledPorts, OwnersUnforward
  <2>5. SocketPorts'
    BY <2>1 DEF PortInv, SocketPorts, Freed
  <2>6. GoneAreStreams'
    BY <2>1 DEF GoneAreStreams
  <2> QED
    BY <2>3, <2>4, <2>5, <2>6 DEF PortInv
<1> QED
  BY <1>2, <1>3, <1>4, <1>5, <1>6 DEF CallGoesOn, QuietSteps

LEMMA NextKeepsPorts ==
    ASSUME IInv, PortInv, "overlap" \notin Habits, "race" \notin Habits, [Next]_vars
    PROVE  PortInv'
<1>1. CASE (\E w \in Finders : FinderRuns(w)) \/ UNCHANGED vars
  <2>1. UNCHANGED <<table, heap, call>>
    BY <1>1 DEF FinderRuns, socketVars, vars
  <2> QED
    BY <2>1, PortsUnchanged
<1> QED
  BY <1>1, GameCallsKeepPorts, CallGoesOnKeepsPorts DEF Next

LEMMA InitHasPorts ==
    ASSUME Init
    PROVE  PortInv
<1>1. \A t \in Threads : call[t].at = "idle"
  BY IdleFits DEF Init
<1> QED
  BY <1>1 DEF Init, Freed, PortInv, ListenersApart, CalledPorts, SocketPorts, GoneAreStreams,
              OwnersUnforward, Listens, WillListen

(* Only the end of a close takes a forward away, and only that of the      *)
(* socket it closes.                                                       *)
LEMMA OnlyUnforwardedTakes ==
    ASSUME IInv, "overlap" \notin Habits, [Next]_vars, NEW f \in forwards, f \notin forwards'
    PROVE  \E t \in Threads : Unforwarded(t) /\ f = <<Protocol(call[t].do), call[t].port>>
<1>1. SocketInv
  BY DEF IInv
<1>2. ASSUME NEW t \in Threads, GameCalls(t)
      PROVE  FALSE
  BY <1>2, CallsBeginQuietly
<1>3. ASSUME NEW t \in Threads, CallGoesOn(t), ~Unforwarded(t)
      PROVE  FALSE
  <2>1. CASE QuietSteps(t) \/ StopUpnp(t) \/ UpnpIsStopped(t)
    BY <1>1, <2>1, CallsGoOnQuietly, CtlStopsQuietly
  <2>2. CASE Enter(t) \/ EnterAccepted(t) \/ NoRouterYet(t) \/ CloseSocket(t) \/ FreeSocket(t)
             \/ ClearSlot(t) \/ DeleteAll(t)
    BY <2>2 DEF Enter, EnterAccepted, NoRouterYet, CloseSocket, FreeSocket, ClearSlot, DeleteAll, upnpVars
  <2>3. CASE Forwarded(t)
    BY <2>3 DEF Forwarded, Forward, Crash, upnpVars
  <2> QED
    BY <1>3, <2>1, <2>2, <2>3 DEF CallGoesOn, QuietSteps
<1>4. ASSUME NEW w \in Finders, FinderRuns(w)
      PROVE  FALSE
  BY <1>4 DEF FinderRuns, FinderStep, Discover, DevicesFound, NothingFound, GatewayFound, NoGateway, NoAddress,
              Publish, Retire, FinderEnds, FreesList, UpnpCrash, upnpVars
<1>5. ASSUME NEW t \in Threads, Unforwarded(t)
      PROVE  f = <<Protocol(call[t].do), call[t].port>>
  BY <1>5 DEF Unforwarded, Unforward, Crash, upnpVars
<1>6. CASE UNCHANGED vars
  BY <1>6 DEF vars
<1> QED
  BY <1>2, <1>3, <1>4, <1>5, <1>6 DEF Next

(* The only forward of a listener's port that a close can take away is the *)
(* one of the listener being closed.                                       *)
LEMMA ListenerUnforwardsItself ==
    ASSUME IInv, PortInv, ListenPorts \cap OpenPorts = {}, NEW t \in Threads,
           call[t].at = "unforwarding", NEW i \in Slots, Live(i), Socket(i).kind = "LISTEN",
           <<"TCP", Socket(i).port>> = <<Protocol(call[t].do), call[t].port>>
    PROVE  call[t].slot = i
<1> DEFINE k == call[t].slot
<1>1. SocketInv
  BY DEF IInv
<1>2. /\ k \in Slots /\ table[k] \in Blocks /\ table[k] # 0
      /\ ~Gone(k) /\ Socket(k).live
  BY <1>1, HeldIsThere DEF Holding, Closing
<1>3. call[t].do = Socket(k).kind /\ call[t].port = Socket(k).port
  BY <1>1 DEF SocketInv, CallsInv, Fits
<1>4. Socket(k).kind # "PDP" /\ Socket(k).port = Socket(i).port
  BY <1>3 DEF Protocol
<1>5. table[i] \in Blocks /\ Socket(i).port \in ListenPorts
  BY <1>1 DEF Live, Socket, SocketInv, Types, PortInv, SocketPorts
<1>6. Socket(k).mode # "ACCEPT"
  BY DEF PortInv, OwnersUnforward
<1>7. Socket(k).kind # "STREAM"
  BY <1>2, <1>4, <1>5, <1>6 DEF PortInv, SocketPorts, Socket
<1>8. Socket(k).kind = "LISTEN"
  BY <1>1, <1>2, <1>4, <1>7 DEF SocketInv, Types, SocketRecord, Socket
<1>9. ~Gone(i)
  BY DEF Live, PortInv, GoneAreStreams
<1>10. Listens(i, Socket(i).port) /\ Listens(k, Socket(i).port)
  BY <1>2, <1>4, <1>8, <1>9 DEF Listens, Live
<1>11. Socket(i).port \in Ports
  BY <1>5 DEF Ports
<1> QED
  BY <1>2, <1>10, <1>11 DEF PortInv, ListenersApart

(* A listener keeps its forward until it is closed, if also the ports of   *)
(* listeners and of open streams are different ones and no two threads     *)
(* create sockets for one port at once.                                    *)
THEOREM ListenersKeepForwards ==
    ASSUME "overlap" \notin Habits, "abort" \notin Habits, "race" \notin Habits,
           ListenPorts \cap OpenPorts = {}
    PROVE  Spec => ListenerKeepsForward
<1>1. Init => IInv /\ PortInv
  BY InitHasInv, InitHasPorts
<1>2. IInv /\ PortInv /\ [Next]_vars => (IInv /\ PortInv)'
  BY NextKeepsInv, NextKeepsPorts
<1>3. IInv /\ PortInv /\ [Next]_vars
        => [\A i \in Slots :
              LET f == <<"TCP", Socket(i).port>>
              IN  Live(i) /\ Socket(i).kind = "LISTEN" /\ f \in forwards /\ f \notin forwards'
                    => \E t \in Threads : call[t].at = "unforwarding" /\ call[t].slot = i]_vars
  <2> SUFFICES ASSUME IInv, PortInv, [Next]_vars, NEW i \in Slots, Live(i), Socket(i).kind = "LISTEN",
                      <<"TCP", Socket(i).port>> \in forwards, <<"TCP", Socket(i).port>> \notin forwards'
               PROVE  \E t \in Threads : call[t].at = "unforwarding" /\ call[t].slot = i
    OBVIOUS
  <2>1. PICK t \in Threads : Unforwarded(t) /\ <<"TCP", Socket(i).port>> = <<Protocol(call[t].do), call[t].port>>
    BY OnlyUnforwardedTakes
  <2>2. call[t].at = "unforwarding"
    BY <2>1 DEF Unforwarded
  <2> QED
    BY <2>1, <2>2, ListenerUnforwardsItself
<1> QED
  BY <1>1, <1>2, <1>3, PTL DEF Spec, ListenerKeepsForward

=============================================================================
