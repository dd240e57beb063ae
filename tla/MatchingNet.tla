----------------------------- MODULE MatchingNet -----------------------------
(***************************************************************************)
(* PSPs that match with each other: their matching contexts, the games     *)
(* that use them, and the datagrams between them.  A datagram waits in the *)
(* receiver's socket from Create to Delete.  Each sender's datagrams       *)
(* arrive in order, as the post office relays them, or not at all.         *)
(*                                                                         *)
(* A scenario says who plays in which mode, how big rooms are, which calls *)
(* the games use, and how much trouble there is: calls that part players,  *)
(* PSPs switched off, datagrams lost.                                      *)
(***************************************************************************)
EXTENDS Matching

CONSTANT Scenarios

ASSUME ScenarioAssumption ==
    \A s \in Scenarios :
        /\ s.modes \in UNION {[players -> Modes] : players \in SUBSET Nodes}
        /\ s.calls \subseteq {"Cancel", "Stop", "Delete", "PowerOff", "Send", "Abort"}
        /\ s.maxpeers \in 2..16 /\ s.trouble \in Nat

VARIABLES scenario, \* the scenario that is played
          ctx,      \* the context of every node
          inbox,    \* the datagrams on the way to a node or in its socket, oldest first
          game,     \* whom the events have told the game to be connected with
          granted,  \* whose requests the node's game has ever accepted
          trouble   \* how much trouble there has been

vars == <<scenario, ctx, inbox, game, granted, trouble>>

Players == DOMAIN scenario.modes
Uses(call) == call \in scenario.calls
Trouble == trouble < scenario.trouble /\ trouble' = trouble + 1

Running(n) == ctx[n].phase = "running"

(* A socket exists from Create to Delete; what is sent elsewhere is lost.  *)
Posted(boxes, packets) ==
    [n \in Nodes |->
        IF ctx[n].phase = "none" THEN boxes[n]
        ELSE boxes[n] \o Picked(packets, {i \in DOMAIN packets : packets[i].to = n})]

Becomes(n, result) ==
    /\ ctx' = [ctx EXCEPT ![n] = result.ctx]
    /\ inbox' = Posted(inbox, result.out)

Init ==
    /\ scenario \in Scenarios
    /\ ctx = [n \in Nodes |-> NoContext(IF n \in Players THEN scenario.modes[n] ELSE "CHILD",
                                       scenario.maxpeers)]
    /\ inbox = [n \in Nodes |-> <<>>]
    /\ game = [n \in Nodes |-> {}]
    /\ granted = [n \in Nodes |-> {}]
    /\ trouble = 0

-----------------------------------------------------------------------------
(* The life of a context.                                                  *)

Create(n) ==
    /\ n \in Players /\ ctx[n].phase = "none"
    /\ ctx' = [ctx EXCEPT ![n].phase = "created"]
    /\ UNCHANGED <<scenario, inbox, game, granted, trouble>>

Start(n) ==
    /\ ctx[n].phase = "created"
    /\ ctx' = [ctx EXCEPT ![n].phase = "running"]
    /\ UNCHANGED <<scenario, inbox, game, granted, trouble>>

(* What the game believes after the events of a stack, its top first: the  *)
(* last one about a player counts.                                         *)
Told(known, events) ==
    LET EventsOf(m, names) == {i \in DOMAIN events : events[i].mac = m /\ events[i].event \in names}
        Lost(m) == EventsOf(m, {"LEAVE", "BYE", "TIMEOUT"})
    IN  {m \in Nodes :
            \/ m \in known /\ Lost(m) = {}
            \/ \E i \in EventsOf(m, {"ESTABLISHED"}) : \A j \in Lost(m) : j < i}

(* The half second of grace has let the input thread send what was queued. *)
(* Then it says BYE and forgets its list, and the event thread delivers    *)
(* what is left.                                                           *)
Stop(n) ==
    /\ Running(n) /\ ctx[n].input = <<>> /\ Trouble
    /\ LET c == ctx[n]
       IN  Becomes(n, Result([c EXCEPT !.phase = "created", !.peers = <<>>, !.events = <<>>],
                             SendByes(c, n)))
    /\ game' = [game EXCEPT ![n] = {}]
    /\ UNCHANGED <<scenario, granted>>

Delete(n) ==
    /\ ctx[n].phase = "created"
    /\ ctx' = [ctx EXCEPT ![n] = NoContext(ctx[n].mode, ctx[n].maxpeers)]
    /\ inbox' = [inbox EXCEPT ![n] = <<>>]
    /\ UNCHANGED <<scenario, game, granted, trouble>>

PowerOff(n) ==
    /\ Running(n) /\ Trouble
    /\ ctx' = [ctx EXCEPT ![n] = NoContext(ctx[n].mode, ctx[n].maxpeers)]
    /\ inbox' = [inbox EXCEPT ![n] = <<>>]
    /\ game' = [game EXCEPT ![n] = {}]
    /\ UNCHANGED <<scenario, granted>>

-----------------------------------------------------------------------------
(* The other calls of the game.                                            *)

Accept(n, m) ==
    /\ Running(n)
    /\ \/ MayParentSelect(ctx[n], m) /\ ctx' = [ctx EXCEPT ![n] = ParentSelects(@, m)]
       \/ MayP2PAccept(ctx[n], m) /\ ctx' = [ctx EXCEPT ![n] = P2PAccepts(@, m)]
    /\ granted' = [granted EXCEPT ![n] = @ \cup {m}]
    /\ UNCHANGED <<scenario, inbox, game, trouble>>

Request(n, m) ==
    /\ Running(n) /\ MayRequest(ctx[n], m)
    /\ ctx' = [ctx EXCEPT ![n] = Requests(@, m)]
    /\ UNCHANGED <<scenario, inbox, game, granted, trouble>>

CancelTarget(n, m) ==
    /\ Running(n) /\ MayCancel(ctx[n], m) /\ Trouble
    /\ ctx' = [ctx EXCEPT ![n] = Cancels(@, m)]
    /\ UNCHANGED <<scenario, inbox, game, granted>>

(* Bound: the data of the last call has reached both games.                *)
DataUnread(n, m) ==
    \/ \E i \in DOMAIN inbox[m] : inbox[m][i].op = "BULK" /\ inbox[m][i].from = n
    \/ [event |-> "DATA", mac |-> n] \in ToSet(ctx[m].events)
    \/ [event |-> "DATA_ACK", mac |-> m] \in ToSet(ctx[n].events)
    \/ \E op \in {"BULK", "BULK_ABORT"} : [op |-> op, mac |-> m] \in ToSet(ctx[n].input)

SendData(n, m) ==
    /\ Running(n) /\ MaySend(ctx[n], m) /\ ~DataUnread(n, m)
    /\ ctx' = [ctx EXCEPT ![n] = Sends(@, m)]
    /\ UNCHANGED <<scenario, inbox, game, granted, trouble>>

AbortSendData(n, m) ==
    /\ Running(n) /\ MayAbort(ctx[n], m)
    /\ ctx' = [ctx EXCEPT ![n] = Aborts(@, m)]
    /\ UNCHANGED <<scenario, inbox, game, granted, trouble>>

-----------------------------------------------------------------------------
(* The threads.                                                            *)

(* Bound: one HELLO of a sender at a time is on the way or in the event    *)
(* stack of a receiver.                                                    *)
HelloUnread(n, m) ==
    \/ \E i \in DOMAIN inbox[m] : inbox[m][i].op = "HELLO" /\ inbox[m][i].from = n
    \/ [event |-> "HELLO", mac |-> n] \in ToSet(ctx[m].events)

BroadcastHello(n) ==
    /\ Running(n) /\ HasSlot(ctx[n])
    /\ LET reached == {m \in Nodes \ {n} : Running(m) /\ Unattached(ctx[m]) /\ ~HelloUnread(n, m)}
       IN  /\ reached # {}
           /\ inbox' = [m \in Nodes |-> IF m \in reached
                                        THEN Append(inbox[m], Packet(n, m, "HELLO"))
                                        ELSE inbox[m]]
    /\ UNCHANGED <<scenario, ctx, game, granted, trouble>>

Drain(n) ==
    /\ Running(n) /\ ctx[n].input # <<>>
    /\ Becomes(n, DrainInput(ctx[n], n))
    /\ UNCHANGED <<scenario, game, granted, trouble>>

(* The i-th packet may come next: it is its sender's oldest.               *)
Oldest(n, i) == \A j \in 1..(i - 1) : inbox[n][j].from # inbox[n][i].from

Receive(n) ==
    /\ Running(n)
    /\ \E i \in DOMAIN inbox[n] :
          /\ Oldest(n, i)
          /\ LET r == ActOn(ctx[n], n, inbox[n][i])
             IN  /\ ctx' = [ctx EXCEPT ![n] = r.ctx]
                 /\ inbox' = Posted([inbox EXCEPT ![n] = RemoveAt(@, i)], r.out)
    /\ UNCHANGED <<scenario, game, granted, trouble>>

Lose(n) ==
    /\ Trouble
    /\ \E i \in DOMAIN inbox[n] : inbox' = [inbox EXCEPT ![n] = RemoveAt(@, i)]
    /\ UNCHANGED <<scenario, ctx, game, granted>>

(* Who is off the air is silent, and adhocctl, whose list counts as a ping *)
(* once a second, has lost him.                                            *)
Gone(m) == ctx[m].phase = "none"

HandleTimeout(n, m) ==
    /\ Running(n) /\ m # n /\ Gone(m) /\ MayTimeOut(ctx[n], m)
    /\ Becomes(n, TimeOut(ctx[n], n, m))
    /\ UNCHANGED <<scenario, game, granted, trouble>>

(* A peer that adhocctl has not listed for three seconds is taken to have  *)
(* said BYE.  Bound: not again while the event of the last time waits.     *)
MissingOnAdhocctl(n) ==
    /\ Running(n)
    /\ \E m \in Nodes \ {n} :
          /\ Gone(m) /\ Known(ctx[n], m)
          /\ [event |-> "BYE", mac |-> m] \notin ToSet(ctx[n].events)
          /\ ctx' = [ctx EXCEPT ![n] = ActOnBye(@, n, m)]
    /\ UNCHANGED <<scenario, inbox, game, granted, trouble>>

(* The event thread delivers its stack.                                    *)
DispatchEvents(n) ==
    /\ Running(n) /\ ctx[n].events # <<>>
    /\ ctx' = [ctx EXCEPT ![n].events = <<>>]
    /\ game' = [game EXCEPT ![n] = Told(@, ctx[n].events)]
    /\ UNCHANGED <<scenario, inbox, granted, trouble>>

-----------------------------------------------------------------------------
GameStep(n) ==
    \/ Create(n) \/ Start(n)
    \/ Uses("Stop") /\ Stop(n)
    \/ Uses("Delete") /\ Delete(n)
    \/ Uses("PowerOff") /\ PowerOff(n)
    \/ \E m \in Nodes :
          \/ Accept(n, m) \/ Request(n, m)
          \/ Uses("Cancel") /\ CancelTarget(n, m)
          \/ Uses("Send") /\ SendData(n, m)
          \/ Uses("Abort") /\ AbortSendData(n, m)

InputThread(n) ==
    \/ BroadcastHello(n) \/ Drain(n) \/ Receive(n) \/ MissingOnAdhocctl(n)
    \/ \E m \in Nodes : HandleTimeout(n, m)

Next == \E n \in Nodes : GameStep(n) \/ InputThread(n) \/ DispatchEvents(n) \/ Lose(n)

Spec == Init /\ [][Next]_vars

(* Both threads of a running context keep running.                         *)
FairSpec ==
    /\ Spec
    /\ \A n \in Nodes :
          /\ WF_vars(Drain(n)) /\ WF_vars(Receive(n)) /\ WF_vars(DispatchEvents(n))
          /\ WF_vars(\E m \in Nodes : HandleTimeout(n, m))

-----------------------------------------------------------------------------
PacketRecord == [from : Nodes, to : Nodes, mac : Nodes, siblings : Seq(Nodes),
                 op : {"HELLO", "JOIN", "ACCEPT", "CANCEL", "BULK", "BIRTH", "DEATH", "BYE"}]

TypeOK ==
    /\ ctx \in [Nodes -> Context]
    /\ inbox \in [Nodes -> Seq(PacketRecord)]
    /\ game \in [Nodes -> SUBSET Nodes]
    /\ granted \in [Nodes -> SUBSET Nodes]
    /\ \A n \in Nodes : \A i \in DOMAIN ctx[n].peers :
          ctx[n].peers[i].mac = n <=> ctx[n].peers[i].state = "SELF"
    /\ scenario \in Scenarios /\ trouble \in 0..scenario.trouble

StatesIn(n, states) == PlacesOf(ctx[n], states)
MacsIn(n, states) == {ctx[n].peers[i].mac : i \in StatesIn(n, states)}

(* A room never has more members than maxpeers, its host included, however *)
(* many requests are accepted before the threads run.                      *)
RoomCapacity ==
    \A n \in Nodes : ctx[n].mode = "PARENT" =>
        Cardinality(StatesIn(n, {"CHILD"})) <= ctx[n].maxpeers - 1

(* A child has at most one parent or pending request, a P2P player one     *)
(* partner or pending request.                                             *)
OnePartner ==
    \A n \in Nodes : ctx[n].mode # "PARENT" =>
        Cardinality(StatesIn(n, {"PARENT", "P2P", "OUTGOING_REQUEST"})) <= 1

(* Nobody is connected with a host or a partner who has not accepted him.  *)
NoneUninvited ==
    \A n \in Nodes :
        /\ \A m \in MacsIn(n, {"PARENT"}) : n \in granted[m]
        /\ \A m \in MacsIn(n, {"P2P"}) : n \in granted[m] \/ m \in granted[n]

(* Nothing is under way.                                                   *)
Settled == \A n \in Nodes : inbox[n] = <<>> /\ ctx[n].input = <<>> /\ ctx[n].events = <<>>

(* Without trouble, host and children agree on who is in the room once all *)
(* is settled, the children also among each other.                         *)
RoomAgreement ==
    Settled /\ trouble = 0 =>
        \A p \in Nodes : ctx[p].mode = "PARENT" =>
            /\ MacsIn(p, {"CHILD"}) = {n \in Nodes : p \in MacsIn(n, {"PARENT"})}
            /\ \A n \in MacsIn(p, {"CHILD"}) : MacsIn(n, {"CHILD"}) = MacsIn(p, {"CHILD"}) \ {n}

(* Without trouble, the events have told the game exactly of its parent,   *)
(* its children or its P2P partner.                                        *)
GameInformed ==
    Settled /\ trouble = 0 =>
        \A n \in Nodes :
            game[n] = MacsIn(n, IF ctx[n].mode = "CHILD" THEN {"PARENT"} ELSE {"CHILD", "P2P"})

(* The busy bit of a peer is set only while its message waits in the input *)
(* stack, so that no later SendData is refused for good.                   *)
BusyOnlyQueued(n) ==
    \A i \in DOMAIN ctx[n].peers :
        ctx[n].peers[i].sending =>
            [op |-> "BULK", mac |-> ctx[n].peers[i].mac] \in ToSet(ctx[n].input)

(* So it is for hosts and equals in any room, and for a child who is alone *)
(* with its host.                                                          *)
BusyMeansQueued ==
    \A n \in Nodes :
        \/ BusyOnlyQueued(n)
        \/ ctx[n].mode = "CHILD" /\ ~\E x, y \in Nodes : Players \subseteq {x, y}

(* It is not so for a child with siblings, who may list a sibling twice.   *)
ChildrenTooAreQueued == \A n \in Nodes : BusyOnlyQueued(n)

(* A peer that has said CANCEL or BYE is evicted.                          *)
Leaving(n, m) == \E i \in DOMAIN ctx[n].peers : ctx[n].peers[i].mac = m /\ ctx[n].peers[i].leaving

LeaversAreEvicted == \A n \in Nodes : \A m \in Nodes \ {n} : Leaving(n, m) ~> ~Leaving(n, m)
=============================================================================
