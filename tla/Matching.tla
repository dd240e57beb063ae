------------------------------ MODULE Matching ------------------------------
(***************************************************************************)
(* The adhoc matching library on every PSP (pspnet_adhoc_matching): one    *)
(* matching context per PSP, identified by its MAC address.  An operator   *)
(* with a context as its argument is a piece of the code that changes the  *)
(* context; it returns the changed one, or a result [ctx, out] when it     *)
(* also sends packets.                                                     *)
(*                                                                         *)
(* Whoever walks a member list holds members_lock for the whole walk, so   *)
(* a packet, a drained stack and an API call are one step each.  Pings are *)
(* not packets here: a peer is silent when its context is not running, and *)
(* the timeout strikes only silent peers (a ping comes every half second,  *)
(* a timeout takes at least one and a half).  Optional data is left out.   *)
(***************************************************************************)
EXTENDS Integers, FiniteSets, SequencesExt, SubLists

CONSTANT Nodes  \* MAC addresses of the PSPs

ASSUME MatchingAssumption == IsFiniteSet(Nodes)

Modes == {"PARENT", "CHILD", "P2P"}

(* SELF is the state 0 of the own node that a child links into its list.   *)
PeerStates == {"OFFER", "PARENT", "CHILD", "P2P", "INCOMING_REQUEST",
               "OUTGOING_REQUEST", "CANCEL_IN_PROGRESS", "SELF"}

Established == {"PARENT", "CHILD", "P2P"}

(* leaving stands for lastping = delayed_removal: this peer has said       *)
(* CANCEL or BYE.                                                          *)
PeerRecord == [mac : Nodes, state : PeerStates, joining : BOOLEAN,
               sending : BOOLEAN, leaving : BOOLEAN]

EventNames == {"HELLO", "REQUEST", "LEAVE", "DENY", "CANCEL", "ACCEPT", "ESTABLISHED",
               "TIMEOUT", "BYE", "DATA", "DATA_ACK"}
MessageOps == {"JOIN", "ACCEPT", "CANCEL", "BULK", "BULK_ABORT", "BIRTH", "DEATH"}

Context ==
    [phase : {"none", "created", "running"},  \* not in _contexts; running = 0; running = 1
     mode : Modes,
     maxpeers : 2..16,                                       \* members of a room with its host
     peers : Seq(PeerRecord),                                \* peerlist, newest first
     events : Seq([event : EventNames, mac : Nodes]),        \* event_stack, newest first
     input : Seq([op : MessageOps, mac : Nodes])]            \* input_stack, newest first

NoContext(mode, maxpeers) == [phase |-> "none", mode |-> mode, maxpeers |-> maxpeers,
                              peers |-> <<>>, events |-> <<>>, input |-> <<>>]

Packet(from, to, op) == [from |-> from, to |-> to, op |-> op, mac |-> to, siblings |-> <<>>]
About(from, to, op, mac) == [Packet(from, to, op) EXCEPT !.mac = mac]

-----------------------------------------------------------------------------
(* The member list (functions.c).                                          *)

Place(c, m) == SelectInSeq(c.peers, LAMBDA p : p.mac = m)     \* _findPeer, 0 for NULL
Known(c, m) == Place(c, m) # 0
FirstIn(c, state) == SelectInSeq(c.peers, LAMBDA p : p.state = state)
Has(c, state) == FirstIn(c, state) # 0

(* The peer m is the one that _findParent, _findP2P or                     *)
(* _findOutgoingRequest returns.                                           *)
IsThe(state, c, m) == Known(c, m) /\ Place(c, m) = FirstIn(c, state)

StateOf(c, m) == c.peers[Place(c, m)].state
KnownAs(c, m, states) == Known(c, m) /\ StateOf(c, m) \in states

PlacesOf(c, states) == {i \in DOMAIN c.peers : c.peers[i].state \in states}
OtherPlaces(c, m) == {i \in DOMAIN c.peers : c.peers[i].mac # m}
CountChildren(c) == Cardinality(PlacesOf(c, {"CHILD"}))

Link(c, m, state, joining) ==
    [c EXCEPT !.peers = <<[mac |-> m, state |-> state, joining |-> joining,
                           sending |-> FALSE, leaving |-> FALSE]>> \o @]

DeletePeer(c, m) == [c EXCEPT !.peers = RemoveAt(@, Place(c, m))]

SetState(c, m, state) == [c EXCEPT !.peers[Place(c, m)].state = state]
SetJoining(c, m, joining) == [c EXCEPT !.peers[Place(c, m)].joining = joining]
SetSending(c, m, sending) == [c EXCEPT !.peers[Place(c, m)].sending = sending]
SetLeaving(c, m) == [c EXCEPT !.peers[Place(c, m)].leaving = TRUE]
Refresh(c, m) == [c EXCEPT !.peers[Place(c, m)].leaving = FALSE]

(* After the parent's CANCEL or BYE: the own node goes, all others have a  *)
(* delayed removal.                                                        *)
Disband(c, self) ==
    LET others == Picked(c.peers, OtherPlaces(c, self))
    IN  [c EXCEPT !.peers = [i \in DOMAIN others |-> [others[i] EXCEPT !.leaving = TRUE]]]

Spawn(c, event, m) == [c EXCEPT !.events = <<[event |-> event, mac |-> m]>> \o @]
PushInput(c, op, m) == [c EXCEPT !.input = <<[op |-> op, mac |-> m]>> \o @]

(* A context whose member list still has room for a partner.               *)
HasSlot(c) ==
    \/ c.mode = "PARENT" /\ CountChildren(c) < c.maxpeers - 1
    \/ c.mode = "P2P" /\ ~Has(c, "P2P")

(* A context that may still become somebody's member.                      *)
Unattached(c) ==
    \/ c.mode = "CHILD" /\ ~Has(c, "PARENT")
    \/ c.mode = "P2P" /\ ~Has(c, "P2P")

-----------------------------------------------------------------------------
(* The senders (start.c).                                                  *)

Result(c, packets) == [ctx |-> c, out |-> packets]

OtherChildren(c, m) == Picked(c.peers, PlacesOf(c, {"CHILD"}) \cap OtherPlaces(c, m))

(* One packet about m to every child in the list but m.                    *)
TellChildren(c, self, m, op) ==
    LET told == OtherChildren(c, m)
    IN  [i \in DOMAIN told |-> About(self, told[i].mac, op, m)]

SiblingsOf(c, m) ==
    LET others == OtherChildren(c, m)
    IN  IF c.mode = "PARENT" THEN [i \in DOMAIN others |-> others[i].mac] ELSE <<>>

(* Mutant of SendAccept: the own game is not told.                         *)
SendAcceptSilently(c, self, m) ==
    Result(c, IF KnownAs(c, m, {"CHILD", "P2P"})
              THEN <<[Packet(self, m, "ACCEPT") EXCEPT !.siblings = SiblingsOf(c, m)]>>
              ELSE <<>>)

SendAccept(c, self, m) ==
    IF KnownAs(c, m, {"CHILD", "P2P"})
    THEN Result(Spawn(c, "ESTABLISHED", m),
                <<[Packet(self, m, "ACCEPT") EXCEPT !.siblings = SiblingsOf(c, m)]>>)
    ELSE Result(c, <<>>)

SendJoin(c, self, m) ==
    Result(c, IF KnownAs(c, m, {"OUTGOING_REQUEST"}) THEN <<Packet(self, m, "JOIN")>> ELSE <<>>)

(* The packet goes out whether the peer is known or not; a child forgets   *)
(* everybody, the others forget that peer.                                 *)
SendCancel(c, self, m) ==
    Result(IF ~Known(c, m) THEN c
           ELSE IF c.mode = "CHILD" THEN [c EXCEPT !.peers = <<>>] ELSE DeletePeer(c, m),
           <<Packet(self, m, "CANCEL")>>)

(* Mutant of SendBulk: the peer stays busy.                                *)
SendBulkStaysBusy(c, self, m) ==
    IF Known(c, m)
    THEN Result(Spawn(c, "DATA_ACK", m), <<Packet(self, m, "BULK")>>)
    ELSE Result(c, <<>>)

SendBulk(c, self, m) ==
    IF Known(c, m)
    THEN Result(Spawn(SetSending(c, m, FALSE), "DATA_ACK", m), <<Packet(self, m, "BULK")>>)
    ELSE Result(c, <<>>)

SendBirth(c, self, m) ==
    Result(c, IF Known(c, m) THEN TellChildren(c, self, m, "BIRTH") ELSE <<>>)

SendDeath(c, self, m) ==
    IF Known(c, m)
    THEN Result(DeletePeer(c, m),
                <<Packet(self, m, "BYE")>> \o TellChildren(c, self, m, "DEATH"))
    ELSE Result(c, <<>>)

SendByes(c, self) ==
    LET told == Picked(c.peers, PlacesOf(c, Established))
    IN  [i \in DOMAIN told |-> Packet(self, told[i].mac, "BYE")]

(* What the input thread does for one message of its stack.                *)
SendMessage(c, self, msg) ==
    CASE msg.op = "ACCEPT" -> SendAccept(c, self, msg.mac)
      [] msg.op = "JOIN"   -> SendJoin(c, self, msg.mac)
      [] msg.op = "CANCEL" -> SendCancel(c, self, msg.mac)
      [] msg.op = "BULK"   -> SendBulk(c, self, msg.mac)
      [] msg.op = "BIRTH"  -> SendBirth(c, self, msg.mac)
      [] msg.op = "DEATH"  -> SendDeath(c, self, msg.mac)
      [] msg.op = "BULK_ABORT" -> Result(c, <<>>)

(* The whole stack is sent, from its top, under one hold of members_lock.  *)
SendNext(r, self, msg) ==
    LET s == SendMessage(r.ctx, self, msg)
    IN  Result(s.ctx, r.out \o s.out)

DrainInput(c, self) ==
    LET after[i \in 0..Len(c.input)] ==
            IF i = 0 THEN Result([c EXCEPT !.input = <<>>], <<>>)
                     ELSE SendNext(after[i - 1], self, c.input[i])
    IN  after[Len(c.input)]

-----------------------------------------------------------------------------
(* The packet handlers (start.c).                                          *)

ActOnHello(c, m) ==
    IF Unattached(c)
    THEN Spawn(IF Known(c, m) THEN c ELSE Link(c, m, "OFFER", FALSE), "HELLO", m)
    ELSE c

(* Mutant of ActOnJoin: a request that crosses the own one counts as its   *)
(* answer.                                                                 *)
ActOnJoinTakesCrossing(c, self, m) ==
    IF c.mode = "P2P" /\ HasSlot(c)
    THEN Result(IF IsThe("OUTGOING_REQUEST", c, m) THEN SetState(c, m, "P2P")
                ELSE IF Known(c, m) THEN Spawn(SetState(c, m, "INCOMING_REQUEST"), "REQUEST", m)
                ELSE Spawn(Link(c, m, "INCOMING_REQUEST", TRUE), "REQUEST", m), <<>>)
    ELSE IF c.mode = "CHILD" \/ Known(c, m) THEN Result(c, <<>>)
    ELSE IF ~HasSlot(c) THEN SendCancel(c, self, m)
    ELSE Result(Spawn(Link(c, m, "INCOMING_REQUEST", FALSE), "REQUEST", m), <<>>)

(* A parent that knows the sender stays silent; a P2P context takes the    *)
(* request again, whatever it thought of the sender before.                *)
ActOnJoin(c, self, m) ==
    LET joining == c.mode = "P2P"
        requested == IF Known(c, m)
                     THEN Refresh(SetJoining(SetState(c, m, "INCOMING_REQUEST"), m, joining), m)
                     ELSE Link(c, m, "INCOMING_REQUEST", joining)
    IN  IF c.mode = "CHILD" THEN Result(c, <<>>)
        ELSE IF ~HasSlot(c) THEN SendCancel(c, self, m)
        ELSE IF Known(c, m) /\ c.mode = "PARENT" THEN Result(c, <<>>)
        ELSE Result(Spawn(requested, "REQUEST", m), <<>>)

(* _postAcceptCleanPeerList, then _postAcceptAddSiblings, then the own     *)
(* node.                                                                   *)
CleanPeerList(c) ==
    [c EXCEPT !.peers = Picked(@, PlacesOf(c, Established \cup {"SELF"}))]

AddSiblings(c, siblings) ==
    LET new == Picked(siblings, {i \in DOMAIN siblings : ~Known(c, siblings[i])})
        renewed == [i \in DOMAIN c.peers |->
                       IF c.peers[i].mac \in ToSet(siblings) /\ Place(c, c.peers[i].mac) = i
                       THEN [c.peers[i] EXCEPT !.state = "CHILD", !.sending = FALSE,
                                               !.leaving = FALSE]
                       ELSE c.peers[i]]
        linked == [i \in DOMAIN new |-> [mac |-> new[i], state |-> "CHILD", joining |-> FALSE,
                                         sending |-> FALSE, leaving |-> FALSE]]
    IN  [c EXCEPT !.peers = linked \o renewed]

AddSelf(c, self) == IF Known(c, self) THEN c ELSE Link(c, self, "SELF", FALSE)

ActOnAccept(c, self, m, siblings) ==
    LET child == AddSelf(AddSiblings(CleanPeerList(SetState(c, m, "PARENT")), siblings), self)
        p2p == SetJoining(CleanPeerList(SetState(c, m, "P2P")), m, TRUE)
        joined == IF c.mode = "CHILD" THEN child ELSE p2p
    IN  IF Unattached(c) /\ IsThe("OUTGOING_REQUEST", c, m)
        THEN Spawn(Spawn(joined, "ESTABLISHED", m), "ACCEPT", m)
        ELSE c

(* The LEAVE events of a child that was kicked, one per established peer.  *)
SpawnLeaves(c) ==
    LET left == Picked(c.peers, PlacesOf(c, {"CHILD", "PARENT"}))
        leaves == [i \in DOMAIN left |-> [event |-> "LEAVE", mac |-> left[i].mac]]
    IN  [c EXCEPT !.events = Reverse(leaves) \o @]

(* The event a CANCEL of m means, "none" when it means nothing.            *)
CancelMeans(c, m) ==
    CASE c.mode # "PARENT" /\ IsThe("OUTGOING_REQUEST", c, m) -> "DENY"
      [] c.mode = "P2P" /\ IsThe("P2P", c, m) -> "LEAVE"
      [] c.mode = "PARENT" /\ StateOf(c, m) = "CHILD" -> "LEAVE"
      [] c.mode # "CHILD" /\ StateOf(c, m) = "INCOMING_REQUEST" -> "CANCEL"
      [] OTHER -> "none"

ActOnCancel(c, self, m) ==
    LET unblocked == SetJoining(c, m, FALSE)
    IN  IF ~Known(c, m) THEN c
        ELSE IF CancelMeans(c, m) # "none"
             THEN SetLeaving(Spawn(unblocked, CancelMeans(c, m), m), m)
        ELSE IF c.mode = "CHILD" /\ IsThe("PARENT", c, m)
             THEN Disband(SpawnLeaves(unblocked), self)
        ELSE unblocked

ActOnBulk(c, m) ==
    IF KnownAs(c, m, CASE c.mode = "PARENT" -> {"CHILD"}
                       [] c.mode = "CHILD" -> {"CHILD", "PARENT"}
                       [] c.mode = "P2P" -> {"P2P"})
    THEN Spawn(c, "DATA", m) ELSE c

FromParent(c, m) == c.mode = "CHILD" /\ IsThe("PARENT", c, m)

(* The newborn is linked without a look whether it is there already.       *)
ActOnBirth(c, m, newborn) == IF FromParent(c, m) THEN Link(c, newborn, "CHILD", FALSE) ELSE c

ActOnDeath(c, m, dead) ==
    IF FromParent(c, m) /\ KnownAs(c, dead, {"CHILD"})
    THEN DeletePeer(Spawn(c, "LEAVE", dead), dead)
    ELSE c

ByeMatters(c, m) ==
    \/ c.mode # "P2P" /\ KnownAs(c, m, {"CHILD"})
    \/ c.mode = "P2P" /\ KnownAs(c, m, {"P2P", "OFFER", "INCOMING_REQUEST", "OUTGOING_REQUEST",
                                        "CANCEL_IN_PROGRESS"})

ActOnBye(c, self, m) ==
    IF ByeMatters(c, m) THEN SetLeaving(Spawn(c, "BYE", m), m)
    ELSE IF c.mode = "CHILD" /\ KnownAs(c, m, {"PARENT"}) THEN Disband(Spawn(c, "BYE", m), self)
    ELSE c

(* What a received packet does to the context of its receiver.             *)
ActOn(c, self, p) ==
    CASE p.op = "HELLO"  -> Result(ActOnHello(c, p.from), <<>>)
      [] p.op = "JOIN"   -> ActOnJoin(c, self, p.from)
      [] p.op = "ACCEPT" -> Result(ActOnAccept(c, self, p.from, p.siblings), <<>>)
      [] p.op = "CANCEL" -> Result(ActOnCancel(c, self, p.from), <<>>)
      [] p.op = "BULK"   -> Result(ActOnBulk(c, p.from), <<>>)
      [] p.op = "BIRTH"  -> Result(ActOnBirth(c, p.from, p.mac), <<>>)
      [] p.op = "DEATH"  -> Result(ActOnDeath(c, p.from, p.mac), <<>>)
      [] p.op = "BYE"    -> Result(ActOnBye(c, self, p.from), <<>>)

(* _handleTimeout for one silent peer.  A child compares the peer's state  *)
(* with a mode (start.c:1581), so it is told of offers that time out and   *)
(* not of its parent.                                                      *)
TimeoutIsTold(c, m) ==
    \/ c.mode = "CHILD" /\ StateOf(c, m) = "OFFER"
    \/ c.mode = "PARENT" /\ StateOf(c, m) = "CHILD"
    \/ c.mode = "P2P" /\ StateOf(c, m) \in {"P2P", "OFFER", "INCOMING_REQUEST",
                                            "OUTGOING_REQUEST", "CANCEL_IN_PROGRESS"}

MayTimeOut(c, m) == Known(c, m) /\ ~c.peers[Place(c, m)].joining

TimeOut(c, self, m) ==
    LET told == IF TimeoutIsTold(c, m) THEN Spawn(c, "TIMEOUT", m) ELSE c
    IN  IF c.mode = "PARENT" THEN SendDeath(told, self, m) ELSE SendCancel(told, self, m)

-----------------------------------------------------------------------------
(* The API calls that succeed.                                             *)

(* Mutant of ParentSelects: the other children are not told.               *)
ParentSelectsQuietly(c, m) == PushInput(SetState(c, m, "CHILD"), "ACCEPT", m)

(* The host accepts a request.  ACCEPT lies below BIRTH on the stack.      *)
ParentSelects(c, m) ==
    PushInput(PushInput(SetState(c, m, "CHILD"), "ACCEPT", m), "BIRTH", m)

(* Mutant of MayParentSelect: the room is never full.                      *)
MayParentSelectAny(c, m) == c.mode = "PARENT" /\ KnownAs(c, m, {"INCOMING_REQUEST"})

MayParentSelect(c, m) ==
    /\ c.mode = "PARENT" /\ KnownAs(c, m, {"INCOMING_REQUEST"})
    /\ CountChildren(c) # c.maxpeers - 1

(* A child or a P2P player asks to join the sender of a HELLO.             *)
Requests(c, m) ==
    PushInput(SetJoining(SetState(c, m, "OUTGOING_REQUEST"), m, c.mode = "P2P"), "JOIN", m)

(* Mutant of MayRequest: a second request while the first is pending.      *)
MayRequestAgain(c, m) == Unattached(c) /\ KnownAs(c, m, {"OFFER"})

MayRequest(c, m) == Unattached(c) /\ ~Has(c, "OUTGOING_REQUEST") /\ KnownAs(c, m, {"OFFER"})

P2PAccepts(c, m) == PushInput(SetJoining(SetState(c, m, "P2P"), m, TRUE), "ACCEPT", m)

MayP2PAccept(c, m) ==
    /\ c.mode = "P2P" /\ Unattached(c) /\ ~Has(c, "OUTGOING_REQUEST")
    /\ KnownAs(c, m, {"INCOMING_REQUEST"})

(* CancelTarget: the DEATH message for the siblings lies below the CANCEL. *)
MayCancel(c, m) ==
    KnownAs(c, m, CASE c.mode = "CHILD" -> {"PARENT", "OUTGOING_REQUEST"}
                    [] c.mode = "PARENT" -> {"CHILD", "INCOMING_REQUEST"}
                    [] c.mode = "P2P" -> {"P2P", "INCOMING_REQUEST"})

Cancels(c, m) ==
    LET kicks == c.mode = "PARENT" /\ StateOf(c, m) = "CHILD"
        noted == IF kicks THEN PushInput(c, "DEATH", m) ELSE c
    IN  PushInput(SetState(noted, m, "CANCEL_IN_PROGRESS"), "CANCEL", m)

MaySend(c, m) == KnownAs(c, m, Established) /\ ~c.peers[Place(c, m)].sending
Sends(c, m) == PushInput(SetSending(c, m, TRUE), "BULK", m)

MayAbort(c, m) == Known(c, m) /\ c.peers[Place(c, m)].sending
Aborts(c, m) == PushInput(SetSending(c, m, FALSE), "BULK_ABORT", m)
=============================================================================
