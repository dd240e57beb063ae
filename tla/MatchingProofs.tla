--------------------------- MODULE MatchingProofs ---------------------------
(***************************************************************************)
(* For any players, scenarios and room sizes: no room is overfull, nobody  *)
(* has two partners, and nobody is connected with a host or a partner who  *)
(* has not accepted him.                                                   *)
(*                                                                         *)
(* Of a member list only the ties count: the children of a host, and the   *)
(* parent, the partner or the pending request of the others.  A piece of   *)
(* the code is calm if it makes no new ties; nearly all of them are, and   *)
(* calm pieces in a row are calm (CalmTwice).  Four pieces tie: a host or  *)
(* a partner who accepts, a player who requests, and one whose request is  *)
(* answered.                                                               *)
(*                                                                         *)
(* The second half is about plays without trouble: what two players think  *)
(* of each other, what is queued and on the way between them, and what     *)
(* their games have been told (Playing).  It ends in GamesAreInformed.     *)
(* The third part is about the rooms of such plays (Rooms): a guest who    *)
(* has its parent is a child there, and has heard or will hear of every    *)
(* other child.  It ends in RoomsAreAgreed.                                *)
(***************************************************************************)
EXTENDS MatchingNet, ListTheorems, FiniteSetTheorems

-----------------------------------------------------------------------------
(* The ties of a context, and what can be in its list.                     *)
TieStates(c) == IF c.mode = "PARENT" THEN {"CHILD"} ELSE {"PARENT", "P2P", "OUTGOING_REQUEST"}
Ties(c) == PlacesOf(c, TieStates(c))

ModeStates ==
    [PARENT |-> {"CHILD", "INCOMING_REQUEST", "CANCEL_IN_PROGRESS"},
     CHILD |-> {"OFFER", "OUTGOING_REQUEST", "CANCEL_IN_PROGRESS", "PARENT", "CHILD", "SELF"},
     P2P |-> {"OFFER", "INCOMING_REQUEST", "OUTGOING_REQUEST", "CANCEL_IN_PROGRESS", "P2P"}]

FreeStates(c) == ModeStates[c.mode] \ TieStates(c)

Fits(c) == \A i \in DOMAIN c.peers : c.peers[i].state \in ModeStates[c.mode]

(* d is c but for its list and its events, and has no ties that c has not. *)
SameButList(c, d) ==
    /\ c \in Context /\ d \in Context
    /\ d.phase = c.phase /\ d.mode = c.mode /\ d.maxpeers = c.maxpeers /\ d.input = c.input

Alike(p, q) == p.mac = q.mac /\ p.state = q.state

TiesFrom(c, d, h) ==
    /\ h \in [Ties(d) -> Ties(c)]
    /\ \A i, j \in Ties(d) : h[i] = h[j] => i = j
    /\ \A i \in Ties(d) : Alike(d.peers[i], c.peers[h[i]])

Calm(c, d) == SameButList(c, d) /\ (Fits(c) => Fits(d)) /\ \E h : TiesFrom(c, d, h)

(* Every place of d is one of c, or is no tie.                             *)
LEMMA CalmPlaces ==
    ASSUME NEW c, NEW d, SameButList(c, d), NEW h,
           \A i \in DOMAIN d.peers :
              \/ d.peers[i].state \in FreeStates(c)
              \/ h[i] \in DOMAIN c.peers /\ Alike(d.peers[i], c.peers[h[i]]),
           \A i, j \in DOMAIN d.peers : h[i] = h[j] => i = j
    PROVE  Calm(c, d)
<1>1. TieStates(d) = TieStates(c) /\ ModeStates[d.mode] = ModeStates[c.mode]
  BY DEF SameButList, TieStates
<1>2. \A i \in Ties(d) : i \in DOMAIN d.peers /\ h[i] \in Ties(c) /\ Alike(d.peers[i], c.peers[h[i]])
  BY <1>1 DEF Ties, PlacesOf, FreeStates, Alike
<1>3. TiesFrom(c, d, [i \in Ties(d) |-> h[i]])
  BY <1>2 DEF TiesFrom
<1>4. Fits(c) => Fits(d)
  BY <1>1 DEF Fits, Alike, FreeStates
<1> QED
  BY <1>3, <1>4 DEF Calm

LEMMA CalmTwice ==
    ASSUME NEW c, NEW d, NEW e, Calm(c, d), Calm(d, e)
    PROVE  Calm(c, e)
<1>1. PICK g : TiesFrom(c, d, g)
  BY DEF Calm
<1>2. PICK h : TiesFrom(d, e, h)
  BY DEF Calm
<1> DEFINE f == [i \in Ties(e) |-> g[h[i]]]
<1>3. \A i \in Ties(e) : h[i] \in Ties(d) /\ g[h[i]] \in Ties(c) /\ f[i] = g[h[i]]
  BY <1>1, <1>2 DEF TiesFrom
<1>4. f \in [Ties(e) -> Ties(c)]
  BY <1>3
<1> HIDE DEF f
<1>5. TiesFrom(c, e, f)
  BY <1>1, <1>2, <1>3, <1>4 DEF TiesFrom, Alike
<1> QED
  BY <1>5 DEF Calm, SameButList

(* Nothing but the events has changed, if that.                            *)
LEMMA CalmSame ==
    ASSUME NEW c, NEW d, SameButList(c, d), d.peers = c.peers
    PROVE  Calm(c, d)
<1> DEFINE h == [i \in DOMAIN d.peers |-> i]
<1>1. \A i \in DOMAIN d.peers : h[i] = i
  OBVIOUS
<1> HIDE DEF h
<1> QED
  BY <1>1, CalmPlaces DEF Alike

LEMMA CalmItself == ASSUME NEW c \in Context PROVE Calm(c, c)
BY CalmSame DEF SameButList

-----------------------------------------------------------------------------
(* The pieces of the code that make no ties, first what they do to a list. *)
LEMMA WithList ==
    ASSUME NEW c \in Context, NEW l \in Seq(PeerRecord)
    PROVE  SameButList(c, [c EXCEPT !.peers = l]) /\ [c EXCEPT !.peers = l].peers = l
BY DEF SameButList, Context

LEMMA SpawnIsCalm ==
    ASSUME NEW c \in Context, NEW event \in EventNames, NEW m \in Nodes
    PROVE  Calm(c, Spawn(c, event, m)) /\ Spawn(c, event, m).peers = c.peers
<1>1. [event |-> event, mac |-> m] \in [event : EventNames, mac : Nodes]
  OBVIOUS
<1>2. <<[event |-> event, mac |-> m]>> \o c.events \in Seq([event : EventNames, mac : Nodes])
  BY <1>1 DEF Context
<1>3. SameButList(c, Spawn(c, event, m)) /\ Spawn(c, event, m).peers = c.peers
  BY <1>2 DEF SameButList, Spawn, Context
<1> QED
  BY <1>3, CalmSame

LEMMA FreeStatesAre ==
    ASSUME NEW c \in Context
    PROVE  /\ FreeStates(c) \subseteq PeerStates
           /\ c.mode = "PARENT" => FreeStates(c) = {"INCOMING_REQUEST", "CANCEL_IN_PROGRESS"}
           /\ c.mode = "CHILD" => FreeStates(c) = {"OFFER", "CANCEL_IN_PROGRESS", "CHILD", "SELF"}
           /\ c.mode = "P2P" => FreeStates(c) = {"OFFER", "INCOMING_REQUEST", "CANCEL_IN_PROGRESS"}
           /\ c.mode \in Modes
<1>1. c.mode \in {"PARENT", "CHILD", "P2P"}
  BY DEF Context, Modes
<1>2. CASE c.mode = "PARENT"
  BY <1>2 DEF FreeStates, ModeStates, TieStates, PeerStates, Modes
<1>3. CASE c.mode = "CHILD"
  BY <1>3 DEF FreeStates, ModeStates, TieStates, PeerStates, Modes
<1>4. CASE c.mode = "P2P"
  BY <1>4 DEF FreeStates, ModeStates, TieStates, PeerStates, Modes
<1> QED
  BY <1>1, <1>2, <1>3, <1>4

LEMMA LinkIsCalm ==
    ASSUME NEW c \in Context, NEW m \in Nodes, NEW state \in FreeStates(c), NEW joining \in BOOLEAN
    PROVE  Calm(c, Link(c, m, state, joining))
<1> DEFINE p == [mac |-> m, state |-> state, joining |-> joining, sending |-> FALSE, leaving |-> FALSE]
           l == <<p>> \o c.peers
           d == [c EXCEPT !.peers = l]
           h == [i \in DOMAIN l |-> i - 1]
<1>1. p \in PeerRecord /\ p.state \in FreeStates(c)
  BY FreeStatesAre DEF PeerRecord
<1>2. c.peers \in Seq(PeerRecord)
  BY DEF Context
<1> HIDE DEF p
<1>3. /\ l \in Seq(PeerRecord) /\ DOMAIN l = 1..(Len(c.peers) + 1) /\ DOMAIN c.peers = 1..Len(c.peers)
      /\ l[1] = p /\ \A i \in DOMAIN l : i # 1 => i - 1 \in DOMAIN c.peers /\ l[i] = c.peers[i - 1]
  BY <1>1, <1>2
<1>4. \A i \in DOMAIN l : h[i] = i - 1 /\ i \in Int
  BY <1>3
<1> HIDE DEF l, h
<1>5. SameButList(c, d) /\ d.peers = l
  BY <1>3, WithList
<1> HIDE DEF d
<1>6. \A i \in DOMAIN d.peers : \/ d.peers[i].state \in FreeStates(c)
                                \/ h[i] \in DOMAIN c.peers /\ Alike(d.peers[i], c.peers[h[i]])
  BY <1>1, <1>3, <1>4, <1>5 DEF Alike
<1>7. \A i, j \in DOMAIN d.peers : h[i] = h[j] => i = j
  BY <1>4, <1>5
<1>8. Calm(c, d)
  BY <1>5, <1>6, <1>7, CalmPlaces
<1> QED
  BY <1>8 DEF Link, d, l, p

LEMMA PlaceIs ==
    ASSUME NEW c \in Context, NEW m
    PROVE  /\ c.peers \in Seq(PeerRecord) /\ Place(c, m) \in Nat
           /\ Known(c, m) => Place(c, m) \in DOMAIN c.peers /\ c.peers[Place(c, m)].mac = m
           /\ ~Known(c, m) => \A i \in DOMAIN c.peers : c.peers[i].mac # m
<1> DEFINE I == {i \in 1..Len(c.peers) : c.peers[i].mac = m}
<1>1. c.peers \in Seq(PeerRecord) /\ DOMAIN c.peers = 1..Len(c.peers)
  BY DEF Context
<1>2. Place(c, m) = IF I # {} THEN Min(I) ELSE 0
  BY DEF Place, SelectInSeq
<1>3. I \in SUBSET Nat
  BY <1>1
<1>4. I # {} => Min(I) \in I
  BY <1>3, MinIn
<1>5. Known(c, m) <=> I # {}
  BY <1>1, <1>2, <1>4 DEF Known
<1>6. \A i \in I : i \in 1..Len(c.peers) /\ c.peers[i].mac = m
  OBVIOUS
<1>7. I = {} => \A i \in 1..Len(c.peers) : c.peers[i].mac # m
  OBVIOUS
<1> HIDE DEF I
<1>8. Place(c, m) \in Nat
  <2>1. CASE I = {}
    BY <1>2, <2>1
  <2>2. CASE I # {}
    <3>1. Place(c, m) \in I
      BY <1>2, <1>4, <2>2
    <3> QED
      BY <1>3, <3>1
  <2> QED
    BY <2>1, <2>2
<1>9. Known(c, m) => Place(c, m) \in I
  BY <1>2, <1>4, <1>5
<1> QED
  BY <1>1, <1>5, <1>6, <1>7, <1>8, <1>9

LEMMA FirstIs ==
    ASSUME NEW c \in Context, NEW state
    PROVE  /\ FirstIn(c, state) \in Nat
           /\ Has(c, state) => FirstIn(c, state) \in PlacesOf(c, {state})
           /\ ~Has(c, state) => PlacesOf(c, {state}) = {}
<1> DEFINE I == {i \in 1..Len(c.peers) : c.peers[i].state = state}
<1>1. c.peers \in Seq(PeerRecord) /\ DOMAIN c.peers = 1..Len(c.peers)
  BY DEF Context
<1>2. FirstIn(c, state) = IF I # {} THEN Min(I) ELSE 0
  BY DEF FirstIn, SelectInSeq
<1>3. I \in SUBSET Nat
  BY <1>1
<1>4. I # {} => Min(I) \in I
  BY <1>3, MinIn
<1>5. Has(c, state) <=> I # {}
  BY <1>1, <1>2, <1>4 DEF Has
<1>6. PlacesOf(c, {state}) = I
  BY <1>1 DEF PlacesOf
<1> HIDE DEF I
<1>7. FirstIn(c, state) \in Nat
  <2>1. I # {} => Min(I) \in Nat
    BY <1>3, <1>4
  <2>2. 0 \in Nat
    OBVIOUS
  <2> QED
    BY <1>2, <2>1, <2>2
<1>8. Has(c, state) => FirstIn(c, state) \in I
  BY <1>2, <1>4, <1>5
<1> QED
  BY <1>5, <1>6, <1>7, <1>8

LEMMA DeleteIsCalm ==
    ASSUME NEW c \in Context, NEW m, Known(c, m)
    PROVE  Calm(c, DeletePeer(c, m))
<1> DEFINE k == Place(c, m)
           l == RemoveAt(c.peers, k)
           d == [c EXCEPT !.peers = l]
           h == [i \in DOMAIN l |-> IF i < k THEN i ELSE i + 1]
<1>1. c.peers \in Seq(PeerRecord) /\ k \in DOMAIN c.peers
  BY PlaceIs
<1> HIDE DEF k
<1>2. /\ l \in Seq(PeerRecord) /\ DOMAIN l = 1..(Len(c.peers) - 1)
      /\ \A i \in DOMAIN l : l[i] = c.peers[IF i < k THEN i ELSE i + 1]
  BY <1>1, RemoveAtFacts
<1>3. \A i \in DOMAIN l : h[i] = (IF i < k THEN i ELSE i + 1) /\ i \in Int /\ h[i] \in DOMAIN c.peers
  BY <1>1, <1>2
<1>4. \A i, j \in DOMAIN l : h[i] = h[j] => i = j
  BY <1>1, <1>3
<1> HIDE DEF l, h
<1>5. SameButList(c, d) /\ d.peers = l
  BY <1>2, WithList
<1> HIDE DEF d
<1>6. \A i \in DOMAIN d.peers : h[i] \in DOMAIN c.peers /\ Alike(d.peers[i], c.peers[h[i]])
  BY <1>2, <1>3, <1>5 DEF Alike
<1>7. Calm(c, d)
  BY <1>4, <1>5, <1>6, CalmPlaces
<1> QED
  BY <1>7 DEF DeletePeer, d, l, k

(* One field of one member of a list changes, or none if k is no place.    *)
LEMMA ListRewritten ==
    ASSUME NEW c \in Context, NEW r, NEW k
    PROVE  LET l == [c.peers EXCEPT ![k] = r]
           IN  /\ DOMAIN l = DOMAIN c.peers
               /\ \A i \in DOMAIN c.peers : l[i] = IF i = k THEN r ELSE c.peers[i]
               /\ (k \in DOMAIN c.peers => r \in PeerRecord) => l \in Seq(PeerRecord)
<1> DEFINE l == [c.peers EXCEPT ![k] = r]
<1>1. c.peers \in Seq(PeerRecord) /\ DOMAIN c.peers = 1..Len(c.peers) /\ Len(c.peers) \in Nat
  BY DEF Context
<1>2. \A i \in DOMAIN c.peers : c.peers[i] \in PeerRecord
  BY <1>1
<1>3. /\ DOMAIN l = DOMAIN c.peers
      /\ \A i \in DOMAIN c.peers : l[i] = IF i = k THEN r ELSE c.peers[i]
  OBVIOUS
<1>4. ASSUME k \in DOMAIN c.peers => r \in PeerRecord
      PROVE  l \in Seq(PeerRecord)
  <2>1. l \in [1..Len(c.peers) -> PeerRecord]
    BY <1>1, <1>2, <1>4
  <2> QED
    BY <1>1, <2>1
<1> QED
  BY <1>3, <1>4

LEMMA FieldWritten ==
    ASSUME NEW c \in Context, NEW k, NEW r,
           k \in DOMAIN c.peers => r \in PeerRecord /\ (Alike(r, c.peers[k]) \/ r.state \in FreeStates(c))
    PROVE  Calm(c, [c EXCEPT !.peers = [@ EXCEPT ![k] = r]])
<1> DEFINE l == [c.peers EXCEPT ![k] = r]
           d == [c EXCEPT !.peers = l]
           h == [i \in DOMAIN l |-> i]
<1>1. \A i \in DOMAIN l : h[i] = i
  OBVIOUS
<1>2. /\ l \in Seq(PeerRecord) /\ DOMAIN l = DOMAIN c.peers
      /\ \A i \in DOMAIN c.peers : l[i] = IF i = k THEN r ELSE c.peers[i]
  BY ListRewritten
<1>3. [c EXCEPT !.peers = [@ EXCEPT ![k] = r]] = d
  BY DEF Context
<1> HIDE DEF h, l
<1>4. SameButList(c, d) /\ d.peers = l
  BY <1>2, WithList
<1> HIDE DEF d
<1>5. \A i \in DOMAIN d.peers : \/ d.peers[i].state \in FreeStates(c)
                                \/ h[i] \in DOMAIN c.peers /\ Alike(d.peers[i], c.peers[h[i]])
  BY <1>1, <1>2, <1>4 DEF Alike
<1>6. \A i, j \in DOMAIN d.peers : h[i] = h[j] => i = j
  BY <1>1, <1>2, <1>4
<1> QED
  BY <1>3, <1>4, <1>5, <1>6, CalmPlaces

LEMMA FlagsAreCalm ==
    ASSUME NEW c \in Context, NEW m, NEW flag \in BOOLEAN
    PROVE  /\ Calm(c, SetJoining(c, m, flag)) /\ Calm(c, SetSending(c, m, flag))
           /\ Calm(c, SetLeaving(c, m)) /\ Calm(c, Refresh(c, m))
<1> DEFINE k == Place(c, m)
           p == c.peers[k]
<1>1. k \in DOMAIN c.peers => p \in PeerRecord
  BY DEF Context
<1>2. \A r \in {[p EXCEPT !.joining = flag], [p EXCEPT !.sending = flag],
                [p EXCEPT !.leaving = TRUE], [p EXCEPT !.leaving = FALSE]} :
         k \in DOMAIN c.peers => r \in PeerRecord /\ Alike(r, p)
  <2> HIDE DEF p
  <2> QED
    BY <1>1 DEF PeerRecord, Alike
<1>3. \A r \in {[p EXCEPT !.joining = flag], [p EXCEPT !.sending = flag],
                [p EXCEPT !.leaving = TRUE], [p EXCEPT !.leaving = FALSE]} :
         Calm(c, [c EXCEPT !.peers = [@ EXCEPT ![k] = r]])
  BY <1>2, FieldWritten
<1>4. /\ SetJoining(c, m, flag) = [c EXCEPT !.peers = [@ EXCEPT ![k] = [p EXCEPT !.joining = flag]]]
      /\ SetSending(c, m, flag) = [c EXCEPT !.peers = [@ EXCEPT ![k] = [p EXCEPT !.sending = flag]]]
      /\ SetLeaving(c, m) = [c EXCEPT !.peers = [@ EXCEPT ![k] = [p EXCEPT !.leaving = TRUE]]]
      /\ Refresh(c, m) = [c EXCEPT !.peers = [@ EXCEPT ![k] = [p EXCEPT !.leaving = FALSE]]]
  BY DEF SetJoining, SetSending, SetLeaving, Refresh
<1> QED
  BY <1>3, <1>4

(* What SetState writes, whatever the state.                               *)
LEMMA StateWritten ==
    ASSUME NEW c \in Context, NEW m, NEW state \in PeerStates
    PROVE  /\ SameButList(c, SetState(c, m, state))
           /\ DOMAIN SetState(c, m, state).peers = DOMAIN c.peers
           /\ \A i \in DOMAIN c.peers :
                 /\ SetState(c, m, state).peers[i].mac = c.peers[i].mac
                 /\ SetState(c, m, state).peers[i].state = IF i = Place(c, m) THEN state
                                                                             ELSE c.peers[i].state
<1> DEFINE k == Place(c, m)
           p == c.peers[k]
           r == [p EXCEPT !.state = state]
           l == [c.peers EXCEPT ![k] = r]
           d == [c EXCEPT !.peers = l]
<1>1. k \in DOMAIN c.peers => p \in PeerRecord
  BY DEF Context
<1> HIDE DEF p
<1>2. k \in DOMAIN c.peers => r \in PeerRecord /\ r.mac = p.mac /\ r.state = state
  BY <1>1 DEF PeerRecord
<1> HIDE DEF r
<1>3. /\ l \in Seq(PeerRecord) /\ DOMAIN l = DOMAIN c.peers
      /\ \A i \in DOMAIN c.peers : l[i] = IF i = k THEN r ELSE c.peers[i]
  BY <1>2, ListRewritten
<1>4. SetState(c, m, state) = d
  BY DEF SetState, k, Context, r, p
<1> HIDE DEF l
<1>5. SameButList(c, d) /\ d.peers = l
  BY <1>3, WithList
<1> QED
  BY <1>2, <1>3, <1>4, <1>5 DEF k, p

LEMMA StateIsCalm ==
    ASSUME NEW c \in Context, NEW m, NEW state \in FreeStates(c)
    PROVE  Calm(c, SetState(c, m, state))
<1> DEFINE d == SetState(c, m, state)
           h == [i \in DOMAIN c.peers |-> i]
<1>1. /\ SameButList(c, d) /\ DOMAIN d.peers = DOMAIN c.peers
      /\ \A i \in DOMAIN c.peers : \/ d.peers[i].mac = c.peers[i].mac /\ d.peers[i].state = c.peers[i].state
                                   \/ d.peers[i].state \in FreeStates(c)
  BY StateWritten, FreeStatesAre
<1>2. \A i \in DOMAIN c.peers : h[i] = i
  OBVIOUS
<1> HIDE DEF d, h
<1>3. \A i \in DOMAIN d.peers : \/ d.peers[i].state \in FreeStates(c)
                                \/ h[i] \in DOMAIN c.peers /\ Alike(d.peers[i], c.peers[h[i]])
  BY <1>1, <1>2 DEF Alike
<1>4. \A i, j \in DOMAIN d.peers : h[i] = h[j] => i = j
  BY <1>1, <1>2
<1>5. Calm(c, d)
  BY <1>1, <1>3, <1>4, CalmPlaces
<1> QED
  BY <1>5 DEF d

LEMMA EmptiedIsCalm == ASSUME NEW c \in Context PROVE Calm(c, [c EXCEPT !.peers = <<>>])
<1> DEFINE d == [c EXCEPT !.peers = <<>>]
<1>1. <<>> \in Seq(PeerRecord)
  OBVIOUS
<1>2. SameButList(c, d) /\ d.peers = <<>>
  BY <1>1, WithList
<1>3. DOMAIN d.peers = {}
  BY <1>2
<1> HIDE DEF d
<1>4. Calm(c, d)
  BY <1>2, <1>3, CalmPlaces
<1> QED
  BY <1>4 DEF d

LEMMA PickedIsCalm ==
    ASSUME NEW c \in Context, NEW I \in SUBSET DOMAIN c.peers
    PROVE  Calm(c, [c EXCEPT !.peers = Picked(c.peers, I)])
<1> DEFINE l == Picked(c.peers, I)
           d == [c EXCEPT !.peers = l]
           h == [k \in DOMAIN l |-> Nth(I, k)]
<1>1. c.peers \in Seq(PeerRecord)
  BY DEF Context
<1>2. /\ l \in Seq(PeerRecord) /\ DOMAIN l = 1..Cardinality(I)
      /\ \A k \in 1..Cardinality(I) : Nth(I, k) \in I /\ l[k] = c.peers[Nth(I, k)]
      /\ \A j, k \in 1..Cardinality(I) : Nth(I, j) = Nth(I, k) => j = k
  BY <1>1, PickedFacts
<1>3. \A k \in DOMAIN l : h[k] = Nth(I, k)
  OBVIOUS
<1> HIDE DEF h, l
<1>4. SameButList(c, d) /\ d.peers = l
  BY <1>2, WithList
<1> HIDE DEF d
<1>5. \A i \in DOMAIN d.peers : h[i] \in DOMAIN c.peers /\ Alike(d.peers[i], c.peers[h[i]])
  BY <1>2, <1>3, <1>4 DEF Alike
<1>6. \A i, j \in DOMAIN d.peers : h[i] = h[j] => i = j
  BY <1>2, <1>3, <1>4
<1>7. Calm(c, d)
  BY <1>4, <1>5, <1>6, CalmPlaces
<1> QED
  BY <1>7 DEF d, l

(* A list of the same members, some of them in another, free state.        *)
LEMMA AlikeIsCalm ==
    ASSUME NEW c \in Context, NEW l \in Seq(PeerRecord), DOMAIN l = DOMAIN c.peers,
           \A i \in DOMAIN l : Alike(l[i], c.peers[i]) \/ l[i].state \in FreeStates(c)
    PROVE  Calm(c, [c EXCEPT !.peers = l])
<1> DEFINE d == [c EXCEPT !.peers = l]
           h == [i \in DOMAIN l |-> i]
<1>1. \A i \in DOMAIN l : h[i] = i
  OBVIOUS
<1>2. SameButList(c, d) /\ d.peers = l
  BY WithList
<1> HIDE DEF h, d
<1>3. \A i \in DOMAIN d.peers : \/ d.peers[i].state \in FreeStates(c)
                                \/ h[i] \in DOMAIN c.peers /\ Alike(d.peers[i], c.peers[h[i]])
  BY <1>1, <1>2
<1>4. \A i, j \in DOMAIN d.peers : h[i] = h[j] => i = j
  BY <1>1, <1>2
<1>5. Calm(c, d)
  BY <1>2, <1>3, <1>4, CalmPlaces
<1> QED
  BY <1>5 DEF d

LEMMA CalmTypes == ASSUME NEW c, NEW d, Calm(c, d) PROVE c \in Context /\ d \in Context
BY DEF Calm, SameButList

LEMMA DisbandIsCalm ==
    ASSUME NEW c \in Context, NEW self
    PROVE  Calm(c, Disband(c, self))
<1> DEFINE I == OtherPlaces(c, self)
           others == Picked(c.peers, I)
           d == [c EXCEPT !.peers = others]
           l == [i \in DOMAIN others |-> [others[i] EXCEPT !.leaving = TRUE]]
<1>1. I \in SUBSET DOMAIN c.peers /\ c.peers \in Seq(PeerRecord)
  BY DEF OtherPlaces, Context
<1>2. others \in Seq(PeerRecord) /\ DOMAIN others = 1..Cardinality(I) /\ Cardinality(I) \in Nat
  BY <1>1, PickedFacts
<1>3. Calm(c, d)
  BY <1>1, PickedIsCalm
<1>4. d \in Context /\ d.peers = others
  BY <1>2, <1>3, CalmTypes, WithList
<1> HIDE DEF others
<1>5. \A i \in DOMAIN others : [others[i] EXCEPT !.leaving = TRUE] \in PeerRecord
                               /\ Alike([others[i] EXCEPT !.leaving = TRUE], others[i])
  <2> SUFFICES ASSUME NEW i \in DOMAIN others
               PROVE  [others[i] EXCEPT !.leaving = TRUE] \in PeerRecord
                      /\ Alike([others[i] EXCEPT !.leaving = TRUE], others[i])
    OBVIOUS
  <2>1. others[i] \in PeerRecord
    BY <1>2
  <2> QED
    BY <2>1 DEF PeerRecord, Alike
<1>6. l \in [1..Cardinality(I) -> PeerRecord] /\ DOMAIN l = DOMAIN others
      /\ \A i \in DOMAIN l : Alike(l[i], others[i])
  BY <1>2, <1>5
<1>7. l \in Seq(PeerRecord)
  BY <1>2, <1>6
<1> HIDE DEF l
<1>8. [d EXCEPT !.peers = l] = [c EXCEPT !.peers = l]
  BY DEF Context
<1> HIDE DEF d
<1>9. Calm(d, [d EXCEPT !.peers = l])
  BY <1>4, <1>6, <1>7, AlikeIsCalm
<1>10. Calm(c, [c EXCEPT !.peers = l])
  BY <1>3, <1>8, <1>9, CalmTwice
<1>11. Disband(c, self) = [c EXCEPT !.peers = l]
  BY DEF Disband, l, others
<1> QED
  BY <1>10, <1>11

LEMMA CleanIsCalm ==
    ASSUME NEW c \in Context
    PROVE  Calm(c, CleanPeerList(c))
<1> DEFINE I == PlacesOf(c, Established \cup {"SELF"})
<1>1. I \in SUBSET DOMAIN c.peers
  BY DEF PlacesOf
<1>2. Calm(c, [c EXCEPT !.peers = Picked(c.peers, I)])
  BY <1>1, PickedIsCalm
<1>3. CleanPeerList(c) = [c EXCEPT !.peers = Picked(c.peers, I)]
  BY DEF CleanPeerList, Context
<1> QED
  BY <1>2, <1>3

LEMMA SpawnLeavesIsCalm ==
    ASSUME NEW c \in Context
    PROVE  Calm(c, SpawnLeaves(c)) /\ SpawnLeaves(c).peers = c.peers
<1> DEFINE E == [event : EventNames, mac : Nodes]
           I == PlacesOf(c, {"CHILD", "PARENT"})
           left == Picked(c.peers, I)
           leaves == [i \in DOMAIN left |-> [event |-> "LEAVE", mac |-> left[i].mac]]
<1>1. I \in SUBSET DOMAIN c.peers /\ c.peers \in Seq(PeerRecord) /\ c.events \in Seq(E)
  BY DEF PlacesOf, Context
<1>2. left \in Seq(PeerRecord) /\ DOMAIN left = 1..Cardinality(I) /\ Cardinality(I) \in Nat
  BY <1>1, PickedFacts
<1> HIDE DEF left
<1>3. \A i \in DOMAIN left : [event |-> "LEAVE", mac |-> left[i].mac] \in E
  <2> SUFFICES ASSUME NEW i \in DOMAIN left PROVE [event |-> "LEAVE", mac |-> left[i].mac] \in E
    OBVIOUS
  <2>1. left[i] \in PeerRecord
    BY <1>2
  <2> QED
    BY <2>1 DEF PeerRecord, EventNames
<1>4. leaves \in [1..Cardinality(I) -> E]
  BY <1>2, <1>3
<1> HIDE DEF leaves, E
<1>5. leaves \in Seq(E)
  BY <1>2, <1>4
<1>6. Reverse(leaves) \in Seq(E)
  <2>1. DOMAIN leaves = 1..Len(leaves) /\ Len(leaves) \in Nat /\ \A i \in 1..Len(leaves) : leaves[i] \in E
    BY <1>5
  <2>2. \A i \in 1..Len(leaves) : (Len(leaves) - i) + 1 \in 1..Len(leaves)
    BY <2>1
  <2>3. Reverse(leaves) \in [1..Len(leaves) -> E]
    BY <2>1, <2>2 DEF Reverse
  <2> QED
    BY <2>1, <2>3
<1>7. Reverse(leaves) \o c.events \in Seq(E)
  BY <1>1, <1>6, ConcatProperties
<1>8. SpawnLeaves(c) = [c EXCEPT !.events = Reverse(leaves) \o c.events]
  BY DEF SpawnLeaves, leaves, left, Context
<1>9. SameButList(c, SpawnLeaves(c)) /\ SpawnLeaves(c).peers = c.peers
  BY <1>7, <1>8 DEF SameButList, Context, E
<1> QED
  BY <1>9, CalmSame

(* The siblings a parent names: the new ones are linked in front, the      *)
(* others made children where they are.                                    *)
LEMMA AddSiblingsIsCalm ==
    ASSUME NEW c \in Context, NEW siblings \in Seq(Nodes), c.mode = "CHILD"
    PROVE  Calm(c, AddSiblings(c, siblings))
<1> DEFINE I == {i \in DOMAIN siblings : ~Known(c, siblings[i])}
           new == Picked(siblings, I)
           newborn(m) == [mac |-> m, state |-> "CHILD", joining |-> FALSE,
                          sending |-> FALSE, leaving |-> FALSE]
           linked == [i \in DOMAIN new |-> newborn(new[i])]
           child(p) == [p EXCEPT !.state = "CHILD", !.sending = FALSE, !.leaving = FALSE]
           renewed == [i \in DOMAIN c.peers |->
                          IF c.peers[i].mac \in ToSet(siblings) /\ Place(c, c.peers[i].mac) = i
                          THEN child(c.peers[i]) ELSE c.peers[i]]
           l == linked \o renewed
           d == [c EXCEPT !.peers = l]
           K == Cardinality(I)
           N == Len(c.peers)
           h == [i \in DOMAIN l |-> i - K]
<1>1. /\ new \in Seq(Nodes) /\ DOMAIN new = 1..K /\ K \in Nat
      /\ N \in Nat /\ DOMAIN c.peers = 1..N /\ c.peers \in Seq(PeerRecord)
  BY PickedFacts DEF Context
<1> HIDE DEF new, K, N
<1>2. "CHILD" \in FreeStates(c)
  BY FreeStatesAre
<1>3. linked \in Seq(PeerRecord) /\ Len(linked) = K
      /\ \A i \in 1..K : linked[i].state = "CHILD"
  <2>1. \A m \in Nodes : newborn(m) \in PeerRecord /\ newborn(m).state = "CHILD"
    BY DEF PeerRecord, PeerStates
  <2> HIDE DEF newborn
  <2>2. linked \in [1..K -> PeerRecord] /\ \A i \in 1..K : linked[i].state = "CHILD"
    BY <1>1, <2>1
  <2> HIDE DEF linked
  <2> QED
    BY <1>1, <2>2
<1>4. renewed \in Seq(PeerRecord) /\ Len(renewed) = N
      /\ \A i \in 1..N : Alike(renewed[i], c.peers[i]) \/ renewed[i].state = "CHILD"
  <2>1. \A p \in PeerRecord : child(p) \in PeerRecord /\ child(p).state = "CHILD"
    BY DEF PeerRecord, PeerStates
  <2> HIDE DEF child
  <2>2. \A i \in 1..N : c.peers[i] \in PeerRecord
    BY <1>1
  <2>3. renewed \in [1..N -> PeerRecord]
        /\ \A i \in 1..N : renewed[i] = c.peers[i] \/ renewed[i] = child(c.peers[i])
    BY <1>1, <2>1, <2>2
  <2> HIDE DEF renewed
  <2> QED
    BY <1>1, <2>1, <2>2, <2>3 DEF Alike
<1>5. AddSiblings(c, siblings) = d
  BY DEF AddSiblings, linked, newborn, renewed, child, new
<1> HIDE DEF linked, renewed
<1>6. /\ l \in Seq(PeerRecord) /\ DOMAIN l = 1..(K + N)
      /\ \A i \in 1..(K + N) : l[i] = IF i <= K THEN linked[i] ELSE renewed[i - K]
  <2>1. l \in Seq(PeerRecord) /\ Len(l) = K + N
        /\ \A i \in 1..(K + N) : l[i] = IF i <= K THEN linked[i] ELSE renewed[i - K]
    BY <1>1, <1>3, <1>4, ConcatProperties
  <2> HIDE DEF l
  <2> QED
    BY <2>1
<1>7. \A i \in DOMAIN l : h[i] = i - K
  OBVIOUS
<1> HIDE DEF l, h
<1>8. SameButList(c, d) /\ d.peers = l
  BY <1>6, WithList
<1> HIDE DEF d
<1>9. \A i \in DOMAIN d.peers : \/ d.peers[i].state \in FreeStates(c)
                                \/ h[i] \in DOMAIN c.peers /\ Alike(d.peers[i], c.peers[h[i]])
  <2> SUFFICES ASSUME NEW i \in 1..(K + N)
               PROVE  \/ l[i].state \in FreeStates(c)
                      \/ h[i] \in DOMAIN c.peers /\ Alike(l[i], c.peers[h[i]])
    BY <1>6, <1>8
  <2>1. CASE i <= K
    BY <1>1, <1>2, <1>3, <1>6, <2>1
  <2>2. CASE ~(i <= K)
    <3>1. i - K \in 1..N /\ h[i] = i - K /\ l[i] = renewed[i - K]
      <4>1. i \in DOMAIN l /\ ~(i <= K) /\ i - K \in 1..N
        BY <1>1, <1>6, <2>2
      <4> QED
        BY <1>6, <1>7, <4>1
    <3> QED
      BY <1>1, <1>2, <1>4, <3>1
  <2> QED
    BY <2>1, <2>2
<1>10. \A i, j \in DOMAIN d.peers : h[i] = h[j] => i = j
  BY <1>1, <1>6, <1>7, <1>8
<1>11. Calm(c, d)
  BY <1>8, <1>9, <1>10, CalmPlaces
<1> QED
  BY <1>5, <1>11

LEMMA AddSelfIsCalm ==
    ASSUME NEW c \in Context, NEW self \in Nodes, c.mode = "CHILD"
    PROVE  Calm(c, AddSelf(c, self))
<1>1. "SELF" \in FreeStates(c)
  BY FreeStatesAre
<1>2. Calm(c, Link(c, self, "SELF", FALSE))
  BY <1>1, LinkIsCalm
<1> QED
  BY <1>2, CalmItself DEF AddSelf

-----------------------------------------------------------------------------
(* What is sent: an ACCEPT only in the own name, to somebody accepted.     *)
Fine(self, out, G) ==
    /\ out \in Seq(PacketRecord)
    /\ \A i \in DOMAIN out : out[i].op = "ACCEPT" => out[i].from = self /\ out[i].to \in G

Kinds == {"HELLO", "JOIN", "ACCEPT", "CANCEL", "BULK", "BIRTH", "DEATH", "BYE"}

PacketOf(self, m, op, n) ==
    /\ Packet(self, m, op) \in PacketRecord /\ Packet(self, m, op).op = op
    /\ About(self, m, op, n) \in PacketRecord /\ About(self, m, op, n).op = op

LEMMA PacketIs ==
    ASSUME NEW self \in Nodes, NEW m \in Nodes, NEW op \in Kinds, NEW n \in Nodes,
           NEW siblings \in Seq(Nodes)
    PROVE  /\ PacketOf(self, m, op, n)
           /\ LET p == [Packet(self, m, op) EXCEPT !.siblings = siblings]
              IN  p \in PacketRecord /\ p.op = op /\ p.from = self /\ p.to = m
<1>1. <<>> \in Seq(Nodes)
  OBVIOUS
<1> QED
  BY <1>1 DEF Packet, About, PacketRecord, Kinds, PacketOf

LEMMA FineNone == ASSUME NEW self, NEW G PROVE Fine(self, <<>>, G)
<1>1. <<>> \in Seq(PacketRecord) /\ DOMAIN <<>> = {}
  OBVIOUS
<1> QED
  BY <1>1 DEF Fine

LEMMA FineOne ==
    ASSUME NEW self, NEW G, NEW p \in PacketRecord, p.op = "ACCEPT" => p.from = self /\ p.to \in G
    PROVE  Fine(self, <<p>>, G)
<1>1. <<p>> \in Seq(PacketRecord) /\ DOMAIN <<p>> = {1} /\ <<p>>[1] = p
  OBVIOUS
<1> QED
  BY <1>1 DEF Fine

LEMMA FineBoth ==
    ASSUME NEW self, NEW G, NEW s, NEW t, Fine(self, s, G), Fine(self, t, G)
    PROVE  Fine(self, s \o t, G)
<1>1. s \in Seq(PacketRecord) /\ t \in Seq(PacketRecord)
  BY DEF Fine
<1>2. /\ s \o t \in Seq(PacketRecord) /\ Len(s \o t) = Len(s) + Len(t)
      /\ \A i \in 1..(Len(s) + Len(t)) : (s \o t)[i] = IF i <= Len(s) THEN s[i] ELSE t[i - Len(s)]
  BY <1>1, ConcatProperties
<1> DEFINE u == s \o t
<1> HIDE DEF u
<1>3. /\ u \in Seq(PacketRecord) /\ DOMAIN u = 1..(Len(s) + Len(t))
      /\ Len(s) \in Nat /\ Len(t) \in Nat /\ DOMAIN s = 1..Len(s) /\ DOMAIN t = 1..Len(t)
  BY <1>1, <1>2 DEF u
<1>4. ASSUME NEW i \in 1..(Len(s) + Len(t))
      PROVE  \/ i \in DOMAIN s /\ u[i] = s[i]
             \/ i - Len(s) \in DOMAIN t /\ u[i] = t[i - Len(s)]
  <2>1. u[i] = IF i <= Len(s) THEN s[i] ELSE t[i - Len(s)]
    BY <1>2 DEF u
  <2> QED
    BY <1>3, <2>1
<1>5. Fine(self, u, G)
  BY <1>3, <1>4 DEF Fine
<1> QED
  BY <1>5 DEF u

(* One packet, no ACCEPT, for each of the picked members.                  *)
LEMMA FineForAll ==
    ASSUME NEW self \in Nodes, NEW G, NEW c \in Context, NEW I \in SUBSET DOMAIN c.peers,
           NEW op \in Kinds \ {"ACCEPT"}, NEW m \in Nodes
    PROVE  LET told == Picked(c.peers, I)
           IN  /\ Fine(self, [i \in DOMAIN told |-> Packet(self, told[i].mac, op)], G)
               /\ Fine(self, [i \in DOMAIN told |-> About(self, told[i].mac, op, m)], G)
               /\ [i \in DOMAIN told |-> told[i].mac] \in Seq(Nodes)
<1> DEFINE told == Picked(c.peers, I)
           s == [i \in DOMAIN told |-> Packet(self, told[i].mac, op)]
           t == [i \in DOMAIN told |-> About(self, told[i].mac, op, m)]
           u == [i \in DOMAIN told |-> told[i].mac]
           K == Cardinality(I)
<1>1. c.peers \in Seq(PeerRecord)
  BY DEF Context
<1>2. told \in Seq(PeerRecord) /\ DOMAIN told = 1..K /\ K \in Nat
  BY <1>1, PickedFacts
<1> HIDE DEF told, K
<1> HIDE DEF s, t, u
<1>3. \A i \in 1..K : told[i].mac \in Nodes
  <2> SUFFICES ASSUME NEW i \in 1..K PROVE told[i].mac \in Nodes
    OBVIOUS
  <2>1. told[i] \in PeerRecord
    BY <1>2
  <2> QED
    BY <2>1 DEF PeerRecord
<1>4. <<>> \in Seq(Nodes)
  OBVIOUS
<1>5. \A i \in 1..K : /\ Packet(self, told[i].mac, op) \in PacketRecord /\ Packet(self, told[i].mac, op).op = op
                      /\ About(self, told[i].mac, op, m) \in PacketRecord
                      /\ About(self, told[i].mac, op, m).op = op
  <2>1. op \in Kinds
    OBVIOUS
  <2>2. \A i \in 1..K : PacketOf(self, told[i].mac, op, m)
    BY <1>3, <1>4, <2>1, PacketIs
  <2> QED
    BY <2>2 DEF PacketOf
<1>6. /\ s \in [1..K -> PacketRecord] /\ t \in [1..K -> PacketRecord] /\ u \in [1..K -> Nodes]
      /\ \A i \in 1..K : s[i].op = op /\ t[i].op = op
  BY <1>2, <1>3, <1>5 DEF s, t, u
<1>7. s \in Seq(PacketRecord) /\ t \in Seq(PacketRecord) /\ u \in Seq(Nodes)
  BY <1>2, <1>6
<1>8. DOMAIN s = 1..K /\ DOMAIN t = 1..K
  BY <1>6
<1>9. Fine(self, s, G) /\ Fine(self, t, G)
  BY <1>6, <1>7, <1>8 DEF Fine
<1> QED
  BY <1>7, <1>9 DEF s, t, u, told

LEMMA TellChildrenIsFine ==
    ASSUME NEW c \in Context, NEW self \in Nodes, NEW m \in Nodes, NEW op \in {"BIRTH", "DEATH"}, NEW G
    PROVE  Fine(self, TellChildren(c, self, m, op), G)
<1> DEFINE I == PlacesOf(c, {"CHILD"}) \cap OtherPlaces(c, m)
<1>1. I \in SUBSET DOMAIN c.peers
  BY DEF PlacesOf
<1>2. op \in Kinds \ {"ACCEPT"}
  BY DEF Kinds
<1> HIDE DEF I
<1>3. LET told == Picked(c.peers, I)
      IN  Fine(self, [i \in DOMAIN told |-> About(self, told[i].mac, op, m)], G)
  BY <1>1, <1>2, FineForAll
<1> QED
  BY <1>3 DEF TellChildren, OtherChildren, I

LEMMA SendByesIsFine ==
    ASSUME NEW c \in Context, NEW self \in Nodes, NEW G
    PROVE  Fine(self, SendByes(c, self), G)
<1> DEFINE I == PlacesOf(c, Established)
<1>1. I \in SUBSET DOMAIN c.peers
  BY DEF PlacesOf
<1>2. "BYE" \in Kinds \ {"ACCEPT"}
  BY DEF Kinds
<1> HIDE DEF I
<1>3. LET told == Picked(c.peers, I)
      IN  Fine(self, [i \in DOMAIN told |-> Packet(self, told[i].mac, "BYE")], G)
  BY <1>1, <1>2, FineForAll
<1> QED
  BY <1>3 DEF SendByes, I

LEMMA SiblingsAreNodes ==
    ASSUME NEW c \in Context, NEW m \in Nodes
    PROVE  SiblingsOf(c, m) \in Seq(Nodes)
<1> DEFINE I == PlacesOf(c, {"CHILD"}) \cap OtherPlaces(c, m)
<1>1. I \in SUBSET DOMAIN c.peers
  BY DEF PlacesOf
<1>2. "BYE" \in Kinds \ {"ACCEPT"}
  BY DEF Kinds
<1> HIDE DEF I
<1>3. LET told == Picked(c.peers, I)
      IN  [i \in DOMAIN told |-> told[i].mac] \in Seq(Nodes)
  BY <1>1, <1>2, FineForAll
<1>4. <<>> \in Seq(Nodes)
  OBVIOUS
<1> QED
  BY <1>3, <1>4 DEF SiblingsOf, OtherChildren, I

(* A piece of the code that makes no ties and sends what is fine.          *)
Sent(c, self, r, G) == Calm(c, r.ctx) /\ Fine(self, r.out, G)

LEMMA ResultIs == ASSUME NEW c, NEW out PROVE Result(c, out).ctx = c /\ Result(c, out).out = out
BY DEF Result

LEMMA SentNothing ==
    ASSUME NEW c, NEW d, NEW self, NEW G, Calm(c, d)
    PROVE  Sent(c, self, Result(d, <<>>), G)
BY FineNone, ResultIs DEF Sent

LEMMA SentOne ==
    ASSUME NEW c, NEW d, NEW self \in Nodes, NEW G, Calm(c, d), NEW m \in Nodes,
           NEW op \in Kinds \ {"ACCEPT"}
    PROVE  Sent(c, self, Result(d, <<Packet(self, m, op)>>), G)
<1>1. <<>> \in Seq(Nodes) /\ op \in Kinds
  OBVIOUS
<1>2. PacketOf(self, m, op, m)
  BY <1>1, PacketIs
<1> DEFINE p == Packet(self, m, op)
<1>3. p \in PacketRecord /\ p.op # "ACCEPT"
  BY <1>2 DEF PacketOf
<1> HIDE DEF p
<1>4. Fine(self, <<p>>, G)
  BY <1>3, FineOne
<1> QED
  BY <1>4, ResultIs DEF Sent, p

LEMMA SendAcceptIsCalm ==
    ASSUME NEW c \in Context, NEW self \in Nodes, NEW G, NEW m \in Nodes \cap G
    PROVE  Sent(c, self, SendAccept(c, self, m), G)
<1>1. CASE KnownAs(c, m, {"CHILD", "P2P"})
  <2> DEFINE p == [Packet(self, m, "ACCEPT") EXCEPT !.siblings = SiblingsOf(c, m)]
             d == Spawn(c, "ESTABLISHED", m)
  <2>1. Calm(c, d)
    BY SpawnIsCalm DEF EventNames
  <2>2. SiblingsOf(c, m) \in Seq(Nodes)
    BY SiblingsAreNodes
  <2>3. p \in PacketRecord /\ p.from = self /\ p.to = m
    <3>1. "ACCEPT" \in Kinds
      BY DEF Kinds
    <3> QED
      BY <2>2, <3>1, PacketIs
  <2>4. SendAccept(c, self, m) = Result(d, <<p>>)
    BY <1>1 DEF SendAccept
  <2> HIDE DEF p, d
  <2>5. Fine(self, <<p>>, G)
    BY <2>3, FineOne
  <2> QED
    BY <2>1, <2>4, <2>5, ResultIs DEF Sent
<1>2. CASE ~KnownAs(c, m, {"CHILD", "P2P"})
  <2>1. SendAccept(c, self, m) = Result(c, <<>>)
    BY <1>2 DEF SendAccept
  <2> QED
    BY <2>1, SentNothing, CalmItself
<1> QED
  BY <1>1, <1>2

LEMMA SendJoinIsCalm ==
    ASSUME NEW c \in Context, NEW self \in Nodes, NEW G, NEW m \in Nodes
    PROVE  Sent(c, self, SendJoin(c, self, m), G)
<1>1. "JOIN" \in Kinds \ {"ACCEPT"}
  BY DEF Kinds
<1>2. Sent(c, self, Result(c, <<Packet(self, m, "JOIN")>>), G) /\ Sent(c, self, Result(c, <<>>), G)
  BY <1>1, SentOne, SentNothing, CalmItself
<1> QED
  BY <1>2 DEF SendJoin

LEMMA SendCancelIsCalm ==
    ASSUME NEW c \in Context, NEW self \in Nodes, NEW G, NEW m \in Nodes
    PROVE  Sent(c, self, SendCancel(c, self, m), G)
<1> DEFINE d == IF ~Known(c, m) THEN c
                ELSE IF c.mode = "CHILD" THEN [c EXCEPT !.peers = <<>>] ELSE DeletePeer(c, m)
<1>1. Calm(c, d)
  <2>1. CASE ~Known(c, m)
    BY <2>1, CalmItself
  <2>2. CASE Known(c, m) /\ c.mode = "CHILD"
    BY <2>2, EmptiedIsCalm
  <2>3. CASE Known(c, m) /\ c.mode # "CHILD"
    BY <2>3, DeleteIsCalm
  <2> QED
    BY <2>1, <2>2, <2>3
<1>2. "CANCEL" \in Kinds \ {"ACCEPT"}
  BY DEF Kinds
<1>3. SendCancel(c, self, m) = Result(d, <<Packet(self, m, "CANCEL")>>)
  BY DEF SendCancel
<1> HIDE DEF d
<1> QED
  BY <1>1, <1>2, <1>3, SentOne

LEMMA SendBulkIsCalm ==
    ASSUME NEW c \in Context, NEW self \in Nodes, NEW G, NEW m \in Nodes
    PROVE  Sent(c, self, SendBulk(c, self, m), G)
<1> DEFINE s == SetSending(c, m, FALSE)
           d == Spawn(s, "DATA_ACK", m)
<1>1. Calm(c, s)
  BY FlagsAreCalm
<1>2. s \in Context
  BY <1>1, CalmTypes
<1>3. Calm(s, d)
  <2> HIDE DEF s
  <2> QED
    BY <1>2, SpawnIsCalm DEF EventNames
<1>4. Calm(c, d)
  BY <1>1, <1>3, CalmTwice
<1>5. "BULK" \in Kinds \ {"ACCEPT"}
  BY DEF Kinds
<1>6. SendBulk(c, self, m) = IF Known(c, m) THEN Result(d, <<Packet(self, m, "BULK")>>) ELSE Result(c, <<>>)
  BY DEF SendBulk
<1> HIDE DEF d
<1>7. Sent(c, self, Result(d, <<Packet(self, m, "BULK")>>), G)
  BY <1>4, <1>5, SentOne
<1>8. Sent(c, self, Result(c, <<>>), G)
  BY SentNothing, CalmItself
<1> QED
  BY <1>6, <1>7, <1>8

LEMMA SendBirthIsCalm ==
    ASSUME NEW c \in Context, NEW self \in Nodes, NEW G, NEW m \in Nodes
    PROVE  Sent(c, self, SendBirth(c, self, m), G)
<1> DEFINE out == IF Known(c, m) THEN TellChildren(c, self, m, "BIRTH") ELSE <<>>
<1>1. Fine(self, out, G)
  BY TellChildrenIsFine, FineNone
<1>2. SendBirth(c, self, m) = Result(c, out)
  BY DEF SendBirth
<1> HIDE DEF out
<1> QED
  BY <1>1, <1>2, CalmItself, ResultIs DEF Sent

LEMMA SendDeathIsCalm ==
    ASSUME NEW c \in Context, NEW self \in Nodes, NEW G, NEW m \in Nodes
    PROVE  Sent(c, self, SendDeath(c, self, m), G)
<1>1. CASE ~Known(c, m)
  <2>1. SendDeath(c, self, m) = Result(c, <<>>)
    BY <1>1 DEF SendDeath
  <2> QED
    BY <2>1, SentNothing, CalmItself
<1>2. CASE Known(c, m)
  <2> DEFINE d == DeletePeer(c, m)
             bye == <<Packet(self, m, "BYE")>>
             told == TellChildren(c, self, m, "DEATH")
  <2>1. Calm(c, d)
    BY <1>2, DeleteIsCalm
  <2>2. "BYE" \in Kinds \ {"ACCEPT"}
    BY DEF Kinds
  <2>3. SendDeath(c, self, m) = Result(d, bye \o told)
    BY <1>2 DEF SendDeath
  <2> HIDE DEF d
  <2>4. Sent(c, self, Result(d, bye), G)
    BY <2>1, <2>2, SentOne
  <2>5. Fine(self, bye, G)
    BY <2>4, ResultIs DEF Sent
  <2>6. Fine(self, told, G)
    BY TellChildrenIsFine
  <2> HIDE DEF bye, told
  <2>7. Fine(self, bye \o told, G)
    BY <2>5, <2>6, FineBoth
  <2> QED
    BY <2>1, <2>3, <2>7, ResultIs DEF Sent
<1> QED
  BY <1>1, <1>2

(* What the input thread does for a message, an ACCEPT for one accepted.   *)
LEMMA SendMessageIsCalm ==
    ASSUME NEW c \in Context, NEW self \in Nodes, NEW G, NEW msg \in [op : MessageOps, mac : Nodes],
           msg.op = "ACCEPT" => msg.mac \in G
    PROVE  Sent(c, self, SendMessage(c, self, msg), G)
<1> DEFINE m == msg.mac
<1>1. m \in Nodes /\ msg.op \in {"JOIN", "ACCEPT", "CANCEL", "BULK", "BULK_ABORT", "BIRTH", "DEATH"}
  BY DEF MessageOps
<1>2. CASE msg.op = "ACCEPT"
  <2>1. Sent(c, self, SendAccept(c, self, m), G)
    BY <1>1, <1>2, SendAcceptIsCalm
  <2> QED
    BY <1>2, <2>1 DEF SendMessage
<1>3. CASE msg.op = "JOIN"
  BY <1>1, <1>3, SendJoinIsCalm DEF SendMessage
<1>4. CASE msg.op = "CANCEL"
  BY <1>1, <1>4, SendCancelIsCalm DEF SendMessage
<1>5. CASE msg.op = "BULK"
  BY <1>1, <1>5, SendBulkIsCalm DEF SendMessage
<1>6. CASE msg.op = "BIRTH"
  BY <1>1, <1>6, SendBirthIsCalm DEF SendMessage
<1>7. CASE msg.op = "DEATH"
  BY <1>1, <1>7, SendDeathIsCalm DEF SendMessage
<1>8. CASE msg.op = "BULK_ABORT"
  <2>1. Sent(c, self, Result(c, <<>>), G)
    BY SentNothing, CalmItself
  <2> QED
    BY <1>8, <2>1 DEF SendMessage
<1> QED
  BY <1>1, <1>2, <1>3, <1>4, <1>5, <1>6, <1>7, <1>8

LEMMA SendNextIsCalm ==
    ASSUME NEW c, NEW self \in Nodes, NEW G, NEW r, Sent(c, self, r, G),
           NEW msg \in [op : MessageOps, mac : Nodes], msg.op = "ACCEPT" => msg.mac \in G
    PROVE  Sent(c, self, SendNext(r, self, msg), G)
<1> DEFINE s == SendMessage(r.ctx, self, msg)
<1>1. Calm(c, r.ctx) /\ Fine(self, r.out, G)
  BY DEF Sent
<1>2. r.ctx \in Context
  BY <1>1, CalmTypes
<1>3. Sent(r.ctx, self, s, G)
  BY <1>2, SendMessageIsCalm
<1> HIDE DEF s
<1>4. Calm(c, s.ctx)
  BY <1>1, <1>3, CalmTwice DEF Sent
<1>5. Fine(self, r.out \o s.out, G)
  BY <1>1, <1>3, FineBoth DEF Sent
<1>6. SendNext(r, self, msg) = Result(s.ctx, r.out \o s.out)
  BY DEF SendNext, s
<1> QED
  BY <1>4, <1>5, <1>6, ResultIs DEF Sent

(* The whole stack, message by message.                                    *)
Answers(c, G) == \A i \in DOMAIN c.input : c.input[i].op = "ACCEPT" => c.input[i].mac \in G

LEMMA DrainIsCalm ==
    ASSUME NEW c \in Context, NEW self \in Nodes, NEW G, Answers(c, G)
    PROVE  Sent([c EXCEPT !.input = <<>>], self, DrainInput(c, self), G)
<1> DEFINE N == Len(c.input)
           d == [c EXCEPT !.input = <<>>]
           start == Result(d, <<>>)
           Rec(g, n) == g = [i \in 0..n |-> IF i = 0 THEN start ELSE SendNext(g[i - 1], self, c.input[i])]
<1>1. /\ c.input \in Seq([op : MessageOps, mac : Nodes]) /\ N \in Nat /\ DOMAIN c.input = 1..N
      /\ d \in Context
  <2>1. <<>> \in Seq([op : MessageOps, mac : Nodes])
    OBVIOUS
  <2>2. c.input \in Seq([op : MessageOps, mac : Nodes])
    BY DEF Context
  <2>3. d \in Context
    BY <2>1 DEF Context
  <2>4. N \in Nat /\ DOMAIN c.input = 1..N
    BY <2>2
  <2> QED
    BY <2>2, <2>3, <2>4
<1>2. \A i \in 1..N : c.input[i] \in [op : MessageOps, mac : Nodes]
                      /\ (c.input[i].op = "ACCEPT" => c.input[i].mac \in G)
  <2> DEFINE M == [op : MessageOps, mac : Nodes]
             in == c.input
  <2>1. in \in Seq(M) /\ DOMAIN in = 1..N /\ N = Len(in)
    BY <1>1
  <2>2. \A i \in 1..N : in[i].op = "ACCEPT" => in[i].mac \in G
    BY <1>1 DEF Answers
  <2> HIDE DEF M, in, N
  <2>3. \A i \in 1..N : in[i] \in M
    BY <2>1
  <2> QED
    BY <2>2, <2>3 DEF M, in
<1>3. Sent(d, self, start, G)
  BY <1>1, CalmItself, SentNothing
<1> HIDE DEF N, d, start
<1>4. \E g : Rec(g, N)
  <2> DEFINE Bad == {n \in Nat : ~\E g : Rec(g, n)}
             b == Min(Bad)
  <2> SUFFICES ASSUME Bad # {}
               PROVE  FALSE
    BY <1>1
  <2>1. b \in Bad /\ \A n \in Bad : b <= n
    BY MinIn
  <2>2. b # 0
    <3>1. Rec([i \in 0..0 |-> start], 0)
      OBVIOUS
    <3> QED
      BY <2>1, <3>1
  <2>3. b - 1 \in Nat /\ b - 1 \notin Bad /\ b \in Nat
    <3> HIDE DEF b
    <3>1. b \in Nat
      BY <2>1
    <3> HIDE DEF Bad
    <3> QED
      BY <2>1, <2>2, <3>1
  <2>4. PICK g : Rec(g, b - 1)
    BY <2>3
  <2> HIDE DEF b
  <2> DEFINE f == [i \in 0..b |-> IF i = b THEN SendNext(g[b - 1], self, c.input[b]) ELSE g[i]]
  <2>5. \A i \in 0..(b - 1) : f[i] = g[i]
    BY <2>3
  <2>6. \A i \in 0..(b - 1) : g[i] = IF i = 0 THEN start ELSE SendNext(g[i - 1], self, c.input[i])
    BY <2>4
  <2>7. ASSUME NEW i \in 0..b
        PROVE  f[i] = IF i = 0 THEN start ELSE SendNext(f[i - 1], self, c.input[i])
    <3>1. CASE i = b
      <4>1. f[i] = SendNext(g[b - 1], self, c.input[b]) /\ f[b - 1] = g[b - 1]
        BY <2>3, <2>5, <3>1
      <4> QED
        BY <2>2, <3>1, <4>1
    <3>2. CASE i # b
      <4>1. i \in 0..(b - 1) /\ (i # 0 => i - 1 \in 0..(b - 1))
        BY <2>3, <3>2
      <4>2. f[i] = g[i] /\ (i # 0 => f[i - 1] = g[i - 1])
        BY <2>5, <4>1
      <4>3. g[i] = IF i = 0 THEN start ELSE SendNext(g[i - 1], self, c.input[i])
        BY <2>6, <4>1
      <4> QED
        BY <4>2, <4>3
    <3> QED
      BY <3>1, <3>2
  <2>8. f = [i \in 0..b |-> f[i]]
    OBVIOUS
  <2> HIDE DEF f
  <2>9. Rec(f, b)
    BY <2>7, <2>8
  <2> QED
    BY <2>1, <2>9
<1> DEFINE after == CHOOSE g : Rec(g, N)
<1>5. Rec(after, N)
  BY <1>4
<1>6. DrainInput(c, self) = after[N]
  BY DEF DrainInput, N, start, d
<1> HIDE DEF after
<1>7. after[0] = start /\ \A i \in 1..N : after[i] = SendNext(after[i - 1], self, c.input[i])
  <2>1. \A i \in 0..N : after[i] = IF i = 0 THEN start ELSE SendNext(after[i - 1], self, c.input[i])
    BY <1>5
  <2> QED
    BY <1>1, <2>1
<1>8. \A i \in 0..N : Sent(d, self, after[i], G)
  <2> DEFINE Bad == {i \in 0..N : ~Sent(d, self, after[i], G)}
             b == Min(Bad)
  <2> SUFFICES ASSUME Bad # {}
               PROVE  FALSE
    OBVIOUS
  <2>0. Bad \in SUBSET Nat
    BY <1>1
  <2>1. b \in Bad /\ \A i \in Bad : b <= i
    BY <2>0, MinIn
  <2> HIDE DEF b
  <2>2. b \in 0..N /\ ~Sent(d, self, after[b], G)
    BY <2>1
  <2>3. b # 0
    BY <1>3, <1>7, <2>2
  <2>4. b \in 1..N /\ b - 1 \in 0..N
    BY <1>1, <2>2, <2>3
  <2>5. b - 1 \notin Bad
    <3> HIDE DEF Bad
    <3> QED
      BY <2>1, <2>4, <1>1
  <2>6. Sent(d, self, after[b - 1], G)
    BY <2>4, <2>5
  <2>7. after[b] = SendNext(after[b - 1], self, c.input[b])
    BY <1>7, <2>4
  <2>8. Sent(d, self, SendNext(after[b - 1], self, c.input[b]), G)
    BY <1>2, <2>4, <2>6, SendNextIsCalm
  <2> QED
    BY <2>2, <2>7, <2>8
<1>9. Sent(d, self, after[N], G)
  BY <1>1, <1>8
<1> QED
  BY <1>6, <1>9 DEF d

-----------------------------------------------------------------------------
(* The packet handlers but ActOnAccept.                                    *)
LEMMA ActOnHelloIsCalm ==
    ASSUME NEW c \in Context, NEW m \in Nodes
    PROVE  Calm(c, ActOnHello(c, m))
<1>1. CASE Unattached(c)
  <2> DEFINE d == IF Known(c, m) THEN c ELSE Link(c, m, "OFFER", FALSE)
  <2>1. "OFFER" \in FreeStates(c)
    BY <1>1, FreeStatesAre DEF Unattached
  <2>2. Calm(c, d)
    BY <2>1, LinkIsCalm, CalmItself
  <2>3. ActOnHello(c, m) = Spawn(d, "HELLO", m)
    BY <1>1 DEF ActOnHello
  <2> HIDE DEF d
  <2>4. Calm(d, Spawn(d, "HELLO", m))
    BY <2>2, CalmTypes, SpawnIsCalm DEF EventNames
  <2> QED
    BY <2>2, <2>3, <2>4, CalmTwice
<1>2. CASE ~Unattached(c)
  BY <1>2, CalmItself DEF ActOnHello
<1> QED
  BY <1>1, <1>2

LEMMA ActOnJoinIsCalm ==
    ASSUME NEW c \in Context, NEW self \in Nodes, NEW G, NEW m \in Nodes
    PROVE  Sent(c, self, ActOnJoin(c, self, m), G)
<1>1. Sent(c, self, Result(c, <<>>), G)
  BY CalmItself, SentNothing
<1>2. Sent(c, self, SendCancel(c, self, m), G)
  BY SendCancelIsCalm
<1>3. CASE c.mode # "CHILD"
  <2> DEFINE joining == c.mode = "P2P"
             a == SetState(c, m, "INCOMING_REQUEST")
             b == SetJoining(a, m, joining)
             d == IF Known(c, m) THEN Refresh(b, m) ELSE Link(c, m, "INCOMING_REQUEST", joining)
             e == Spawn(d, "REQUEST", m)
  <2>1. "INCOMING_REQUEST" \in FreeStates(c) /\ joining \in BOOLEAN
    BY <1>3, FreeStatesAre DEF Modes
  <2>2. ActOnJoin(c, self, m) =
           IF ~HasSlot(c) THEN SendCancel(c, self, m)
           ELSE IF Known(c, m) /\ c.mode = "PARENT" THEN Result(c, <<>>)
           ELSE Result(e, <<>>)
    BY <1>3 DEF ActOnJoin
  <2> HIDE DEF joining
  <2>3. Calm(c, a) /\ a \in Context
    BY <2>1, StateIsCalm, CalmTypes
  <2> HIDE DEF a
  <2>4. Calm(a, b) /\ b \in Context
    BY <2>1, <2>3, FlagsAreCalm, CalmTypes
  <2> HIDE DEF b
  <2>5. Calm(b, Refresh(b, m))
    BY <2>4, FlagsAreCalm
  <2>6. Calm(c, b)
    BY <2>3, <2>4, CalmTwice
  <2>7. Calm(c, Refresh(b, m)) /\ Calm(c, Link(c, m, "INCOMING_REQUEST", joining))
    BY <2>1, <2>5, <2>6, CalmTwice, LinkIsCalm
  <2>8. Calm(c, d)
    BY <2>7
  <2> HIDE DEF d
  <2>9. Calm(d, e)
    BY <2>8, CalmTypes, SpawnIsCalm DEF EventNames
  <2> HIDE DEF e
  <2>10. Sent(c, self, Result(e, <<>>), G)
    BY <2>8, <2>9, CalmTwice, SentNothing
  <2> QED
    BY <1>1, <1>2, <2>2, <2>10
<1>4. CASE c.mode = "CHILD"
  BY <1>1, <1>4 DEF ActOnJoin
<1> QED
  BY <1>3, <1>4

LEMMA CancelMeansAnEvent ==
    ASSUME NEW c, NEW m PROVE CancelMeans(c, m) \in EventNames \cup {"none"}
BY DEF CancelMeans, EventNames

LEMMA ActOnCancelIsCalm ==
    ASSUME NEW c \in Context, NEW self \in Nodes, NEW m \in Nodes
    PROVE  Calm(c, ActOnCancel(c, self, m))
<1> DEFINE u == SetJoining(c, m, FALSE)
           e == CancelMeans(c, m)
           s == Spawn(u, e, m)
           k == SpawnLeaves(u)
<1>1. Calm(c, u) /\ u \in Context
  BY FlagsAreCalm, CalmTypes
<1>2. ActOnCancel(c, self, m) = IF ~Known(c, m) THEN c
                                ELSE IF e # "none" THEN SetLeaving(s, m)
                                ELSE IF c.mode = "CHILD" /\ IsThe("PARENT", c, m) THEN Disband(k, self)
                                ELSE u
  BY DEF ActOnCancel
<1>3. e # "none" => e \in EventNames
  BY CancelMeansAnEvent
<1> HIDE DEF u, e
<1>4. ASSUME e # "none"
      PROVE  Calm(c, SetLeaving(s, m))
  <2>1. Calm(u, s) /\ s \in Context
    BY <1>1, <1>3, <1>4, SpawnIsCalm, CalmTypes
  <2> HIDE DEF s
  <2>2. Calm(s, SetLeaving(s, m))
    BY <2>1, FlagsAreCalm
  <2> QED
    BY <1>1, <2>1, <2>2, CalmTwice
<1>5. Calm(c, Disband(k, self))
  <2>1. Calm(u, k) /\ k \in Context
    BY <1>1, SpawnLeavesIsCalm, CalmTypes
  <2> HIDE DEF k
  <2>2. Calm(k, Disband(k, self))
    BY <2>1, DisbandIsCalm
  <2> QED
    BY <1>1, <2>1, <2>2, CalmTwice
<1> HIDE DEF s, k
<1>6. Calm(c, c)
  BY CalmItself
<1> QED
  BY <1>1, <1>2, <1>4, <1>5, <1>6

LEMMA ActOnBulkIsCalm ==
    ASSUME NEW c \in Context, NEW m \in Nodes
    PROVE  Calm(c, ActOnBulk(c, m))
BY SpawnIsCalm, CalmItself DEF ActOnBulk, EventNames

LEMMA ActOnBirthIsCalm ==
    ASSUME NEW c \in Context, NEW m, NEW newborn \in Nodes
    PROVE  Calm(c, ActOnBirth(c, m, newborn))
<1>1. CASE FromParent(c, m)
  <2>1. "CHILD" \in FreeStates(c)
    BY <1>1, FreeStatesAre DEF FromParent
  <2>2. Calm(c, Link(c, newborn, "CHILD", FALSE))
    BY <2>1, LinkIsCalm
  <2> QED
    BY <1>1, <2>2 DEF ActOnBirth
<1>2. CASE ~FromParent(c, m)
  BY <1>2, CalmItself DEF ActOnBirth
<1> QED
  BY <1>1, <1>2

LEMMA ActOnDeathIsCalm ==
    ASSUME NEW c \in Context, NEW m, NEW dead \in Nodes
    PROVE  Calm(c, ActOnDeath(c, m, dead))
<1>1. CASE FromParent(c, m) /\ KnownAs(c, dead, {"CHILD"})
  <2> DEFINE d == Spawn(c, "LEAVE", dead)
  <2>1. Calm(c, d) /\ d \in Context /\ d.peers = c.peers
    BY SpawnIsCalm, CalmTypes DEF EventNames
  <2>2. ActOnDeath(c, m, dead) = DeletePeer(d, dead)
    BY <1>1 DEF ActOnDeath
  <2> HIDE DEF d
  <2>3. Known(d, dead)
    BY <1>1, <2>1 DEF Known, KnownAs, Place
  <2>4. Calm(d, DeletePeer(d, dead))
    BY <2>1, <2>3, DeleteIsCalm
  <2> QED
    BY <2>1, <2>2, <2>4, CalmTwice
<1>2. CASE ~(FromParent(c, m) /\ KnownAs(c, dead, {"CHILD"}))
  BY <1>2, CalmItself DEF ActOnDeath
<1> QED
  BY <1>1, <1>2

LEMMA ActOnByeIsCalm ==
    ASSUME NEW c \in Context, NEW self \in Nodes, NEW m \in Nodes
    PROVE  Calm(c, ActOnBye(c, self, m))
<1> DEFINE s == Spawn(c, "BYE", m)
<1>1. Calm(c, s) /\ s \in Context
  BY SpawnIsCalm, CalmTypes DEF EventNames
<1>2. \/ ActOnBye(c, self, m) = c \/ ActOnBye(c, self, m) = SetLeaving(s, m)
      \/ ActOnBye(c, self, m) = Disband(s, self)
  BY DEF ActOnBye
<1> HIDE DEF s
<1>3. Calm(s, SetLeaving(s, m)) /\ Calm(s, Disband(s, self))
  BY <1>1, FlagsAreCalm, DisbandIsCalm
<1>4. Calm(c, SetLeaving(s, m)) /\ Calm(c, Disband(s, self)) /\ Calm(c, c)
  BY <1>1, <1>3, CalmTwice, CalmItself
<1> QED
  BY <1>2, <1>4

LEMMA TimeOutIsCalm ==
    ASSUME NEW c \in Context, NEW self \in Nodes, NEW G, NEW m \in Nodes
    PROVE  Sent(c, self, TimeOut(c, self, m), G)
<1> DEFINE d == IF TimeoutIsTold(c, m) THEN Spawn(c, "TIMEOUT", m) ELSE c
<1>1. Calm(c, d) /\ d \in Context
  <2>1. Calm(c, Spawn(c, "TIMEOUT", m)) /\ Calm(c, c)
    BY SpawnIsCalm, CalmItself DEF EventNames
  <2> QED
    BY <2>1, CalmTypes
<1>2. TimeOut(c, self, m) = SendDeath(d, self, m) \/ TimeOut(c, self, m) = SendCancel(d, self, m)
  BY DEF TimeOut
<1> HIDE DEF d
<1>3. Sent(d, self, SendDeath(d, self, m), G) /\ Sent(d, self, SendCancel(d, self, m), G)
  BY <1>1, SendDeathIsCalm, SendCancelIsCalm
<1> QED
  BY <1>1, <1>2, <1>3, CalmTwice DEF Sent

-----------------------------------------------------------------------------
(* A sound context: a host has no more children than its room holds, the   *)
(* others have one tie; parents and partners have accepted, or are         *)
(* accepted; and an ACCEPT is queued only for somebody accepted.  G says   *)
(* whom each node's game has accepted.                                     *)
Within(c) ==
    IF c.mode = "PARENT" THEN Cardinality(Ties(c)) <= c.maxpeers - 1
    ELSE \A i, j \in Ties(c) : i = j

InvitedAt(n, p, G) ==
    /\ p.state = "PARENT" => n \in G[p.mac]
    /\ p.state = "P2P" => n \in G[p.mac] \/ p.mac \in G[n]

Invited(n, c, G) == \A i \in Ties(c) : InvitedAt(n, c.peers[i], G)

Sound(n, c, G) ==
    c \in Context /\ Fits(c) /\ Within(c) /\ Invited(n, c, G) /\ Answers(c, G[n])

LEMMA TiesAreFinite ==
    ASSUME NEW c \in Context
    PROVE  IsFiniteSet(Ties(c)) /\ Cardinality(Ties(c)) \in Nat
<1>1. DOMAIN c.peers = 1..Len(c.peers) /\ Len(c.peers) \in Nat
  BY DEF Context
<1>2. Ties(c) \in SUBSET (1..Len(c.peers)) /\ IsFiniteSet(1..Len(c.peers))
  BY <1>1, FS_Interval DEF Ties, PlacesOf
<1> QED
  BY <1>2, FS_Subset, FS_CardinalityType

(* What makes no ties keeps a context sound.                               *)
LEMMA CalmKeeps ==
    ASSUME NEW n, NEW G, NEW c, NEW d, Calm(c, d), Sound(n, c, G)
    PROVE  Sound(n, d, G)
<1>1. SameButList(c, d) /\ d \in Context /\ c \in Context /\ Fits(d)
  BY DEF Calm, SameButList, Sound
<1>2. PICK h : TiesFrom(c, d, h)
  BY DEF Calm
<1>3. \A i \in Ties(d) : h[i] \in Ties(c) /\ Alike(d.peers[i], c.peers[h[i]])
  BY <1>2 DEF TiesFrom
<1>4. Within(d)
  <2>1. CASE c.mode = "PARENT"
    <3>1. IsFiniteSet(Ties(c)) /\ IsFiniteSet(Ties(d))
          /\ Cardinality(Ties(c)) \in Nat /\ Cardinality(Ties(d)) \in Nat
      BY <1>1, TiesAreFinite
    <3>2. ~(Cardinality(Ties(c)) < Cardinality(Ties(d)))
      BY <1>2, <3>1, FS_PigeonHole DEF TiesFrom
    <3>3. c.maxpeers \in 2..16
      BY <1>1 DEF Context
    <3>4. Cardinality(Ties(c)) <= c.maxpeers - 1 /\ d.maxpeers = c.maxpeers /\ d.mode = "PARENT"
      BY <1>1, <2>1 DEF Sound, Within, SameButList
    <3>5. Cardinality(Ties(d)) <= d.maxpeers - 1
      BY <3>1, <3>2, <3>3, <3>4
    <3> QED
      BY <3>4, <3>5 DEF Within
  <2>2. CASE c.mode # "PARENT"
    <3>1. d.mode # "PARENT" /\ \A i, j \in Ties(c) : i = j
      BY <1>1, <2>2 DEF Sound, Within, SameButList
    <3>2. \A i, j \in Ties(d) : i = j
      BY <1>2, <1>3, <3>1 DEF TiesFrom
    <3> QED
      BY <3>1, <3>2 DEF Within
  <2> QED
    BY <2>1, <2>2
<1>5. Invited(n, d, G)
  BY <1>3 DEF Sound, Invited, InvitedAt, Alike
<1>6. Answers(d, G[n])
  BY <1>1 DEF Sound, Answers, SameButList
<1> QED
  BY <1>1, <1>4, <1>5, <1>6 DEF Sound

(* Fields that no tie depends on.                                          *)
LEMMA OtherFields ==
    ASSUME NEW n, NEW G, NEW c, NEW d \in Context, Sound(n, c, G),
           d.mode = c.mode, d.maxpeers = c.maxpeers, d.peers = c.peers, Answers(d, G[n])
    PROVE  Sound(n, d, G)
<1>1. Ties(d) = Ties(c)
  BY DEF Ties, TieStates, PlacesOf
<1> QED
  BY <1>1 DEF Sound, Within, Invited, Fits

LEMMA PushKeeps ==
    ASSUME NEW n, NEW G, NEW c, Sound(n, c, G), NEW op \in MessageOps, NEW m \in Nodes,
           op = "ACCEPT" => m \in G[n]
    PROVE  Sound(n, PushInput(c, op, m), G)
<1> DEFINE M == [op : MessageOps, mac : Nodes]
           msg == [op |-> op, mac |-> m]
           in == c.input
           l == <<msg>> \o in
           d == [c EXCEPT !.input = l]
<1>1. msg \in M /\ msg.op = op /\ msg.mac = m
  OBVIOUS
<1>2. in \in Seq(M) /\ c \in Context
  BY DEF Sound, Context
<1>3. \A i \in DOMAIN in : in[i].op = "ACCEPT" => in[i].mac \in G[n]
  BY DEF Sound, Answers
<1>4. PushInput(c, op, m) = d
  BY <1>2 DEF PushInput, Context
<1> HIDE DEF M, msg, in
<1>5. /\ l \in Seq(M) /\ DOMAIN l = 1..(Len(in) + 1) /\ DOMAIN in = 1..Len(in)
      /\ l[1] = msg /\ \A i \in DOMAIN l : i # 1 => i - 1 \in DOMAIN in /\ l[i] = in[i - 1]
  BY <1>1, <1>2
<1> HIDE DEF l
<1>6. d \in Context /\ d.mode = c.mode /\ d.maxpeers = c.maxpeers /\ d.peers = c.peers /\ d.input = l
  BY <1>2, <1>5 DEF Context, M
<1> HIDE DEF d
<1>7. Answers(d, G[n])
  BY <1>1, <1>3, <1>5, <1>6 DEF Answers
<1> QED
  BY <1>4, <1>6, <1>7, OtherFields

LEMMA GrantingKeeps ==
    ASSUME NEW n \in Nodes, NEW c, NEW G, NEW H, Sound(n, c, G), \A k \in Nodes : G[k] \subseteq H[k]
    PROVE  Sound(n, c, H)
<1>1. c.peers \in Seq(PeerRecord)
  BY DEF Sound, Context
<1>2. \A i \in Ties(c) : c.peers[i] \in PeerRecord
  BY <1>1 DEF Ties, PlacesOf
<1>3. \A i \in Ties(c) : c.peers[i].mac \in Nodes
  BY <1>2 DEF PeerRecord
<1>4. Invited(n, c, H)
  BY <1>3 DEF Sound, Invited, InvitedAt
<1>5. Answers(c, H[n])
  BY DEF Sound, Answers
<1> QED
  BY <1>4, <1>5 DEF Sound

(* A context without members is sound.                                     *)
LEMMA AloneIsSound ==
    ASSUME NEW n, NEW G, NEW c \in Context, c.peers = <<>>, c.input = <<>>
    PROVE  Sound(n, c, G)
<1>1. DOMAIN c.peers = {} /\ DOMAIN c.input = {}
  OBVIOUS
<1>2. Ties(c) = {}
  BY <1>1 DEF Ties, PlacesOf
<1>3. Cardinality({}) = 0 /\ c.maxpeers \in 2..16
  BY FS_EmptySet DEF Context
<1>4. Within(c)
  BY <1>2, <1>3 DEF Within
<1> QED
  BY <1>1, <1>2, <1>4 DEF Sound, Fits, Invited, Answers

-----------------------------------------------------------------------------
(* The pieces that tie.                                                    *)

(* A host takes one more child into a room that is not full.               *)
LEMMA ChildTaken ==
    ASSUME NEW n, NEW G, NEW c, Sound(n, c, G), NEW m, MayParentSelect(c, m)
    PROVE  Sound(n, SetState(c, m, "CHILD"), G)
<1> DEFINE d == SetState(c, m, "CHILD")
           k == Place(c, m)
<1>1. c \in Context /\ c.mode = "PARENT" /\ c.maxpeers \in 2..16
  BY DEF Sound, MayParentSelect, Context
<1>2. /\ SameButList(c, d) /\ DOMAIN d.peers = DOMAIN c.peers
      /\ \A i \in DOMAIN c.peers : d.peers[i].state = IF i = k THEN "CHILD" ELSE c.peers[i].state
  BY <1>1, StateWritten DEF PeerStates
<1> HIDE DEF d, k
<1>3. d \in Context /\ d.mode = "PARENT" /\ d.maxpeers = c.maxpeers /\ d.input = c.input
  BY <1>1, <1>2 DEF SameButList
<1>4. Ties(c) = PlacesOf(c, {"CHILD"}) /\ Ties(d) = PlacesOf(d, {"CHILD"})
  BY <1>1, <1>3 DEF Ties, TieStates
<1>5. Ties(d) \in SUBSET (Ties(c) \cup {k})
  BY <1>2, <1>4 DEF PlacesOf
<1>6. Cardinality(Ties(d)) <= c.maxpeers - 1
  <2>1. IsFiniteSet(Ties(c)) /\ Cardinality(Ties(c)) \in Nat /\ Cardinality(Ties(d)) \in Nat
    BY <1>1, <1>3, TiesAreFinite
  <2>2. IsFiniteSet(Ties(c) \cup {k})
        /\ Cardinality(Ties(c) \cup {k}) = IF k \in Ties(c) THEN Cardinality(Ties(c))
                                                           ELSE Cardinality(Ties(c)) + 1
    BY <2>1, FS_AddElement, ZenonT(60)
  <2>3. Cardinality(Ties(d)) <= Cardinality(Ties(c) \cup {k})
    BY <1>5, <2>2, FS_Subset
  <2>4. Cardinality(Ties(c)) <= c.maxpeers - 1 /\ Cardinality(Ties(c)) # c.maxpeers - 1
    BY <1>1, <1>4 DEF Sound, Within, MayParentSelect, CountChildren
  <2> QED
    BY <1>1, <2>1, <2>2, <2>3, <2>4
<1>7. Fits(d)
  <2>1. "CHILD" \in ModeStates["PARENT"]
    BY DEF ModeStates
  <2> QED
    BY <1>1, <1>2, <1>3, <2>1 DEF Sound, Fits
<1>8. Invited(n, d, G)
  BY <1>4 DEF Invited, InvitedAt, PlacesOf
<1>9. Answers(d, G[n])
  BY <1>3 DEF Sound, Answers
<1> QED
  BY <1>3, <1>6, <1>7, <1>8, <1>9 DEF Sound, Within, d

(* Another player gets a tie while he has no other.                        *)
LEMMA OnlyTie ==
    ASSUME NEW n, NEW G, NEW c, Sound(n, c, G), c.mode # "PARENT", NEW m,
           Known(c, m), \A i \in Ties(c) : i = Place(c, m),
           NEW state \in ModeStates[c.mode], InvitedAt(n, [mac |-> m, state |-> state], G)
    PROVE  Sound(n, SetState(c, m, state), G)
<1> DEFINE d == SetState(c, m, state)
           k == Place(c, m)
<1>1. c \in Context /\ c.mode \in {"CHILD", "P2P"}
  BY DEF Sound, Context, Modes
<1>2. state \in PeerStates
  BY <1>1 DEF ModeStates, PeerStates
<1>3. /\ SameButList(c, d) /\ DOMAIN d.peers = DOMAIN c.peers
      /\ \A i \in DOMAIN c.peers : /\ d.peers[i].mac = c.peers[i].mac
                                   /\ d.peers[i].state = IF i = k THEN state ELSE c.peers[i].state
  BY <1>1, <1>2, StateWritten
<1>4. k \in DOMAIN c.peers /\ c.peers[k].mac = m
  BY <1>1, PlaceIs
<1> HIDE DEF d, k
<1>5. d \in Context /\ d.mode = c.mode /\ d.input = c.input
  BY <1>3 DEF SameButList
<1>6. \A i \in Ties(d) : i = k
  BY <1>3, <1>5 DEF Ties, TieStates, PlacesOf, k
<1>7. Fits(d)
  BY <1>3, <1>5 DEF Sound, Fits
<1>8. Invited(n, d, G)
  BY <1>3, <1>4, <1>6 DEF Invited, InvitedAt
<1>9. Answers(d, G[n])
  BY <1>5 DEF Sound, Answers
<1> QED
  BY <1>5, <1>6, <1>7, <1>8, <1>9 DEF Sound, Within, d

(* Who is unattached and has no request pending has no tie.                *)
LEMMA NoTie ==
    ASSUME NEW c \in Context, Fits(c), Unattached(c), ~Has(c, "OUTGOING_REQUEST")
    PROVE  c.mode # "PARENT" /\ Ties(c) = {}
<1>1. c.mode # "PARENT"
  BY DEF Unattached
<1>2. PlacesOf(c, {"OUTGOING_REQUEST"}) = {}
  BY FirstIs
<1>3. CASE c.mode = "CHILD"
  <2>1. PlacesOf(c, {"PARENT"}) = {}
    BY <1>3, FirstIs DEF Unattached
  <2>2. \A i \in DOMAIN c.peers : c.peers[i].state # "P2P"
    BY <1>3 DEF Fits, ModeStates
  <2> QED
    BY <1>1, <1>2, <2>1, <2>2 DEF Ties, TieStates, PlacesOf
<1>4. CASE c.mode = "P2P"
  <2>1. PlacesOf(c, {"P2P"}) = {}
    BY <1>4, FirstIs DEF Unattached
  <2>2. \A i \in DOMAIN c.peers : c.peers[i].state # "PARENT"
    BY <1>4 DEF Fits, ModeStates
  <2> QED
    BY <1>1, <1>2, <2>1, <2>2 DEF Ties, TieStates, PlacesOf
<1> QED
  BY <1>3, <1>4 DEF Unattached

LEMMA ParentSelectsKeeps ==
    ASSUME NEW n, NEW G, NEW c, Sound(n, c, G), NEW m \in Nodes, MayParentSelect(c, m), m \in G[n]
    PROVE  Sound(n, ParentSelects(c, m), G)
<1> DEFINE d == SetState(c, m, "CHILD")
           e == PushInput(d, "ACCEPT", m)
<1>1. Sound(n, d, G)
  BY ChildTaken
<1> HIDE DEF d
<1>2. Sound(n, e, G)
  BY <1>1, PushKeeps DEF MessageOps
<1> HIDE DEF e
<1>3. Sound(n, PushInput(e, "BIRTH", m), G)
  BY <1>2, PushKeeps DEF MessageOps
<1> QED
  BY <1>3 DEF ParentSelects, e, d

LEMMA RequestsKeeps ==
    ASSUME NEW n, NEW G, NEW c, Sound(n, c, G), NEW m \in Nodes, MayRequest(c, m)
    PROVE  Sound(n, Requests(c, m), G)
<1> DEFINE d == SetState(c, m, "OUTGOING_REQUEST")
           flag == c.mode = "P2P"
           e == SetJoining(d, m, flag)
<1>1. c \in Context /\ Fits(c) /\ Known(c, m) /\ Unattached(c) /\ ~Has(c, "OUTGOING_REQUEST")
  BY DEF Sound, MayRequest, KnownAs
<1>2. c.mode \in {"CHILD", "P2P"} /\ c.mode # "PARENT" /\ Ties(c) = {}
  BY <1>1, NoTie DEF Context, Modes
<1>3. "OUTGOING_REQUEST" \in ModeStates[c.mode]
  BY <1>2 DEF ModeStates
<1>4. InvitedAt(n, [mac |-> m, state |-> "OUTGOING_REQUEST"], G)
  BY DEF InvitedAt
<1>5. Sound(n, d, G)
  BY <1>1, <1>2, <1>3, <1>4, OnlyTie
<1>6. flag \in BOOLEAN /\ Requests(c, m) = PushInput(e, "JOIN", m)
  BY DEF Requests
<1> HIDE DEF d, flag
<1>7. Calm(d, e)
  BY <1>5, <1>6, FlagsAreCalm DEF Sound
<1> HIDE DEF e
<1>8. Sound(n, e, G)
  BY <1>5, <1>7, CalmKeeps
<1>9. Sound(n, PushInput(e, "JOIN", m), G)
  BY <1>8, PushKeeps DEF MessageOps
<1> QED
  BY <1>6, <1>9

LEMMA P2PAcceptsKeeps ==
    ASSUME NEW n, NEW G, NEW c, Sound(n, c, G), NEW m \in Nodes, MayP2PAccept(c, m), m \in G[n]
    PROVE  Sound(n, P2PAccepts(c, m), G)
<1> DEFINE d == SetState(c, m, "P2P")
           e == SetJoining(d, m, TRUE)
<1>1. c \in Context /\ Fits(c) /\ Known(c, m) /\ Unattached(c) /\ ~Has(c, "OUTGOING_REQUEST")
      /\ c.mode = "P2P"
  BY DEF Sound, MayP2PAccept, KnownAs
<1>2. c.mode # "PARENT" /\ Ties(c) = {}
  BY <1>1, NoTie
<1>3. "P2P" \in ModeStates[c.mode]
  BY <1>1 DEF ModeStates
<1>4. InvitedAt(n, [mac |-> m, state |-> "P2P"], G)
  BY DEF InvitedAt
<1>5. Sound(n, d, G)
  BY <1>1, <1>2, <1>3, <1>4, OnlyTie
<1>6. P2PAccepts(c, m) = PushInput(e, "ACCEPT", m)
  BY DEF P2PAccepts
<1> HIDE DEF d
<1>7. Calm(d, e)
  BY <1>5, FlagsAreCalm DEF Sound
<1> HIDE DEF e
<1>8. Sound(n, e, G)
  BY <1>5, <1>7, CalmKeeps
<1>9. Sound(n, PushInput(e, "ACCEPT", m), G)
  BY <1>8, PushKeeps DEF MessageOps
<1> QED
  BY <1>6, <1>9

LEMMA CancelsKeeps ==
    ASSUME NEW n, NEW G, NEW c, Sound(n, c, G), NEW m \in Nodes
    PROVE  Sound(n, Cancels(c, m), G)
<1> DEFINE kicks == c.mode = "PARENT" /\ StateOf(c, m) = "CHILD"
           b == IF kicks THEN PushInput(c, "DEATH", m) ELSE c
           d == SetState(b, m, "CANCEL_IN_PROGRESS")
<1>1. Sound(n, b, G)
  BY PushKeeps DEF MessageOps
<1>2. Cancels(c, m) = PushInput(d, "CANCEL", m)
  BY DEF Cancels
<1> HIDE DEF b
<1>3. b \in Context
  BY <1>1 DEF Sound
<1>4. "CANCEL_IN_PROGRESS" \in FreeStates(b)
  BY <1>3, FreeStatesAre DEF Modes
<1>5. Calm(b, d)
  BY <1>3, <1>4, StateIsCalm
<1> HIDE DEF d
<1>6. Sound(n, d, G)
  BY <1>1, <1>5, CalmKeeps
<1>7. Sound(n, PushInput(d, "CANCEL", m), G)
  BY <1>6, PushKeeps DEF MessageOps
<1> QED
  BY <1>2, <1>7

LEMMA SendsAndAborts ==
    ASSUME NEW n, NEW G, NEW c, Sound(n, c, G), NEW m \in Nodes
    PROVE  Sound(n, Sends(c, m), G) /\ Sound(n, Aborts(c, m), G)
<1> DEFINE d == SetSending(c, m, TRUE)
           e == SetSending(c, m, FALSE)
<1>1. Calm(c, d) /\ Calm(c, e)
  BY FlagsAreCalm DEF Sound
<1>2. Sends(c, m) = PushInput(d, "BULK", m) /\ Aborts(c, m) = PushInput(e, "BULK_ABORT", m)
  BY DEF Sends, Aborts
<1> HIDE DEF d, e
<1>3. Sound(n, d, G) /\ Sound(n, e, G)
  BY <1>1, CalmKeeps
<1>4. Sound(n, PushInput(d, "BULK", m), G) /\ Sound(n, PushInput(e, "BULK_ABORT", m), G)
  BY <1>3, PushKeeps DEF MessageOps
<1> QED
  BY <1>2, <1>4

(* The answer to a request: the request, the only tie, becomes the parent  *)
(* or the partner who has accepted it.                                     *)
LEMMA ActOnAcceptKeeps ==
    ASSUME NEW n \in Nodes, NEW G, NEW c, Sound(n, c, G), NEW m \in Nodes, n \in G[m],
           NEW siblings \in Seq(Nodes)
    PROVE  Sound(n, ActOnAccept(c, n, m, siblings), G)
<1> DEFINE answered == Unattached(c) /\ IsThe("OUTGOING_REQUEST", c, m)
<1>1. CASE ~answered
  BY <1>1 DEF ActOnAccept
<1>2. CASE answered
  <2>1. c \in Context /\ c.mode \in {"CHILD", "P2P"} /\ Known(c, m)
    BY <1>2 DEF Sound, Unattached, IsThe
  <2>2. \A i \in Ties(c) : i = Place(c, m)
    <3>1. Has(c, "OUTGOING_REQUEST") /\ Place(c, m) = FirstIn(c, "OUTGOING_REQUEST")
      BY <1>2 DEF IsThe, Known, Has
    <3>2. Place(c, m) \in PlacesOf(c, {"OUTGOING_REQUEST"})
      BY <2>1, <3>1, FirstIs
    <3>3. Place(c, m) \in Ties(c)
      BY <2>1, <3>2 DEF Ties, TieStates, PlacesOf
    <3> QED
      BY <2>1, <3>3 DEF Sound, Within
  <2>3. ASSUME NEW state \in {"PARENT", "P2P"}, state \in ModeStates[c.mode]
        PROVE  Sound(n, SetState(c, m, state), G)
    <3>1. InvitedAt(n, [mac |-> m, state |-> state], G)
      BY <2>3 DEF InvitedAt
    <3> QED
      BY <2>1, <2>2, <2>3, <3>1, OnlyTie
  <2>4. ASSUME NEW j, Sound(n, j, G)
        PROVE  Sound(n, Spawn(Spawn(j, "ESTABLISHED", m), "ACCEPT", m), G)
    <3> DEFINE e == Spawn(j, "ESTABLISHED", m)
    <3>1. Calm(j, e)
      BY <2>4, SpawnIsCalm DEF Sound, EventNames
    <3> HIDE DEF e
    <3>2. Sound(n, e, G)
      BY <2>4, <3>1, CalmKeeps
    <3>3. Calm(e, Spawn(e, "ACCEPT", m))
      BY <3>2, SpawnIsCalm DEF Sound, EventNames
    <3>4. Sound(n, Spawn(e, "ACCEPT", m), G)
      BY <3>2, <3>3, CalmKeeps
    <3> QED
      BY <3>4 DEF e
  <2>5. CASE c.mode = "CHILD"
    <3> DEFINE a == SetState(c, m, "PARENT")
               b == CleanPeerList(a)
               d == AddSiblings(b, siblings)
               e == AddSelf(d, n)
    <3>1. Sound(n, a, G)
      BY <2>3, <2>5 DEF ModeStates
    <3>2. a \in Context /\ a.mode = "CHILD"
      BY <2>1, <2>5, StateWritten DEF SameButList, PeerStates
    <3>3. ActOnAccept(c, n, m, siblings) = Spawn(Spawn(e, "ESTABLISHED", m), "ACCEPT", m)
      BY <1>2, <2>5 DEF ActOnAccept
    <3> HIDE DEF a
    <3>4. Calm(a, b)
      BY <3>2, CleanIsCalm
    <3>5. b \in Context /\ b.mode = "CHILD" /\ Sound(n, b, G)
      BY <3>1, <3>2, <3>4, CalmKeeps DEF Calm, SameButList
    <3> HIDE DEF b
    <3>6. Calm(b, d)
      BY <3>5, AddSiblingsIsCalm
    <3>7. d \in Context /\ d.mode = "CHILD" /\ Sound(n, d, G)
      BY <3>5, <3>6, CalmKeeps DEF Calm, SameButList
    <3> HIDE DEF d
    <3>8. Calm(d, e)
      BY <3>7, AddSelfIsCalm
    <3>9. Sound(n, e, G)
      BY <3>7, <3>8, CalmKeeps
    <3> HIDE DEF e
    <3> QED
      BY <2>4, <3>3, <3>9
  <2>6. CASE c.mode = "P2P"
    <3> DEFINE a == SetState(c, m, "P2P")
               b == CleanPeerList(a)
               d == SetJoining(b, m, TRUE)
    <3>1. Sound(n, a, G)
      BY <2>3, <2>6 DEF ModeStates
    <3>2. ActOnAccept(c, n, m, siblings) = Spawn(Spawn(d, "ESTABLISHED", m), "ACCEPT", m)
      BY <1>2, <2>6 DEF ActOnAccept
    <3> HIDE DEF a
    <3>3. Calm(a, b)
      BY <3>1, CleanIsCalm DEF Sound
    <3>4. Sound(n, b, G) /\ b \in Context
      BY <3>1, <3>3, CalmKeeps, CalmTypes
    <3> HIDE DEF b
    <3>5. Calm(b, d)
      BY <3>4, FlagsAreCalm
    <3>6. Sound(n, d, G)
      BY <3>4, <3>5, CalmKeeps
    <3> HIDE DEF d
    <3> QED
      BY <2>4, <3>2, <3>6
  <2> QED
    BY <2>1, <2>5, <2>6
<1> QED
  BY <1>1, <1>2

-----------------------------------------------------------------------------
(* The datagrams: an ACCEPT comes from somebody who has accepted.          *)
Mailed(n, box, G) ==
    /\ box \in Seq(PacketRecord)
    /\ \A i \in DOMAIN box : box[i].op = "ACCEPT" => n \in G[box[i].from]

(* What any received packet does.                                          *)
LEMMA ActOnKeeps ==
    ASSUME NEW n \in Nodes, NEW G, NEW c, Sound(n, c, G), NEW p \in PacketRecord,
           p.op = "ACCEPT" => n \in G[p.from]
    PROVE  Sound(n, ActOn(c, n, p).ctx, G) /\ Fine(n, ActOn(c, n, p).out, G[n])
<1> DEFINE r == ActOn(c, n, p)
<1> SUFFICES Sound(n, r.ctx, G) /\ Fine(n, r.out, G[n])
  OBVIOUS
<1>1. /\ c \in Context /\ p.from \in Nodes /\ p.mac \in Nodes /\ p.siblings \in Seq(Nodes)
      /\ p.op \in {"HELLO", "JOIN", "ACCEPT", "CANCEL", "BULK", "BIRTH", "DEATH", "BYE"}
  BY DEF Sound, PacketRecord
<1>2. ASSUME NEW d, Sound(n, d, G), r = Result(d, <<>>)
      PROVE  Sound(n, r.ctx, G) /\ Fine(n, r.out, G[n])
  BY <1>2, ResultIs, FineNone
<1>3. ASSUME NEW d, Calm(c, d), r = Result(d, <<>>)
      PROVE  Sound(n, r.ctx, G) /\ Fine(n, r.out, G[n])
  <2>1. Sound(n, d, G)
    BY <1>3, CalmKeeps
  <2> HIDE DEF r
  <2> QED
    BY <1>2, <1>3, <2>1
<1>4. CASE p.op = "HELLO"
  <2>1. r = Result(ActOnHello(c, p.from), <<>>)
    BY <1>4 DEF ActOn
  <2> HIDE DEF r
  <2> QED
    BY <1>1, <1>3, <2>1, ActOnHelloIsCalm
<1>5. CASE p.op = "JOIN"
  <2>1. r = ActOnJoin(c, n, p.from)
    BY <1>5 DEF ActOn
  <2>2. Sent(c, n, ActOnJoin(c, n, p.from), G[n])
    BY <1>1, ActOnJoinIsCalm
  <2> HIDE DEF r
  <2>3. Calm(c, r.ctx) /\ Fine(n, r.out, G[n])
    BY <2>1, <2>2 DEF Sent
  <2> QED
    BY <2>3, CalmKeeps
<1>6. CASE p.op = "ACCEPT"
  <2>1. r = Result(ActOnAccept(c, n, p.from, p.siblings), <<>>)
    BY <1>6 DEF ActOn
  <2> HIDE DEF r
  <2> QED
    BY <1>1, <1>2, <1>6, <2>1, ActOnAcceptKeeps
<1>7. CASE p.op = "CANCEL"
  <2>1. r = Result(ActOnCancel(c, n, p.from), <<>>)
    BY <1>7 DEF ActOn
  <2> HIDE DEF r
  <2> QED
    BY <1>1, <1>3, <2>1, ActOnCancelIsCalm
<1>8. CASE p.op = "BULK"
  <2>1. r = Result(ActOnBulk(c, p.from), <<>>)
    BY <1>8 DEF ActOn
  <2> HIDE DEF r
  <2> QED
    BY <1>1, <1>3, <2>1, ActOnBulkIsCalm
<1>9. CASE p.op = "BIRTH"
  <2>1. r = Result(ActOnBirth(c, p.from, p.mac), <<>>)
    BY <1>9 DEF ActOn
  <2> HIDE DEF r
  <2> QED
    BY <1>1, <1>3, <2>1, ActOnBirthIsCalm
<1>10. CASE p.op = "DEATH"
  <2>1. r = Result(ActOnDeath(c, p.from, p.mac), <<>>)
    BY <1>10 DEF ActOn
  <2> HIDE DEF r
  <2> QED
    BY <1>1, <1>3, <2>1, ActOnDeathIsCalm
<1>11. CASE p.op = "BYE"
  <2>1. r = Result(ActOnBye(c, n, p.from), <<>>)
    BY <1>11 DEF ActOn
  <2> HIDE DEF r
  <2> QED
    BY <1>1, <1>3, <2>1, ActOnByeIsCalm
<1> HIDE DEF r
<1> QED
  BY <1>1, <1>4, <1>5, <1>6, <1>7, <1>8, <1>9, <1>10, <1>11

LEMMA MailedBoth ==
    ASSUME NEW n, NEW G, NEW s, NEW t, Mailed(n, s, G), Mailed(n, t, G)
    PROVE  Mailed(n, s \o t, G)
<1>1. s \in Seq(PacketRecord) /\ t \in Seq(PacketRecord)
  BY DEF Mailed
<1>2. /\ s \o t \in Seq(PacketRecord) /\ Len(s \o t) = Len(s) + Len(t)
      /\ \A i \in 1..(Len(s) + Len(t)) : (s \o t)[i] = IF i <= Len(s) THEN s[i] ELSE t[i - Len(s)]
  BY <1>1, ConcatProperties
<1> DEFINE u == s \o t
<1> HIDE DEF u
<1>3. /\ u \in Seq(PacketRecord) /\ DOMAIN u = 1..(Len(s) + Len(t))
      /\ Len(s) \in Nat /\ Len(t) \in Nat /\ DOMAIN s = 1..Len(s) /\ DOMAIN t = 1..Len(t)
  BY <1>1, <1>2 DEF u
<1>4. ASSUME NEW i \in 1..(Len(s) + Len(t))
      PROVE  \/ i \in DOMAIN s /\ u[i] = s[i]
             \/ i - Len(s) \in DOMAIN t /\ u[i] = t[i - Len(s)]
  <2>1. u[i] = IF i <= Len(s) THEN s[i] ELSE t[i - Len(s)]
    BY <1>2 DEF u
  <2> QED
    BY <1>3, <2>1
<1>5. Mailed(n, u, G)
  BY <1>3, <1>4 DEF Mailed
<1> QED
  BY <1>5 DEF u

LEMMA MailedLess ==
    ASSUME NEW n, NEW G, NEW s, Mailed(n, s, G), NEW k \in DOMAIN s
    PROVE  Mailed(n, RemoveAt(s, k), G)
<1> DEFINE t == RemoveAt(s, k)
<1>1. s \in Seq(PacketRecord)
  BY DEF Mailed
<1>2. /\ t \in Seq(PacketRecord) /\ DOMAIN t = 1..(Len(s) - 1)
      /\ \A i \in 1..(Len(s) - 1) : t[i] = s[IF i < k THEN i ELSE i + 1]
  BY <1>1, RemoveAtFacts
<1>3. \A i \in 1..(Len(s) - 1) : (IF i < k THEN i ELSE i + 1) \in DOMAIN s
  BY <1>1
<1> HIDE DEF t
<1>4. Mailed(n, t, G)
  BY <1>2, <1>3 DEF Mailed
<1> QED
  BY <1>4 DEF t

(* Posting what is fine.                                                   *)
LEMMA PostedKeeps ==
    ASSUME NEW G, NEW self \in Nodes, NEW boxes, NEW out, Fine(self, out, G[self]),
           \A n \in Nodes : Mailed(n, boxes[n], G)
    PROVE  \A n \in Nodes : Mailed(n, Posted(boxes, out)[n], G)
<1> SUFFICES ASSUME NEW n \in Nodes PROVE Mailed(n, Posted(boxes, out)[n], G)
  OBVIOUS
<1> DEFINE I == {i \in DOMAIN out : out[i].to = n}
           mine == Picked(out, I)
<1>1. out \in Seq(PacketRecord) /\ I \in SUBSET DOMAIN out
  BY DEF Fine
<1>2. /\ mine \in Seq(PacketRecord) /\ DOMAIN mine = 1..Cardinality(I)
      /\ \A k \in 1..Cardinality(I) : Nth(I, k) \in I /\ mine[k] = out[Nth(I, k)]
  BY <1>1, PickedFacts
<1> HIDE DEF mine
<1>3. \A i \in I : out[i].op = "ACCEPT" => n \in G[out[i].from]
  BY DEF Fine
<1> HIDE DEF I
<1>4. Mailed(n, mine, G)
  BY <1>2, <1>3 DEF Mailed
<1>5. Mailed(n, boxes[n], G) /\ Mailed(n, boxes[n] \o mine, G)
  BY <1>4, MailedBoth
<1>6. Posted(boxes, out)[n] = IF ctx[n].phase = "none" THEN boxes[n] ELSE boxes[n] \o mine
  BY DEF Posted, mine, I
<1> QED
  BY <1>5, <1>6

-----------------------------------------------------------------------------
(* The inductive invariant.                                                *)
Contexts(f, G) == f \in [Nodes -> Context] /\ \A n \in Nodes : Sound(n, f[n], G)
Mail(boxes, G) ==
    boxes \in [Nodes -> Seq(PacketRecord)] /\ \A n \in Nodes : Mailed(n, boxes[n], G)

IInv ==
    /\ scenario \in Scenarios
    /\ granted \in [Nodes -> SUBSET Nodes]
    /\ Contexts(ctx, granted)
    /\ Mail(inbox, granted)

LEMMA NoContextIsSound ==
    ASSUME NEW n, NEW G, NEW mode \in Modes, NEW maxpeers \in 2..16
    PROVE  NoContext(mode, maxpeers) \in Context /\ Sound(n, NoContext(mode, maxpeers), G)
<1> DEFINE c == NoContext(mode, maxpeers)
<1>1. <<>> \in Seq(PeerRecord) /\ <<>> \in Seq([event : EventNames, mac : Nodes])
      /\ <<>> \in Seq([op : MessageOps, mac : Nodes])
  OBVIOUS
<1>2. c \in Context /\ c.peers = <<>> /\ c.input = <<>>
  BY <1>1 DEF NoContext, Context
<1> HIDE DEF c
<1>3. Sound(n, c, G)
  BY <1>2, AloneIsSound
<1> QED
  BY <1>2, <1>3 DEF c

LEMMA InitIsSound == ASSUME Init PROVE IInv
<1>1. scenario \in Scenarios /\ scenario.maxpeers \in 2..16
      /\ scenario.modes \in UNION {[players -> Modes] : players \in SUBSET Nodes}
  BY ScenarioAssumption DEF Init
<1>2. \A n \in Players : scenario.modes[n] \in Modes
  BY <1>1 DEF Players
<1> DEFINE mode(n) == IF n \in Players THEN scenario.modes[n] ELSE "CHILD"
           G == [n \in Nodes |-> {}]
<1>3. \A n \in Nodes : mode(n) \in Modes
  BY <1>2 DEF Modes
<1>4. ctx = [n \in Nodes |-> NoContext(mode(n), scenario.maxpeers)] /\ granted = G
      /\ inbox = [n \in Nodes |-> <<>>]
  BY DEF Init
<1> HIDE DEF mode
<1>5. \A n \in Nodes : /\ NoContext(mode(n), scenario.maxpeers) \in Context
                       /\ Sound(n, NoContext(mode(n), scenario.maxpeers), granted)
  BY <1>1, <1>3, NoContextIsSound
<1>6. Contexts(ctx, granted)
  BY <1>4, <1>5 DEF Contexts
<1>7. <<>> \in Seq(PacketRecord) /\ DOMAIN <<>> = {}
  OBVIOUS
<1>8. Mail(inbox, granted)
  BY <1>4, <1>7 DEF Mail, Mailed
<1> QED
  BY <1>1, <1>4, <1>6, <1>8 DEF IInv

LEMMA OneContext ==
    ASSUME NEW f, NEW G, Contexts(f, G), NEW n \in Nodes, NEW d, Sound(n, d, G)
    PROVE  Contexts([f EXCEPT ![n] = d], G)
BY DEF Contexts, Sound

LEMMA OneBox ==
    ASSUME NEW b, NEW G, Mail(b, G), NEW n \in Nodes, NEW s, Mailed(n, s, G)
    PROVE  Mail([b EXCEPT ![n] = s], G)
BY DEF Mail, Mailed

LEMMA MailPosted ==
    ASSUME NEW b, NEW G, Mail(b, G), NEW self \in Nodes, NEW out, Fine(self, out, G[self])
    PROVE  Mail(Posted(b, out), G)
<1>1. \A n \in Nodes : Mailed(n, Posted(b, out)[n], G)
  BY PostedKeeps DEF Mail
<1>2. Posted(b, out) = [n \in Nodes |-> Posted(b, out)[n]]
  BY DEF Posted
<1> DEFINE boxes == Posted(b, out)
<1> HIDE DEF boxes
<1>3. boxes = [n \in Nodes |-> boxes[n]] /\ \A n \in Nodes : Mailed(n, boxes[n], G)
  BY <1>1, <1>2 DEF boxes
<1>4. \A n \in Nodes : boxes[n] \in Seq(PacketRecord)
  BY <1>3 DEF Mailed
<1>5. boxes \in [Nodes -> Seq(PacketRecord)]
  BY <1>3, <1>4
<1> QED
  BY <1>3, <1>5 DEF Mail, boxes

(* A step that changes one context, and sends.                             *)
LEMMA StepOf ==
    ASSUME IInv, NEW n \in Nodes, NEW d, Sound(n, d, granted), ctx' = [ctx EXCEPT ![n] = d],
           UNCHANGED <<scenario, granted>>, Mail(inbox', granted)
    PROVE  IInv'
<1>1. Contexts(ctx', granted)
  BY OneContext DEF IInv
<1>2. Contexts(ctx', granted') /\ Mail(inbox', granted')
  BY <1>1
<1> QED
  BY <1>2 DEF IInv, Contexts, Mail

LEMMA LifeKeeps ==
    ASSUME IInv, NEW n \in Nodes,
           Create(n) \/ Start(n) \/ Stop(n) \/ Delete(n) \/ PowerOff(n) \/ DispatchEvents(n)
    PROVE  IInv'
<1> DEFINE c == ctx[n]
<1>1. Sound(n, c, granted) /\ c \in Context /\ Mail(inbox, granted) /\ ctx \in [Nodes -> Context]
  BY DEF IInv, Contexts
<1>2. c.mode \in Modes /\ c.maxpeers \in 2..16
  BY <1>1 DEF Context
<1>3. ASSUME NEW phase \in {"none", "created", "running"}, ctx' = [ctx EXCEPT ![n].phase = phase],
             UNCHANGED <<scenario, inbox, granted>>
      PROVE  IInv'
  <2> DEFINE d == [c EXCEPT !.phase = phase]
  <2>1. ctx' = [ctx EXCEPT ![n] = d]
    BY <1>3
  <2>2. /\ d \in Context /\ d.mode = c.mode /\ d.maxpeers = c.maxpeers
        /\ d.peers = c.peers /\ d.input = c.input
    BY <1>1 DEF Context
  <2> HIDE DEF d, c
  <2>3. Answers(d, granted[n])
    BY <1>1, <2>2 DEF Sound, Answers
  <2>4. Sound(n, d, granted)
    BY <1>1, <2>2, <2>3, OtherFields
  <2> QED
    BY <1>1, <1>3, <2>1, <2>4, StepOf
<1>4. CASE Create(n)
  BY <1>3, <1>4 DEF Create
<1>5. CASE Start(n)
  BY <1>3, <1>5 DEF Start
<1>6. CASE Stop(n)
  <2> DEFINE d == [c EXCEPT !.phase = "created", !.peers = <<>>, !.events = <<>>]
             out == SendByes(c, n)
  <2>1. ctx' = [ctx EXCEPT ![n] = d] /\ inbox' = Posted(inbox, out) /\ c.input = <<>>
        /\ UNCHANGED <<scenario, granted>>
    <3>1. Becomes(n, Result(d, out)) /\ c.input = <<>> /\ UNCHANGED <<scenario, granted>>
      BY <1>6 DEF Stop
    <3> HIDE DEF d, out
    <3> QED
      BY <3>1, ResultIs DEF Becomes
  <2>2. <<>> \in Seq(PeerRecord) /\ <<>> \in Seq([event : EventNames, mac : Nodes])
    OBVIOUS
  <2>3. d \in Context /\ d.peers = <<>> /\ d.input = <<>>
    BY <1>1, <2>1, <2>2 DEF Context
  <2>4. Fine(n, out, granted[n])
    BY <1>1, SendByesIsFine
  <2> HIDE DEF d, out
  <2>5. Sound(n, d, granted)
    BY <2>3, AloneIsSound
  <2>6. Mail(inbox', granted)
    BY <1>1, <2>1, <2>4, MailPosted
  <2> QED
    BY <2>1, <2>5, <2>6, StepOf
<1>7. CASE Delete(n) \/ PowerOff(n)
  <2> DEFINE d == NoContext(c.mode, c.maxpeers)
  <2>1. ctx' = [ctx EXCEPT ![n] = d] /\ inbox' = [inbox EXCEPT ![n] = <<>>]
        /\ UNCHANGED <<scenario, granted>>
    BY <1>7 DEF Delete, PowerOff
  <2>2. Sound(n, d, granted)
    BY <1>2, NoContextIsSound
  <2> HIDE DEF d
  <2>3. Mailed(n, <<>>, granted)
    <3>1. <<>> \in Seq(PacketRecord) /\ DOMAIN <<>> = {}
      OBVIOUS
    <3> QED
      BY <3>1 DEF Mailed
  <2>4. Mail(inbox', granted)
    BY <1>1, <2>1, <2>3, OneBox
  <2> QED
    BY <2>1, <2>2, <2>4, StepOf
<1>8. CASE DispatchEvents(n)
  <2> DEFINE d == [c EXCEPT !.events = <<>>]
  <2>1. ctx' = [ctx EXCEPT ![n] = d] /\ UNCHANGED <<scenario, inbox, granted>>
    BY <1>8 DEF DispatchEvents
  <2>2. <<>> \in Seq([event : EventNames, mac : Nodes])
    OBVIOUS
  <2>3. /\ d \in Context /\ d.mode = c.mode /\ d.maxpeers = c.maxpeers
        /\ d.peers = c.peers /\ d.input = c.input
    BY <1>1, <2>2 DEF Context
  <2> HIDE DEF d, c
  <2>4. Answers(d, granted[n])
    BY <1>1, <2>3 DEF Sound, Answers
  <2>5. Sound(n, d, granted)
    BY <1>1, <2>3, <2>4, OtherFields
  <2> QED
    BY <1>1, <2>1, <2>5, StepOf
<1> QED
  BY <1>4, <1>5, <1>6, <1>7, <1>8

LEMMA CallsKeep ==
    ASSUME IInv, NEW n \in Nodes, NEW m \in Nodes,
           Accept(n, m) \/ Request(n, m) \/ CancelTarget(n, m) \/ SendData(n, m) \/ AbortSendData(n, m)
    PROVE  IInv'
<1> DEFINE c == ctx[n]
<1>1. Sound(n, c, granted) /\ Mail(inbox, granted) /\ Contexts(ctx, granted)
      /\ ctx \in [Nodes -> Context] /\ granted \in [Nodes -> SUBSET Nodes] /\ scenario \in Scenarios
  BY DEF IInv, Contexts
<1>2. CASE Accept(n, m)
  <2> DEFINE H == [granted EXCEPT ![n] = @ \cup {m}]
  <2>1. H \in [Nodes -> SUBSET Nodes] /\ m \in H[n] /\ \A k \in Nodes : granted[k] \subseteq H[k]
    BY <1>1
  <2>2. granted' = H /\ UNCHANGED <<scenario, inbox>>
    BY <1>2 DEF Accept
  <2> HIDE DEF H
  <2>3. \A k \in Nodes : Sound(k, ctx[k], H)
    BY <1>1, <2>1, GrantingKeeps DEF Contexts
  <2>4. Contexts(ctx, H) /\ Sound(n, c, H)
    BY <1>1, <2>3 DEF Contexts
  <2>5. \E d : Sound(n, d, H) /\ ctx' = [ctx EXCEPT ![n] = d]
    <3>1. CASE MayParentSelect(ctx[n], m) /\ ctx' = [ctx EXCEPT ![n] = ParentSelects(@, m)]
      <4>1. Sound(n, ParentSelects(c, m), H)
        BY <2>1, <2>4, <3>1, ParentSelectsKeeps
      <4> QED
        BY <3>1, <4>1
    <3>2. CASE MayP2PAccept(ctx[n], m) /\ ctx' = [ctx EXCEPT ![n] = P2PAccepts(@, m)]
      <4>1. Sound(n, P2PAccepts(c, m), H)
        BY <2>1, <2>4, <3>2, P2PAcceptsKeeps
      <4> QED
        BY <3>2, <4>1
    <3> QED
      BY <1>2, <3>1, <3>2 DEF Accept
  <2>6. Contexts(ctx', H)
    <3>1. PICK d : Sound(n, d, H) /\ ctx' = [ctx EXCEPT ![n] = d]
      BY <2>5
    <3>2. Contexts([ctx EXCEPT ![n] = d], H)
      BY <2>4, <3>1, OneContext
    <3> QED
      BY <3>1, <3>2
  <2>7. Mail(inbox, H)
    <3> SUFFICES ASSUME NEW k \in Nodes PROVE Mailed(k, inbox[k], H)
      BY <1>1 DEF Mail
    <3>1. Mailed(k, inbox[k], granted)
      BY <1>1 DEF Mail
    <3>2. \A i \in DOMAIN inbox[k] : inbox[k][i].from \in Nodes
      <4> DEFINE box == inbox[k]
      <4>1. box \in Seq(PacketRecord)
        BY <3>1 DEF Mailed
      <4> HIDE DEF box
      <4>2. \A i \in DOMAIN box : box[i] \in PacketRecord
        BY <4>1
      <4>3. \A i \in DOMAIN box : box[i].from \in Nodes
        BY <4>2 DEF PacketRecord
      <4> QED
        BY <4>3 DEF box
    <3> QED
      BY <2>1, <3>1, <3>2 DEF Mailed
  <2>8. Contexts(ctx', granted') /\ Mail(inbox', granted') /\ granted' \in [Nodes -> SUBSET Nodes]
    BY <2>1, <2>2, <2>6, <2>7
  <2> QED
    BY <1>1, <2>2, <2>8 DEF IInv, Contexts, Mail
<1>3. ASSUME NEW d, Sound(n, d, granted), ctx' = [ctx EXCEPT ![n] = d], UNCHANGED <<scenario, inbox, granted>>
      PROVE  IInv'
  BY <1>1, <1>3, StepOf
<1>4. CASE Request(n, m)
  <2>1. ctx' = [ctx EXCEPT ![n] = Requests(c, m)] /\ MayRequest(c, m) /\ UNCHANGED <<scenario, inbox, granted>>
    BY <1>4 DEF Request
  <2>2. Sound(n, Requests(c, m), granted)
    BY <1>1, <2>1, RequestsKeeps
  <2> QED
    BY <1>3, <2>1, <2>2
<1>5. CASE CancelTarget(n, m)
  <2>1. ctx' = [ctx EXCEPT ![n] = Cancels(c, m)] /\ UNCHANGED <<scenario, inbox, granted>>
    BY <1>5 DEF CancelTarget
  <2>2. Sound(n, Cancels(c, m), granted)
    BY <1>1, CancelsKeeps
  <2> QED
    BY <1>3, <2>1, <2>2
<1>6. CASE SendData(n, m)
  <2>1. ctx' = [ctx EXCEPT ![n] = Sends(c, m)] /\ UNCHANGED <<scenario, inbox, granted>>
    BY <1>6 DEF SendData
  <2>2. Sound(n, Sends(c, m), granted)
    BY <1>1, SendsAndAborts
  <2> QED
    BY <1>3, <2>1, <2>2
<1>7. CASE AbortSendData(n, m)
  <2>1. ctx' = [ctx EXCEPT ![n] = Aborts(c, m)] /\ UNCHANGED <<scenario, inbox, granted>>
    BY <1>7 DEF AbortSendData
  <2>2. Sound(n, Aborts(c, m), granted)
    BY <1>1, SendsAndAborts
  <2> QED
    BY <1>3, <2>1, <2>2
<1> QED
  BY <1>2, <1>4, <1>5, <1>6, <1>7

(* A step of a thread that sends.                                          *)
LEMMA BecomesKeeps ==
    ASSUME IInv, NEW n \in Nodes, NEW r, Sound(n, r.ctx, granted), Fine(n, r.out, granted[n]),
           Becomes(n, r), UNCHANGED <<scenario, granted>>
    PROVE  IInv'
<1>1. ctx' = [ctx EXCEPT ![n] = r.ctx] /\ inbox' = Posted(inbox, r.out)
  BY DEF Becomes
<1>2. Mail(inbox', granted)
  BY <1>1, MailPosted DEF IInv
<1> QED
  BY <1>1, <1>2, StepOf

LEMMA ThreadsKeep ==
    ASSUME IInv, NEW n \in Nodes, InputThread(n) \/ Lose(n)
    PROVE  IInv'
<1> DEFINE c == ctx[n]
           box == inbox[n]
<1>1. /\ Sound(n, c, granted) /\ c \in Context /\ Mail(inbox, granted) /\ Contexts(ctx, granted)
      /\ granted \in [Nodes -> SUBSET Nodes] /\ scenario \in Scenarios
      /\ Mailed(n, box, granted) /\ box \in Seq(PacketRecord)
  BY DEF IInv, Contexts, Mail, Mailed
<1>2. CASE BroadcastHello(n)
  <2>1. PICK reached \in SUBSET Nodes :
           inbox' = [m \in Nodes |-> IF m \in reached THEN Append(inbox[m], Packet(n, m, "HELLO"))
                                                      ELSE inbox[m]]
    BY <1>2 DEF BroadcastHello
  <2>2. UNCHANGED <<scenario, ctx, granted>>
    BY <1>2 DEF BroadcastHello
  <2>3. ASSUME NEW m \in Nodes
        PROVE  Mailed(m, Append(inbox[m], Packet(n, m, "HELLO")), granted) /\ Mailed(m, inbox[m], granted)
    <3> DEFINE p == Packet(n, m, "HELLO")
               s == inbox[m]
               t == Append(s, p)
    <3>1. Mailed(m, s, granted) /\ s \in Seq(PacketRecord)
      BY <1>1 DEF Mail, Mailed
    <3>2. p \in PacketRecord /\ p.op # "ACCEPT"
      <4>1. <<>> \in Seq(Nodes) /\ "HELLO" \in Kinds
        BY DEF Kinds
      <4>2. PacketOf(n, m, "HELLO", m)
        BY <4>1, PacketIs
      <4> QED
        BY <4>2 DEF PacketOf
    <3> HIDE DEF p, s
    <3>3. /\ t \in Seq(PacketRecord) /\ DOMAIN t = 1..(Len(s) + 1) /\ DOMAIN s = 1..Len(s)
          /\ Len(s) \in Nat /\ t[Len(s) + 1] = p /\ \A i \in 1..Len(s) : t[i] = s[i]
      BY <3>1, <3>2
    <3> HIDE DEF t
    <3>4. \A i \in DOMAIN t : i \in DOMAIN s \/ i = Len(s) + 1
      BY <3>3
    <3>5. Mailed(m, t, granted)
      BY <3>1, <3>2, <3>3, <3>4 DEF Mailed
    <3> QED
      BY <3>1, <3>5 DEF t, s, p
  <2> DEFINE b == [m \in Nodes |-> IF m \in reached THEN Append(inbox[m], Packet(n, m, "HELLO"))
                                                    ELSE inbox[m]]
  <2>4. \A m \in Nodes : Mailed(m, b[m], granted)
    BY <2>3
  <2>5. b \in [Nodes -> Seq(PacketRecord)]
    BY <2>3 DEF Mailed
  <2>6. Mail(inbox', granted)
    BY <2>1, <2>4, <2>5 DEF Mail
  <2> QED
    BY <1>1, <2>2, <2>6 DEF IInv, Contexts, Mail
<1>3. CASE Drain(n)
  <2> DEFINE r == DrainInput(c, n)
             d == [c EXCEPT !.input = <<>>]
  <2>1. Becomes(n, r) /\ UNCHANGED <<scenario, granted>>
    BY <1>3 DEF Drain
  <2>2. Answers(c, granted[n])
    BY <1>1 DEF Sound
  <2>3. Sent(d, n, r, granted[n])
    BY <1>1, <2>2, DrainIsCalm
  <2>4. Sound(n, d, granted)
    <3>1. <<>> \in Seq([op : MessageOps, mac : Nodes]) /\ DOMAIN <<>> = {}
      OBVIOUS
    <3>2. /\ d \in Context /\ d.mode = c.mode /\ d.maxpeers = c.maxpeers
          /\ d.peers = c.peers /\ d.input = <<>>
      BY <1>1, <3>1 DEF Context
    <3> HIDE DEF d
    <3>3. Answers(d, granted[n])
      BY <3>1, <3>2 DEF Answers
    <3> QED
      BY <1>1, <3>2, <3>3, OtherFields
  <2> HIDE DEF d, r
  <2>5. Sound(n, r.ctx, granted) /\ Fine(n, r.out, granted[n])
    BY <2>3, <2>4, CalmKeeps DEF Sent
  <2> QED
    BY <2>1, <2>5, BecomesKeeps
<1>4. CASE Receive(n)
  <2>1. PICK i \in DOMAIN box :
           /\ ctx' = [ctx EXCEPT ![n] = ActOn(c, n, box[i]).ctx]
           /\ inbox' = Posted([inbox EXCEPT ![n] = RemoveAt(@, i)], ActOn(c, n, box[i]).out)
    BY <1>4 DEF Receive
  <2>2. UNCHANGED <<scenario, granted>>
    BY <1>4 DEF Receive
  <2> DEFINE p == box[i]
             r == ActOn(c, n, p)
             b == [inbox EXCEPT ![n] = RemoveAt(box, i)]
  <2>3. p \in PacketRecord /\ (p.op = "ACCEPT" => n \in granted[p.from])
    <3> HIDE DEF box
    <3> QED
      BY <1>1 DEF Mailed
  <2>4. inbox' = Posted(b, r.out) /\ ctx' = [ctx EXCEPT ![n] = r.ctx]
    BY <2>1
  <2> HIDE DEF p
  <2>5. Sound(n, r.ctx, granted) /\ Fine(n, r.out, granted[n])
    BY <1>1, <2>3, ActOnKeeps
  <2>6. Mailed(n, RemoveAt(box, i), granted)
    BY <1>1, MailedLess
  <2>7. Mail(b, granted)
    BY <1>1, <2>6, OneBox
  <2> HIDE DEF b, r
  <2>8. Mail(inbox', granted)
    BY <2>4, <2>5, <2>7, MailPosted
  <2> QED
    BY <2>2, <2>4, <2>5, <2>8, StepOf
<1>5. CASE MissingOnAdhocctl(n)
  <2>1. PICK m \in Nodes : ctx' = [ctx EXCEPT ![n] = ActOnBye(c, n, m)]
    BY <1>5 DEF MissingOnAdhocctl
  <2>2. UNCHANGED <<scenario, inbox, granted>>
    BY <1>5 DEF MissingOnAdhocctl
  <2>3. Calm(c, ActOnBye(c, n, m))
    BY <1>1, ActOnByeIsCalm
  <2>4. Sound(n, ActOnBye(c, n, m), granted)
    BY <1>1, <2>3, CalmKeeps
  <2>5. Mail(inbox', granted)
    BY <1>1, <2>2
  <2> QED
    BY <2>1, <2>2, <2>4, <2>5, StepOf
<1>6. ASSUME NEW m \in Nodes, HandleTimeout(n, m)
      PROVE  IInv'
  <2> DEFINE r == TimeOut(c, n, m)
  <2>1. Becomes(n, r) /\ UNCHANGED <<scenario, granted>>
    BY <1>6 DEF HandleTimeout
  <2>2. Sent(c, n, r, granted[n])
    BY <1>1, TimeOutIsCalm
  <2> HIDE DEF r
  <2>3. Sound(n, r.ctx, granted) /\ Fine(n, r.out, granted[n])
    BY <1>1, <2>2, CalmKeeps DEF Sent
  <2> QED
    BY <2>1, <2>3, BecomesKeeps
<1>7. CASE Lose(n)
  <2>1. PICK i \in DOMAIN box : inbox' = [inbox EXCEPT ![n] = RemoveAt(box, i)]
    BY <1>7 DEF Lose
  <2>2. UNCHANGED <<scenario, ctx, granted>>
    BY <1>7 DEF Lose
  <2>3. Mailed(n, RemoveAt(box, i), granted)
    BY <1>1, MailedLess
  <2>4. Mail(inbox', granted)
    BY <1>1, <2>1, <2>3, OneBox
  <2> QED
    BY <1>1, <2>2, <2>4 DEF IInv, Contexts, Mail
<1> QED
  BY <1>2, <1>3, <1>4, <1>5, <1>6, <1>7 DEF InputThread

LEMMA NextIsSound == ASSUME IInv, [Next]_vars PROVE IInv'
<1>1. CASE UNCHANGED vars
  BY <1>1 DEF vars, IInv, Contexts, Mail
<1>2. ASSUME NEW n \in Nodes, GameStep(n) \/ InputThread(n) \/ DispatchEvents(n) \/ Lose(n)
      PROVE  IInv'
  BY <1>2, LifeKeeps, CallsKeep, ThreadsKeep DEF GameStep
<1> QED
  BY <1>1, <1>2 DEF Next

(* The invariant holds in every state of every play.                       *)
THEOREM MatchingInvariant == Spec => []IInv
BY InitIsSound, NextIsSound, PTL DEF Spec

-----------------------------------------------------------------------------
LEMMA FullRooms == IInv => RoomCapacity
<1> SUFFICES ASSUME IInv, NEW n \in Nodes, ctx[n].mode = "PARENT"
             PROVE  Cardinality(StatesIn(n, {"CHILD"})) <= ctx[n].maxpeers - 1
  BY DEF RoomCapacity
<1>1. Within(ctx[n])
  BY DEF IInv, Contexts, Sound
<1> QED
  BY <1>1 DEF Within, Ties, TieStates, StatesIn

LEMMA SinglePartners == IInv => OnePartner
<1> SUFFICES ASSUME IInv, NEW n \in Nodes, ctx[n].mode # "PARENT"
             PROVE  Cardinality(StatesIn(n, {"PARENT", "P2P", "OUTGOING_REQUEST"})) <= 1
  BY DEF OnePartner
<1> DEFINE T == Ties(ctx[n])
<1>1. Within(ctx[n])
  BY DEF IInv, Contexts, Sound
<1>2. \A i, j \in T : i = j
  BY <1>1 DEF Within
<1>3. StatesIn(n, {"PARENT", "P2P", "OUTGOING_REQUEST"}) = T
  BY DEF Ties, TieStates, StatesIn
<1> HIDE DEF T
<1>4. CASE T = {}
  BY <1>3, <1>4, FS_EmptySet
<1>5. CASE T # {}
  <2>1. PICK i \in T : TRUE
    BY <1>5
  <2>2. T = {i}
    BY <1>2, <2>1
  <2>3. Cardinality({i}) = 1
    BY FS_Singleton
  <2> QED
    BY <1>3, <2>2, <2>3
<1> QED
  BY <1>4, <1>5

LEMMA InvitedOnly == IInv => NoneUninvited
<1> SUFFICES ASSUME IInv, NEW n \in Nodes, NEW state \in {"PARENT", "P2P"},
                    NEW i \in DOMAIN ctx[n].peers, ctx[n].peers[i].state = state
             PROVE  InvitedAt(n, ctx[n].peers[i], granted)
  BY DEF NoneUninvited, MacsIn, StatesIn, PlacesOf, InvitedAt
<1> DEFINE c == ctx[n]
<1>1. Sound(n, c, granted)
  BY DEF IInv, Contexts
<1> HIDE DEF c
<1>2. c.mode # "PARENT"
  BY <1>1 DEF Sound, Fits, ModeStates, c
<1>3. i \in Ties(c)
  BY <1>2 DEF Ties, TieStates, PlacesOf, c
<1> QED
  BY <1>1, <1>3 DEF Sound, Invited, c

(* No room has more members than its host allows, however the requests,    *)
(* the host's answers, the departures and the losses interleave, for any   *)
(* number of players and any size of the room (sceNetAdhocMatching-        *)
(* SelectTarget counts the children at each accept).                       *)
THEOREM RoomsAreNotOverfull == Spec => []RoomCapacity
BY MatchingInvariant, FullRooms, PTL

(* A child has never more than one parent or request pending, a P2P player *)
(* never more than one partner or request pending: two players whose       *)
(* requests cross, and one who has two rooms to choose from, included.     *)
THEOREM EveryoneHasOnePartner == Spec => []OnePartner
BY MatchingInvariant, SinglePartners, PTL

(* Whoever a player is connected with has accepted him, or he that one: an *)
(* ACCEPT that arrives late, after a cancel, a restart or a new request,   *)
(* was still sent by somebody who had accepted this very player.           *)
THEOREM NobodyComesUninvited == Spec => []NoneUninvited
BY MatchingInvariant, InvitedOnly, PTL

-----------------------------------------------------------------------------
(* What a list says about a player, "NONE" if it does not know him.        *)
St(c, m) == IF Known(c, m) THEN StateOf(c, m) ELSE "NONE"

(* The list does not contradict itself.  Only a child links a member twice,*)
(* a sibling who is born more than once.                                   *)
Shape(c) ==
    /\ \A i \in DOMAIN c.peers : c.peers[i].state = St(c, c.peers[i].mac)
    /\ \A i, j \in DOMAIN c.peers : c.peers[i].mac = c.peers[j].mac =>
          i = j \/ (c.mode = "CHILD" /\ c.peers[i].state = "CHILD")

LEMMA StIs ==
    ASSUME NEW c \in Context, NEW m
    PROVE  /\ Known(c, m) <=> St(c, m) # "NONE"
           /\ St(c, m) # "NONE" => /\ StateOf(c, m) = St(c, m) /\ Place(c, m) \in DOMAIN c.peers
                                   /\ c.peers[Place(c, m)].mac = m
                                   /\ c.peers[Place(c, m)].state = St(c, m)
                                   /\ St(c, m) \in PeerStates /\ m \in Nodes
           /\ St(c, m) = "NONE" => \A i \in DOMAIN c.peers : c.peers[i].mac # m
<1> DEFINE k == Place(c, m)
<1>1. /\ Known(c, m) => k \in DOMAIN c.peers /\ c.peers[k].mac = m
      /\ ~Known(c, m) => \A i \in DOMAIN c.peers : c.peers[i].mac # m
      /\ c.peers \in Seq(PeerRecord)
  BY PlaceIs
<1> HIDE DEF k
<1>2. Known(c, m) => c.peers[k] \in PeerRecord
  BY <1>1
<1>3. Known(c, m) => c.peers[k].state \in PeerStates /\ c.peers[k].mac \in Nodes
  BY <1>2 DEF PeerRecord
<1>4. "NONE" \notin PeerStates
  BY DEF PeerStates
<1>5. StateOf(c, m) = c.peers[k].state
  BY DEF StateOf, k
<1> QED
  BY <1>1, <1>3, <1>4, <1>5 DEF St, k

(* A list with these members, in these states.                             *)
LEMMA Listed ==
    ASSUME NEW d \in Context, NEW s,
           \A i \in DOMAIN d.peers : d.peers[i].state = s[d.peers[i].mac],
           \A m \in Nodes : s[m] = "NONE" \/ \E i \in DOMAIN d.peers : d.peers[i].mac = m,
           \A i, j \in DOMAIN d.peers : d.peers[i].mac = d.peers[j].mac =>
              i = j \/ (d.mode = "CHILD" /\ d.peers[i].state = "CHILD")
    PROVE  Shape(d) /\ \A m \in Nodes : St(d, m) = s[m]
<1>1. ASSUME NEW m \in Nodes
      PROVE  St(d, m) = s[m]
  <2>1. CASE St(d, m) # "NONE"
    BY <2>1, StIs
  <2>2. CASE St(d, m) = "NONE"
    BY <2>2, StIs
  <2> QED
    BY <2>1, <2>2
<1>2. \A i \in DOMAIN d.peers : d.peers[i].mac \in Nodes
  <2> SUFFICES ASSUME NEW i \in DOMAIN d.peers PROVE d.peers[i].mac \in Nodes
    OBVIOUS
  <2>1. d.peers \in Seq(PeerRecord)
    BY DEF Context
  <2>2. d.peers[i] \in PeerRecord
    BY <2>1
  <2> QED
    BY <2>2 DEF PeerRecord
<1> QED
  BY <1>1, <1>2 DEF Shape

LEMMA PeersAreNodes ==
    ASSUME NEW c \in Context
    PROVE  /\ c.peers \in Seq(PeerRecord) /\ DOMAIN c.peers = 1..Len(c.peers) /\ Len(c.peers) \in Nat
           /\ \A i \in DOMAIN c.peers : c.peers[i] \in PeerRecord /\ c.peers[i].mac \in Nodes
                                        /\ c.peers[i].state \in PeerStates
<1>1. c.peers \in Seq(PeerRecord)
  BY DEF Context
<1>2. DOMAIN c.peers = 1..Len(c.peers) /\ Len(c.peers) \in Nat
  BY <1>1
<1>3. \A i \in DOMAIN c.peers : c.peers[i] \in PeerRecord
  BY <1>1
<1>4. \A i \in DOMAIN c.peers : c.peers[i].mac \in Nodes /\ c.peers[i].state \in PeerStates
  BY <1>3 DEF PeerRecord
<1> QED
  BY <1>1, <1>2, <1>3, <1>4

(* Nothing changes that St tells.                                          *)
LEMMA SameStates ==
    ASSUME NEW c \in Context, Shape(c), NEW d \in Context, d.mode = c.mode,
           DOMAIN d.peers = DOMAIN c.peers, \A i \in DOMAIN c.peers : Alike(d.peers[i], c.peers[i])
    PROVE  Shape(d) /\ \A m \in Nodes : St(d, m) = St(c, m)
<1> DEFINE s == [m \in Nodes |-> St(c, m)]
<1>1. \A m \in Nodes : s[m] = St(c, m)
  OBVIOUS
<1> HIDE DEF s
<1>2. \A i \in DOMAIN d.peers : d.peers[i].state = s[d.peers[i].mac]
  BY <1>1, PeersAreNodes DEF Shape, Alike
<1>3. \A m \in Nodes : s[m] = "NONE" \/ \E i \in DOMAIN d.peers : d.peers[i].mac = m
  <2> SUFFICES ASSUME NEW m \in Nodes, s[m] # "NONE" PROVE \E i \in DOMAIN d.peers : d.peers[i].mac = m
    OBVIOUS
  <2>1. Place(c, m) \in DOMAIN c.peers /\ c.peers[Place(c, m)].mac = m
    BY <1>1, StIs
  <2> QED
    BY <2>1 DEF Alike
<1>4. \A i, j \in DOMAIN d.peers : d.peers[i].mac = d.peers[j].mac =>
         i = j \/ (d.mode = "CHILD" /\ d.peers[i].state = "CHILD")
  BY DEF Shape, Alike
<1>5. Shape(d) /\ \A m \in Nodes : St(d, m) = s[m]
  BY <1>2, <1>3, <1>4, Listed
<1> QED
  BY <1>1, <1>5

-----------------------------------------------------------------------------
(* What the pieces of the code do to the states of a list.                 *)
With(c, m, state, k) == IF k = m THEN state ELSE St(c, k)

LEMMA LinkStates ==
    ASSUME NEW c \in Context, Shape(c), NEW m \in Nodes, NEW state \in FreeStates(c), NEW joining \in BOOLEAN,
           \/ St(c, m) = "NONE"
           \/ c.mode = "CHILD" /\ state = "CHILD" /\ St(c, m) = "CHILD"
    PROVE  LET d == Link(c, m, state, joining)
           IN  /\ SameButList(c, d) /\ d.events = c.events /\ Shape(d)
               /\ \A k \in Nodes : St(d, k) = With(c, m, state, k)
<1> DEFINE p == [mac |-> m, state |-> state, joining |-> joining, sending |-> FALSE, leaving |-> FALSE]
           l == <<p>> \o c.peers
           d == [c EXCEPT !.peers = l]
           s == [k \in Nodes |-> With(c, m, state, k)]
<1>1. p \in PeerRecord /\ p.state = state /\ p.mac = m
  BY FreeStatesAre DEF PeerRecord
<1>2. c.peers \in Seq(PeerRecord)
  BY DEF Context
<1> HIDE DEF p
<1>3. /\ l \in Seq(PeerRecord) /\ DOMAIN l = 1..(Len(c.peers) + 1) /\ DOMAIN c.peers = 1..Len(c.peers)
      /\ l[1] = p /\ \A i \in DOMAIN l : i # 1 => i - 1 \in DOMAIN c.peers /\ l[i] = c.peers[i - 1]
      /\ \A i \in DOMAIN c.peers : i + 1 \in DOMAIN l /\ l[i + 1] = c.peers[i]
  BY <1>1, <1>2
<1>4. \A k \in Nodes : s[k] = With(c, m, state, k)
  OBVIOUS
<1> HIDE DEF l, s
<1>5. SameButList(c, d) /\ d.peers = l /\ d.events = c.events
  BY <1>3, WithList DEF Context
<1>6. Link(c, m, state, joining) = d
  BY DEF Link, d, l, p
<1> HIDE DEF d
<1>7. d \in Context /\ d.mode = c.mode
  BY <1>5 DEF SameButList
<1>8. \A i \in DOMAIN c.peers : /\ c.peers[i].state = St(c, c.peers[i].mac) /\ c.peers[i].mac \in Nodes
                                /\ c.peers[i].mac = m => c.mode = "CHILD" /\ c.peers[i].state = "CHILD" /\ state = "CHILD"
  BY PeersAreNodes, StIs DEF Shape
<1>9. \A i \in DOMAIN d.peers : d.peers[i].state = s[d.peers[i].mac]
  <2> SUFFICES ASSUME NEW i \in DOMAIN l PROVE l[i].state = s[l[i].mac]
    BY <1>5
  <2>1. CASE i = 1
    BY <1>1, <1>3, <1>4, <2>1 DEF With
  <2>2. CASE i # 1
    <3>1. i - 1 \in DOMAIN c.peers /\ l[i] = c.peers[i - 1]
      BY <1>3, <2>2
    <3> QED
      BY <1>4, <1>8, <3>1 DEF With
  <2> QED
    BY <2>1, <2>2
<1>10. \A k \in Nodes : s[k] = "NONE" \/ \E i \in DOMAIN d.peers : d.peers[i].mac = k
  <2> SUFFICES ASSUME NEW k \in Nodes, s[k] # "NONE" PROVE \E i \in DOMAIN l : l[i].mac = k
    BY <1>5
  <2>1. CASE k = m
    <3>1. 1 \in DOMAIN l
      BY <1>2, <1>3
    <3> QED
      BY <1>1, <1>3, <2>1, <3>1
  <2>2. CASE k # m
    <3>1. St(c, k) # "NONE"
      BY <1>4, <2>2 DEF With
    <3>2. Place(c, k) \in DOMAIN c.peers /\ c.peers[Place(c, k)].mac = k
      BY <3>1, StIs
    <3> QED
      BY <1>3, <3>2
  <2> QED
    BY <2>1, <2>2
<1>11. \A i, j \in DOMAIN d.peers : d.peers[i].mac = d.peers[j].mac =>
          i = j \/ (d.mode = "CHILD" /\ d.peers[i].state = "CHILD")
  <2> SUFFICES ASSUME NEW i \in DOMAIN l, NEW j \in DOMAIN l, l[i].mac = l[j].mac, i # j
               PROVE  c.mode = "CHILD" /\ l[i].state = "CHILD"
    BY <1>5, <1>7
  <2>1. CASE i = 1
    <3>1. j - 1 \in DOMAIN c.peers /\ l[j] = c.peers[j - 1]
      BY <1>3, <2>1
    <3> QED
      BY <1>1, <1>3, <1>8, <2>1, <3>1
  <2>2. CASE j = 1
    <3>1. i - 1 \in DOMAIN c.peers /\ l[i] = c.peers[i - 1]
      BY <1>3, <2>2
    <3> QED
      BY <1>1, <1>3, <1>8, <2>2, <3>1
  <2>3. CASE i # 1 /\ j # 1
    <3>1. i - 1 \in DOMAIN c.peers /\ l[i] = c.peers[i - 1] /\ j - 1 \in DOMAIN c.peers /\ l[j] = c.peers[j - 1]
      BY <1>3, <2>3
    <3>2. i - 1 # j - 1
      BY <1>3
    <3> QED
      BY <3>1, <3>2 DEF Shape
  <2> QED
    BY <2>1, <2>2, <2>3
<1>12. Shape(d) /\ \A k \in Nodes : St(d, k) = s[k]
  BY <1>7, <1>9, <1>10, <1>11, Listed
<1> QED
  BY <1>4, <1>5, <1>6, <1>12

LEMMA StateStates ==
    ASSUME NEW c \in Context, Shape(c), NEW m \in Nodes, NEW state \in PeerStates,
           St(c, m) \notin {"NONE", "CHILD"}
    PROVE  LET d == SetState(c, m, state)
           IN  /\ SameButList(c, d) /\ d.events = c.events /\ Shape(d)
               /\ \A k \in Nodes : St(d, k) = With(c, m, state, k)
<1> DEFINE d == SetState(c, m, state)
           p == Place(c, m)
           s == [k \in Nodes |-> With(c, m, state, k)]
<1>1. /\ SameButList(c, d) /\ DOMAIN d.peers = DOMAIN c.peers
      /\ \A i \in DOMAIN c.peers : /\ d.peers[i].mac = c.peers[i].mac
                                   /\ d.peers[i].state = IF i = p THEN state ELSE c.peers[i].state
  BY StateWritten
<1>2. d.events = c.events
  BY DEF SetState, Context
<1>3. \A k \in Nodes : s[k] = With(c, m, state, k)
  OBVIOUS
<1>4. p \in DOMAIN c.peers /\ c.peers[p].mac = m /\ c.peers[p].state = St(c, m)
  BY StIs
<1> HIDE DEF d, p, s
<1>5. \A i \in DOMAIN c.peers : c.peers[i].mac = m <=> i = p
  BY <1>4 DEF Shape
<1>6. \A i \in DOMAIN d.peers : d.peers[i].state = s[d.peers[i].mac]
  BY <1>1, <1>3, <1>5, PeersAreNodes DEF Shape, With
<1>7. \A k \in Nodes : s[k] = "NONE" \/ \E i \in DOMAIN d.peers : d.peers[i].mac = k
  <2> SUFFICES ASSUME NEW k \in Nodes, s[k] # "NONE" PROVE \E i \in DOMAIN c.peers : c.peers[i].mac = k
    BY <1>1
  <2> QED
    BY <1>3, <1>4, StIs DEF With
<1>8. \A i, j \in DOMAIN d.peers : d.peers[i].mac = d.peers[j].mac =>
         i = j \/ (d.mode = "CHILD" /\ d.peers[i].state = "CHILD")
  BY <1>1, <1>5 DEF Shape, SameButList
<1>9. Shape(d) /\ \A k \in Nodes : St(d, k) = s[k]
  BY <1>1, <1>6, <1>7, <1>8, Listed DEF SameButList
<1> QED
  BY <1>1, <1>2, <1>3, <1>9 DEF d

LEMMA DeleteStates ==
    ASSUME NEW c \in Context, Shape(c), NEW m \in Nodes, St(c, m) # "NONE", c.mode # "CHILD"
    PROVE  LET d == DeletePeer(c, m)
           IN  /\ SameButList(c, d) /\ d.events = c.events /\ Shape(d)
               /\ \A k \in Nodes : St(d, k) = With(c, m, "NONE", k)
<1> DEFINE p == Place(c, m)
           l == RemoveAt(c.peers, p)
           d == [c EXCEPT !.peers = l]
           s == [k \in Nodes |-> With(c, m, "NONE", k)]
<1>1. c.peers \in Seq(PeerRecord) /\ p \in DOMAIN c.peers /\ c.peers[p].mac = m
  BY StIs, PeersAreNodes
<1> HIDE DEF p
<1>2. /\ l \in Seq(PeerRecord) /\ DOMAIN l = 1..(Len(c.peers) - 1)
      /\ \A i \in DOMAIN l : l[i] = c.peers[IF i < p THEN i ELSE i + 1]
  BY <1>1, RemoveAtFacts
<1>3. \A k \in Nodes : s[k] = With(c, m, "NONE", k)
  OBVIOUS
<1> HIDE DEF l, s
<1>4. SameButList(c, d) /\ d.peers = l /\ d.events = c.events
  BY <1>2, WithList DEF Context
<1>5. DeletePeer(c, m) = d
  BY DEF DeletePeer, d, l, p
<1> HIDE DEF d
<1>6. \A i \in DOMAIN c.peers : c.peers[i].mac = m <=> i = p
  BY <1>1 DEF Shape
<1> DEFINE from(i) == IF i < p THEN i ELSE i + 1
<1>7. \A i \in DOMAIN l : from(i) \in DOMAIN c.peers /\ from(i) # p /\ l[i] = c.peers[from(i)]
  BY <1>1, <1>2
<1>8. \A i, j \in DOMAIN l : from(i) = from(j) => i = j
  BY <1>1, <1>2
<1>9. \A j \in DOMAIN c.peers : j # p => \E i \in DOMAIN l : l[i] = c.peers[j]
  <2> SUFFICES ASSUME NEW j \in DOMAIN c.peers, j # p PROVE \E i \in DOMAIN l : l[i] = c.peers[j]
    OBVIOUS
  <2>1. CASE j < p
    <3>1. j \in DOMAIN l
      BY <1>1, <1>2, <2>1
    <3> QED
      BY <1>2, <2>1, <3>1
  <2>2. CASE ~(j < p)
    <3>1. j - 1 \in DOMAIN l /\ ~(j - 1 < p) /\ (j - 1) + 1 = j
      BY <1>1, <1>2, <2>2
    <3> QED
      BY <1>2, <3>1
  <2> QED
    BY <2>1, <2>2
<1> HIDE DEF from
<1>10. \A i \in DOMAIN d.peers : d.peers[i].state = s[d.peers[i].mac]
  BY <1>3, <1>4, <1>6, <1>7, PeersAreNodes DEF Shape, With
<1>11. \A k \in Nodes : s[k] = "NONE" \/ \E i \in DOMAIN d.peers : d.peers[i].mac = k
  <2> SUFFICES ASSUME NEW k \in Nodes, s[k] # "NONE" PROVE \E i \in DOMAIN l : l[i].mac = k
    BY <1>4
  <2>1. Place(c, k) \in DOMAIN c.peers /\ c.peers[Place(c, k)].mac = k /\ k # m
    BY <1>3, StIs DEF With
  <2> QED
    BY <1>6, <1>9, <2>1
<1>12. \A i, j \in DOMAIN d.peers : d.peers[i].mac = d.peers[j].mac =>
          i = j \/ (d.mode = "CHILD" /\ d.peers[i].state = "CHILD")
  BY <1>4, <1>7, <1>8 DEF Shape
<1>13. Shape(d) /\ \A k \in Nodes : St(d, k) = s[k]
  BY <1>4, <1>10, <1>11, <1>12, Listed DEF SameButList
<1> QED
  BY <1>3, <1>4, <1>5, <1>13

LEMMA CleanStates ==
    ASSUME NEW c \in Context, Shape(c)
    PROVE  LET d == CleanPeerList(c)
           IN  /\ SameButList(c, d) /\ d.events = c.events /\ Shape(d)
               /\ \A k \in Nodes : St(d, k) = IF St(c, k) \in Established \cup {"SELF"} THEN St(c, k) ELSE "NONE"
<1> DEFINE I == PlacesOf(c, Established \cup {"SELF"})
           l == Picked(c.peers, I)
           d == [c EXCEPT !.peers = l]
           s == [k \in Nodes |-> IF St(c, k) \in Established \cup {"SELF"} THEN St(c, k) ELSE "NONE"]
<1>1. I \in SUBSET DOMAIN c.peers /\ c.peers \in Seq(PeerRecord)
      /\ \A i \in DOMAIN c.peers : i \in I <=> c.peers[i].state \in Established \cup {"SELF"}
  BY PeersAreNodes DEF PlacesOf
<1> HIDE DEF I
<1>2. /\ l \in Seq(PeerRecord) /\ DOMAIN l = 1..Cardinality(I)
      /\ \A k \in 1..Cardinality(I) : Nth(I, k) \in I /\ l[k] = c.peers[Nth(I, k)]
      /\ \A j, k \in 1..Cardinality(I) : Nth(I, j) = Nth(I, k) => j = k
  BY <1>1, PickedFacts
<1>3. \A i \in I : \E k \in 1..Cardinality(I) : l[k] = c.peers[i]
  BY <1>1, <1>2, PickedOnto
<1>4. \A k \in Nodes : s[k] = IF St(c, k) \in Established \cup {"SELF"} THEN St(c, k) ELSE "NONE"
  OBVIOUS
<1> HIDE DEF l, s
<1>5. SameButList(c, d) /\ d.peers = l /\ d.events = c.events
  BY <1>2, WithList DEF Context
<1>6. CleanPeerList(c) = d
  BY DEF CleanPeerList, d, l, I
<1> HIDE DEF d
<1>7. \A i \in DOMAIN d.peers : d.peers[i].state = s[d.peers[i].mac]
  <2> SUFFICES ASSUME NEW i \in 1..Cardinality(I) PROVE l[i].state = s[l[i].mac]
    BY <1>2, <1>5
  <2>1. Nth(I, i) \in I /\ Nth(I, i) \in DOMAIN c.peers /\ l[i] = c.peers[Nth(I, i)]
    BY <1>1, <1>2
  <2>2. l[i].state = St(c, l[i].mac) /\ l[i].mac \in Nodes /\ l[i].state \in Established \cup {"SELF"}
    BY <1>1, <2>1, PeersAreNodes DEF Shape
  <2> QED
    BY <1>4, <2>2
<1>8. \A k \in Nodes : s[k] = "NONE" \/ \E i \in DOMAIN d.peers : d.peers[i].mac = k
  <2> SUFFICES ASSUME NEW k \in Nodes, s[k] # "NONE" PROVE \E i \in DOMAIN l : l[i].mac = k
    BY <1>5
  <2>1. St(c, k) # "NONE" /\ St(c, k) \in Established \cup {"SELF"}
    BY <1>4
  <2>2. Place(c, k) \in DOMAIN c.peers /\ c.peers[Place(c, k)].mac = k /\ c.peers[Place(c, k)].state = St(c, k)
    BY <2>1, StIs
  <2>3. Place(c, k) \in I
    BY <1>1, <2>1, <2>2
  <2> QED
    BY <1>2, <1>3, <2>2, <2>3
<1>9. \A i, j \in DOMAIN d.peers : d.peers[i].mac = d.peers[j].mac =>
          i = j \/ (d.mode = "CHILD" /\ d.peers[i].state = "CHILD")
  <2>1. d.mode = c.mode
    BY <1>5 DEF SameButList
  <2> SUFFICES ASSUME NEW i \in 1..Cardinality(I), NEW j \in 1..Cardinality(I), l[i].mac = l[j].mac, i # j
               PROVE  c.mode = "CHILD" /\ l[i].state = "CHILD"
    BY <1>2, <1>5, <2>1
  <2>2. /\ Nth(I, i) \in DOMAIN c.peers /\ l[i] = c.peers[Nth(I, i)] /\ Nth(I, i) # Nth(I, j)
        /\ Nth(I, j) \in DOMAIN c.peers /\ l[j] = c.peers[Nth(I, j)]
    BY <1>1, <1>2
  <2> QED
    BY <2>2 DEF Shape
<1>10. Shape(d) /\ \A k \in Nodes : St(d, k) = s[k]
  BY <1>5, <1>7, <1>8, <1>9, Listed DEF SameButList
<1> QED
  BY <1>4, <1>5, <1>6, <1>10

LEMMA AddSelfStates ==
    ASSUME NEW c \in Context, Shape(c), NEW n \in Nodes, c.mode = "CHILD"
    PROVE  LET d == AddSelf(c, n)
           IN  /\ SameButList(c, d) /\ d.events = c.events /\ Shape(d)
               /\ \A k \in Nodes : St(d, k) = IF k = n /\ St(c, n) = "NONE" THEN "SELF" ELSE St(c, k)
<1>1. CASE St(c, n) = "NONE"
  <2>1. "SELF" \in FreeStates(c) /\ FALSE \in BOOLEAN
    BY FreeStatesAre
  <2>2. AddSelf(c, n) = Link(c, n, "SELF", FALSE)
    BY <1>1, StIs DEF AddSelf
  <2>3. LET d == Link(c, n, "SELF", FALSE)
        IN  /\ SameButList(c, d) /\ d.events = c.events /\ Shape(d)
            /\ \A k \in Nodes : St(d, k) = With(c, n, "SELF", k)
    BY <1>1, <2>1, LinkStates
  <2> QED
    BY <1>1, <2>2, <2>3 DEF With
<1>2. CASE St(c, n) # "NONE"
  <2>1. AddSelf(c, n) = c
    BY <1>2, StIs DEF AddSelf
  <2> QED
    BY <1>2, <2>1 DEF SameButList
<1> QED
  BY <1>1, <1>2

(* The flags of a peer, and the events, are no states.                     *)
LEMMA FlagStates ==
    ASSUME NEW c \in Context, Shape(c), NEW m, NEW flag \in BOOLEAN,
           NEW d \in {SetJoining(c, m, flag), SetSending(c, m, flag), SetLeaving(c, m), Refresh(c, m)}
    PROVE  /\ SameButList(c, d) /\ d.events = c.events /\ Shape(d)
           /\ DOMAIN d.peers = DOMAIN c.peers /\ \A i \in DOMAIN c.peers : Alike(d.peers[i], c.peers[i])
           /\ \A k \in Nodes : St(d, k) = St(c, k)
<1> DEFINE k == Place(c, m)
           p == c.peers[k]
           R == {[p EXCEPT !.joining = flag], [p EXCEPT !.sending = flag],
                 [p EXCEPT !.leaving = TRUE], [p EXCEPT !.leaving = FALSE]}
<1>1. k \in DOMAIN c.peers => p \in PeerRecord
  BY DEF Context
<1>2. \A r \in R : k \in DOMAIN c.peers => r \in PeerRecord /\ Alike(r, p)
  <2> HIDE DEF p
  <2> QED
    BY <1>1 DEF PeerRecord, Alike
<1>3. /\ SetJoining(c, m, flag) = [c EXCEPT !.peers = [@ EXCEPT ![k] = [p EXCEPT !.joining = flag]]]
      /\ SetSending(c, m, flag) = [c EXCEPT !.peers = [@ EXCEPT ![k] = [p EXCEPT !.sending = flag]]]
      /\ SetLeaving(c, m) = [c EXCEPT !.peers = [@ EXCEPT ![k] = [p EXCEPT !.leaving = TRUE]]]
      /\ Refresh(c, m) = [c EXCEPT !.peers = [@ EXCEPT ![k] = [p EXCEPT !.leaving = FALSE]]]
  BY DEF SetJoining, SetSending, SetLeaving, Refresh
<1>4. PICK r \in R : d = [c EXCEPT !.peers = [@ EXCEPT ![k] = r]]
  BY <1>3
<1> DEFINE l == [c.peers EXCEPT ![k] = r]
<1>5. d = [c EXCEPT !.peers = l]
  BY <1>4 DEF Context
<1>6. k \in DOMAIN c.peers => r \in PeerRecord /\ Alike(r, c.peers[k])
  BY <1>2
<1> HIDE DEF p, R, k
<1>7. /\ DOMAIN l = DOMAIN c.peers /\ \A i \in DOMAIN c.peers : l[i] = IF i = k THEN r ELSE c.peers[i]
      /\ l \in Seq(PeerRecord)
  BY <1>6, ListRewritten
<1> HIDE DEF l
<1>8. SameButList(c, d) /\ d.peers = l /\ d.events = c.events
  BY <1>5, <1>7, WithList DEF Context
<1>9. \A i \in DOMAIN c.peers : Alike(d.peers[i], c.peers[i])
  BY <1>6, <1>7, <1>8 DEF Alike
<1>10. d \in Context /\ d.mode = c.mode /\ DOMAIN d.peers = DOMAIN c.peers
  BY <1>7, <1>8 DEF SameButList
<1>11. Shape(d) /\ \A x \in Nodes : St(d, x) = St(c, x)
  BY <1>9, <1>10, SameStates
<1> QED
  BY <1>8, <1>9, <1>10, <1>11

LEMMA SiblingStates ==
    ASSUME NEW c \in Context, Shape(c), NEW siblings \in Seq(Nodes), c.mode = "CHILD",
           \A k \in ToSet(siblings) : St(c, k) \in {"NONE", "CHILD"}
    PROVE  LET d == AddSiblings(c, siblings)
           IN  /\ SameButList(c, d) /\ d.events = c.events /\ Shape(d)
               /\ \A k \in Nodes : St(d, k) = IF k \in ToSet(siblings) THEN "CHILD" ELSE St(c, k)
<1> DEFINE I == {i \in DOMAIN siblings : ~Known(c, siblings[i])}
           new == Picked(siblings, I)
           newborn(m) == [mac |-> m, state |-> "CHILD", joining |-> FALSE,
                          sending |-> FALSE, leaving |-> FALSE]
           linked == [i \in DOMAIN new |-> newborn(new[i])]
           child(p) == [p EXCEPT !.state = "CHILD", !.sending = FALSE, !.leaving = FALSE]
           renewed == [i \in DOMAIN c.peers |->
                          IF c.peers[i].mac \in ToSet(siblings) /\ Place(c, c.peers[i].mac) = i
                          THEN child(c.peers[i]) ELSE c.peers[i]]
           l == linked \o renewed
           d == [c EXCEPT !.peers = l]
           K == Cardinality(I)
           N == Len(c.peers)
           s == [k \in Nodes |-> IF k \in ToSet(siblings) THEN "CHILD" ELSE St(c, k)]
<1>1. /\ I \in SUBSET DOMAIN siblings
      /\ new \in Seq(Nodes) /\ DOMAIN new = 1..K /\ K \in Nat
      /\ \A k \in 1..K : Nth(I, k) \in I /\ new[k] = siblings[Nth(I, k)]
      /\ \A i \in I : \E k \in 1..K : new[k] = siblings[i]
      /\ N \in Nat /\ DOMAIN c.peers = 1..N /\ c.peers \in Seq(PeerRecord)
  <2>1. I \in SUBSET DOMAIN siblings
    OBVIOUS
  <2>2. N \in Nat /\ DOMAIN c.peers = 1..N /\ c.peers \in Seq(PeerRecord)
    BY PeersAreNodes
  <2> HIDE DEF I
  <2>3. /\ new \in Seq(Nodes) /\ DOMAIN new = 1..K /\ K \in Nat
        /\ \A k \in 1..K : Nth(I, k) \in I /\ new[k] = siblings[Nth(I, k)]
    BY <2>1, PickedFacts
  <2>4. \A i \in I : \E k \in 1..K : new[k] = siblings[i]
    BY <2>1, <2>3, PickedOnto
  <2> QED
    BY <2>1, <2>2, <2>3, <2>4
<1>2. \A k \in 1..K : new[k] \in Nodes /\ new[k] \in ToSet(siblings) /\ St(c, new[k]) = "NONE"
  <2> SUFFICES ASSUME NEW k \in 1..K PROVE new[k] \in Nodes /\ new[k] \in ToSet(siblings) /\ St(c, new[k]) = "NONE"
    OBVIOUS
  <2>1. Nth(I, k) \in DOMAIN siblings /\ new[k] = siblings[Nth(I, k)] /\ ~Known(c, siblings[Nth(I, k)])
    BY <1>1
  <2>2. new[k] \in ToSet(siblings)
    BY <2>1 DEF ToSet
  <2>3. new[k] \in Nodes
    BY <2>1
  <2> QED
    BY <2>1, <2>2, <2>3, StIs
<1>3. \A m \in ToSet(siblings) : m \in Nodes /\ (St(c, m) = "NONE" => \E k \in 1..K : new[k] = m)
  <2> SUFFICES ASSUME NEW m \in ToSet(siblings)
               PROVE  m \in Nodes /\ (St(c, m) = "NONE" => \E k \in 1..K : new[k] = m)
    OBVIOUS
  <2>1. PICK i \in DOMAIN siblings : siblings[i] = m
    BY DEF ToSet
  <2>2. m \in Nodes
    BY <2>1
  <2>3. St(c, m) = "NONE" => i \in I
    BY <2>1, StIs
  <2> QED
    BY <1>1, <2>1, <2>2, <2>3
<1> HIDE DEF I, new, K, N
<1>4. linked \in Seq(PeerRecord) /\ Len(linked) = K
      /\ \A i \in 1..K : linked[i].state = "CHILD" /\ linked[i].mac = new[i]
  <2>1. \A m \in Nodes : newborn(m) \in PeerRecord /\ newborn(m).state = "CHILD" /\ newborn(m).mac = m
    BY DEF PeerRecord, PeerStates
  <2> HIDE DEF newborn
  <2>2. linked \in [1..K -> PeerRecord] /\ \A i \in 1..K : linked[i].state = "CHILD" /\ linked[i].mac = new[i]
    BY <1>1, <1>2, <2>1
  <2> HIDE DEF linked
  <2> QED
    BY <1>1, <2>2
<1>5. renewed \in Seq(PeerRecord) /\ Len(renewed) = N
      /\ \A i \in 1..N : Alike(renewed[i], c.peers[i])
  <2>1. \A p \in PeerRecord : child(p) \in PeerRecord /\ child(p).state = "CHILD" /\ child(p).mac = p.mac
    BY DEF PeerRecord, PeerStates
  <2> HIDE DEF child
  <2>2. \A i \in 1..N : c.peers[i] \in PeerRecord /\ c.peers[i].state = St(c, c.peers[i].mac)
                        /\ St(c, c.peers[i].mac) # "NONE"
    BY <1>1, PeersAreNodes DEF Shape, PeerStates
  <2>3. renewed \in [1..N -> PeerRecord]
        /\ \A i \in 1..N : renewed[i] = IF c.peers[i].mac \in ToSet(siblings) /\ Place(c, c.peers[i].mac) = i
                                        THEN child(c.peers[i]) ELSE c.peers[i]
    BY <1>1, <2>1, <2>2
  <2> HIDE DEF renewed
  <2>4. \A i \in 1..N : Alike(renewed[i], c.peers[i])
    BY <2>1, <2>2, <2>3 DEF Alike
  <2> QED
    BY <1>1, <2>3, <2>4
<1>6. AddSiblings(c, siblings) = d
  BY DEF AddSiblings, linked, newborn, renewed, child, new, I
<1> HIDE DEF linked, renewed
<1>7. /\ l \in Seq(PeerRecord) /\ DOMAIN l = 1..(K + N)
      /\ \A i \in 1..(K + N) : l[i] = IF i <= K THEN linked[i] ELSE renewed[i - K]
  <2>1. linked \in Seq(PeerRecord) /\ Len(linked) = K /\ renewed \in Seq(PeerRecord) /\ Len(renewed) = N
    BY <1>4, <1>5
  <2>2. /\ l \in Seq(PeerRecord) /\ Len(l) = Len(linked) + Len(renewed)
        /\ \A i \in 1..(Len(linked) + Len(renewed)) :
              l[i] = IF i <= Len(linked) THEN linked[i] ELSE renewed[i - Len(linked)]
    BY <2>1, ConcatProperties
  <2> HIDE DEF l
  <2> QED
    BY <1>1, <2>1, <2>2
<1>8. \A k \in Nodes : s[k] = IF k \in ToSet(siblings) THEN "CHILD" ELSE St(c, k)
  OBVIOUS
<1> HIDE DEF l, s
<1>9. SameButList(c, d) /\ d.peers = l /\ d.events = c.events /\ d \in Context /\ d.mode = "CHILD"
  BY <1>7, WithList DEF Context, SameButList
<1> HIDE DEF d
<1>10. \A i \in DOMAIN l : \/ i \in 1..K /\ l[i].state = "CHILD" /\ l[i].mac = new[i]
                           \/ i - K \in DOMAIN c.peers /\ Alike(l[i], c.peers[i - K])
  <2> SUFFICES ASSUME NEW i \in 1..(K + N)
               PROVE  \/ i \in 1..K /\ l[i].state = "CHILD" /\ l[i].mac = new[i]
                      \/ i - K \in DOMAIN c.peers /\ Alike(l[i], c.peers[i - K])
    BY <1>7
  <2>1. CASE i <= K
    <3>1. i \in 1..K /\ l[i] = linked[i]
      BY <1>1, <1>7, <2>1
    <3> QED
      BY <1>4, <3>1
  <2>2. CASE ~(i <= K)
    <3>1. i - K \in 1..N /\ l[i] = renewed[i - K]
      BY <1>1, <1>7, <2>2
    <3> QED
      BY <1>1, <1>5, <3>1
  <2> QED
    BY <2>1, <2>2
<1>11. /\ \A i \in 1..K : i \in DOMAIN l /\ l[i].mac = new[i]
       /\ \A i \in DOMAIN c.peers : \E j \in DOMAIN l : l[j].mac = c.peers[i].mac
  <2>1. \A i \in 1..K : i \in DOMAIN l /\ l[i].mac = new[i]
    BY <1>1, <1>4, <1>7
  <2>2. ASSUME NEW i \in 1..N PROVE \E j \in DOMAIN l : l[j].mac = c.peers[i].mac
    <3>1. i + K \in 1..(K + N) /\ ~(i + K <= K) /\ (i + K) - K = i
      BY <1>1
    <3>2. l[i + K] = renewed[i] /\ i + K \in DOMAIN l
      BY <1>7, <3>1
    <3> QED
      BY <1>5, <3>2 DEF Alike
  <2> QED
    BY <1>1, <2>1, <2>2
<1>12. \A i \in DOMAIN d.peers : d.peers[i].state = s[d.peers[i].mac]
  <2> SUFFICES ASSUME NEW i \in DOMAIN l PROVE l[i].state = s[l[i].mac]
    BY <1>9
  <2>1. CASE i \in 1..K /\ l[i].state = "CHILD" /\ l[i].mac = new[i]
    BY <1>2, <1>8, <2>1
  <2>2. CASE i - K \in DOMAIN c.peers /\ Alike(l[i], c.peers[i - K])
    <3>1. l[i].state = St(c, l[i].mac) /\ l[i].mac \in Nodes /\ l[i].state \in PeerStates
      BY <2>2, PeersAreNodes DEF Shape, Alike
    <3>2. l[i].state # "NONE"
      BY <3>1 DEF PeerStates
    <3> QED
      BY <1>8, <3>1, <3>2
  <2> QED
    BY <1>10, <2>1, <2>2
<1>13. \A k \in Nodes : s[k] = "NONE" \/ \E i \in DOMAIN d.peers : d.peers[i].mac = k
  <2> SUFFICES ASSUME NEW k \in Nodes, s[k] # "NONE" PROVE \E i \in DOMAIN l : l[i].mac = k
    BY <1>9
  <2>1. CASE St(c, k) = "NONE"
    BY <1>3, <1>8, <1>11, <2>1
  <2>2. CASE St(c, k) # "NONE"
    <3>1. Place(c, k) \in DOMAIN c.peers /\ c.peers[Place(c, k)].mac = k
      BY <2>2, StIs
    <3> QED
      BY <1>11, <3>1
  <2> QED
    BY <2>1, <2>2
<1>14. \A i, j \in DOMAIN d.peers : d.peers[i].mac = d.peers[j].mac =>
          i = j \/ (d.mode = "CHILD" /\ d.peers[i].state = "CHILD")
  <2> SUFFICES ASSUME NEW i \in DOMAIN l, NEW j \in DOMAIN l, l[i].mac = l[j].mac, i # j
               PROVE  l[i].state = "CHILD"
    BY <1>9
  <2>1. CASE i \in 1..K /\ l[i].state = "CHILD" /\ l[i].mac = new[i]
    BY <2>1
  <2>2. CASE i - K \in DOMAIN c.peers /\ Alike(l[i], c.peers[i - K])
    <3>1. CASE j \in 1..K /\ l[j].state = "CHILD" /\ l[j].mac = new[j]
      <4>1. St(c, l[j].mac) = "NONE"
        BY <1>2, <3>1
      <4>2. c.peers[i - K].mac = l[j].mac
        BY <2>2 DEF Alike
      <4> QED
        BY <2>2, <4>1, <4>2, StIs
    <3>2. CASE j - K \in DOMAIN c.peers /\ Alike(l[j], c.peers[j - K])
      <4>1. i - K # j - K
        BY <1>1, <1>7
      <4> QED
        BY <2>2, <3>2, <4>1 DEF Shape, Alike
    <3> QED
      BY <1>10, <3>1, <3>2
  <2> QED
    BY <1>10, <2>1, <2>2
<1>15. Shape(d) /\ \A k \in Nodes : St(d, k) = s[k]
  BY <1>9, <1>12, <1>13, <1>14, Listed
<1> QED
  BY <1>6, <1>8, <1>9, <1>15 DEF d

-----------------------------------------------------------------------------
(* What the guards of the code say about the states.                       *)
LEMMA KnownAsIs ==
    ASSUME NEW c \in Context, NEW m, NEW S, "NONE" \notin S
    PROVE  KnownAs(c, m, S) <=> St(c, m) \in S
BY StIs DEF KnownAs, St

LEMMA HasIs ==
    ASSUME NEW c \in Context, Shape(c), NEW state \in PeerStates
    PROVE  Has(c, state) <=> \E m \in Nodes : St(c, m) = state
<1>1. Has(c, state) => \E m \in Nodes : St(c, m) = state
  <2> SUFFICES ASSUME Has(c, state) PROVE \E m \in Nodes : St(c, m) = state
    OBVIOUS
  <2> DEFINE k == FirstIn(c, state)
  <2>1. k \in DOMAIN c.peers /\ c.peers[k].state = state
    BY FirstIs DEF PlacesOf
  <2> HIDE DEF k
  <2> QED
    BY <2>1, PeersAreNodes DEF Shape
<1>2. ASSUME NEW m \in Nodes, St(c, m) = state
      PROVE  Has(c, state)
  <2>1. state # "NONE"
    BY DEF PeerStates
  <2>2. Place(c, m) \in DOMAIN c.peers /\ c.peers[Place(c, m)].state = state
    BY <1>2, <2>1, StIs
  <2>3. Place(c, m) \in PlacesOf(c, {state})
    BY <2>2 DEF PlacesOf
  <2> QED
    BY <2>3, FirstIs
<1> QED
  BY <1>1, <1>2

(* The ties of a child or a P2P player.                                    *)
Bonds == {"PARENT", "P2P", "OUTGOING_REQUEST"}

(* A context that the calls and the threads can have left behind.          *)
Sane(c) == c \in Context /\ Fits(c) /\ Within(c) /\ Shape(c)

LEMMA FitsIs ==
    ASSUME NEW c, Sane(c), NEW m \in Nodes
    PROVE  /\ c.mode \in {"PARENT", "CHILD", "P2P"}
           /\ c.mode = "PARENT" => St(c, m) \in {"NONE", "CHILD", "INCOMING_REQUEST", "CANCEL_IN_PROGRESS"}
           /\ c.mode = "CHILD" => St(c, m) \in {"NONE", "OFFER", "OUTGOING_REQUEST", "CANCEL_IN_PROGRESS",
                                               "PARENT", "CHILD", "SELF"}
           /\ c.mode = "P2P" => St(c, m) \in {"NONE", "OFFER", "INCOMING_REQUEST", "OUTGOING_REQUEST",
                                             "CANCEL_IN_PROGRESS", "P2P"}
<1>1. c.mode \in {"PARENT", "CHILD", "P2P"}
  BY DEF Sane, Context, Modes
<1>2. St(c, m) = "NONE" \/ St(c, m) \in ModeStates[c.mode]
  BY StIs DEF Sane, Fits
<1>3. CASE c.mode = "PARENT"
  BY <1>2, <1>3 DEF ModeStates
<1>4. CASE c.mode = "CHILD"
  BY <1>2, <1>4 DEF ModeStates
<1>5. CASE c.mode = "P2P"
  BY <1>2, <1>5 DEF ModeStates
<1> QED
  BY <1>1, <1>3, <1>4, <1>5

LEMMA BondIs ==
    ASSUME NEW c, Sane(c), c.mode # "PARENT"
    PROVE  \A k, m \in Nodes : St(c, k) \in Bonds /\ St(c, m) \in Bonds => k = m
<1> SUFFICES ASSUME NEW k \in Nodes, NEW m \in Nodes, St(c, k) \in Bonds, St(c, m) \in Bonds
             PROVE  k = m
  OBVIOUS
<1>1. c \in Context /\ \A i, j \in Ties(c) : i = j
  BY DEF Sane, Within
<1>2. St(c, k) # "NONE" /\ St(c, m) # "NONE"
  BY DEF Bonds
<1>3. /\ Place(c, k) \in DOMAIN c.peers /\ c.peers[Place(c, k)].mac = k /\ c.peers[Place(c, k)].state = St(c, k)
      /\ Place(c, m) \in DOMAIN c.peers /\ c.peers[Place(c, m)].mac = m /\ c.peers[Place(c, m)].state = St(c, m)
  BY <1>1, <1>2, StIs
<1>4. Place(c, k) \in Ties(c) /\ Place(c, m) \in Ties(c)
  BY <1>3 DEF Ties, TieStates, PlacesOf, Bonds
<1> QED
  BY <1>1, <1>3, <1>4

LEMMA IsTheIs ==
    ASSUME NEW c, Sane(c), c.mode # "PARENT", NEW state \in Bonds, NEW m \in Nodes
    PROVE  IsThe(state, c, m) <=> St(c, m) = state
<1>1. c \in Context /\ Shape(c) /\ state \in PeerStates /\ state # "NONE"
  BY DEF Sane, Bonds, PeerStates
<1> DEFINE f == FirstIn(c, state)
<1>2. ASSUME IsThe(state, c, m)
      PROVE  St(c, m) = state
  <2>1. Known(c, m) /\ Place(c, m) = f
    BY <1>2 DEF IsThe
  <2>2. Place(c, m) # 0
    BY <2>1 DEF Known
  <2>3. Has(c, state)
    BY <2>1, <2>2 DEF Has
  <2>4. f \in PlacesOf(c, {state})
    BY <1>1, <2>3, FirstIs
  <2>5. c.peers[Place(c, m)].state = state
    BY <2>1, <2>4 DEF PlacesOf
  <2>6. St(c, m) # "NONE"
    BY <1>1, <2>1, StIs
  <2> QED
    BY <1>1, <2>5, <2>6, StIs
<1>3. ASSUME St(c, m) = state
      PROVE  IsThe(state, c, m)
  <2>1. Place(c, m) \in DOMAIN c.peers /\ c.peers[Place(c, m)].state = state /\ Known(c, m)
    BY <1>1, <1>3, StIs
  <2>2. Has(c, state)
    BY <1>1, <1>3, HasIs
  <2>3. f \in PlacesOf(c, {state})
    BY <1>1, <2>2, FirstIs
  <2>4. f \in Ties(c) /\ Place(c, m) \in Ties(c)
    BY <2>1, <2>3 DEF Ties, TieStates, PlacesOf, Bonds
  <2>5. \A i, j \in Ties(c) : i = j
    BY DEF Sane, Within
  <2> QED
    BY <2>1, <2>4, <2>5 DEF IsThe
<1> QED
  BY <1>2, <1>3

LEMMA UnattachedIs ==
    ASSUME NEW c, Sane(c)
    PROVE  Unattached(c) <=> c.mode # "PARENT" /\ \A m \in Nodes : St(c, m) \notin {"PARENT", "P2P"}
<1>1. c \in Context /\ Shape(c) /\ "PARENT" \in PeerStates /\ "P2P" \in PeerStates
  BY DEF Sane, PeerStates
<1>2. /\ Has(c, "PARENT") <=> \E m \in Nodes : St(c, m) = "PARENT"
      /\ Has(c, "P2P") <=> \E m \in Nodes : St(c, m) = "P2P"
  BY <1>1, HasIs
<1>3. c.mode \in {"PARENT", "CHILD", "P2P"}
  BY DEF Sane, Context, Modes
<1> QED
  BY <1>2, <1>3, FitsIs DEF Unattached

-----------------------------------------------------------------------------
(* Players without trouble.  Whatever depends on one context c, of the     *)
(* player n with the box b, whose game knows g.                            *)
OnAir(F) == {m \in Nodes : F[m].phase = "running"}
(* The states of one who has asked c to join and was not refused.          *)
Met == Established \cup {"INCOMING_REQUEST"}

(* A message waits in the input stack; the packets of m in the box b.      *)
Waits(c, op, m) == \E i \in DOMAIN c.input : c.input[i].op = op /\ c.input[i].mac = m
From(b, m, op) == {i \in DOMAIN b : b[i].from = m /\ b[i].op = op}

(* c will never ask m to join again.                                       *)
Spent(c, m) == ~Unattached(c) \/ St(c, m) \notin {"NONE", "OFFER"}

(* Nobody lists himself but as SELF, and a child lists offers and its      *)
(* request before it has a parent, parent and siblings afterwards.         *)
Tidy(n, c) ==
    /\ Shape(c)
    /\ \A m \in Nodes : St(c, m) = "SELF" => m = n
    /\ St(c, n) \in {"NONE", "SELF"}
    /\ c.mode = "CHILD" =>
          \A m \in Nodes : St(c, m) \in IF Unattached(c) THEN {"NONE", "OFFER", "OUTGOING_REQUEST"}
                                                         ELSE {"NONE", "PARENT", "CHILD", "SELF"}

(* What waits in the input stack, and in the box.                          *)
Queued(n, c, R) ==
    /\ \A i \in DOMAIN c.input :
          LET msg == c.input[i]
          IN  /\ msg.op # "BULK_ABORT" => msg.mac # n
              /\ msg.mac \in R /\ msg.op \in {"JOIN", "ACCEPT", "BIRTH", "BULK", "BULK_ABORT"}
              /\ msg.op = "ACCEPT" => c.mode # "CHILD" /\ St(c, msg.mac) \in Established
              /\ msg.op = "BIRTH" => c.mode = "PARENT" /\ St(c, msg.mac) = "CHILD"
    /\ \A i, j \in DOMAIN c.input : c.input[i].op = "JOIN" /\ c.input[j] = c.input[i] => i = j

Letter(n, mode, p, F) ==
    /\ p.op \in {"HELLO", "JOIN", "ACCEPT", "CANCEL", "BULK", "BIRTH"}
    /\ p.from # n /\ p.from \in OnAir(F)
    /\ p.op \notin {"JOIN", "BULK"} => F[p.from].mode # "CHILD"
    /\ p.op = "JOIN" => mode # "CHILD"
    /\ p.op = "BIRTH" => p.mac \notin {n, p.from} /\ p.mac \in OnAir(F)
    /\ p.op = "ACCEPT" => \A k \in ToSet(p.siblings) : k \notin {n, p.from} /\ k \in OnAir(F)

(* Whom the game is connected with, once it has heard of its events.       *)
PartnerStates(c) == IF c.mode = "CHILD" THEN {"PARENT"} ELSE {"CHILD", "P2P"}
Event(name, m) == [event |-> name, mac |-> m]
Hears(c, g, m) == m \in g \/ \E i \in DOMAIN c.events : c.events[i] = Event("ESTABLISHED", m)

(* The game is told of partners only, and of every partner whose ACCEPT    *)
(* does not wait to be sent.                                               *)
Informed(c, g) ==
    /\ \A i \in DOMAIN c.events : c.events[i].event \notin {"LEAVE", "BYE", "TIMEOUT"}
    /\ \A m \in Nodes : /\ Hears(c, g, m) => St(c, m) \in PartnerStates(c)
                        /\ St(c, m) \in PartnerStates(c) => Hears(c, g, m) \/ Waits(c, "ACCEPT", m)

(* All of this; whoever is listed is on the air; who is off it has nothing.*)
Own(n, c, b, g, F) ==
    /\ Tidy(n, c) /\ Queued(n, c, OnAir(F)) /\ Informed(c, g)
    /\ \A i \in DOMAIN b : Letter(n, c.mode, b[i], F)
    /\ \A m \in Nodes : St(c, m) # "NONE" => m \in OnAir(F)
    /\ n \notin OnAir(F) => c.peers = <<>> /\ c.input = <<>> /\ c.events = <<>> /\ b = <<>> /\ g = {}

(* What x, with the context c and the box r, has to do with y, who has the *)
(* context d and the box b: a request is sent once, before it is answered; *)
(* who is accepted has asked; and a refusal is for one who still asks.     *)
Pair(x, y, c, d, b, r) ==
    LET e == St(c, y)
        f == St(d, x)
        J == From(b, x, "JOIN")
    IN  /\ e \in {"OFFER", "OUTGOING_REQUEST"} => d.mode # "CHILD"
        /\ J # {} \/ Waits(c, "JOIN", y) => Spent(c, y)
        /\ d.mode # "CHILD" /\ f \in Met => Spent(c, y)
        /\ \A i, j \in J : i = j
        /\ J # {} => ~Waits(c, "JOIN", y) /\ f \notin Met
        /\ Waits(c, "JOIN", y) /\ e = "OUTGOING_REQUEST" => f \notin Met
        /\ J # {} => \/ e = "OUTGOING_REQUEST"
                     \/ f = "OUTGOING_REQUEST" /\ From(r, y, "JOIN") = {} /\ ~Waits(d, "JOIN", x)
        /\ From(b, x, "ACCEPT") # {} => e \in Established
        /\ \A i \in J, j \in From(b, x, "ACCEPT") : i < j
        /\ From(b, x, "CANCEL") # {} =>
              /\ f = "OUTGOING_REQUEST" /\ e = "NONE" /\ ~Unattached(c) /\ J = {}
              /\ From(r, y, "JOIN") = {} /\ ~Waits(d, "JOIN", x)

BothWays(x, y, c, d, b, r) == Pair(x, y, c, d, b, r) /\ Pair(y, x, d, c, r, b)

Pairs(n, c, F, B) == \A m \in Nodes \ {n} : BothWays(n, m, c, F[m], B[m], B[n])

OrderlyIn(F, B, g) ==
    \A n \in Nodes : Own(n, F[n], B[n], g[n], F) /\ Pairs(n, F[n], F, B)

-----------------------------------------------------------------------------
(* How the steps of x, from the context c to the context a, change what it *)
(* has to do with y.                                                       *)

LEMMA PairQuiet ==
    ASSUME NEW x, NEW y, NEW c, NEW d, NEW b, NEW r, NEW a, BothWays(x, y, c, d, b, r),
           a.mode = c.mode, St(a, y) = St(c, y), Waits(a, "JOIN", y) => Waits(c, "JOIN", y),
           Unattached(a) => Unattached(c)
    PROVE  BothWays(x, y, a, d, b, r)
BY DEF BothWays, Pair, Spent

LEMMA PairAsks ==
    ASSUME NEW x, NEW y, NEW c, NEW d, NEW b, NEW r, NEW a, BothWays(x, y, c, d, b, r),
           a.mode = c.mode, St(c, y) = "OFFER", St(a, y) = "OUTGOING_REQUEST", Unattached(c)
    PROVE  BothWays(x, y, a, d, b, r)
BY DEF BothWays, Pair, Spent, Met, Established

LEMMA PairTakes ==
    ASSUME NEW x, NEW y, NEW c, NEW d, NEW b, NEW r, NEW a, BothWays(x, y, c, d, b, r),
           a.mode = c.mode, St(c, y) = "INCOMING_REQUEST", St(a, y) \in {"CHILD", "P2P"}, ~Unattached(a),
           Waits(a, "JOIN", y) => Waits(c, "JOIN", y)
    PROVE  BothWays(x, y, a, d, b, r)
BY DEF BothWays, Pair, Spent, Met, Established

LEMMA PairHello ==
    ASSUME NEW x, NEW y, NEW c, NEW d, NEW b, NEW r, NEW a, BothWays(x, y, c, d, b, r),
           a.mode = c.mode, St(c, y) = "NONE", St(a, y) = "OFFER", Unattached(c), d.mode # "CHILD",
           Waits(a, "JOIN", y) => Waits(c, "JOIN", y)
    PROVE  BothWays(x, y, a, d, b, r)
BY DEF BothWays, Pair, Spent, Met, Established

(* The request of y has been taken out of the box, r before.               *)
LEMMA PairAsked ==
    ASSUME NEW x, NEW y, NEW c, NEW d, NEW b, NEW r, NEW s, NEW a,
           BothWays(x, y, c, d, b, r), BothWays(x, y, c, d, b, s),
           From(r, y, "JOIN") # {}, From(s, y, "JOIN") = {},
           \A op \in {"ACCEPT", "CANCEL"} : From(s, y, op) # {} => From(r, y, op) # {},
           a.mode = c.mode, St(a, y) = "INCOMING_REQUEST",
           Waits(a, "JOIN", y) => Waits(c, "JOIN", y)
    PROVE  BothWays(x, y, a, d, b, s)
BY DEF BothWays, Pair, Spent, Met, Established

LEMMA PairRefuses ==
    ASSUME NEW x, NEW y, NEW c, NEW d, NEW b, NEW r, NEW s, NEW a,
           BothWays(x, y, c, d, b, r), BothWays(x, y, c, d, b, s),
           From(r, y, "JOIN") # {}, From(s, y, "JOIN") = {},
           \A op \in {"ACCEPT", "CANCEL"} : From(s, y, op) # {} => From(r, y, op) # {},
           a.mode = c.mode, St(c, y) # "OUTGOING_REQUEST", St(a, y) = "NONE", ~Unattached(a),
           Waits(a, "JOIN", y) => Waits(c, "JOIN", y)
    PROVE  /\ BothWays(x, y, a, d, b, s)
           /\ St(d, x) = "OUTGOING_REQUEST" /\ ~Waits(d, "JOIN", x)
           /\ From(b, x, "JOIN") = {}
BY DEF BothWays, Pair, Spent, Met, Established

LEMMA PairAnswered ==
    ASSUME NEW x, NEW y, NEW c, NEW d, NEW b, NEW r, NEW s, NEW a,
           BothWays(x, y, c, d, b, r), BothWays(x, y, c, d, b, s),
           From(r, y, "ACCEPT") # {}, From(s, y, "JOIN") = {},
           a.mode = c.mode, St(c, y) = "OUTGOING_REQUEST", St(a, y) \in {"PARENT", "P2P"}, ~Unattached(a),
           Waits(a, "JOIN", y) => Waits(c, "JOIN", y)
    PROVE  BothWays(x, y, a, d, b, s)
<1>1. St(d, x) \in Established
  BY DEF BothWays, Pair
<1> QED
  BY <1>1 DEF BothWays, Pair, Spent, Met, Established

(* x has found a parent or a partner, and forgets the others.              *)
LEMMA PairForgets ==
    ASSUME NEW x, NEW y, NEW c, NEW d, NEW b, NEW r, NEW a, BothWays(x, y, c, d, b, r),
           a.mode = c.mode, Unattached(c), ~Unattached(a), St(c, y) # "OUTGOING_REQUEST",
           St(a, y) = "NONE", St(c, y) \notin Established,
           Waits(a, "JOIN", y) => Waits(c, "JOIN", y)
    PROVE  BothWays(x, y, a, d, b, r)
BY DEF BothWays, Pair, Spent, Met, Established

(* x is a child that hears of a sibling.                                   *)
LEMMA PairSibling ==
    ASSUME NEW x, NEW y, NEW c, NEW d, NEW b, NEW r, NEW a, BothWays(x, y, c, d, b, r),
           c.mode = "CHILD", a.mode = "CHILD", ~Unattached(a), St(a, y) = "CHILD",
           St(c, y) # "OUTGOING_REQUEST",
           From(b, x, "ACCEPT") = {}, From(b, x, "CANCEL") = {}, From(r, y, "JOIN") = {},
           Waits(a, "JOIN", y) => Waits(c, "JOIN", y)
    PROVE  BothWays(x, y, a, d, b, r)
BY DEF BothWays, Pair, Spent, Met, Established

(* A packet less in the box r of x, one more or less in its order.         *)
LEMMA PairLess ==
    ASSUME NEW x, NEW y, NEW c, NEW d, NEW b, NEW r, NEW s, BothWays(x, y, c, d, b, r),
           NEW h, \A op \in {"JOIN", "ACCEPT", "CANCEL"} : \A i \in From(s, y, op) : h[i] \in From(r, y, op),
           \A op \in {"JOIN", "ACCEPT", "CANCEL"} : \A i \in From(s, y, "JOIN"), j \in From(s, y, op) :
              /\ h[i] = h[j] => i = j
              /\ h[i] < h[j] => i < j
    PROVE  BothWays(x, y, c, d, b, s)
<1>1. \A op \in {"JOIN", "ACCEPT", "CANCEL"} : From(s, y, op) # {} => From(r, y, op) # {}
  OBVIOUS
<1>2. From(r, y, "JOIN") = {} => From(s, y, "JOIN") = {}
  BY <1>1
<1>3. (\A i, j \in From(r, y, "JOIN") : i = j) => \A i, j \in From(s, y, "JOIN") : i = j
  OBVIOUS
<1>4. (\A i \in From(r, y, "JOIN"), j \in From(r, y, "ACCEPT") : i < j)
      => \A i \in From(s, y, "JOIN"), j \in From(s, y, "ACCEPT") : i < j
  OBVIOUS
<1>5. Pair(x, y, c, d, b, s)
  BY <1>2 DEF BothWays, Pair
<1>6. Pair(y, x, d, c, s, b)
  BY <1>1, <1>2, <1>3, <1>4 DEF BothWays, Pair
<1> QED
  BY <1>5, <1>6 DEF BothWays

(* New packets of x at the end of the box b of y.                          *)
LEMMA PairPosts ==
    ASSUME NEW x, NEW y, NEW c, NEW d, NEW b, NEW r, NEW t, BothWays(x, y, c, d, b, r),
           NEW L \in Nat, NEW new,
           \A op \in {"JOIN", "ACCEPT", "CANCEL"} :
              /\ From(b, x, op) \subseteq 1..L
              /\ From(t, x, op) \subseteq From(b, x, op) \cup {i \in Nat : i > L /\ op \in new},
           \A i, j \in From(t, x, "JOIN") : i > L /\ j > L => i = j,
           "JOIN" \in new => /\ St(c, y) = "OUTGOING_REQUEST" /\ ~Waits(c, "JOIN", y)
                             /\ From(b, x, "JOIN") = {} /\ St(d, x) \notin Met
                             /\ From(r, y, "JOIN") # {} => St(d, x) = "OUTGOING_REQUEST"
                             /\ From(r, y, "CANCEL") = {},
           "ACCEPT" \in new => St(c, y) \in Established,
           "CANCEL" \in new => /\ St(d, x) = "OUTGOING_REQUEST" /\ St(c, y) = "NONE" /\ ~Unattached(c)
                               /\ From(b, x, "JOIN") = {} /\ From(r, y, "JOIN") = {}
                               /\ ~Waits(d, "JOIN", x)
    PROVE  BothWays(x, y, c, d, t, r)
<1> DEFINE J == From(b, x, "JOIN")
           I == From(t, x, "JOIN")
           A == From(b, x, "ACCEPT")
           H == From(t, x, "ACCEPT")
           K == From(b, x, "CANCEL")
           G == From(t, x, "CANCEL")
<1>1. /\ J \subseteq 1..L /\ A \subseteq 1..L
      /\ I \subseteq J \cup {i \in Nat : i > L /\ "JOIN" \in new}
      /\ H \subseteq A \cup {i \in Nat : i > L /\ "ACCEPT" \in new}
      /\ G \subseteq K \cup {i \in Nat : i > L /\ "CANCEL" \in new}
  OBVIOUS
<1>2. /\ \A i, j \in J : i = j
      /\ \A i \in J, j \in A : i < j
      /\ A # {} => St(c, y) \in Established
  BY DEF BothWays, Pair
<1>3. "OUTGOING_REQUEST" \notin Established /\ "NONE" \notin Established
  BY DEF Established
<1> HIDE DEF J, I, A, H, K, G
<1>4. \A i, j \in I : i = j
  BY <1>1, <1>2 DEF J, I
<1>5. \A i \in I, j \in H : i < j
  <2> SUFFICES ASSUME NEW i \in I, NEW j \in H PROVE i < j
    OBVIOUS
  <2>1. CASE i \in J
    BY <1>1, <1>2, <2>1
  <2>2. CASE "JOIN" \in new
    BY <1>1, <1>2, <1>3, <2>2
  <2> QED
    BY <1>1, <2>1, <2>2
<1>6. I # {} => J # {} \/ "JOIN" \in new
  BY <1>1
<1>7. H # {} => A # {} \/ "ACCEPT" \in new
  BY <1>1
<1>8. G # {} => K # {} \/ "CANCEL" \in new
  BY <1>1
<1>9. "JOIN" \notin new /\ J = {} => I = {}
  BY <1>6
<1>10. Pair(x, y, c, d, t, r)
  BY <1>3, <1>4, <1>5, <1>6, <1>7, <1>8, <1>9 DEF BothWays, Pair, Spent, J, I, A, H, K, G
<1>11. Pair(y, x, d, c, r, t)
  BY <1>3, <1>6, <1>9 DEF BothWays, Pair, J, I
<1> QED
  BY <1>10, <1>11 DEF BothWays

-----------------------------------------------------------------------------
(* Events and messages of a context.                                       *)
Quiet(c) == \A i \in DOMAIN c.events : c.events[i].event \notin {"LEAVE", "BYE", "TIMEOUT"}

LEMMA SpawnStates ==
    ASSUME NEW c \in Context, Shape(c), NEW event \in EventNames, NEW m \in Nodes
    PROVE  LET d == Spawn(c, event, m)
           IN  /\ SameButList(c, d) /\ d.peers = c.peers /\ Shape(d)
               /\ \A k \in Nodes : St(d, k) = St(c, k)
               /\ \A g, k : Hears(d, g, k) <=> Hears(c, g, k) \/ (event = "ESTABLISHED" /\ k = m)
               /\ Quiet(c) /\ event \notin {"LEAVE", "BYE", "TIMEOUT"} => Quiet(d)
<1> DEFINE d == Spawn(c, event, m)
           E == [event : EventNames, mac : Nodes]
           ev == Event(event, m)
           l == <<ev>> \o c.events
<1>1. SameButList(c, d) /\ d.peers = c.peers /\ d.events = l
  <2>1. Calm(c, d) /\ d.peers = c.peers
    BY SpawnIsCalm
  <2> QED
    BY <2>1 DEF Calm, Spawn, Context, Event
<1>2. c.events \in Seq(E) /\ ev \in E
  BY DEF Context, Event
<1> HIDE DEF E, ev, d
<1>3. /\ DOMAIN l = 1..(Len(c.events) + 1) /\ DOMAIN c.events = 1..Len(c.events) /\ Len(c.events) \in Nat
      /\ l[1] = ev /\ \A i \in DOMAIN l : i # 1 => i - 1 \in DOMAIN c.events /\ l[i] = c.events[i - 1]
      /\ \A i \in DOMAIN c.events : i + 1 \in DOMAIN l /\ l[i + 1] = c.events[i]
      /\ 1 \in DOMAIN l
  BY <1>2
<1> HIDE DEF l
<1>4. ev = Event("ESTABLISHED", m) <=> event = "ESTABLISHED"
  BY DEF ev, Event
<1>5. ASSUME NEW g, NEW k
      PROVE  Hears(d, g, k) <=> Hears(c, g, k) \/ (event = "ESTABLISHED" /\ k = m)
  <2>0. ev = Event("ESTABLISHED", k) <=> event = "ESTABLISHED" /\ k = m
    BY DEF ev, Event
  <2>1. (\E i \in DOMAIN l : l[i] = Event("ESTABLISHED", k))
        <=> (\E i \in DOMAIN c.events : c.events[i] = Event("ESTABLISHED", k)) \/ ev = Event("ESTABLISHED", k)
    BY <1>3
  <2> QED
    BY <1>1, <2>0, <2>1 DEF Hears
<1>6. Quiet(c) /\ event \notin {"LEAVE", "BYE", "TIMEOUT"} => Quiet(d)
  <2>1. ev.event = event
    BY DEF ev, Event
  <2> QED
    BY <1>1, <1>3, <2>1 DEF Quiet
<1>7. \A i \in DOMAIN c.peers : Alike(d.peers[i], c.peers[i])
  BY <1>1 DEF Alike
<1>8. Shape(d) /\ \A k \in Nodes : St(d, k) = St(c, k)
  BY <1>1, <1>7, SameStates DEF SameButList
<1> QED
  BY <1>1, <1>5, <1>6, <1>8 DEF d

LEMMA PushStates ==
    ASSUME NEW c \in Context, Shape(c), NEW op \in MessageOps, NEW m \in Nodes
    PROVE  LET d == PushInput(c, op, m)
           IN  /\ d \in Context /\ d.mode = c.mode /\ d.phase = c.phase /\ d.maxpeers = c.maxpeers
               /\ d.peers = c.peers /\ d.events = c.events /\ Shape(d)
               /\ \A k \in Nodes : St(d, k) = St(c, k)
               /\ \A o, k : Waits(d, o, k) <=> Waits(c, o, k) \/ (o = op /\ k = m)
               /\ \A n, R : /\ Queued(n, c, R) /\ m \in R
                            /\ op # "BULK_ABORT" => m # n
                            /\ op \in {"JOIN", "ACCEPT", "BIRTH", "BULK", "BULK_ABORT"}
                            /\ op = "ACCEPT" => c.mode # "CHILD" /\ St(c, m) \in Established
                            /\ op = "BIRTH" => c.mode = "PARENT" /\ St(c, m) = "CHILD"
                            /\ op = "JOIN" => ~Waits(c, "JOIN", m)
                            /\ R \subseteq Nodes
                            => Queued(n, d, R)
<1> DEFINE M == [op : MessageOps, mac : Nodes]
           msg == [op |-> op, mac |-> m]
           l == <<msg>> \o c.input
           d == [c EXCEPT !.input = l]
<1>1. c.input \in Seq(M) /\ msg \in M /\ msg.op = op /\ msg.mac = m
  BY DEF Context
<1> HIDE DEF M, msg
<1>2. /\ DOMAIN l = 1..(Len(c.input) + 1) /\ DOMAIN c.input = 1..Len(c.input) /\ Len(c.input) \in Nat
      /\ l[1] = msg /\ \A i \in DOMAIN l : i # 1 => i - 1 \in DOMAIN c.input /\ l[i] = c.input[i - 1]
      /\ \A i \in DOMAIN c.input : i + 1 \in DOMAIN l /\ l[i + 1] = c.input[i]
      /\ 1 \in DOMAIN l /\ l \in Seq(M)
  BY <1>1
<1>3. PushInput(c, op, m) = d
  BY DEF PushInput, d, l, msg
<1> HIDE DEF l
<1>4. d \in Context /\ d.mode = c.mode /\ d.phase = c.phase /\ d.maxpeers = c.maxpeers
      /\ d.peers = c.peers /\ d.events = c.events /\ d.input = l
  BY <1>2 DEF Context, M
<1> HIDE DEF d
<1>5. \A i \in DOMAIN c.peers : Alike(d.peers[i], c.peers[i])
  BY <1>4 DEF Alike
<1>6. Shape(d) /\ \A k \in Nodes : St(d, k) = St(c, k)
  BY <1>4, <1>5, SameStates
<1>7. ASSUME NEW o, NEW k
      PROVE  Waits(d, o, k) <=> Waits(c, o, k) \/ (o = op /\ k = m)
  <2>1. (\E i \in DOMAIN l : l[i].op = o /\ l[i].mac = k)
        <=> (\E i \in DOMAIN c.input : c.input[i].op = o /\ c.input[i].mac = k) \/ (msg.op = o /\ msg.mac = k)
    <3> HIDE DEF M
    <3>1. ASSUME NEW i \in DOMAIN l, l[i].op = o, l[i].mac = k
          PROVE  (\E j \in DOMAIN c.input : c.input[j].op = o /\ c.input[j].mac = k) \/ (msg.op = o /\ msg.mac = k)
      BY <1>2, <3>1
    <3>2. ASSUME NEW j \in DOMAIN c.input, c.input[j].op = o, c.input[j].mac = k
          PROVE  \E i \in DOMAIN l : l[i].op = o /\ l[i].mac = k
      BY <1>2, <3>2
    <3>3. msg.op = o /\ msg.mac = k => \E i \in DOMAIN l : l[i].op = o /\ l[i].mac = k
      BY <1>2
    <3> QED
      BY <3>1, <3>2, <3>3
  <2> QED
    BY <1>1, <1>4, <2>1 DEF Waits
<1>8. ASSUME NEW n, NEW R, Queued(n, c, R), op # "BULK_ABORT" => m # n, m \in R, R \subseteq Nodes,
             op \in {"JOIN", "ACCEPT", "BIRTH", "BULK", "BULK_ABORT"},
             op = "ACCEPT" => c.mode # "CHILD" /\ St(c, m) \in Established,
             op = "BIRTH" => c.mode = "PARENT" /\ St(c, m) = "CHILD",
             op = "JOIN" => ~Waits(c, "JOIN", m)
      PROVE  Queued(n, d, R)
  <2>1. ASSUME NEW i \in DOMAIN l
        PROVE  /\ l[i].op # "BULK_ABORT" => l[i].mac # n
               /\ l[i].mac \in R
               /\ l[i].op \in {"JOIN", "ACCEPT", "BIRTH", "BULK", "BULK_ABORT"}
               /\ l[i].op = "ACCEPT" => d.mode # "CHILD" /\ St(d, l[i].mac) \in Established
               /\ l[i].op = "BIRTH" => d.mode = "PARENT" /\ St(d, l[i].mac) = "CHILD"
    <3>1. CASE i = 1
      BY <1>1, <1>2, <1>4, <1>6, <1>8, <3>1
    <3>2. CASE i # 1
      <4>1. i - 1 \in DOMAIN c.input /\ l[i] = c.input[i - 1]
        BY <1>2, <3>2
      <4>2. /\ l[i].op # "BULK_ABORT" => l[i].mac # n
            /\ l[i].mac \in R
            /\ l[i].op \in {"JOIN", "ACCEPT", "BIRTH", "BULK", "BULK_ABORT"}
            /\ l[i].op = "ACCEPT" => c.mode # "CHILD" /\ St(c, l[i].mac) \in Established
            /\ l[i].op = "BIRTH" => c.mode = "PARENT" /\ St(c, l[i].mac) = "CHILD"
        BY <1>8, <4>1 DEF Queued
      <4>3. St(d, l[i].mac) = St(c, l[i].mac)
        BY <1>6, <1>8, <4>2
      <4> QED
        BY <1>4, <4>2, <4>3
    <3> QED
      BY <3>1, <3>2
  <2>2. ASSUME NEW i \in DOMAIN l, NEW j \in DOMAIN l, l[i].op = "JOIN", l[j] = l[i]
        PROVE  i = j
    <3>1. CASE i = 1 /\ j = 1
      BY <3>1
    <3>2. CASE i = 1 /\ j # 1
      <4>1. j - 1 \in DOMAIN c.input /\ c.input[j - 1] = msg
        BY <1>2, <2>2, <3>2
      <4>2. op = "JOIN" /\ Waits(c, "JOIN", m)
        BY <1>1, <1>2, <2>2, <3>2, <4>1 DEF Waits
      <4> QED
        BY <1>8, <4>2
    <3>3. CASE i # 1 /\ j = 1
      <4>1. i - 1 \in DOMAIN c.input /\ c.input[i - 1] = msg
        BY <1>2, <2>2, <3>3
      <4>2. op = "JOIN" /\ Waits(c, "JOIN", m)
        BY <1>1, <1>2, <2>2, <3>3, <4>1 DEF Waits
      <4> QED
        BY <1>8, <4>2
    <3>4. CASE i # 1 /\ j # 1
      <4>1. i - 1 \in DOMAIN c.input /\ l[i] = c.input[i - 1] /\ j - 1 \in DOMAIN c.input /\ l[j] = c.input[j - 1]
        BY <1>2, <3>4
      <4>2. i - 1 = j - 1
        BY <1>8, <2>2, <4>1 DEF Queued
      <4> QED
        BY <1>2, <4>2
    <3> QED
      BY <3>1, <3>2, <3>3, <3>4
  <2> QED
    BY <1>4, <2>1, <2>2 DEF Queued
<1> QED
  BY <1>3, <1>4, <1>6, <1>7, <1>8

-----------------------------------------------------------------------------
(* The steps of one player, seen by all.                                   *)
LEMMA QueuedKept ==
    ASSUME NEW n, NEW c, NEW a, NEW R, NEW Q, Queued(n, c, R), R \subseteq Nodes, R \subseteq Q,
           a.input = c.input \/ DOMAIN a.input = {}, a.mode = c.mode,
           \A m \in Nodes : St(c, m) \in Established => St(a, m) = St(c, m)
    PROVE  Queued(n, a, Q)
<1>1. CASE DOMAIN a.input = {}
  BY <1>1 DEF Queued
<1>2. CASE a.input = c.input
  <2>1. "CHILD" \in Established
    BY DEF Established
  <2> QED
    BY <1>2, <2>1 DEF Queued
<1> QED
  BY <1>1, <1>2

LEMMA InformedKept ==
    ASSUME NEW c, NEW a, NEW g, NEW h, Informed(c, g), Quiet(a), a.mode = c.mode, NEW E,
           \A m \in Nodes : Hears(a, h, m) <=> Hears(c, g, m) \/ m \in E,
           \A m \in Nodes \cap E : St(a, m) \in PartnerStates(c),
           \A m \in Nodes : St(c, m) \in PartnerStates(c) => St(a, m) = St(c, m),
           \A m \in Nodes \ E : St(a, m) \in PartnerStates(c) =>
              Waits(a, "ACCEPT", m) \/ (St(c, m) = St(a, m) /\ ~Waits(c, "ACCEPT", m))
    PROVE  Informed(a, h)
<1>1. PartnerStates(a) = PartnerStates(c)
  BY DEF PartnerStates
<1> QED
  BY <1>1 DEF Informed, Quiet

(* What another context sees of one that has not changed its mode and has  *)
(* not left the air.                                                       *)
LEMMA LetterKept ==
    ASSUME NEW n, NEW mode, NEW p, NEW F, NEW H, Letter(n, mode, p, F), OnAir(F) \subseteq OnAir(H),
           \A m \in Nodes : H[m].mode = F[m].mode
    PROVE  Letter(n, mode, p, H)
<1>1. p.from \in Nodes
  BY DEF Letter, OnAir
<1> QED
  BY <1>1 DEF Letter

LEMMA QueuedMore ==
    ASSUME NEW n, NEW c, NEW R, NEW Q, Queued(n, c, R), R \subseteq Q
    PROVE  Queued(n, c, Q)
BY DEF Queued

LEMMA OwnKept ==
    ASSUME NEW n \in Nodes, NEW c, NEW b, NEW g, NEW F, NEW H, Own(n, c, b, g, F), OnAir(F) \subseteq OnAir(H),
           \A m \in Nodes : H[m].mode = F[m].mode
    PROVE  Own(n, c, b, g, H)
<1>1. Queued(n, c, OnAir(H))
  BY QueuedMore DEF Own
<1>2. \A i \in DOMAIN b : Letter(n, c.mode, b[i], H)
  BY LetterKept DEF Own
<1> QED
  BY <1>1, <1>2 DEF Own

LEMMA ContextStep ==
    ASSUME NEW F \in [Nodes -> Context], NEW B, NEW g, OrderlyIn(F, B, g), NEW n \in Nodes, NEW a \in Context, NEW h,
           a.mode = F[n].mode, n \in OnAir(F) => a.phase = "running",
           Own(n, a, B[n], h, [F EXCEPT ![n] = a]),
           \A m \in Nodes \ {n} : BothWays(n, m, a, F[m], B[m], B[n]),
           g \in [Nodes -> SUBSET Nodes]
    PROVE  OrderlyIn([F EXCEPT ![n] = a], B, [g EXCEPT ![n] = h])
<1> DEFINE H == [F EXCEPT ![n] = a]
           G == [g EXCEPT ![n] = h]
<1>1. /\ H[n] = a /\ G[n] = h
      /\ \A m \in Nodes \ {n} : H[m] = F[m] /\ G[m] = g[m]
      /\ \A m \in Nodes : H[m].mode = F[m].mode
  OBVIOUS
<1> HIDE DEF H, G
<1>2. OnAir(F) \subseteq OnAir(H)
  BY <1>1 DEF OnAir
<1>3. \A m \in Nodes : Own(m, H[m], B[m], G[m], H)
  <2> SUFFICES ASSUME NEW m \in Nodes PROVE Own(m, H[m], B[m], G[m], H)
    OBVIOUS
  <2>1. CASE m = n
    BY <1>1, <2>1 DEF H
  <2>2. CASE m # n
    <3>1. Own(m, F[m], B[m], g[m], F)
      BY DEF OrderlyIn
    <3>2. Own(m, F[m], B[m], g[m], H)
      BY <1>1, <1>2, <3>1, OwnKept
    <3> QED
      BY <1>1, <2>2, <3>2
  <2> QED
    BY <2>1, <2>2
<1>4. \A k \in Nodes : Pairs(k, H[k], H, B)
  <2> SUFFICES ASSUME NEW k \in Nodes, NEW m \in Nodes \ {k}
               PROVE  BothWays(k, m, H[k], H[m], B[m], B[k])
    BY DEF Pairs
  <2>1. CASE k = n
    BY <1>1, <2>1
  <2>2. CASE m = n
    <3>1. BothWays(n, k, a, F[k], B[k], B[n])
      BY <2>2
    <3> QED
      BY <1>1, <2>2, <3>1 DEF BothWays
  <2>3. CASE k # n /\ m # n
    <3>1. BothWays(k, m, F[k], F[m], B[m], B[k])
      BY DEF OrderlyIn, Pairs
    <3> QED
      BY <1>1, <2>3, <3>1
  <2> QED
    BY <2>1, <2>2, <2>3
<1> QED
  BY <1>3, <1>4 DEF OrderlyIn, H, G

(* A packet leaves a box.                                                  *)
LEMMA BoxLess ==
    ASSUME NEW r \in Seq(PacketRecord), NEW i \in DOMAIN r
    PROVE  LET s == RemoveAt(r, i)
               h == [j \in DOMAIN s |-> IF j < i THEN j ELSE j + 1]
           IN  /\ s \in Seq(PacketRecord)
               /\ \A j \in DOMAIN s : h[j] \in DOMAIN r /\ h[j] # i /\ s[j] = r[h[j]]
               /\ \A j, k \in DOMAIN s : h[j] = h[k] => j = k
               /\ \A j, k \in DOMAIN s : h[j] < h[k] => j < k
               /\ \A y, op : \A j \in From(s, y, op) : j \in DOMAIN s /\ h[j] \in From(r, y, op)
<1> DEFINE s == RemoveAt(r, i)
           h == [j \in DOMAIN s |-> IF j < i THEN j ELSE j + 1]
<1>1. /\ s \in Seq(PacketRecord) /\ DOMAIN s = 1..(Len(r) - 1) /\ DOMAIN r = 1..Len(r) /\ Len(r) \in Nat
      /\ \A j \in 1..(Len(r) - 1) : s[j] = r[IF j < i THEN j ELSE j + 1]
  <2>1. /\ RemoveAt(r, i) \in Seq(PacketRecord) /\ DOMAIN RemoveAt(r, i) = 1..(Len(r) - 1)
        /\ \A j \in 1..(Len(r) - 1) : RemoveAt(r, i)[j] = r[IF j < i THEN j ELSE j + 1]
    BY RemoveAtFacts
  <2>2. DOMAIN r = 1..Len(r) /\ Len(r) \in Nat
    OBVIOUS
  <2> QED
    BY <2>1, <2>2
<1> HIDE DEF s
<1>2. \A j \in DOMAIN s : h[j] = IF j < i THEN j ELSE j + 1
  OBVIOUS
<1> HIDE DEF h
<1>3. \A j \in DOMAIN s : h[j] \in DOMAIN r /\ h[j] # i /\ s[j] = r[h[j]]
  BY <1>1, <1>2
<1>4. \A j, k \in DOMAIN s : h[j] = h[k] => j = k
  BY <1>1, <1>2
<1>5. \A j, k \in DOMAIN s : h[j] < h[k] => j < k
  BY <1>1, <1>2
<1>6. \A y, op : \A j \in From(s, y, op) : j \in DOMAIN s /\ h[j] \in From(r, y, op)
  BY <1>3 DEF From
<1> QED
  BY <1>1, <1>3, <1>4, <1>5, <1>6 DEF s, h

LEMMA BothWaysLess ==
    ASSUME NEW x, NEW y, NEW c, NEW d, NEW b, NEW r \in Seq(PacketRecord), NEW i \in DOMAIN r,
           BothWays(x, y, c, d, b, r)
    PROVE  BothWays(x, y, c, d, b, RemoveAt(r, i))
<1> DEFINE s == RemoveAt(r, i)
           h == [j \in DOMAIN s |-> IF j < i THEN j ELSE j + 1]
<1>1. /\ \A j, k \in DOMAIN s : h[j] = h[k] => j = k
      /\ \A j, k \in DOMAIN s : h[j] < h[k] => j < k
      /\ \A op : \A j \in From(s, y, op) : j \in DOMAIN s /\ h[j] \in From(r, y, op)
  BY BoxLess
<1> HIDE DEF s, h
<1>2. BothWays(x, y, c, d, b, s)
  BY <1>1, PairLess
<1> QED
  BY <1>2 DEF s

LEMMA RemoveStep ==
    ASSUME NEW F \in [Nodes -> Context], NEW B \in [Nodes -> Seq(PacketRecord)], NEW g, OrderlyIn(F, B, g),
           NEW n \in Nodes, NEW i \in DOMAIN B[n]
    PROVE  OrderlyIn(F, [B EXCEPT ![n] = RemoveAt(B[n], i)], g)
<1> DEFINE r == B[n]
           s == RemoveAt(r, i)
           D == [B EXCEPT ![n] = s]
<1>1. D[n] = s /\ (\A m \in Nodes \ {n} : D[m] = B[m]) /\ r \in Seq(PacketRecord)
  OBVIOUS
<1> HIDE DEF D, r
<1>2. i \in DOMAIN r
  BY DEF r
<1>3. \A m \in Nodes : Own(m, F[m], D[m], g[m], F)
  <2> SUFFICES ASSUME NEW m \in Nodes PROVE Own(m, F[m], D[m], g[m], F)
    OBVIOUS
  <2>1. Own(m, F[m], B[m], g[m], F)
    BY DEF OrderlyIn
  <2>2. CASE m = n
    <3>1. r # <<>>
      BY <1>2
    <3>2. \A j \in DOMAIN s : \E k \in DOMAIN r : s[j] = r[k]
      <4> DEFINE h == [j \in DOMAIN s |-> IF j < i THEN j ELSE j + 1]
      <4>1. \A j \in DOMAIN s : h[j] \in DOMAIN r /\ s[j] = r[h[j]]
        BY <1>1, <1>2, BoxLess
      <4> HIDE DEF h
      <4> QED
        BY <4>1
    <3> HIDE DEF s
    <3>3. Own(n, F[n], r, g[n], F) /\ n \in OnAir(F)
      BY <2>1, <2>2, <3>1 DEF Own, r
    <3>4. Own(n, F[n], s, g[n], F)
      BY <3>2, <3>3 DEF Own
    <3> QED
      BY <1>1, <2>2, <3>4
  <2>3. CASE m # n
    BY <1>1, <2>1, <2>3
  <2> QED
    BY <2>2, <2>3
<1>4. \A k \in Nodes : Pairs(k, F[k], F, D)
  <2> SUFFICES ASSUME NEW k \in Nodes, NEW m \in Nodes \ {k}
               PROVE  BothWays(k, m, F[k], F[m], D[m], D[k])
    BY DEF Pairs
  <2>0. BothWays(k, m, F[k], F[m], B[m], B[k])
    BY DEF OrderlyIn, Pairs
  <2>1. CASE k = n
    <3>1. BothWays(k, m, F[k], F[m], B[m], s)
      BY <1>1, <1>2, <2>0, <2>1, BothWaysLess DEF r
    <3> QED
      BY <1>1, <2>1, <3>1
  <2>2. CASE m = n
    <3>1. BothWays(n, k, F[n], F[k], B[k], r)
      BY <2>0, <2>2 DEF BothWays, r
    <3>2. BothWays(n, k, F[n], F[k], B[k], s)
      BY <1>1, <1>2, <3>1, BothWaysLess
    <3> QED
      BY <1>1, <2>2, <3>2 DEF BothWays
  <2>3. CASE k # n /\ m # n
    BY <1>1, <2>0, <2>3
  <2> QED
    BY <2>1, <2>2, <2>3
<1> QED
  BY <1>3, <1>4 DEF OrderlyIn, D, s, r

-----------------------------------------------------------------------------
(* New packets of x for y, who has the box b before.                       *)
Mailable(x, y, c, d, b, r, op) ==
    /\ op = "JOIN" => /\ St(c, y) = "OUTGOING_REQUEST" /\ ~Waits(c, "JOIN", y)
                      /\ From(b, x, "JOIN") = {} /\ St(d, x) \notin Met
                      /\ From(r, y, "JOIN") # {} => St(d, x) = "OUTGOING_REQUEST"
                      /\ From(r, y, "CANCEL") = {}
    /\ op = "ACCEPT" => St(c, y) \in Established
    /\ op = "CANCEL" => /\ St(d, x) = "OUTGOING_REQUEST" /\ St(c, y) = "NONE" /\ ~Unattached(c)
                        /\ From(b, x, "JOIN") = {} /\ From(r, y, "JOIN") = {}
                        /\ ~Waits(d, "JOIN", x)

(* The box b has become t with packets of x at its end.                    *)
Grown(b, t, x) ==
    /\ b \in Seq(PacketRecord) /\ t \in Seq(PacketRecord)
    /\ DOMAIN b \subseteq DOMAIN t /\ \A i \in DOMAIN b : t[i] = b[i]
    /\ \A i \in DOMAIN t \ DOMAIN b : t[i].from = x
    /\ \A i, j \in DOMAIN t \ DOMAIN b : t[i].op = "JOIN" /\ t[j].op = "JOIN" => i = j

LEMMA GrownFrom ==
    ASSUME NEW b, NEW t, NEW x, Grown(b, t, x), NEW y, NEW op
    PROVE  /\ y # x => From(t, y, op) = From(b, y, op)
           /\ From(b, y, op) \subseteq DOMAIN b
           /\ \A i \in From(t, x, op) : i \in From(b, x, op) \/ i \in DOMAIN t \ DOMAIN b
BY DEF Grown, From

LEMMA BothWaysGrown ==
    ASSUME NEW x, NEW y, NEW c, NEW d, NEW b, NEW r, NEW t, BothWays(x, y, c, d, b, r), Grown(b, t, x),
           \A i \in DOMAIN t \ DOMAIN b : Mailable(x, y, c, d, b, r, t[i].op)
    PROVE  BothWays(x, y, c, d, t, r)
<1> DEFINE L == Len(b)
           new == {t[i].op : i \in DOMAIN t \ DOMAIN b}
<1>1. L \in Nat /\ DOMAIN b = 1..L /\ DOMAIN t \subseteq Nat \ {0}
  BY DEF Grown
<1>2. \A i \in DOMAIN t \ DOMAIN b : i \in Nat /\ i > L
  BY <1>1
<1>3. \A i \in DOMAIN t \ DOMAIN b : t[i].op \in new
  OBVIOUS
<1>4. \A op \in new : Mailable(x, y, c, d, b, r, op)
  OBVIOUS
<1> HIDE DEF L, new
<1>5. \A op : From(b, x, op) \subseteq 1..L
  BY <1>1 DEF From
<1>6. \A op : \A i \in From(t, x, op) : i \in From(b, x, op) \/ (i \in Nat /\ i > L /\ op \in new)
  <2> SUFFICES ASSUME NEW op, NEW i \in From(t, x, op), i \notin From(b, x, op)
               PROVE  i \in Nat /\ i > L /\ op \in new
    OBVIOUS
  <2>1. i \in DOMAIN t \ DOMAIN b /\ t[i].op = op
    BY GrownFrom DEF From
  <2> QED
    BY <1>2, <1>3, <2>1
<1>7. \A i, j \in From(t, x, "JOIN") : i > L /\ j > L => i = j
  <2> SUFFICES ASSUME NEW i \in From(t, x, "JOIN"), NEW j \in From(t, x, "JOIN"), i > L, j > L
               PROVE  i = j
    OBVIOUS
  <2>1. i \in DOMAIN t /\ i \notin DOMAIN b /\ t[i].op = "JOIN" /\ j \in DOMAIN t /\ j \notin DOMAIN b /\ t[j].op = "JOIN"
    BY <1>1 DEF From
  <2> QED
    BY <2>1 DEF Grown
<1>8. \A op \in {"JOIN", "ACCEPT", "CANCEL"} :
         /\ From(b, x, op) \subseteq 1..L
         /\ From(t, x, op) \subseteq From(b, x, op) \cup {i \in Nat : i > L /\ op \in new}
  BY <1>5, <1>6
<1>9. "JOIN" \in new => /\ St(c, y) = "OUTGOING_REQUEST" /\ ~Waits(c, "JOIN", y)
                        /\ From(b, x, "JOIN") = {} /\ St(d, x) \notin Met
                        /\ From(r, y, "JOIN") # {} => St(d, x) = "OUTGOING_REQUEST"
                        /\ From(r, y, "CANCEL") = {}
  BY <1>4 DEF Mailable
<1>10. "ACCEPT" \in new => St(c, y) \in Established
  BY <1>4 DEF Mailable
<1>11. "CANCEL" \in new => /\ St(d, x) = "OUTGOING_REQUEST" /\ St(c, y) = "NONE" /\ ~Unattached(c)
                           /\ From(b, x, "JOIN") = {} /\ From(r, y, "JOIN") = {}
                           /\ ~Waits(d, "JOIN", x)
  BY <1>4 DEF Mailable
<1> QED
  BY <1>1, <1>7, <1>8, <1>9, <1>10, <1>11, PairPosts

LEMMA BothWaysSame ==
    ASSUME NEW x, NEW y, NEW c, NEW d, NEW b, NEW r, NEW t, NEW s, BothWays(x, y, c, d, b, r),
           \A op : From(t, x, op) = From(b, x, op) /\ From(s, y, op) = From(r, y, op)
    PROVE  BothWays(x, y, c, d, t, s)
BY DEF BothWays, Pair

LEMMA PostStep ==
    ASSUME NEW F, NEW B, NEW g, OrderlyIn(F, B, g), NEW n \in Nodes, NEW T, T[n] = B[n],
           \A k \in Nodes \ {n} :
              /\ Grown(B[k], T[k], n)
              /\ \A i \in DOMAIN T[k] \ DOMAIN B[k] :
                    /\ k \in OnAir(F) /\ Letter(k, F[k].mode, T[k][i], F)
                    /\ Mailable(n, k, F[n], F[k], B[k], B[n], T[k][i].op)
    PROVE  OrderlyIn(F, T, g)
<1>1. \A m \in Nodes : Own(m, F[m], T[m], g[m], F)
  <2> SUFFICES ASSUME NEW m \in Nodes PROVE Own(m, F[m], T[m], g[m], F)
    OBVIOUS
  <2>1. Own(m, F[m], B[m], g[m], F)
    BY DEF OrderlyIn
  <2>2. CASE m = n
    BY <2>1, <2>2
  <2>3. CASE m # n
    <3>1. Grown(B[m], T[m], n)
      BY <2>3
    <3>2. \A i \in DOMAIN T[m] : Letter(m, F[m].mode, T[m][i], F)
      <4> SUFFICES ASSUME NEW i \in DOMAIN T[m] PROVE Letter(m, F[m].mode, T[m][i], F)
        OBVIOUS
      <4>1. CASE i \in DOMAIN B[m]
        BY <2>1, <3>1, <4>1 DEF Own, Grown
      <4>2. CASE i \notin DOMAIN B[m]
        BY <2>3, <4>2
      <4> QED
        BY <4>1, <4>2
    <3>3. m \notin OnAir(F) => T[m] = <<>>
      <4> SUFFICES ASSUME m \notin OnAir(F) PROVE T[m] = <<>>
        OBVIOUS
      <4>1. B[m] = <<>> /\ T[m] \in Seq(PacketRecord)
        BY <2>1, <3>1 DEF Own, Grown
      <4>2. DOMAIN T[m] = {}
        BY <2>3, <4>1
      <4> QED
        BY <4>1, <4>2
    <3> QED
      BY <2>1, <3>2, <3>3 DEF Own
  <2> QED
    BY <2>2, <2>3
<1>2. \A k \in Nodes : Pairs(k, F[k], F, T)
  <2> SUFFICES ASSUME NEW k \in Nodes, NEW m \in Nodes \ {k}
               PROVE  BothWays(k, m, F[k], F[m], T[m], T[k])
    BY DEF Pairs
  <2>0. BothWays(k, m, F[k], F[m], B[m], B[k])
    BY DEF OrderlyIn, Pairs
  <2>1. CASE k = n
    <3>1. BothWays(k, m, F[k], F[m], T[m], B[k])
      BY <2>0, <2>1, BothWaysGrown
    <3> QED
      BY <2>1, <3>1
  <2>2. CASE m = n
    <3>1. BothWays(n, k, F[n], F[k], B[k], B[n])
      BY <2>0, <2>2 DEF BothWays
    <3>2. BothWays(n, k, F[n], F[k], T[k], B[n])
      BY <2>2, <3>1, BothWaysGrown
    <3> QED
      BY <2>2, <3>2 DEF BothWays
  <2>3. CASE k # n /\ m # n
    <3>1. \A op : From(T[m], k, op) = From(B[m], k, op) /\ From(T[k], m, op) = From(B[k], m, op)
      BY <2>3, GrownFrom
    <3> QED
      BY <2>0, <3>1, BothWaysSame
  <2> QED
    BY <2>1, <2>2, <2>3
<1> QED
  BY <1>1, <1>2 DEF OrderlyIn

(* What a player posts ends up behind what is in the boxes.                *)
Carries(b, t, out, k, h) ==
    /\ b \in Seq(PacketRecord) /\ t \in Seq(PacketRecord)
    /\ DOMAIN b \subseteq DOMAIN t /\ \A i \in DOMAIN b : t[i] = b[i]
    /\ \A i \in DOMAIN t \ DOMAIN b : h[i] \in DOMAIN out /\ out[h[i]].to = k /\ t[i] = out[h[i]]
    /\ \A i, j \in DOMAIN t \ DOMAIN b : h[i] = h[j] => i = j

LEMMA PostedIs ==
    ASSUME NEW boxes \in [Nodes -> Seq(PacketRecord)], NEW out \in Seq(PacketRecord), NEW k \in Nodes
    PROVE  LET b == boxes[k]
               t == Posted(boxes, out)[k]
           IN  /\ ctx[k].phase = "none" => t = b
               /\ ctx[k].phase # "none" => \A j \in DOMAIN out : out[j].to = k =>
                     \E i \in DOMAIN t \ DOMAIN b : t[i] = out[j]
               /\ \E h : Carries(b, t, out, k, h)
<1> DEFINE b == boxes[k]
           t == Posted(boxes, out)[k]
           I == {i \in DOMAIN out : out[i].to = k}
           mine == Picked(out, I)
           K == Cardinality(I)
           L == Len(b)
<1>1. t = IF ctx[k].phase = "none" THEN b ELSE b \o mine
  BY DEF Posted
<1>2. I \in SUBSET DOMAIN out /\ b \in Seq(PacketRecord)
  OBVIOUS
<1>3. /\ mine \in Seq(PacketRecord) /\ DOMAIN mine = 1..K /\ K \in Nat
      /\ \A i \in 1..K : Nth(I, i) \in I /\ mine[i] = out[Nth(I, i)]
      /\ \A i, j \in 1..K : Nth(I, i) = Nth(I, j) => i = j
  <2> HIDE DEF I
  <2> QED
    BY <1>2, PickedFacts
<1>4. \A j \in I : \E i \in 1..K : mine[i] = out[j]
  <2> HIDE DEF I
  <2> QED
    BY <1>2, <1>3, PickedOnto
<1>5. \A j \in I : j \in DOMAIN out /\ out[j].to = k
  OBVIOUS
<1>6. \A j \in DOMAIN out : out[j].to = k => j \in I
  OBVIOUS
<1>7. L \in Nat /\ DOMAIN b = 1..L /\ Len(mine) = K
  BY <1>2, <1>3
<1> HIDE DEF b, t, I, mine, K
<1> DEFINE u == b \o mine
<1>8. /\ u \in Seq(PacketRecord) /\ DOMAIN u = 1..(L + K)
      /\ \A i \in 1..(L + K) : u[i] = IF i <= L THEN b[i] ELSE mine[i - L]
  <2>1. b \in Seq(PacketRecord) /\ mine \in Seq(PacketRecord)
    BY <1>2, <1>3
  <2>2. /\ u \in Seq(PacketRecord) /\ Len(u) = Len(b) + Len(mine)
        /\ \A i \in 1..(Len(b) + Len(mine)) : u[i] = IF i <= Len(b) THEN b[i] ELSE mine[i - Len(b)]
    BY <2>1, ConcatProperties
  <2> HIDE DEF u
  <2> QED
    BY <1>7, <2>2
<1> HIDE DEF L, u
<1>9. DOMAIN b \subseteq DOMAIN u /\ \A i \in DOMAIN b : u[i] = b[i]
  BY <1>3, <1>7, <1>8
<1>10. \A i \in DOMAIN u \ DOMAIN b : i - L \in 1..K /\ u[i] = mine[i - L] /\ i \in Nat
  BY <1>3, <1>7, <1>8
<1>11. \A i \in 1..K : i + L \in DOMAIN u \ DOMAIN b /\ (i + L) - L = i
  BY <1>3, <1>7, <1>8
<1> DEFINE h == [i \in DOMAIN u \ DOMAIN b |-> Nth(I, i - L)]
<1>12. \A i \in DOMAIN u \ DOMAIN b : h[i] \in DOMAIN out /\ out[h[i]].to = k /\ u[i] = out[h[i]]
  BY <1>3, <1>5, <1>10
<1>13. \A i, j \in DOMAIN u \ DOMAIN b : h[i] = h[j] => i = j
  <2> SUFFICES ASSUME NEW i \in DOMAIN u \ DOMAIN b, NEW j \in DOMAIN u \ DOMAIN b, h[i] = h[j] PROVE i = j
    OBVIOUS
  <2>1. i - L \in 1..K /\ j - L \in 1..K /\ Nth(I, i - L) = Nth(I, j - L) /\ i \in Nat /\ j \in Nat
    BY <1>10
  <2>2. i - L = j - L
    BY <1>3, <2>1
  <2> QED
    BY <1>7, <2>1, <2>2
<1> HIDE DEF h
<1>14. Carries(b, u, out, k, h)
  BY <1>2, <1>8, <1>9, <1>12, <1>13 DEF Carries
<1>15. \A j \in DOMAIN out : out[j].to = k => \E i \in DOMAIN u \ DOMAIN b : u[i] = out[j]
  <2> SUFFICES ASSUME NEW j \in DOMAIN out, out[j].to = k PROVE \E i \in DOMAIN u \ DOMAIN b : u[i] = out[j]
    OBVIOUS
  <2>1. PICK i \in 1..K : mine[i] = out[j]
    BY <1>4, <1>6
  <2>2. i + L \in DOMAIN u \ DOMAIN b /\ u[i + L] = mine[i]
    BY <1>10, <1>11
  <2> QED
    BY <2>1, <2>2
<1>16. Carries(b, b, out, k, h)
  BY <1>2 DEF Carries
<1>17. /\ ctx[k].phase = "none" => t = b
       /\ ctx[k].phase # "none" => t = u
  BY <1>1 DEF u
<1> QED
  BY <1>14, <1>15, <1>16, <1>17 DEF t, b

-----------------------------------------------------------------------------
(* The contexts F, the boxes B and the games g of a play without trouble.  *)
Playing(F, B, g) ==
    /\ F \in [Nodes -> Context] /\ B \in [Nodes -> Seq(PacketRecord)] /\ g \in [Nodes -> SUBSET Nodes]
    /\ \A n \in Nodes : Sane(F[n])
    /\ OrderlyIn(F, B, g)

LEMMA OutStep ==
    ASSUME NEW F, NEW B, NEW g, Playing(F, B, g), NEW n \in Nodes, NEW out \in Seq(PacketRecord),
           \A j \in DOMAIN out :
              /\ out[j].from = n /\ out[j].to \in OnAir(F) \ {n}
              /\ Letter(out[j].to, F[out[j].to].mode, out[j], F)
              /\ Mailable(n, out[j].to, F[n], F[out[j].to], B[out[j].to], B[n], out[j].op),
           \A i, j \in DOMAIN out : out[i].op = "JOIN" /\ out[j].op = "JOIN" /\ out[i].to = out[j].to => i = j
    PROVE  Playing(F, Posted(B, out), g)
<1> DEFINE T == Posted(B, out)
<1>1. B \in [Nodes -> Seq(PacketRecord)] /\ OrderlyIn(F, B, g)
  BY DEF Playing
<1>2. \A k \in Nodes : \E h : Carries(B[k], T[k], out, k, h)
  BY <1>1, PostedIs
<1>3. T = [k \in Nodes |-> T[k]]
  BY DEF Posted
<1> HIDE DEF T
<1>4. \A k \in Nodes : B[k] \in Seq(PacketRecord) /\ T[k] \in Seq(PacketRecord)
  BY <1>2 DEF Carries
<1>5. T[n] = B[n]
  <2>1. PICK h : Carries(B[n], T[n], out, n, h)
    BY <1>2
  <2>2. DOMAIN T[n] \ DOMAIN B[n] = {}
    BY <2>1 DEF Carries
  <2>3. DOMAIN T[n] = DOMAIN B[n]
    BY <2>1, <2>2 DEF Carries
  <2>4. T[n] \in Seq(PacketRecord) /\ B[n] \in Seq(PacketRecord)
    BY <1>4
  <2>5. \A i \in DOMAIN B[n] : T[n][i] = B[n][i]
    BY <2>1 DEF Carries
  <2> QED
    BY <2>3, <2>4, <2>5
<1>6. ASSUME NEW k \in Nodes \ {n}
      PROVE  /\ Grown(B[k], T[k], n)
             /\ \A i \in DOMAIN T[k] \ DOMAIN B[k] :
                    /\ k \in OnAir(F) /\ Letter(k, F[k].mode, T[k][i], F)
                    /\ Mailable(n, k, F[n], F[k], B[k], B[n], T[k][i].op)
  <2>1. PICK h : Carries(B[k], T[k], out, k, h)
    BY <1>2
  <2>2. \A i \in DOMAIN T[k] \ DOMAIN B[k] : h[i] \in DOMAIN out /\ out[h[i]].to = k /\ T[k][i] = out[h[i]]
    BY <2>1 DEF Carries
  <2>3. \A i, j \in DOMAIN T[k] \ DOMAIN B[k] : T[k][i].op = "JOIN" /\ T[k][j].op = "JOIN" => i = j
    <3> SUFFICES ASSUME NEW i \in DOMAIN T[k] \ DOMAIN B[k], NEW j \in DOMAIN T[k] \ DOMAIN B[k],
                        T[k][i].op = "JOIN", T[k][j].op = "JOIN"
                 PROVE  i = j
      OBVIOUS
    <3>1. h[i] = h[j]
      BY <2>2
    <3> QED
      BY <2>1, <3>1 DEF Carries
  <2>4. Grown(B[k], T[k], n)
    BY <2>1, <2>2, <2>3 DEF Grown, Carries
  <2> QED
    BY <2>2, <2>4
<1>7. OrderlyIn(F, T, g)
  BY <1>1, <1>5, <1>6, PostStep
<1>8. T \in [Nodes -> Seq(PacketRecord)]
  BY <1>3, <1>4
<1> QED
  BY <1>7, <1>8 DEF Playing, T

LEMMA OnePlayer ==
    ASSUME NEW F, NEW B, NEW g, Playing(F, B, g), NEW n \in Nodes, NEW a, NEW h \in SUBSET Nodes, Sane(a),
           a.mode = F[n].mode, n \in OnAir(F) => a.phase = "running",
           Own(n, a, B[n], h, [F EXCEPT ![n] = a]),
           \A m \in Nodes \ {n} : BothWays(n, m, a, F[m], B[m], B[n])
    PROVE  Playing([F EXCEPT ![n] = a], B, [g EXCEPT ![n] = h])
<1>1. a \in Context /\ F \in [Nodes -> Context] /\ g \in [Nodes -> SUBSET Nodes] /\ OrderlyIn(F, B, g)
  BY DEF Sane, Playing
<1>2. OrderlyIn([F EXCEPT ![n] = a], B, [g EXCEPT ![n] = h])
  BY <1>1, ContextStep
<1>3. [F EXCEPT ![n] = a] \in [Nodes -> Context] /\ [g EXCEPT ![n] = h] \in [Nodes -> SUBSET Nodes]
  BY <1>1
<1>4. \A k \in Nodes : Sane([F EXCEPT ![n] = a][k])
  BY <1>1 DEF Playing
<1> QED
  BY <1>2, <1>3, <1>4 DEF Playing

(* The handler of a packet changes the list from c to a, and tells the     *)
(* game that it is connected with the members of E.                        *)
Handled(n, c, a, g, E, R) ==
    /\ SameButList(c, a) /\ Tidy(n, a) /\ Quiet(a)
    /\ \A m \in Nodes : Hears(a, g, m) <=> Hears(c, g, m) \/ m \in E
    /\ \A m \in Nodes \cap E : St(a, m) \in PartnerStates(c)
    /\ \A m \in Nodes : /\ St(a, m) # "NONE" => St(c, m) # "NONE" \/ m \in R
                        /\ St(c, m) \in Established => St(a, m) = St(c, m)
                        /\ St(a, m) \in PartnerStates(c) => m \in E \/ St(a, m) = St(c, m)

LEMMA HandlerStep ==
    ASSUME NEW F, NEW B, NEW g, Playing(F, B, g), NEW n \in OnAir(F), NEW a, Fits(a), Within(a), NEW E,
           Handled(n, F[n], a, g[n], E, OnAir(F)),
           \A m \in Nodes \ {n} : BothWays(n, m, a, F[m], B[m], B[n])
    PROVE  Playing([F EXCEPT ![n] = a], B, g)
<1> DEFINE c == F[n]
           H == [F EXCEPT ![n] = a]
<1>1. n \in Nodes /\ c.phase = "running" /\ g[n] \in SUBSET Nodes /\ F \in [Nodes -> Context]
      /\ g \in [Nodes -> SUBSET Nodes]
  BY DEF OnAir, Playing
<1>2. a \in Context /\ a.phase = "running" /\ a.mode = c.mode /\ a.input = c.input
  BY <1>1 DEF Handled, SameButList
<1>3. Sane(a)
  BY <1>2 DEF Sane, Handled, Tidy
<1>4. OnAir(F) \subseteq OnAir(H) /\ \A m \in Nodes : H[m].mode = F[m].mode
  BY <1>1, <1>2 DEF OnAir
<1>5. Own(n, c, B[n], g[n], H) /\ n \in OnAir(H)
  <2>1. Own(n, c, B[n], g[n], F)
    BY <1>1 DEF Playing, OrderlyIn
  <2> HIDE DEF c, H
  <2> QED
    BY <1>1, <1>4, <2>1, OwnKept
<1>6. \A m \in Nodes : St(a, m) # "NONE" => m \in OnAir(H)
  BY <1>4, <1>5 DEF Own, Handled
<1> HIDE DEF H
<1>7. Queued(n, a, OnAir(H))
  <2>1. Queued(n, c, OnAir(H)) /\ OnAir(H) \subseteq Nodes
    BY <1>5 DEF Own, OnAir
  <2> HIDE DEF c
  <2>2. \A m \in Nodes : St(c, m) \in Established => St(a, m) = St(c, m)
    BY DEF Handled, c
  <2> QED
    BY <1>2, <2>1, <2>2, QueuedKept
<1>8. Informed(a, g[n])
  <2>1. Informed(c, g[n])
    BY <1>5 DEF Own
  <2>2. \A m \in Nodes : St(c, m) \in PartnerStates(c) => St(a, m) = St(c, m)
    BY DEF Handled, PartnerStates, Established
  <2>3. \A m \in Nodes \ E : St(a, m) \in PartnerStates(c) =>
              Waits(a, "ACCEPT", m) \/ (St(c, m) = St(a, m) /\ ~Waits(c, "ACCEPT", m))
    BY <1>2 DEF Handled, Waits
  <2>4. Quiet(a) /\ (\A m \in Nodes : Hears(a, g[n], m) <=> Hears(c, g[n], m) \/ m \in E)
        /\ \A m \in Nodes \cap E : St(a, m) \in PartnerStates(c)
    BY DEF Handled
  <2> HIDE DEF c
  <2> QED
    BY <1>2, <2>1, <2>2, <2>3, <2>4, InformedKept
<1>9. Own(n, a, B[n], g[n], H)
  <2>1. Tidy(n, a)
    BY DEF Handled
  <2>2. \A i \in DOMAIN B[n] : Letter(n, a.mode, B[n][i], H)
    BY <1>2, <1>5 DEF Own
  <2> QED
    BY <1>5, <1>6, <1>7, <1>8, <2>1, <2>2 DEF Own
<1>10. Playing(H, B, [g EXCEPT ![n] = g[n]])
  BY <1>1, <1>2, <1>3, <1>9, OnePlayer DEF H
<1>11. [g EXCEPT ![n] = g[n]] = g
  BY <1>1
<1> QED
  BY <1>10, <1>11 DEF H

LEMMA PlayerIs ==
    ASSUME NEW F, NEW B, NEW g, Playing(F, B, g), NEW n \in OnAir(F)
    PROVE  /\ n \in Nodes /\ F[n] \in Context /\ Sane(F[n]) /\ Shape(F[n]) /\ F[n].phase = "running"
           /\ Tidy(n, F[n]) /\ Quiet(F[n]) /\ Fits(F[n]) /\ Within(F[n])
           /\ \A m \in Nodes : St(F[n], m) # "NONE" => m \in OnAir(F)
           /\ \A i \in DOMAIN B[n] : Letter(n, F[n].mode, B[n][i], F)
           /\ \A m \in Nodes \ {n} : BothWays(n, m, F[n], F[m], B[m], B[n])
           /\ B[n] \in Seq(PacketRecord) /\ g[n] \in SUBSET Nodes
           /\ Queued(n, F[n], OnAir(F)) /\ Informed(F[n], g[n])
BY DEF Playing, OrderlyIn, Own, OnAir, Sane, Pairs, Informed, Quiet

LEMMA QuietStep ==
    ASSUME NEW F, NEW B, NEW g, Playing(F, B, g), NEW n \in OnAir(F), NEW a,
           SameButList(F[n], a), Shape(a), Fits(a), Within(a), Quiet(a),
           \A m \in Nodes : St(a, m) = St(F[n], m),
           \A m : Hears(a, g[n], m) <=> Hears(F[n], g[n], m)
    PROVE  Playing([F EXCEPT ![n] = a], B, g)
<1> DEFINE c == F[n]
<1>1. n \in Nodes /\ Sane(c) /\ Tidy(n, c) /\ \A m \in Nodes \ {n} : BothWays(n, m, c, F[m], B[m], B[n])
  BY PlayerIs
<1>2. a \in Context /\ a.mode = c.mode /\ a.input = c.input
  BY DEF SameButList
<1>3. Sane(a)
  BY <1>2 DEF Sane
<1>4. Unattached(a) <=> Unattached(c)
  BY <1>1, <1>2, <1>3, UnattachedIs
<1>5. Tidy(n, a)
  BY <1>1, <1>2, <1>4 DEF Tidy
<1>6. Handled(n, c, a, g[n], {}, OnAir(F))
  BY <1>5 DEF Handled
<1>7. \A m \in Nodes \ {n} : BothWays(n, m, a, F[m], B[m], B[n])
  <2> SUFFICES ASSUME NEW m \in Nodes \ {n} PROVE BothWays(n, m, a, F[m], B[m], B[n])
    OBVIOUS
  <2>1. BothWays(n, m, c, F[m], B[m], B[n])
    BY <1>1
  <2>2. Waits(a, "JOIN", m) => Waits(c, "JOIN", m)
    BY <1>2 DEF Waits
  <2>3. St(a, m) = St(c, m)
    OBVIOUS
  <2> HIDE DEF c
  <2> QED
    BY <1>2, <1>4, <2>1, <2>2, <2>3, PairQuiet
<1> QED
  BY <1>6, <1>7, HandlerStep

(* Nothing happens.                                                        *)
LEMMA NoStep ==
    ASSUME NEW F, NEW B, NEW g, Playing(F, B, g), NEW n \in OnAir(F)
    PROVE  Playing([F EXCEPT ![n] = F[n]], B, g)
<1>1. [F EXCEPT ![n] = F[n]] = F
  BY DEF Playing
<1> QED
  BY <1>1

(* The list after a HELLO of y.                                            *)
LEMMA HelloStates ==
    ASSUME NEW c, Sane(c), NEW y \in Nodes
    PROVE  LET a == ActOnHello(c, y)
           IN  /\ SameButList(c, a) /\ Shape(a) /\ (Quiet(c) => Quiet(a))
               /\ \A g, k : Hears(a, g, k) <=> Hears(c, g, k)
               /\ \A k \in Nodes : St(a, k) = IF Unattached(c) /\ St(c, y) = "NONE" THEN With(c, y, "OFFER", k)
                                               ELSE St(c, k)
<1> DEFINE a == ActOnHello(c, y)
<1>1. c \in Context /\ Shape(c) /\ "HELLO" \in EventNames /\ "HELLO" \notin {"LEAVE", "BYE", "TIMEOUT", "ESTABLISHED"}
  BY DEF Sane, EventNames
<1>2. CASE ~Unattached(c)
  <2>1. a = c
    BY <1>2 DEF ActOnHello
  <2> HIDE DEF a
  <2> QED
    BY <1>1, <1>2, <2>1 DEF SameButList, a
<1>3. CASE Unattached(c) /\ St(c, y) # "NONE"
  <2>1. a = Spawn(c, "HELLO", y)
    BY <1>1, <1>3, StIs DEF ActOnHello
  <2> HIDE DEF a
  <2>2. /\ SameButList(c, a) /\ Shape(a) /\ (Quiet(c) => Quiet(a))
        /\ \A g, k : Hears(a, g, k) <=> Hears(c, g, k)
        /\ \A k \in Nodes : St(a, k) = St(c, k)
    BY <1>1, <2>1, SpawnStates
  <2> QED
    BY <1>3, <2>2 DEF a
<1>4. CASE Unattached(c) /\ St(c, y) = "NONE"
  <2> DEFINE d == Link(c, y, "OFFER", FALSE)
  <2>1. a = Spawn(d, "HELLO", y)
    BY <1>1, <1>4, StIs DEF ActOnHello
  <2> HIDE DEF a
  <2>2. "OFFER" \in FreeStates(c)
    BY <1>1, <1>4, FreeStatesAre DEF Unattached
  <2>3. SameButList(c, d) /\ d.events = c.events /\ Shape(d) /\ \A k \in Nodes : St(d, k) = With(c, y, "OFFER", k)
    BY <1>1, <1>4, <2>2, LinkStates
  <2>4. d \in Context /\ (Quiet(c) => Quiet(d)) /\ \A g, k : Hears(d, g, k) <=> Hears(c, g, k)
    BY <2>3 DEF SameButList, Quiet, Hears
  <2> HIDE DEF d
  <2>5. /\ SameButList(d, a) /\ Shape(a) /\ (Quiet(d) => Quiet(a))
        /\ \A k \in Nodes : St(a, k) = St(d, k)
        /\ \A g, k : Hears(a, g, k) <=> Hears(d, g, k)
    BY <1>1, <2>1, <2>3, <2>4, SpawnStates
  <2>6. SameButList(c, a)
    BY <2>3, <2>5 DEF SameButList
  <2> QED
    BY <1>4, <2>3, <2>4, <2>5, <2>6 DEF a
<1> QED
  BY <1>2, <1>3, <1>4

(* A HELLO.                                                                *)
LEMMA HelloStep ==
    ASSUME NEW F, NEW B, NEW g, Playing(F, B, g), NEW n \in OnAir(F), NEW y \in OnAir(F), y # n,
           F[y].mode # "CHILD", NEW a, a = ActOnHello(F[n], y), Fits(a), Within(a)
    PROVE  Playing([F EXCEPT ![n] = a], B, g)
<1> DEFINE c == F[n]
<1>1. /\ n \in Nodes /\ c \in Context /\ Sane(c) /\ Shape(c) /\ Tidy(n, c) /\ Quiet(c)
      /\ \A m \in Nodes \ {n} : BothWays(n, m, c, F[m], B[m], B[n])
  BY PlayerIs
<1>2. y \in Nodes
  BY DEF OnAir
<1>3. /\ SameButList(c, a) /\ Shape(a) /\ Quiet(a)
      /\ \A k : Hears(a, g[n], k) <=> Hears(c, g[n], k)
      /\ \A k \in Nodes : St(a, k) = IF Unattached(c) /\ St(c, y) = "NONE" THEN With(c, y, "OFFER", k)
                                      ELSE St(c, k)
  BY <1>1, <1>2, HelloStates
<1>4. CASE ~(Unattached(c) /\ St(c, y) = "NONE")
  <2>1. \A k \in Nodes : St(a, k) = St(c, k)
    BY <1>3, <1>4
  <2> QED
    BY <1>3, <2>1, QuietStep
<1>5. CASE Unattached(c) /\ St(c, y) = "NONE"
  <2>6. \A k \in Nodes : St(a, k) = With(c, y, "OFFER", k)
    BY <1>3, <1>5
  <2> HIDE DEF c
  <2>7. a \in Context /\ a.mode = c.mode /\ a.input = c.input /\ Sane(a)
    BY <1>3 DEF SameButList, Sane
  <2>8. Unattached(a)
    BY <1>1, <1>5, <2>6, <2>7, UnattachedIs DEF With
  <2>9. Tidy(n, a)
    BY <1>1, <1>3, <1>5, <2>6, <2>7, <2>8 DEF Tidy, With
  <2>10. Handled(n, c, a, g[n], {}, OnAir(F))
    <3>1. "OFFER" \notin Established /\ "OFFER" \notin PartnerStates(c) /\ "NONE" \notin Established
      BY DEF Established, PartnerStates
    <3> QED
      BY <1>3, <1>5, <2>6, <2>9, <3>1 DEF Handled, With
  <2>11. \A m \in Nodes \ {n} : BothWays(n, m, a, F[m], B[m], B[n])
    <3> SUFFICES ASSUME NEW m \in Nodes \ {n} PROVE BothWays(n, m, a, F[m], B[m], B[n])
      OBVIOUS
    <3>1. BothWays(n, m, c, F[m], B[m], B[n])
      BY <1>1
    <3>2. Waits(a, "JOIN", m) => Waits(c, "JOIN", m)
      BY <2>7 DEF Waits
    <3>3. CASE m = y
      <4>1. St(a, m) = "OFFER"
        BY <2>6, <3>3 DEF With
      <4> QED
        BY <1>5, <2>7, <3>1, <3>2, <3>3, <4>1, PairHello
    <3>4. CASE m # y
      <4>1. St(a, m) = St(c, m)
        BY <2>6, <3>4 DEF With
      <4> QED
        BY <1>5, <2>7, <3>1, <3>2, <4>1, PairQuiet
    <3> QED
      BY <3>3, <3>4
  <2> QED
    BY <2>10, <2>11, HandlerStep DEF c
<1> QED
  BY <1>4, <1>5

(* The list with the requests of y.                                        *)
LEMMA RequestedStates ==
    ASSUME NEW c \in Context, Shape(c), NEW y \in Nodes, c.mode # "CHILD", St(c, y) # "CHILD",
           c.mode = "PARENT" => St(c, y) = "NONE"
    PROVE  LET joining == c.mode = "P2P"
               d == IF Known(c, y) THEN Refresh(SetJoining(SetState(c, y, "INCOMING_REQUEST"), y, joining), y)
                    ELSE Link(c, y, "INCOMING_REQUEST", joining)
           IN  /\ SameButList(c, d) /\ d.events = c.events /\ Shape(d)
               /\ \A k \in Nodes : St(d, k) = With(c, y, "INCOMING_REQUEST", k)
<1> DEFINE joining == c.mode = "P2P"
           e == SetState(c, y, "INCOMING_REQUEST")
           f == SetJoining(e, y, joining)
           k == Refresh(f, y)
           d == IF Known(c, y) THEN k ELSE Link(c, y, "INCOMING_REQUEST", joining)
<1>1. joining \in BOOLEAN /\ "INCOMING_REQUEST" \in FreeStates(c) /\ "INCOMING_REQUEST" \in PeerStates
  BY FreeStatesAre DEF Context, Modes, PeerStates
<1> HIDE DEF joining
<1>2. CASE St(c, y) = "NONE"
  <2>1. d = Link(c, y, "INCOMING_REQUEST", joining)
    BY <1>2, StIs
  <2> HIDE DEF d
  <2>2. /\ SameButList(c, d) /\ d.events = c.events /\ Shape(d)
        /\ \A x \in Nodes : St(d, x) = With(c, y, "INCOMING_REQUEST", x)
    BY <1>1, <1>2, <2>1, LinkStates
  <2> QED
    BY <2>2 DEF d, k, f, e, joining
<1>3. CASE St(c, y) # "NONE"
  <2>1. d = k
    BY <1>3, StIs
  <2>2. /\ SameButList(c, e) /\ e.events = c.events /\ Shape(e)
        /\ \A x \in Nodes : St(e, x) = With(c, y, "INCOMING_REQUEST", x)
    BY <1>1, <1>3, StateStates
  <2> HIDE DEF e
  <2>3. e \in Context
    BY <2>2 DEF SameButList
  <2>4. /\ SameButList(e, f) /\ f.events = e.events /\ Shape(f)
        /\ \A x \in Nodes : St(f, x) = St(e, x)
    BY <1>1, <2>2, <2>3, FlagStates
  <2> HIDE DEF f
  <2>5. f \in Context
    BY <2>4 DEF SameButList
  <2>6. /\ SameButList(f, k) /\ k.events = f.events /\ Shape(k)
        /\ \A x \in Nodes : St(k, x) = St(f, x)
    <3>1. k \in {SetJoining(f, y, joining), SetSending(f, y, joining), SetLeaving(f, y), Refresh(f, y)}
      OBVIOUS
    <3> HIDE DEF k
    <3> QED
      BY <1>1, <2>4, <2>5, <3>1, FlagStates
  <2> HIDE DEF k, d
  <2>7. /\ SameButList(c, d) /\ d.events = c.events /\ Shape(d)
        /\ \A x \in Nodes : St(d, x) = With(c, y, "INCOMING_REQUEST", x)
    BY <2>1, <2>2, <2>4, <2>6 DEF SameButList
  <2> QED
    BY <2>7 DEF d, k, f, e, joining
<1> QED
  BY <1>2, <1>3

(* The box of n was r before the packet was taken.                         *)
Took(r, s, y, op) ==
    /\ From(r, y, op) # {}
    /\ From(s, y, "JOIN") = {}
    /\ \A o \in {"ACCEPT", "CANCEL"} : From(s, y, o) # {} => From(r, y, o) # {}

LEMMA JoinStep ==
    ASSUME NEW F, NEW B, NEW g, Playing(F, B, g), NEW n \in OnAir(F), NEW y \in OnAir(F), y # n,
           F[n].mode # "CHILD", NEW r, BothWays(n, y, F[n], F[y], B[y], r), Took(r, B[n], y, "JOIN"),
           NEW a, a = ActOnJoin(F[n], n, y).ctx, Fits(a), Within(a)
    PROVE  /\ Playing([F EXCEPT ![n] = a], B, g)
           /\ \/ ActOnJoin(F[n], n, y).out = <<>>
              \/ /\ ActOnJoin(F[n], n, y).out = <<Packet(n, y, "CANCEL")>>
                 /\ Mailable(n, y, a, F[y], B[y], B[n], "CANCEL")
<1> DEFINE c == F[n]
           res == ActOnJoin(c, n, y)
<1>1. /\ n \in Nodes /\ c \in Context /\ Sane(c) /\ Shape(c) /\ Tidy(n, c) /\ Quiet(c)
      /\ \A m \in Nodes \ {n} : BothWays(n, m, c, F[m], B[m], B[n])
  BY PlayerIs
<1>2. y \in Nodes /\ y \in Nodes \ {n} /\ "REQUEST" \in EventNames
      /\ "REQUEST" \notin {"LEAVE", "BYE", "TIMEOUT", "ESTABLISHED"}
  BY DEF OnAir, EventNames
<1>3. St(c, y) \notin Met
  BY DEF BothWays, Pair, Took
<1>4. c.mode \in {"PARENT", "P2P"} /\ (c.mode = "P2P" => (Unattached(c) <=> HasSlot(c)))
      /\ (c.mode = "PARENT" => ~Unattached(c))
  <2>1. c.mode \in {"PARENT", "P2P"}
    BY <1>1, FitsIs
  <2> QED
    BY <2>1 DEF Unattached, HasSlot
<1>5. BothWays(n, y, c, F[y], B[y], B[n]) /\ BothWays(n, y, c, F[y], B[y], r)
  BY <1>1, <1>2
<1>6. From(r, y, "JOIN") # {} /\ From(B[n], y, "JOIN") = {}
      /\ \A op \in {"ACCEPT", "CANCEL"} : From(B[n], y, op) # {} => From(r, y, op) # {}
  BY DEF Took
<1>7. CASE HasSlot(c) /\ Known(c, y) /\ c.mode = "PARENT"
  <2>1. res = Result(c, <<>>)
    BY <1>7 DEF ActOnJoin
  <2>2. res.ctx = c /\ res.out = <<>>
    BY <2>1, ResultIs
  <2> QED
    BY <2>2, NoStep
<1>8. CASE ~HasSlot(c)
  <2>1. res = SendCancel(c, n, y)
    BY <1>4, <1>8 DEF ActOnJoin
  <2>2. res.ctx = (IF ~Known(c, y) THEN c ELSE DeletePeer(c, y)) /\ res.out = <<Packet(n, y, "CANCEL")>>
    BY <1>4, <2>1, ResultIs DEF SendCancel
  <2> HIDE DEF res
  <2>3. a = IF ~Known(c, y) THEN c ELSE DeletePeer(c, y)
    BY <2>2 DEF res
  <2> HIDE DEF c
  <2>4. /\ SameButList(c, a) /\ a.events = c.events /\ Shape(a)
        /\ \A k \in Nodes : St(a, k) = With(c, y, "NONE", k)
    <3>1. CASE St(c, y) = "NONE"
      <4>1. a = c
        BY <1>1, <2>3, <3>1, StIs
      <4> QED
        BY <1>1, <3>1, <4>1 DEF SameButList, With
    <3>2. CASE St(c, y) # "NONE"
      <4>1. a = DeletePeer(c, y)
        BY <1>1, <2>3, <3>2, StIs
      <4>2. c.mode # "CHILD"
        BY <1>4
      <4> QED
        BY <1>1, <1>2, <3>2, <4>1, <4>2, DeleteStates
    <3> QED
      BY <3>1, <3>2
  <2>5. a \in Context /\ a.mode = c.mode /\ a.input = c.input /\ Sane(a)
    BY <2>4 DEF SameButList, Sane
  <2>6. ~Unattached(a) /\ ~Unattached(c) /\ St(c, y) # "OUTGOING_REQUEST"
    <3>1. CASE c.mode = "PARENT"
      BY <1>1, <1>2, <2>5, <3>1, FitsIs DEF Unattached
    <3>2. CASE c.mode = "P2P"
      <4>1. ~Unattached(c)
        BY <1>4, <1>8, <3>2
      <4>2. PICK m \in Nodes : St(c, m) \in {"PARENT", "P2P"}
        BY <1>1, <3>2, <4>1, UnattachedIs
      <4>3. m # y
        BY <1>3, <4>2 DEF Met, Established
      <4>4. ~Unattached(a)
        BY <2>4, <2>5, <4>2, <4>3, UnattachedIs DEF With
      <4>5. St(c, y) # "OUTGOING_REQUEST"
        <5>1. \A k, l \in Nodes : St(c, k) \in Bonds /\ St(c, l) \in Bonds => k = l
          BY <1>1, <3>2, BondIs
        <5> QED
          BY <1>2, <4>2, <4>3, <5>1 DEF Bonds
      <4> QED
        BY <4>1, <4>4, <4>5
    <3> QED
      BY <1>4, <3>1, <3>2
  <2>7. Tidy(n, a)
    BY <1>1, <1>4, <2>4, <2>5 DEF Tidy, With
  <2>8. Handled(n, c, a, g[n], {}, OnAir(F))
    <3>1. "NONE" \notin PartnerStates(c)
      BY DEF PartnerStates
    <3>2. Quiet(a) /\ \A m : Hears(a, g[n], m) <=> Hears(c, g[n], m)
      BY <1>1, <2>4 DEF Quiet, Hears
    <3> QED
      BY <1>3, <2>4, <2>7, <3>1, <3>2 DEF Handled, With, Met
  <2>9. St(a, y) = "NONE" /\ (Waits(a, "JOIN", y) => Waits(c, "JOIN", y))
    BY <1>2, <2>4, <2>5 DEF With, Waits
  <2>10. /\ BothWays(n, y, a, F[y], B[y], B[n])
         /\ St(F[y], n) = "OUTGOING_REQUEST" /\ ~Waits(F[y], "JOIN", n)
         /\ From(B[y], n, "JOIN") = {}
    BY <1>5, <1>6, <2>5, <2>6, <2>9, PairRefuses
  <2>11. \A m \in Nodes \ {n} : BothWays(n, m, a, F[m], B[m], B[n])
    <3> SUFFICES ASSUME NEW m \in Nodes \ {n}, m # y PROVE BothWays(n, m, a, F[m], B[m], B[n])
      BY <2>10
    <3>1. BothWays(n, m, c, F[m], B[m], B[n])
      BY <1>1
    <3>2. (Waits(a, "JOIN", m) => Waits(c, "JOIN", m)) /\ St(a, m) = St(c, m)
      BY <2>4, <2>5 DEF Waits, With
    <3> QED
      BY <2>5, <2>6, <3>1, <3>2, PairQuiet
  <2>12. Mailable(n, y, a, F[y], B[y], B[n], "CANCEL")
    BY <1>6, <2>6, <2>9, <2>10 DEF Mailable
  <2>13. Playing([F EXCEPT ![n] = a], B, g)
    BY <2>8, <2>11, HandlerStep DEF c
  <2> QED
    BY <2>2, <2>12, <2>13 DEF res, c
<1>9. CASE HasSlot(c) /\ ~(Known(c, y) /\ c.mode = "PARENT")
  <2> DEFINE joining == c.mode = "P2P"
             d == IF Known(c, y) THEN Refresh(SetJoining(SetState(c, y, "INCOMING_REQUEST"), y, joining), y)
                  ELSE Link(c, y, "INCOMING_REQUEST", joining)
  <2>1. res = Result(Spawn(d, "REQUEST", y), <<>>)
    BY <1>4, <1>9 DEF ActOnJoin
  <2>2. /\ SameButList(c, d) /\ d.events = c.events /\ Shape(d)
        /\ \A k \in Nodes : St(d, k) = With(c, y, "INCOMING_REQUEST", k)
    <3>1. St(c, y) # "CHILD" /\ (c.mode = "PARENT" => St(c, y) = "NONE") /\ c.mode # "CHILD"
      BY <1>1, <1>3, <1>4, <1>9, StIs DEF Met, Established
    <3> HIDE DEF c
    <3> QED
      BY <1>1, <1>2, <3>1, RequestedStates
  <2> HIDE DEF d, res
  <2>3. a = Spawn(d, "REQUEST", y) /\ res.out = <<>>
    BY <2>1, ResultIs DEF res
  <2> HIDE DEF c
  <2>4. d \in Context /\ Quiet(d) /\ \A k : Hears(d, g[n], k) <=> Hears(c, g[n], k)
    BY <1>1, <2>2 DEF SameButList, Quiet, Hears
  <2>5. /\ SameButList(d, a) /\ Shape(a) /\ Quiet(a)
        /\ \A k \in Nodes : St(a, k) = St(d, k)
        /\ \A k : Hears(a, g[n], k) <=> Hears(d, g[n], k)
    BY <1>2, <2>2, <2>3, <2>4, SpawnStates
  <2>6. /\ SameButList(c, a) /\ \A k \in Nodes : St(a, k) = With(c, y, "INCOMING_REQUEST", k)
        /\ \A k : Hears(a, g[n], k) <=> Hears(c, g[n], k)
    BY <2>2, <2>4, <2>5 DEF SameButList
  <2>7. a \in Context /\ a.mode = c.mode /\ a.input = c.input /\ Sane(a)
    BY <2>5, <2>6 DEF SameButList, Sane
  <2>8. Tidy(n, a)
    BY <1>1, <1>2, <1>4, <2>5, <2>6, <2>7 DEF Tidy, With
  <2>9. Handled(n, c, a, g[n], {}, OnAir(F))
    <3>1. "INCOMING_REQUEST" \notin PartnerStates(c)
      BY DEF PartnerStates
    <3> QED
      BY <1>3, <2>5, <2>6, <2>8, <3>1 DEF Handled, With, Met
  <2>10. Unattached(a) => Unattached(c)
    BY <1>4, <1>9, <2>7 DEF Unattached
  <2>11. \A m \in Nodes \ {n} : BothWays(n, m, a, F[m], B[m], B[n])
    <3> SUFFICES ASSUME NEW m \in Nodes \ {n} PROVE BothWays(n, m, a, F[m], B[m], B[n])
      OBVIOUS
    <3>1. BothWays(n, m, c, F[m], B[m], B[n])
      BY <1>1
    <3>2. Waits(a, "JOIN", m) => Waits(c, "JOIN", m)
      BY <2>7 DEF Waits
    <3>3. CASE m = y
      <4>1. St(a, y) = "INCOMING_REQUEST"
        BY <1>2, <2>6 DEF With
      <4> QED
        BY <1>5, <1>6, <2>7, <3>2, <3>3, <4>1, PairAsked
    <3>4. CASE m # y
      <4>1. St(a, m) = St(c, m)
        BY <2>6, <3>4 DEF With
      <4> QED
        BY <2>7, <2>10, <3>1, <3>2, <4>1, PairQuiet
    <3> QED
      BY <3>3, <3>4
  <2>12. Playing([F EXCEPT ![n] = a], B, g)
    BY <2>9, <2>11, HandlerStep DEF c
  <2> QED
    BY <2>3, <2>12 DEF res, c
<1> QED
  BY <1>7, <1>8, <1>9

LEMMA LeavingStates ==
    ASSUME NEW c \in Context, Shape(c), NEW m
    PROVE  LET d == SetLeaving(c, m)
           IN  /\ SameButList(c, d) /\ d.events = c.events /\ Shape(d)
               /\ \A x \in Nodes : St(d, x) = St(c, x)
<1> DEFINE d == SetLeaving(c, m)
<1>1. d \in {SetJoining(c, m, TRUE), SetSending(c, m, TRUE), SetLeaving(c, m), Refresh(c, m)}
  OBVIOUS
<1>2. TRUE \in BOOLEAN
  OBVIOUS
<1> HIDE DEF d
<1> QED
  BY <1>1, <1>2, FlagStates

(* A refusal is for one who still asks, and changes nothing but the flags. *)
LEMMA JoiningStates ==
    ASSUME NEW c \in Context, Shape(c), NEW m, NEW flag \in BOOLEAN
    PROVE  LET d == SetJoining(c, m, flag)
           IN  /\ SameButList(c, d) /\ d.events = c.events /\ Shape(d)
               /\ \A x \in Nodes : St(d, x) = St(c, x)
<1> DEFINE d == SetJoining(c, m, flag)
<1>1. d \in {SetJoining(c, m, flag), SetSending(c, m, flag), SetLeaving(c, m), Refresh(c, m)}
  OBVIOUS
<1> HIDE DEF d
<1> QED
  BY <1>1, FlagStates

(* The list after a CANCEL of y, whose answer was awaited.                 *)
LEMMA DeniedStates ==
    ASSUME NEW c, Sane(c), NEW y \in Nodes, St(c, y) = "OUTGOING_REQUEST", NEW n
    PROVE  LET a == ActOnCancel(c, n, y)
           IN  /\ SameButList(c, a) /\ Shape(a) /\ (Quiet(c) => Quiet(a))
               /\ \A g, k : Hears(a, g, k) <=> Hears(c, g, k)
               /\ \A k \in Nodes : St(a, k) = St(c, k)
<1> DEFINE e == SetJoining(c, y, FALSE)
           d == Spawn(e, "DENY", y)
           a == ActOnCancel(c, n, y)
<1>1. c \in Context /\ Shape(c)
  BY DEF Sane
<1>2. c.mode # "PARENT"
  BY FitsIs
<1>3. IsThe("OUTGOING_REQUEST", c, y) /\ Known(c, y)
  BY <1>1, <1>2, IsTheIs, StIs DEF Bonds
<1>4. CancelMeans(c, y) = "DENY"
  <2>1. ~IsThe("P2P", c, y) /\ StateOf(c, y) = "OUTGOING_REQUEST"
    BY <1>1, <1>2, IsTheIs, StIs DEF Bonds
  <2> QED
    BY <1>2, <1>3, <2>1 DEF CancelMeans
<1>5. a = SetLeaving(d, y)
  BY <1>3, <1>4 DEF ActOnCancel
<1> HIDE DEF a
<1>6. /\ SameButList(c, e) /\ e.events = c.events /\ Shape(e)
      /\ \A x \in Nodes : St(e, x) = St(c, x)
  <2>1. FALSE \in BOOLEAN
    OBVIOUS
  <2> QED
    BY <1>1, <2>1, JoiningStates
<1> HIDE DEF e
<1>7. e \in Context /\ (Quiet(c) => Quiet(e)) /\ \A g, k : Hears(e, g, k) <=> Hears(c, g, k)
  BY <1>6 DEF SameButList, Quiet, Hears
<1>8. /\ SameButList(e, d) /\ Shape(d) /\ (Quiet(e) => Quiet(d))
      /\ \A k \in Nodes : St(d, k) = St(e, k)
      /\ \A g, k : Hears(d, g, k) <=> Hears(e, g, k)
  <2>1. "DENY" \in EventNames /\ "DENY" \notin {"LEAVE", "BYE", "TIMEOUT", "ESTABLISHED"}
    BY DEF EventNames
  <2>2. d = Spawn(e, "DENY", y)
    OBVIOUS
  <2> HIDE DEF d
  <2> QED
    BY <1>6, <1>7, <2>1, <2>2, SpawnStates
<1> HIDE DEF d
<1>9. /\ SameButList(d, a) /\ a.events = d.events /\ Shape(a)
      /\ \A x \in Nodes : St(a, x) = St(d, x)
  <2>1. d \in Context
    BY <1>8 DEF SameButList
  <2> QED
    BY <1>5, <1>8, <2>1, LeavingStates
<1>10. SameButList(c, a) /\ \A k \in Nodes : St(a, k) = St(c, k)
  BY <1>6, <1>8, <1>9 DEF SameButList
<1>11. (Quiet(c) => Quiet(a)) /\ \A g, k : Hears(a, g, k) <=> Hears(c, g, k)
  BY <1>7, <1>8, <1>9 DEF Quiet, Hears
<1> QED
  BY <1>9, <1>10, <1>11 DEF a

(* A CANCEL: the answer to the own request.                                *)
LEMMA CancelStep ==
    ASSUME NEW F, NEW B, NEW g, Playing(F, B, g), NEW n \in OnAir(F), NEW y \in OnAir(F), y # n,
           NEW r, BothWays(n, y, F[n], F[y], B[y], r), From(r, y, "CANCEL") # {},
           NEW a, a = ActOnCancel(F[n], n, y), Fits(a), Within(a)
    PROVE  Playing([F EXCEPT ![n] = a], B, g)
<1>1. y \in Nodes /\ Sane(F[n]) /\ Quiet(F[n])
  BY PlayerIs DEF OnAir
<1>2. St(F[n], y) = "OUTGOING_REQUEST"
  BY DEF BothWays, Pair
<1>3. /\ SameButList(F[n], a) /\ Shape(a) /\ Quiet(a)
      /\ \A k : Hears(a, g[n], k) <=> Hears(F[n], g[n], k)
      /\ \A k \in Nodes : St(a, k) = St(F[n], k)
  BY <1>1, <1>2, DeniedStates
<1> QED
  BY <1>3, QuietStep

(* The list after data of y.                                               *)
LEMMA BulkStates ==
    ASSUME NEW c \in Context, Shape(c), NEW y \in Nodes
    PROVE  LET a == ActOnBulk(c, y)
           IN  /\ SameButList(c, a) /\ Shape(a) /\ (Quiet(c) => Quiet(a))
               /\ \A g, k : Hears(a, g, k) <=> Hears(c, g, k)
               /\ \A k \in Nodes : St(a, k) = St(c, k)
<1> DEFINE a == ActOnBulk(c, y)
<1>1. CASE a = c
  <2> HIDE DEF a
  <2> QED
    BY <1>1 DEF SameButList, a
<1>2. CASE a = Spawn(c, "DATA", y)
  <2>1. "DATA" \in EventNames /\ "DATA" \notin {"LEAVE", "BYE", "TIMEOUT", "ESTABLISHED"}
    BY DEF EventNames
  <2> HIDE DEF a
  <2>2. /\ SameButList(c, a) /\ Shape(a) /\ (Quiet(c) => Quiet(a))
        /\ \A g, k : Hears(a, g, k) <=> Hears(c, g, k)
        /\ \A k \in Nodes : St(a, k) = St(c, k)
    BY <1>2, <2>1, SpawnStates
  <2> QED
    BY <2>2 DEF a
<1> QED
  BY <1>1, <1>2 DEF ActOnBulk

LEMMA BulkStep ==
    ASSUME NEW F, NEW B, NEW g, Playing(F, B, g), NEW n \in OnAir(F), NEW y \in OnAir(F),
           NEW a, a = ActOnBulk(F[n], y), Fits(a), Within(a)
    PROVE  Playing([F EXCEPT ![n] = a], B, g)
<1>1. y \in Nodes /\ F[n] \in Context /\ Shape(F[n]) /\ Quiet(F[n])
  BY PlayerIs DEF OnAir
<1>2. /\ SameButList(F[n], a) /\ Shape(a) /\ Quiet(a)
      /\ \A k : Hears(a, g[n], k) <=> Hears(F[n], g[n], k)
      /\ \A k \in Nodes : St(a, k) = St(F[n], k)
  BY <1>1, BulkStates
<1> QED
  BY <1>2, QuietStep

(* The list after the parent's BIRTH of k.                                 *)
LEMMA BirthStates ==
    ASSUME NEW n, NEW c, Sane(c), Tidy(n, c), NEW y \in Nodes, NEW k \in Nodes, k # n, k # y, FromParent(c, y)
    PROVE  LET a == ActOnBirth(c, y, k)
           IN  /\ SameButList(c, a) /\ a.events = c.events /\ Shape(a)
               /\ \A m \in Nodes : St(a, m) = With(c, k, "CHILD", m)
               /\ c.mode = "CHILD" /\ St(c, y) = "PARENT" /\ ~Unattached(c)
               /\ St(c, k) \in {"NONE", "CHILD"}
<1> DEFINE a == ActOnBirth(c, y, k)
<1>1. c \in Context /\ Shape(c)
  BY DEF Sane
<1>2. c.mode = "CHILD" /\ IsThe("PARENT", c, y)
  BY DEF FromParent
<1>3. St(c, y) = "PARENT" /\ ~Unattached(c)
  <2>1. St(c, y) = "PARENT"
    BY <1>2, IsTheIs DEF Bonds
  <2> QED
    BY <2>1, UnattachedIs
<1>4. St(c, k) \in {"NONE", "CHILD"}
  <2>1. St(c, k) \in {"NONE", "PARENT", "CHILD", "SELF"} /\ St(c, k) # "SELF"
    BY <1>2, <1>3 DEF Tidy
  <2>2. St(c, k) # "PARENT"
    <3>1. \A m, l \in Nodes : St(c, m) \in Bonds /\ St(c, l) \in Bonds => m = l
      BY <1>2, BondIs
    <3> QED
      BY <1>3, <3>1 DEF Bonds
  <2> QED
    BY <2>1, <2>2
<1>5. "CHILD" \in FreeStates(c)
  BY <1>1, <1>2, FreeStatesAre
<1>6. LET d == Link(c, k, "CHILD", FALSE)
      IN  /\ SameButList(c, d) /\ d.events = c.events /\ Shape(d)
          /\ \A m \in Nodes : St(d, m) = With(c, k, "CHILD", m)
  <2>1. FALSE \in BOOLEAN /\ (St(c, k) = "NONE" \/ (c.mode = "CHILD" /\ "CHILD" = "CHILD" /\ St(c, k) = "CHILD"))
    BY <1>2, <1>4
  <2> QED
    BY <1>1, <1>5, <2>1, LinkStates
<1>7. a = Link(c, k, "CHILD", FALSE)
  BY DEF ActOnBirth
<1> QED
  BY <1>2, <1>3, <1>4, <1>6, <1>7

(* A child hears of a sibling.                                             *)
LEMMA BirthStep ==
    ASSUME NEW F, NEW B, NEW g, Playing(F, B, g), NEW n \in OnAir(F), NEW y \in OnAir(F), y # n,
           NEW k \in OnAir(F), k # n, k # y,
           NEW a, a = ActOnBirth(F[n], y, k), Fits(a), Within(a)
    PROVE  Playing([F EXCEPT ![n] = a], B, g)
<1> DEFINE c == F[n]
<1>1. /\ n \in Nodes /\ y \in Nodes /\ k \in Nodes /\ c \in Context /\ Sane(c) /\ Shape(c) /\ Tidy(n, c) /\ Quiet(c)
      /\ \A m \in Nodes \ {n} : BothWays(n, m, c, F[m], B[m], B[n])
      /\ \A i \in DOMAIN B[n] : Letter(n, c.mode, B[n][i], F)
  BY PlayerIs DEF OnAir
<1>2. CASE ~FromParent(c, y)
  BY <1>2, NoStep DEF ActOnBirth
<1>3. CASE FromParent(c, y)
  <2>2. c.mode = "CHILD"
    BY <1>3 DEF FromParent
  <2>3. F[k] \in Context /\ \A i \in DOMAIN B[k] : Letter(k, F[k].mode, B[k][i], F)
    BY PlayerIs
  <2>4. \A op \in {"ACCEPT", "CANCEL"} : From(B[k], n, op) = {}
    BY <2>2, <2>3 DEF From, Letter
  <2>5. From(B[n], k, "JOIN") = {}
    BY <1>1, <2>2 DEF From, Letter
  <2>6. a = ActOnBirth(c, y, k)
    OBVIOUS
  <2> HIDE DEF c
  <2>7. /\ SameButList(c, a) /\ a.events = c.events /\ Shape(a)
        /\ \A m \in Nodes : St(a, m) = With(c, k, "CHILD", m)
        /\ St(c, y) = "PARENT" /\ ~Unattached(c) /\ St(c, k) \in {"NONE", "CHILD"}
    BY <1>1, <1>3, <2>6, BirthStates
  <2>9. /\ SameButList(c, a) /\ a.events = c.events /\ Shape(a)
        /\ \A m \in Nodes : St(a, m) = With(c, k, "CHILD", m)
    BY <2>7
  <2>10. a \in Context /\ a.mode = c.mode /\ a.input = c.input /\ Sane(a)
    BY <2>9 DEF SameButList, Sane
  <2>11. ~Unattached(a)
    <3>1. St(a, y) = "PARENT"
      BY <1>1, <2>7, <2>9 DEF With
    <3> QED
      BY <1>1, <2>10, <3>1, UnattachedIs
  <2>12. Tidy(n, a)
    BY <1>1, <2>2, <2>7, <2>9, <2>10, <2>11 DEF Tidy, With
  <2>13. Handled(n, c, a, g[n], {}, OnAir(F))
    <3>1. PartnerStates(c) = {"PARENT"}
      BY <2>2 DEF PartnerStates
    <3>2. Quiet(a) /\ \A m : Hears(a, g[n], m) <=> Hears(c, g[n], m)
      BY <1>1, <2>9 DEF Quiet, Hears
    <3>3. St(c, k) \in Established => St(c, k) = "CHILD"
      BY <2>7 DEF Established
    <3> QED
      BY <2>9, <2>12, <3>1, <3>2, <3>3 DEF Handled, With
  <2>14. \A m \in Nodes \ {n} : BothWays(n, m, a, F[m], B[m], B[n])
    <3> SUFFICES ASSUME NEW m \in Nodes \ {n} PROVE BothWays(n, m, a, F[m], B[m], B[n])
      OBVIOUS
    <3>1. BothWays(n, m, c, F[m], B[m], B[n])
      BY <1>1
    <3>2. Waits(a, "JOIN", m) => Waits(c, "JOIN", m)
      BY <2>10 DEF Waits
    <3>3. CASE m = k
      <4>1. St(a, m) = "CHILD" /\ St(c, m) # "OUTGOING_REQUEST" /\ a.mode = "CHILD"
        BY <1>1, <2>2, <2>7, <2>9, <2>10, <3>3 DEF With
      <4> QED
        BY <2>2, <2>4, <2>5, <2>11, <3>1, <3>2, <3>3, <4>1, PairSibling
    <3>4. CASE m # k
      <4>1. St(a, m) = St(c, m)
        BY <2>9, <3>4 DEF With
      <4> QED
        BY <2>10, <2>11, <3>1, <3>2, <4>1, PairQuiet
    <3> QED
      BY <3>3, <3>4
  <2> QED
    BY <2>13, <2>14, HandlerStep DEF c
<1> QED
  BY <1>2, <1>3

(* The list of one whose request y has answered.                           *)
Answered(n, c, y, siblings, k) ==
    IF k = y THEN (IF c.mode = "CHILD" THEN "PARENT" ELSE "P2P")
    ELSE IF c.mode = "CHILD" /\ k \in ToSet(siblings) THEN "CHILD"
    ELSE IF c.mode = "CHILD" /\ k = n THEN "SELF" ELSE "NONE"

(* The list that ActOnAccept makes.                                        *)
Joined(n, c, y, siblings) ==
    IF c.mode = "CHILD"
    THEN AddSelf(AddSiblings(CleanPeerList(SetState(c, y, "PARENT")), siblings), n)
    ELSE SetJoining(CleanPeerList(SetState(c, y, "P2P")), y, TRUE)

LEMMA AnsweredStates ==
    ASSUME NEW n \in Nodes, NEW c, Sane(c), Tidy(n, c), Unattached(c), NEW y \in Nodes, y # n,
           St(c, y) = "OUTGOING_REQUEST",
           NEW siblings \in Seq(Nodes), \A k \in ToSet(siblings) : k \notin {n, y}
    PROVE  LET d == Joined(n, c, y, siblings)
           IN  /\ SameButList(c, d) /\ d.events = c.events /\ Shape(d)
               /\ \A k \in Nodes : St(d, k) = Answered(n, c, y, siblings, k)
<1>1. c \in Context /\ Shape(c) /\ c.mode \in {"CHILD", "P2P"}
  BY DEF Sane, Unattached
<1>2. \A k \in Nodes : k # y => St(c, k) \notin Established \cup {"SELF"}
  <2> SUFFICES ASSUME NEW k \in Nodes, k # y PROVE St(c, k) \notin Established \cup {"SELF"}
    OBVIOUS
  <2>1. St(c, k) \notin {"PARENT", "P2P"}
    BY UnattachedIs
  <2>2. CASE c.mode = "CHILD"
    BY <2>2 DEF Tidy, Established
  <2>3. CASE c.mode = "P2P"
    BY <2>1, <2>3, FitsIs DEF Established
  <2> QED
    BY <1>1, <2>2, <2>3
<1>3. ASSUME NEW state \in {"PARENT", "P2P"}
      PROVE  LET d == CleanPeerList(SetState(c, y, state))
             IN  /\ SameButList(c, d) /\ d.events = c.events /\ Shape(d)
                 /\ \A k \in Nodes : St(d, k) = IF k = y THEN state ELSE "NONE"
  <2> DEFINE e == SetState(c, y, state)
             d == CleanPeerList(e)
  <2>1. /\ SameButList(c, e) /\ e.events = c.events /\ Shape(e)
        /\ \A k \in Nodes : St(e, k) = With(c, y, state, k)
    <3>1. state \in PeerStates
      BY DEF PeerStates
    <3> QED
      BY <1>1, <3>1, StateStates
  <2> HIDE DEF e
  <2>2. e \in Context
    BY <2>1 DEF SameButList
  <2>3. /\ SameButList(e, d) /\ d.events = e.events /\ Shape(d)
        /\ \A k \in Nodes : St(d, k) = IF St(e, k) \in Established \cup {"SELF"} THEN St(e, k) ELSE "NONE"
    BY <2>1, <2>2, CleanStates
  <2> HIDE DEF d
  <2>4. SameButList(c, d) /\ d.events = c.events
    BY <2>1, <2>3 DEF SameButList
  <2>5. \A k \in Nodes : St(d, k) = IF k = y THEN state ELSE "NONE"
    BY <1>2, <2>1, <2>3 DEF With, Established
  <2> QED
    BY <2>3, <2>4, <2>5 DEF d, e
<1>4. CASE c.mode = "CHILD"
  <2> DEFINE e == CleanPeerList(SetState(c, y, "PARENT"))
             f == AddSiblings(e, siblings)
             d == AddSelf(f, n)
  <2>1. /\ SameButList(c, e) /\ e.events = c.events /\ Shape(e)
        /\ \A k \in Nodes : St(e, k) = IF k = y THEN "PARENT" ELSE "NONE"
    BY <1>3
  <2> HIDE DEF e
  <2>2. e \in Context /\ e.mode = "CHILD"
    BY <1>4, <2>1 DEF SameButList
  <2>3. \A k \in ToSet(siblings) : k \in Nodes /\ St(e, k) \in {"NONE", "CHILD"}
    <3>1. ToSet(siblings) \subseteq Nodes
      BY EmptyIffNoElement
    <3> QED
      BY <2>1, <3>1
  <2>4. /\ SameButList(e, f) /\ f.events = e.events /\ Shape(f)
        /\ \A k \in Nodes : St(f, k) = IF k \in ToSet(siblings) THEN "CHILD" ELSE St(e, k)
    BY <2>1, <2>2, <2>3, SiblingStates
  <2> HIDE DEF f
  <2>5. f \in Context /\ f.mode = "CHILD"
    BY <2>2, <2>4 DEF SameButList
  <2>6. /\ SameButList(f, d) /\ d.events = f.events /\ Shape(d)
        /\ \A k \in Nodes : St(d, k) = IF k = n /\ St(f, n) = "NONE" THEN "SELF" ELSE St(f, k)
    BY <2>4, <2>5, AddSelfStates
  <2> HIDE DEF d
  <2>7. SameButList(c, d) /\ d.events = c.events
    BY <2>1, <2>4, <2>6 DEF SameButList
  <2>8. \A k \in Nodes : St(d, k) = Answered(n, c, y, siblings, k)
    BY <1>4, <2>1, <2>4, <2>6 DEF Answered
  <2> QED
    BY <1>4, <2>6, <2>7, <2>8 DEF d, f, e, Joined
<1>5. CASE c.mode = "P2P"
  <2> DEFINE e == CleanPeerList(SetState(c, y, "P2P"))
             d == SetJoining(e, y, TRUE)
  <2>1. /\ SameButList(c, e) /\ e.events = c.events /\ Shape(e)
        /\ \A k \in Nodes : St(e, k) = IF k = y THEN "P2P" ELSE "NONE"
    BY <1>3
  <2> HIDE DEF e
  <2>2. e \in Context
    BY <2>1 DEF SameButList
  <2>4. /\ SameButList(e, d) /\ d.events = e.events /\ Shape(d)
        /\ \A k \in Nodes : St(d, k) = St(e, k)
    BY <2>1, <2>2, JoiningStates
  <2> HIDE DEF d
  <2>5. SameButList(c, d) /\ d.events = c.events
    BY <2>1, <2>4 DEF SameButList
  <2>6. \A k \in Nodes : St(d, k) = Answered(n, c, y, siblings, k)
    BY <1>5, <2>1, <2>4 DEF Answered
  <2> QED
    BY <1>5, <2>4, <2>5, <2>6 DEF d, e, Joined
<1> QED
  BY <1>1, <1>4, <1>5

(* The list after the answer of y.                                         *)
LEMMA AcceptStates ==
    ASSUME NEW n \in Nodes, NEW c, Sane(c), Tidy(n, c), Unattached(c), NEW y \in Nodes, y # n,
           IsThe("OUTGOING_REQUEST", c, y),
           NEW siblings \in Seq(Nodes), \A k \in ToSet(siblings) : k \notin {n, y}
    PROVE  LET a == ActOnAccept(c, n, y, siblings)
           IN  /\ SameButList(c, a) /\ Shape(a) /\ (Quiet(c) => Quiet(a))
               /\ \A g, k : Hears(a, g, k) <=> Hears(c, g, k) \/ k = y
               /\ \A k \in Nodes : St(a, k) = Answered(n, c, y, siblings, k)
               /\ St(c, y) = "OUTGOING_REQUEST" /\ c.mode \in {"CHILD", "P2P"}
<1> DEFINE d == Joined(n, c, y, siblings)
           e == Spawn(d, "ESTABLISHED", y)
           a == ActOnAccept(c, n, y, siblings)
<1>1. a = Spawn(e, "ACCEPT", y)
  BY DEF ActOnAccept, Joined
<1>2. c.mode \in {"CHILD", "P2P"} /\ c.mode # "PARENT"
  BY DEF Unattached
<1>3. St(c, y) = "OUTGOING_REQUEST"
  BY <1>2, IsTheIs DEF Bonds
<1> HIDE DEF a
<1>4. /\ SameButList(c, d) /\ d.events = c.events /\ Shape(d)
      /\ \A k \in Nodes : St(d, k) = Answered(n, c, y, siblings, k)
  BY <1>3, AnsweredStates
<1> HIDE DEF d
<1>5. d \in Context /\ (Quiet(c) => Quiet(d)) /\ \A g, k : Hears(d, g, k) <=> Hears(c, g, k)
  BY <1>4 DEF SameButList, Quiet, Hears
<1>6. /\ SameButList(d, e) /\ Shape(e) /\ (Quiet(d) => Quiet(e))
      /\ \A k \in Nodes : St(e, k) = St(d, k)
      /\ \A g, k : Hears(e, g, k) <=> Hears(d, g, k) \/ k = y
  <2>1. "ESTABLISHED" \in EventNames /\ "ESTABLISHED" \notin {"LEAVE", "BYE", "TIMEOUT"}
    BY DEF EventNames
  <2>2. e = Spawn(d, "ESTABLISHED", y)
    OBVIOUS
  <2> HIDE DEF e
  <2> QED
    BY <1>4, <1>5, <2>1, <2>2, SpawnStates
<1> HIDE DEF e
<1>7. /\ SameButList(e, a) /\ Shape(a) /\ (Quiet(e) => Quiet(a))
      /\ \A k \in Nodes : St(a, k) = St(e, k)
      /\ \A g, k : Hears(a, g, k) <=> Hears(e, g, k)
  <2>1. "ACCEPT" \in EventNames /\ "ACCEPT" \notin {"LEAVE", "BYE", "TIMEOUT", "ESTABLISHED"}
    BY DEF EventNames
  <2>2. e \in Context
    BY <1>6 DEF SameButList
  <2> QED
    BY <1>1, <1>6, <2>1, <2>2, SpawnStates
<1>8. SameButList(c, a)
  BY <1>4, <1>6, <1>7 DEF SameButList
<1>9. /\ Shape(a) /\ (Quiet(c) => Quiet(a))
      /\ \A g, k : Hears(a, g, k) <=> Hears(c, g, k) \/ k = y
  BY <1>5, <1>6, <1>7
<1>10. \A k \in Nodes : St(a, k) = Answered(n, c, y, siblings, k)
  BY <1>4, <1>6, <1>7
<1> QED
  BY <1>2, <1>3, <1>8, <1>9, <1>10 DEF a

LEMMA AcceptStep ==
    ASSUME NEW F, NEW B, NEW g, Playing(F, B, g), NEW n \in OnAir(F), NEW y \in OnAir(F), y # n,
           NEW siblings \in Seq(Nodes), \A k \in ToSet(siblings) : k \notin {n, y} /\ k \in OnAir(F),
           NEW r, BothWays(n, y, F[n], F[y], B[y], r), From(r, y, "ACCEPT") # {}, From(B[n], y, "JOIN") = {},
           NEW a, a = ActOnAccept(F[n], n, y, siblings), Fits(a), Within(a)
    PROVE  Playing([F EXCEPT ![n] = a], B, g)
<1> DEFINE c == F[n]
           answered == Unattached(c) /\ IsThe("OUTGOING_REQUEST", c, y)
<1>1. /\ n \in Nodes /\ y \in Nodes /\ c \in Context /\ Sane(c) /\ Shape(c) /\ Tidy(n, c) /\ Quiet(c)
      /\ \A m \in Nodes \ {n} : BothWays(n, m, c, F[m], B[m], B[n])
      /\ \A i \in DOMAIN B[n] : Letter(n, c.mode, B[n][i], F)
      /\ Informed(c, g[n])
  BY PlayerIs DEF OnAir
<1>2. CASE ~answered
  BY <1>2, NoStep DEF ActOnAccept
<1>3. CASE answered
  <2>2. c.mode \in {"CHILD", "P2P"} /\ c.mode # "PARENT" /\ Unattached(c)
    BY <1>3 DEF Unattached
  <2>3. \A k \in OnAir(F) : \A op \in {"ACCEPT", "CANCEL"} : c.mode = "CHILD" => From(B[k], n, op) = {}
    <3> SUFFICES ASSUME NEW k \in OnAir(F), NEW op \in {"ACCEPT", "CANCEL"}, c.mode = "CHILD"
                 PROVE From(B[k], n, op) = {}
      OBVIOUS
    <3>1. \A i \in DOMAIN B[k] : Letter(k, F[k].mode, B[k][i], F)
      BY PlayerIs
    <3> QED
      BY <3>1 DEF From, Letter
  <2>4. \A k : c.mode = "CHILD" => From(B[n], k, "JOIN") = {}
    BY <1>1, <2>2 DEF From, Letter
  <2> HIDE DEF c
  <2>5. /\ SameButList(c, a) /\ Shape(a) /\ Quiet(a)
        /\ \A k \in Nodes : St(a, k) = Answered(n, c, y, siblings, k)
        /\ \A k : Hears(a, g[n], k) <=> Hears(c, g[n], k) \/ k \in {y}
        /\ St(c, y) = "OUTGOING_REQUEST"
    <3>1. \A k \in ToSet(siblings) : k \notin {n, y}
      OBVIOUS
    <3>2. IsThe("OUTGOING_REQUEST", c, y) /\ a = ActOnAccept(c, n, y, siblings)
      BY <1>3 DEF c
    <3> QED
      BY <1>1, <2>2, <3>1, <3>2, AcceptStates
  <2>11. a \in Context /\ a.mode = c.mode /\ a.input = c.input /\ Sane(a)
    BY <2>5 DEF SameButList, Sane
  <2>12. St(a, y) \in {"PARENT", "P2P"} /\ ~Unattached(a) /\ St(a, y) \in PartnerStates(c)
    <3>1. St(a, y) = IF c.mode = "CHILD" THEN "PARENT" ELSE "P2P"
      BY <1>1, <2>5 DEF Answered
    <3>2. St(a, y) \in {"PARENT", "P2P"} /\ St(a, y) \in PartnerStates(c)
      BY <3>1 DEF PartnerStates
    <3> QED
      BY <1>1, <2>11, <3>2, UnattachedIs
  <2>13. \A m \in Nodes : St(c, m) \notin Established /\ (m # y => St(c, m) # "OUTGOING_REQUEST")
    <3> SUFFICES ASSUME NEW m \in Nodes PROVE St(c, m) \notin Established /\ (m # y => St(c, m) # "OUTGOING_REQUEST")
      OBVIOUS
    <3>1. St(c, m) \notin {"PARENT", "P2P"}
      BY <1>1, <2>2, UnattachedIs
    <3>2. St(c, m) # "CHILD"
      <4>1. CASE c.mode = "CHILD"
        BY <1>1, <2>2, <4>1 DEF Tidy
      <4>2. CASE c.mode = "P2P"
        BY <1>1, <4>2, FitsIs
      <4> QED
        BY <2>2, <4>1, <4>2
    <3>3. m # y => St(c, m) # "OUTGOING_REQUEST"
      <4>1. \A k, l \in Nodes : St(c, k) \in Bonds /\ St(c, l) \in Bonds => k = l
        BY <1>1, <2>2, BondIs
      <4> QED
        BY <1>1, <2>5, <4>1 DEF Bonds
    <3> QED
      BY <3>1, <3>2, <3>3 DEF Established
  <2>14. Tidy(n, a)
    BY <1>1, <2>5, <2>11, <2>12 DEF Tidy, Answered
  <2>15. Handled(n, c, a, g[n], {y}, OnAir(F))
    <3>1. \A m \in Nodes : St(a, m) # "NONE" => m \in OnAir(F)
      BY <2>5 DEF Answered
    <3>2. \A m \in Nodes : St(a, m) \in PartnerStates(c) => m \in {y}
      BY <2>2, <2>5 DEF Answered, PartnerStates
    <3> QED
      BY <2>5, <2>12, <2>13, <2>14, <3>1, <3>2 DEF Handled
  <2>16. \A m \in Nodes \ {n} : BothWays(n, m, a, F[m], B[m], B[n])
    <3> SUFFICES ASSUME NEW m \in Nodes \ {n} PROVE BothWays(n, m, a, F[m], B[m], B[n])
      OBVIOUS
    <3>1. BothWays(n, m, c, F[m], B[m], B[n])
      BY <1>1
    <3>2. Waits(a, "JOIN", m) => Waits(c, "JOIN", m)
      BY <2>11 DEF Waits
    <3>3. CASE m = y
      BY <2>5, <2>11, <2>12, <3>1, <3>2, <3>3, PairAnswered DEF c
    <3>4. CASE m # y /\ ~(c.mode = "CHILD" /\ m \in ToSet(siblings))
      <4>1. St(a, m) = "NONE"
        BY <2>5, <3>4 DEF Answered
      <4> QED
        BY <2>2, <2>11, <2>12, <2>13, <3>1, <3>2, <3>4, <4>1, PairForgets
    <3>5. CASE m # y /\ c.mode = "CHILD" /\ m \in ToSet(siblings)
      <4>1. St(a, m) = "CHILD" /\ a.mode = "CHILD" /\ m \in OnAir(F)
        BY <2>5, <2>11, <3>5 DEF Answered
      <4> QED
        BY <2>3, <2>4, <2>12, <2>13, <3>1, <3>2, <3>5, <4>1, PairSibling
    <3> QED
      BY <3>3, <3>4, <3>5
  <2> QED
    BY <2>15, <2>16, HandlerStep DEF c
<1> QED
  BY <1>2, <1>3

-----------------------------------------------------------------------------
(* A packet is taken and handled.                                          *)
LEMMA TakenIs ==
    ASSUME NEW r \in Seq(PacketRecord), NEW i \in DOMAIN r
    PROVE  LET s == RemoveAt(r, i)
               y == r[i].from
           IN  /\ i \in From(r, y, r[i].op)
               /\ \A op : From(s, y, op) # {} => \E j \in From(r, y, op) : j # i
<1> DEFINE s == RemoveAt(r, i)
           y == r[i].from
           h == [j \in DOMAIN s |-> IF j < i THEN j ELSE j + 1]
<1>1. /\ \A j \in DOMAIN s : h[j] # i
      /\ \A op : \A j \in From(s, y, op) : j \in DOMAIN s /\ h[j] \in From(r, y, op)
  BY BoxLess
<1> HIDE DEF s, h
<1>2. i \in From(r, y, r[i].op)
  BY DEF From
<1>3. \A op : From(s, y, op) # {} => \E j \in From(r, y, op) : j # i
  BY <1>1
<1> QED
  BY <1>2, <1>3 DEF s

LEMMA PlayingLess ==
    ASSUME NEW F, NEW B, NEW g, Playing(F, B, g), NEW n \in Nodes, NEW i \in DOMAIN B[n]
    PROVE  Playing(F, [B EXCEPT ![n] = RemoveAt(B[n], i)], g)
<1>1. OrderlyIn(F, [B EXCEPT ![n] = RemoveAt(B[n], i)], g)
  BY RemoveStep DEF Playing
<1>2. B[n] \in Seq(PacketRecord)
  BY DEF Playing
<1>3. RemoveAt(B[n], i) \in Seq(PacketRecord)
  BY <1>2, RemoveAtFacts
<1>4. [B EXCEPT ![n] = RemoveAt(B[n], i)] \in [Nodes -> Seq(PacketRecord)]
  BY <1>3 DEF Playing
<1> QED
  BY <1>1, <1>4 DEF Playing

LEMMA NothingOut ==
    ASSUME NEW F, NEW B, NEW g, Playing(F, B, g), NEW n \in Nodes
    PROVE  Playing(F, Posted(B, <<>>), g)
<1> DEFINE out == <<>>
<1>1. out \in Seq(PacketRecord) /\ DOMAIN out = {}
  OBVIOUS
<1> HIDE DEF out
<1>2. Playing(F, Posted(B, out), g)
  BY <1>1, OutStep
<1> QED
  BY <1>2 DEF out

LEMMA RefusalOut ==
    ASSUME NEW F, NEW B, NEW g, Playing(F, B, g), NEW n \in OnAir(F), NEW y \in OnAir(F), y # n,
           F[n].mode # "CHILD", Mailable(n, y, F[n], F[y], B[y], B[n], "CANCEL")
    PROVE  Playing(F, Posted(B, <<Packet(n, y, "CANCEL")>>), g)
<1> DEFINE p == Packet(n, y, "CANCEL")
           out == <<p>>
<1>1. p \in PacketRecord /\ p.from = n /\ p.to = y /\ p.op = "CANCEL"
  <2>1. <<>> \in Seq(Nodes) /\ n \in Nodes /\ y \in Nodes
    BY DEF OnAir
  <2> QED
    BY <2>1 DEF Packet, PacketRecord
<1> HIDE DEF p
<1>2. out \in Seq(PacketRecord) /\ DOMAIN out = {1} /\ out[1] = p
  BY <1>1
<1> HIDE DEF out
<1>3. Letter(y, F[y].mode, p, F)
  BY <1>1 DEF Letter
<1>4. n \in Nodes
  BY DEF OnAir
<1>5. Playing(F, Posted(B, out), g)
  BY <1>1, <1>2, <1>3, <1>4, OutStep
<1> QED
  BY <1>5 DEF out, p

LEMMA ReceiveStep ==
    ASSUME NEW F, NEW B, NEW g, Playing(F, B, g), NEW n \in OnAir(F), NEW i \in DOMAIN B[n],
           \A j \in 1..(i - 1) : B[n][j].from # B[n][i].from,
           NEW a, a = ActOn(F[n], n, B[n][i]).ctx, Fits(a), Within(a)
    PROVE  Playing([F EXCEPT ![n] = a],
                   Posted([B EXCEPT ![n] = RemoveAt(B[n], i)], ActOn(F[n], n, B[n][i]).out), g)
<1> DEFINE c == F[n]
           r == B[n]
           p == r[i]
           y == p.from
           s == RemoveAt(r, i)
           D == [B EXCEPT ![n] = s]
           H == [F EXCEPT ![n] = a]
           out == ActOn(c, n, p).out
<1> SUFFICES Playing(H, Posted(D, out), g)
  OBVIOUS
<1>1. /\ n \in Nodes /\ c \in Context /\ Sane(c) /\ r \in Seq(PacketRecord) /\ c.phase = "running"
      /\ \A m \in Nodes \ {n} : BothWays(n, m, c, F[m], B[m], r)
      /\ Letter(n, c.mode, p, F)
  BY PlayerIs
<1>2. Playing(F, D, g) /\ D[n] = s /\ \A m \in Nodes \ {n} : D[m] = B[m]
  <2>1. Playing(F, D, g)
    BY <1>1, PlayingLess
  <2> QED
    BY <1>1, <2>1 DEF Playing
<1>3. p \in PacketRecord /\ p.siblings \in Seq(Nodes)
  <2> HIDE DEF r
  <2>1. p \in PacketRecord
    BY <1>1 DEF r
  <2> QED
    BY <2>1 DEF PacketRecord
<1>4. i \in From(r, y, p.op) /\ \A op : From(s, y, op) # {} => \E j \in From(r, y, op) : j # i
  <2> HIDE DEF r
  <2>1. i \in DOMAIN r
    BY DEF r
  <2> QED
    BY <1>1, <2>1, TakenIs
<1>5. \A j \in DOMAIN r : j < i => r[j].from # y
  <2>1. DOMAIN r = 1..Len(r)
    BY <1>1
  <2> QED
    BY <2>1
<1>6. y \in OnAir(F) /\ y # n /\ y \in Nodes \ {n}
  BY <1>1 DEF Letter, OnAir
<1>0. a = ActOn(c, n, p).ctx /\ out = ActOn(c, n, p).out
  OBVIOUS
<1> HIDE DEF D, H, s, p, out
<1>7. BothWays(n, y, c, F[y], D[y], r) /\ D[y] = B[y]
  BY <1>1, <1>2, <1>6
<1>8. ASSUME NEW e, ActOn(c, n, p) = Result(e, <<>>), a = e => Playing(H, D, g)
      PROVE  Playing(H, Posted(D, out), g)
  <2>1. a = e /\ out = <<>>
    BY <1>0, <1>8, ResultIs
  <2>2. Playing(H, Posted(D, <<>>), g)
    BY <1>1, <1>8, <2>1, NothingOut
  <2> QED
    BY <2>1, <2>2
<1>9. CASE p.op = "HELLO"
  <2>1. ActOn(c, n, p) = Result(ActOnHello(c, y), <<>>)
    BY <1>9 DEF ActOn
  <2>2. F[y].mode # "CHILD"
    BY <1>1, <1>9 DEF Letter
  <2>3. a = ActOnHello(c, y) => Playing(H, D, g)
    BY <1>2, <1>6, <2>2, HelloStep DEF H
  <2> QED
    BY <1>8, <2>1, <2>3
<1>10. CASE p.op = "JOIN"
  <2> DEFINE res == ActOnJoin(c, n, y)
  <2>1. ActOn(c, n, p) = res
    BY <1>10 DEF ActOn
  <2>2. c.mode # "CHILD"
    BY <1>1, <1>10 DEF Letter
  <2>3. Took(r, s, y, "JOIN")
    <3>1. \A j, k \in From(r, y, "JOIN") : j = k
      BY <1>7 DEF BothWays, Pair
    <3> QED
      BY <1>4, <1>10, <3>1 DEF Took
  <2>4. a = res.ctx /\ out = res.out
    BY <1>0, <2>1
  <2>5. Calm(c, res.ctx)
    BY <1>1, <1>6, ActOnJoinIsCalm DEF Sent
  <2> HIDE DEF res
  <2>6. a.phase = "running" /\ a.mode = c.mode
    BY <1>1, <2>4, <2>5 DEF Calm, SameButList
  <2>7. /\ Playing(H, D, g)
        /\ out = <<>> \/ (out = <<Packet(n, y, "CANCEL")>> /\ Mailable(n, y, a, F[y], D[y], s, "CANCEL"))
    BY <1>2, <1>6, <1>7, <2>2, <2>3, <2>4, JoinStep DEF res, H
  <2>8. H[n] = a /\ H[y] = F[y] /\ n \in OnAir(H) /\ y \in OnAir(H)
    BY <1>1, <1>6, <2>6 DEF H, OnAir, Playing
  <2>9. CASE out = <<>>
    <3>1. Playing(H, Posted(D, <<>>), g)
      BY <1>1, <2>7, NothingOut
    <3> QED
      BY <2>9, <3>1
  <2>10. CASE out = <<Packet(n, y, "CANCEL")>> /\ Mailable(n, y, a, F[y], D[y], s, "CANCEL")
    <3>1. H[n].mode # "CHILD" /\ Mailable(n, y, H[n], H[y], D[y], D[n], "CANCEL")
      BY <1>2, <2>2, <2>6, <2>8, <2>10
    <3>2. Playing(H, Posted(D, <<Packet(n, y, "CANCEL")>>), g)
      BY <1>6, <2>7, <2>8, <3>1, RefusalOut
    <3> QED
      BY <2>10, <3>2
  <2> QED
    BY <2>7, <2>9, <2>10
<1>11. CASE p.op = "ACCEPT"
  <2>1. ActOn(c, n, p) = Result(ActOnAccept(c, n, y, p.siblings), <<>>)
    BY <1>11 DEF ActOn
  <2>2. \A k \in ToSet(p.siblings) : k \notin {n, y} /\ k \in OnAir(F)
    BY <1>1, <1>11 DEF Letter
  <2>3. From(r, y, "ACCEPT") # {} /\ From(s, y, "JOIN") = {}
    <3>1. \A j \in From(r, y, "JOIN") : j < i
      BY <1>4, <1>7, <1>11 DEF BothWays, Pair
    <3>2. From(r, y, "JOIN") = {}
      BY <1>5, <3>1 DEF From
    <3> QED
      BY <1>4, <1>11, <3>2
  <2>4. a = ActOnAccept(c, n, y, p.siblings) => Playing(H, D, g)
    BY <1>2, <1>3, <1>6, <1>7, <2>2, <2>3, AcceptStep DEF H
  <2> QED
    BY <1>8, <2>1, <2>4
<1>12. CASE p.op = "CANCEL"
  <2>1. ActOn(c, n, p) = Result(ActOnCancel(c, n, y), <<>>)
    BY <1>12 DEF ActOn
  <2>2. From(r, y, "CANCEL") # {}
    BY <1>4, <1>12
  <2>3. a = ActOnCancel(c, n, y) => Playing(H, D, g)
    BY <1>2, <1>6, <1>7, <2>2, CancelStep DEF H
  <2> QED
    BY <1>8, <2>1, <2>3
<1>13. CASE p.op = "BULK"
  <2>1. ActOn(c, n, p) = Result(ActOnBulk(c, y), <<>>)
    BY <1>13 DEF ActOn
  <2>2. a = ActOnBulk(c, y) => Playing(H, D, g)
    BY <1>2, <1>6, BulkStep DEF H
  <2> QED
    BY <1>8, <2>1, <2>2
<1>14. CASE p.op = "BIRTH"
  <2>1. ActOn(c, n, p) = Result(ActOnBirth(c, y, p.mac), <<>>)
    BY <1>14 DEF ActOn
  <2>2. p.mac \in OnAir(F) /\ p.mac # n /\ p.mac # y
    BY <1>1, <1>14 DEF Letter
  <2>3. a = ActOnBirth(c, y, p.mac) => Playing(H, D, g)
    BY <1>2, <1>6, <2>2, BirthStep DEF H
  <2> QED
    BY <1>8, <2>1, <2>3
<1>15. p.op \in {"HELLO", "JOIN", "ACCEPT", "CANCEL", "BULK", "BIRTH"}
  BY <1>1 DEF Letter
<1> QED
  BY <1>9, <1>10, <1>11, <1>12, <1>13, <1>14, <1>15

-----------------------------------------------------------------------------
(* What goes out for the messages of an input stack.                       *)
ChildrenBut(c, m) == {k \in Nodes : St(c, k) = "CHILD" /\ k # m}

LEMMA OtherChildrenAre ==
    ASSUME NEW c \in Context, Shape(c), NEW m
    PROVE  LET told == OtherChildren(c, m)
           IN  /\ told \in Seq(PeerRecord)
               /\ \A j \in DOMAIN told : told[j].mac \in ChildrenBut(c, m)
               /\ \A k \in ChildrenBut(c, m) : \E j \in DOMAIN told : told[j].mac = k
<1> DEFINE I == PlacesOf(c, {"CHILD"}) \cap OtherPlaces(c, m)
           told == OtherChildren(c, m)
<1>1. I \in SUBSET DOMAIN c.peers /\ c.peers \in Seq(PeerRecord)
  BY PeersAreNodes DEF PlacesOf
<1>2. \A i \in DOMAIN c.peers : i \in I <=> c.peers[i].state = "CHILD" /\ c.peers[i].mac # m
  BY DEF PlacesOf, OtherPlaces
<1>3. told = Picked(c.peers, I)
  BY DEF OtherChildren
<1> HIDE DEF I, told
<1>4. /\ told \in Seq(PeerRecord) /\ DOMAIN told = 1..Cardinality(I)
      /\ \A k \in 1..Cardinality(I) : Nth(I, k) \in I /\ told[k] = c.peers[Nth(I, k)]
  BY <1>1, <1>3, PickedFacts
<1>5. \A i \in I : \E k \in DOMAIN told : told[k] = c.peers[i]
  BY <1>1, <1>3, <1>4, PickedOnto
<1>6. \A j \in DOMAIN told : told[j].mac \in ChildrenBut(c, m)
  <2> SUFFICES ASSUME NEW j \in DOMAIN told PROVE told[j].mac \in ChildrenBut(c, m)
    OBVIOUS
  <2>1. Nth(I, j) \in DOMAIN c.peers /\ Nth(I, j) \in I /\ told[j] = c.peers[Nth(I, j)]
    BY <1>1, <1>4
  <2>2. told[j].mac \in Nodes /\ St(c, told[j].mac) = "CHILD" /\ told[j].mac # m
    BY <1>2, <2>1, PeersAreNodes DEF Shape
  <2> QED
    BY <2>2 DEF ChildrenBut
<1>7. \A k \in ChildrenBut(c, m) : \E j \in DOMAIN told : told[j].mac = k
  <2> SUFFICES ASSUME NEW k \in Nodes, St(c, k) = "CHILD", k # m
               PROVE  \E j \in DOMAIN told : told[j].mac = k
    BY DEF ChildrenBut
  <2>1. Place(c, k) \in DOMAIN c.peers /\ c.peers[Place(c, k)].mac = k /\ c.peers[Place(c, k)].state = "CHILD"
    BY StIs
  <2>2. Place(c, k) \in I
    BY <1>2, <2>1
  <2> QED
    BY <1>5, <2>1, <2>2
<1> QED
  BY <1>4, <1>6, <1>7 DEF told

(* The packet p says what the message msg of n asks for.                   *)
Says(n, c, msg, p) ==
    /\ p.from = n /\ p.op = msg.op /\ p.op \in {"JOIN", "ACCEPT", "BULK", "BIRTH"}
    /\ p.op # "BIRTH" => p.to = msg.mac /\ St(c, p.to) # "NONE"
    /\ p.op = "JOIN" => St(c, p.to) = "OUTGOING_REQUEST"
    /\ p.op = "ACCEPT" => /\ St(c, p.to) \in Established
                          /\ ToSet(p.siblings) = IF c.mode = "PARENT" THEN ChildrenBut(c, p.to) ELSE {}
    /\ p.op = "BIRTH" => p.mac = msg.mac /\ p.to \in ChildrenBut(c, p.mac)

(* out is all that is sent for it: a packet to each member it is for.      *)
Yields(n, c, msg, out) ==
    /\ out \in Seq(PacketRecord)
    /\ \A j \in DOMAIN out : Says(n, c, msg, out[j])
    /\ msg.op = "JOIN" => \A i, j \in DOMAIN out : i = j
    /\ msg.op = "ACCEPT" => \E j \in DOMAIN out : out[j].to = msg.mac
    /\ msg.op = "BIRTH" => \A k \in ChildrenBut(c, msg.mac) : \E j \in DOMAIN out : out[j].to = k

(* a is c without its input stack, and tells the game of the members of E. *)
Emptied(c, a, g, E) ==
    /\ a \in Context /\ a.phase = c.phase /\ a.mode = c.mode /\ a.maxpeers = c.maxpeers /\ a.input = <<>>
    /\ Shape(a) /\ Quiet(a)
    /\ \A m \in Nodes : St(a, m) = St(c, m)
    /\ \A m : Hears(a, g, m) <=> Hears(c, g, m) \/ m \in E

LEMMA EmptiedOn ==
    ASSUME NEW c, NEW a, NEW g, NEW E, Emptied(c, a, g, E), NEW d, NEW H, SameButList(a, d), Shape(d), Quiet(d),
           \A m \in Nodes : St(d, m) = St(a, m),
           \A m : Hears(d, g, m) <=> Hears(a, g, m) \/ m \in H
    PROVE  Emptied(c, d, g, E \cup H)
BY DEF Emptied, SameButList

LEMMA YieldsNothing ==
    ASSUME NEW n, NEW c, NEW msg, msg.op \notin {"ACCEPT", "BIRTH"}
    PROVE  Yields(n, c, msg, <<>>)
<1>1. <<>> \in Seq(PacketRecord) /\ DOMAIN <<>> = {}
  OBVIOUS
<1> QED
  BY <1>1 DEF Yields

LEMMA YieldsOne ==
    ASSUME NEW n, NEW c, NEW msg, NEW p \in PacketRecord, Says(n, c, msg, p), msg.op # "BIRTH"
    PROVE  Yields(n, c, msg, <<p>>)
<1> DEFINE out == <<p>>
<1>1. out \in Seq(PacketRecord) /\ DOMAIN out = {1} /\ out[1] = p
  OBVIOUS
<1> HIDE DEF out
<1>2. p.op = msg.op /\ (msg.op = "ACCEPT" => p.to = msg.mac)
  BY DEF Says
<1>3. Yields(n, c, msg, out)
  BY <1>1, <1>2 DEF Yields
<1> QED
  BY <1>3 DEF out

LEMMA AcceptSent ==
    ASSUME NEW n \in Nodes, NEW c \in Context, NEW g, NEW a, NEW E, Emptied(c, a, g, E), NEW m \in Nodes,
           NEW msg, msg.op = "ACCEPT", msg.mac = m, Sane(c), c.mode # "CHILD", St(c, m) \in Established
    PROVE  LET s == SendAccept(a, n, m)
           IN  Emptied(c, s.ctx, g, E \cup {m}) /\ Yields(n, c, msg, s.out)
<1> DEFINE p == [Packet(n, m, "ACCEPT") EXCEPT !.siblings = SiblingsOf(a, m)]
           d == Spawn(a, "ESTABLISHED", m)
           s == SendAccept(a, n, m)
<1>1. a \in Context /\ Shape(a) /\ Quiet(a) /\ a.mode = c.mode /\ \A k \in Nodes : St(a, k) = St(c, k)
  BY DEF Emptied
<1>2. St(a, m) \in {"CHILD", "P2P"}
  BY <1>1, FitsIs DEF Established
<1>3. KnownAs(a, m, {"CHILD", "P2P"})
  <2>1. "NONE" \notin {"CHILD", "P2P"}
    OBVIOUS
  <2> QED
    BY <1>1, <1>2, <2>1, KnownAsIs
<1>4. s = Result(d, <<p>>)
  BY <1>3 DEF SendAccept
<1>5. /\ SameButList(a, d) /\ Shape(d) /\ Quiet(d)
      /\ \A k \in Nodes : St(d, k) = St(a, k)
      /\ \A k : Hears(d, g, k) <=> Hears(a, g, k) \/ k = m
  <2>1. "ESTABLISHED" \in EventNames /\ "ESTABLISHED" \notin {"LEAVE", "BYE", "TIMEOUT"}
    BY DEF EventNames
  <2>2. d = Spawn(a, "ESTABLISHED", m)
    OBVIOUS
  <2> HIDE DEF d
  <2> QED
    BY <1>1, <2>1, <2>2, SpawnStates
<1>6. ToSet(SiblingsOf(a, m)) = IF c.mode = "PARENT" THEN ChildrenBut(c, m) ELSE {}
  <2> DEFINE told == OtherChildren(a, m)
             l == [i \in DOMAIN told |-> told[i].mac]
  <2>1. /\ \A j \in DOMAIN told : told[j].mac \in ChildrenBut(a, m)
        /\ \A k \in ChildrenBut(a, m) : \E j \in DOMAIN told : told[j].mac = k
    BY <1>1, OtherChildrenAre
  <2>2. ChildrenBut(a, m) = ChildrenBut(c, m)
    BY <1>1 DEF ChildrenBut
  <2>3. SiblingsOf(a, m) = IF a.mode = "PARENT" THEN l ELSE <<>>
    BY DEF SiblingsOf
  <2> HIDE DEF told
  <2>4. ToSet(l) = ChildrenBut(c, m)
    BY <2>1, <2>2 DEF ToSet
  <2> HIDE DEF l
  <2>5. ToSet(<<>>) = {}
    BY DEF ToSet
  <2> QED
    BY <1>1, <2>3, <2>4, <2>5
<1>7. SiblingsOf(a, m) \in Seq(Nodes)
  BY <1>1, SiblingsAreNodes
<1>8. p \in PacketRecord /\ p.op = "ACCEPT" /\ p.from = n /\ p.to = m /\ p.siblings = SiblingsOf(a, m)
  <2> DEFINE siblings == SiblingsOf(a, m)
  <2> HIDE DEF siblings
  <2>1. siblings \in Seq(Nodes) /\ "ACCEPT" \in Kinds
    BY <1>7 DEF siblings, Kinds
  <2>2. LET q == [Packet(n, m, "ACCEPT") EXCEPT !.siblings = siblings]
        IN  q \in PacketRecord /\ q.op = "ACCEPT" /\ q.from = n /\ q.to = m
    BY <2>1, PacketIs
  <2>3. [Packet(n, m, "ACCEPT") EXCEPT !.siblings = siblings].siblings = siblings
    BY DEF Packet
  <2> QED
    BY <2>2, <2>3 DEF siblings
<1> HIDE DEF p, d
<1>9. Says(n, c, msg, p)
  <2>1. St(c, m) # "NONE"
    BY DEF Established
  <2> QED
    BY <1>6, <1>8, <2>1 DEF Says
<1>10. Yields(n, c, msg, <<p>>)
  BY <1>8, <1>9, YieldsOne
<1>11. Emptied(c, d, g, E \cup {m})
  BY <1>5, EmptiedOn
<1> HIDE DEF s
<1>12. s.ctx = d /\ s.out = <<p>>
  BY <1>4, ResultIs
<1> QED
  BY <1>10, <1>11, <1>12 DEF s

LEMMA JoinSent ==
    ASSUME NEW n \in Nodes, NEW c \in Context, NEW g, NEW a, NEW E, Emptied(c, a, g, E), NEW m \in Nodes,
           NEW msg, msg.op = "JOIN", msg.mac = m
    PROVE  LET s == SendJoin(a, n, m)
           IN  s.ctx = a /\ Yields(n, c, msg, s.out)
<1> DEFINE p == Packet(n, m, "JOIN")
<1>1. a \in Context /\ St(a, m) = St(c, m)
  BY DEF Emptied
<1>2. KnownAs(a, m, {"OUTGOING_REQUEST"}) <=> St(c, m) = "OUTGOING_REQUEST"
  <2>1. "NONE" \notin {"OUTGOING_REQUEST"}
    OBVIOUS
  <2> QED
    BY <1>1, <2>1, KnownAsIs
<1>3. p \in PacketRecord /\ p.op = "JOIN" /\ p.from = n /\ p.to = m
  <2>1. <<>> \in Seq(Nodes)
    OBVIOUS
  <2> QED
    BY <2>1 DEF Packet, PacketRecord
<1> HIDE DEF p
<1>4. St(c, m) = "OUTGOING_REQUEST" => Yields(n, c, msg, <<p>>)
  <2>1. St(c, m) = "OUTGOING_REQUEST" => Says(n, c, msg, p)
    BY <1>3 DEF Says
  <2> QED
    BY <1>3, <2>1, YieldsOne
<1>5. Yields(n, c, msg, <<>>)
  BY YieldsNothing
<1>6. SendJoin(a, n, m) = Result(a, IF KnownAs(a, m, {"OUTGOING_REQUEST"}) THEN <<p>> ELSE <<>>)
  BY DEF SendJoin, p
<1> QED
  BY <1>2, <1>4, <1>5, <1>6, ResultIs

LEMMA SendingStates ==
    ASSUME NEW c \in Context, Shape(c), NEW m, NEW flag \in BOOLEAN
    PROVE  LET d == SetSending(c, m, flag)
           IN  /\ SameButList(c, d) /\ d.events = c.events /\ Shape(d)
               /\ \A x \in Nodes : St(d, x) = St(c, x)
<1> DEFINE d == SetSending(c, m, flag)
<1>1. d \in {SetJoining(c, m, flag), SetSending(c, m, flag), SetLeaving(c, m), Refresh(c, m)}
  OBVIOUS
<1> HIDE DEF d
<1> QED
  BY <1>1, FlagStates

LEMMA BulkSent ==
    ASSUME NEW n \in Nodes, NEW c \in Context, NEW g, NEW a, NEW E, Emptied(c, a, g, E), NEW m \in Nodes,
           NEW msg, msg.op = "BULK", msg.mac = m
    PROVE  LET s == SendBulk(a, n, m)
           IN  Emptied(c, s.ctx, g, E) /\ Yields(n, c, msg, s.out)
<1> DEFINE p == Packet(n, m, "BULK")
           e == SetSending(a, m, FALSE)
           d == Spawn(e, "DATA_ACK", m)
           s == SendBulk(a, n, m)
<1>1. a \in Context /\ Shape(a) /\ Quiet(a) /\ \A k \in Nodes : St(a, k) = St(c, k)
  BY DEF Emptied
<1>2. CASE ~Known(a, m)
  <2>1. s = Result(a, <<>>)
    BY <1>2 DEF SendBulk
  <2> HIDE DEF s
  <2>2. s.ctx = a /\ s.out = <<>>
    BY <2>1, ResultIs
  <2> QED
    BY <2>2, YieldsNothing DEF s
<1>3. CASE Known(a, m)
  <2>1. s = Result(d, <<p>>)
    BY <1>3 DEF SendBulk
  <2>2. /\ SameButList(a, e) /\ e.events = a.events /\ Shape(e)
        /\ \A k \in Nodes : St(e, k) = St(a, k)
    <3>1. FALSE \in BOOLEAN
      OBVIOUS
    <3>2. LET x == SetSending(a, m, FALSE)
          IN  /\ SameButList(a, x) /\ x.events = a.events /\ Shape(x)
              /\ \A k \in Nodes : St(x, k) = St(a, k)
      BY <1>1, <3>1, SendingStates
    <3> QED
      BY <3>2
  <2> HIDE DEF e
  <2>3. e \in Context /\ Quiet(e) /\ \A k : Hears(e, g, k) <=> Hears(a, g, k)
    BY <1>1, <2>2 DEF SameButList, Quiet, Hears
  <2>4. /\ SameButList(e, d) /\ Shape(d) /\ Quiet(d)
        /\ \A k \in Nodes : St(d, k) = St(e, k)
        /\ \A k : Hears(d, g, k) <=> Hears(e, g, k)
    <3>1. "DATA_ACK" \in EventNames /\ "DATA_ACK" \notin {"LEAVE", "BYE", "TIMEOUT", "ESTABLISHED"}
      BY DEF EventNames
    <3>2. d = Spawn(e, "DATA_ACK", m)
      OBVIOUS
    <3> HIDE DEF d
    <3> QED
      BY <2>2, <2>3, <3>1, <3>2, SpawnStates
  <2>5. p \in PacketRecord /\ p.op = "BULK" /\ p.from = n /\ p.to = m
    <3>1. <<>> \in Seq(Nodes)
      OBVIOUS
    <3> QED
      BY <3>1 DEF Packet, PacketRecord
  <2> HIDE DEF p, d
  <2>6. /\ SameButList(a, d) /\ \A k \in Nodes : St(d, k) = St(a, k)
        /\ \A k : Hears(d, g, k) <=> Hears(a, g, k) \/ k \in {}
    BY <2>2, <2>3, <2>4 DEF SameButList
  <2>7. Emptied(c, d, g, E \cup {})
    BY <2>4, <2>6, EmptiedOn
  <2>8. E \cup {} = E
    OBVIOUS
  <2>9. Says(n, c, msg, p)
    <3>1. St(c, m) # "NONE"
      BY <1>1, <1>3, StIs
    <3> QED
      BY <2>5, <3>1 DEF Says
  <2>10. Yields(n, c, msg, <<p>>)
    BY <2>5, <2>9, YieldsOne
  <2> HIDE DEF s
  <2>11. s.ctx = d /\ s.out = <<p>>
    BY <2>1, ResultIs
  <2> QED
    BY <2>7, <2>8, <2>10, <2>11 DEF s
<1> QED
  BY <1>2, <1>3

LEMMA BirthSent ==
    ASSUME NEW n \in Nodes, NEW c \in Context, NEW g, NEW a, NEW E, Emptied(c, a, g, E), NEW m \in Nodes,
           NEW msg, msg.op = "BIRTH", msg.mac = m, St(c, m) = "CHILD"
    PROVE  LET s == SendBirth(a, n, m)
           IN  s.ctx = a /\ Yields(n, c, msg, s.out)
<1> DEFINE told == OtherChildren(a, m)
           out == [i \in DOMAIN told |-> About(n, told[i].mac, "BIRTH", m)]
<1>1. a \in Context /\ Shape(a) /\ \A k \in Nodes : St(a, k) = St(c, k)
  BY DEF Emptied
<1>2. ChildrenBut(a, m) = ChildrenBut(c, m)
  BY <1>1 DEF ChildrenBut
<1>3. Known(a, m)
  BY <1>1, StIs
<1>4. SendBirth(a, n, m) = Result(a, out)
  BY <1>3 DEF SendBirth, TellChildren
<1>5. /\ told \in Seq(PeerRecord)
      /\ \A j \in DOMAIN told : told[j].mac \in ChildrenBut(c, m)
      /\ \A k \in ChildrenBut(c, m) : \E j \in DOMAIN told : told[j].mac = k
  BY <1>1, <1>2, OtherChildrenAre
<1> HIDE DEF told
<1>6. ASSUME NEW k \in Nodes
      PROVE  LET p == About(n, k, "BIRTH", m)
             IN  p \in PacketRecord /\ p.op = "BIRTH" /\ p.from = n /\ p.to = k /\ p.mac = m
  <2>1. <<>> \in Seq(Nodes)
    OBVIOUS
  <2> QED
    BY <2>1 DEF About, Packet, PacketRecord
<1>7. \A k \in ChildrenBut(c, m) : k \in Nodes
  BY DEF ChildrenBut
<1>8. out \in Seq(PacketRecord) /\ DOMAIN out = DOMAIN told
  <2>1. DOMAIN told = 1..Len(told) /\ Len(told) \in Nat
    BY <1>5
  <2>2. \A i \in DOMAIN told : About(n, told[i].mac, "BIRTH", m) \in PacketRecord
    BY <1>5, <1>6, <1>7
  <2> QED
    BY <2>1, <2>2
<1>9. \A i \in DOMAIN told : /\ out[i].op = "BIRTH" /\ out[i].from = n /\ out[i].mac = m
                             /\ out[i].to = told[i].mac
  BY <1>5, <1>6, <1>7
<1> HIDE DEF out
<1>10. Yields(n, c, msg, out)
  <2>1. \A j \in DOMAIN out : Says(n, c, msg, out[j])
    BY <1>5, <1>8, <1>9 DEF Says
  <2>2. \A k \in ChildrenBut(c, m) : \E j \in DOMAIN out : out[j].to = k
    BY <1>5, <1>8, <1>9
  <2> QED
    BY <1>8, <2>1, <2>2 DEF Yields
<1> QED
  BY <1>4, <1>10, ResultIs

-----------------------------------------------------------------------------
(* The whole stack, message by message.                                    *)
Greeted(msg) == IF msg.op = "ACCEPT" THEN {msg.mac} ELSE {}

LEMMA MessageSent ==
    ASSUME NEW n \in Nodes, NEW c, Sane(c), NEW g, NEW a, NEW E, Emptied(c, a, g, E),
           NEW R \in SUBSET Nodes, Queued(n, c, R), NEW k \in DOMAIN c.input
    PROVE  LET msg == c.input[k]
               s == SendMessage(a, n, msg)
           IN  Emptied(c, s.ctx, g, E \cup Greeted(msg)) /\ Yields(n, c, msg, s.out)
<1> DEFINE msg == c.input[k]
           m == msg.mac
           s == SendMessage(a, n, msg)
<1>1. /\ m \in Nodes /\ msg.op \in {"JOIN", "ACCEPT", "BIRTH", "BULK", "BULK_ABORT"}
      /\ msg.op = "ACCEPT" => c.mode # "CHILD" /\ St(c, m) \in Established
      /\ msg.op = "BIRTH" => c.mode = "PARENT" /\ St(c, m) = "CHILD"
  BY DEF Queued
<1>2. c \in Context
  BY DEF Sane
<1> HIDE DEF msg
<1> SUFFICES Emptied(c, s.ctx, g, E \cup Greeted(msg)) /\ Yields(n, c, msg, s.out)
  BY DEF msg
<1>3. msg.op # "ACCEPT" => Greeted(msg) = {} /\ E \cup Greeted(msg) = E
  BY DEF Greeted
<1>4. CASE msg.op = "ACCEPT"
  <2>1. s = SendAccept(a, n, m)
    BY <1>4 DEF SendMessage
  <2>2. Greeted(msg) = {m}
    BY <1>4 DEF Greeted
  <2> HIDE DEF s
  <2>3. LET t == SendAccept(a, n, m)
        IN  Emptied(c, t.ctx, g, E \cup {m}) /\ Yields(n, c, msg, t.out)
    BY <1>1, <1>2, <1>4, AcceptSent
  <2> QED
    BY <2>1, <2>2, <2>3
<1>5. CASE msg.op = "JOIN"
  <2>1. s = SendJoin(a, n, m)
    BY <1>5 DEF SendMessage
  <2> HIDE DEF s
  <2>3. LET t == SendJoin(a, n, m)
        IN  t.ctx = a /\ Yields(n, c, msg, t.out)
    BY <1>1, <1>2, <1>5, JoinSent
  <2> QED
    BY <1>3, <1>5, <2>1, <2>3
<1>6. CASE msg.op = "BULK"
  <2>1. s = SendBulk(a, n, m)
    BY <1>6 DEF SendMessage
  <2> HIDE DEF s
  <2>3. LET t == SendBulk(a, n, m)
        IN  Emptied(c, t.ctx, g, E) /\ Yields(n, c, msg, t.out)
    BY <1>1, <1>2, <1>6, BulkSent
  <2> QED
    BY <1>3, <1>6, <2>1, <2>3
<1>7. CASE msg.op = "BIRTH"
  <2>1. s = SendBirth(a, n, m)
    BY <1>7 DEF SendMessage
  <2> HIDE DEF s
  <2>3. LET t == SendBirth(a, n, m)
        IN  t.ctx = a /\ Yields(n, c, msg, t.out)
    BY <1>1, <1>2, <1>7, BirthSent
  <2> QED
    BY <1>3, <1>7, <2>1, <2>3
<1>8. CASE msg.op = "BULK_ABORT"
  <2>1. s = Result(a, <<>>)
    BY <1>8 DEF SendMessage
  <2> HIDE DEF s
  <2>2. s.ctx = a /\ s.out = <<>>
    BY <2>1, ResultIs
  <2>3. Yields(n, c, msg, <<>>)
    BY <1>8, YieldsNothing
  <2> QED
    BY <1>3, <1>8, <2>2, <2>3
<1> QED
  BY <1>1, <1>4, <1>5, <1>6, <1>7, <1>8

LEMMA Joint ==
    ASSUME NEW u \in Seq(PacketRecord), NEW v \in Seq(PacketRecord)
    PROVE  LET w == u \o v
           IN  /\ w \in Seq(PacketRecord)
               /\ \A j \in DOMAIN w : \/ j \in DOMAIN u /\ w[j] = u[j]
                                      \/ j \notin DOMAIN u /\ j - Len(u) \in DOMAIN v /\ w[j] = v[j - Len(u)]
               /\ \A j \in DOMAIN u : j \in DOMAIN w /\ w[j] = u[j]
               /\ \A j \in DOMAIN v : j + Len(u) \in DOMAIN w /\ w[j + Len(u)] = v[j]
               /\ \A i, j \in DOMAIN w : i - Len(u) = j - Len(u) => i = j
<1> DEFINE w == u \o v
           L == Len(u)
           K == Len(v)
<1>1. L \in Nat /\ K \in Nat /\ DOMAIN u = 1..L /\ DOMAIN v = 1..K
  OBVIOUS
<1>2. /\ w \in Seq(PacketRecord) /\ Len(w) = L + K
      /\ \A i \in 1..(L + K) : w[i] = IF i <= L THEN u[i] ELSE v[i - L]
  BY ConcatProperties
<1>3. DOMAIN w = 1..(L + K)
  BY <1>2
<1> HIDE DEF w, L, K
<1>4. \A j \in DOMAIN w : \/ j \in DOMAIN u /\ w[j] = u[j]
                          \/ j \notin DOMAIN u /\ j - L \in DOMAIN v /\ w[j] = v[j - L]
  BY <1>1, <1>2, <1>3
<1>5. \A j \in DOMAIN u : j \in DOMAIN w /\ w[j] = u[j]
  BY <1>1, <1>2, <1>3
<1>6. \A j \in DOMAIN v : j + L \in DOMAIN w /\ w[j + L] = v[j]
  BY <1>1, <1>2, <1>3
<1>7. \A i, j \in DOMAIN w : i - L = j - L => i = j
  BY <1>1, <1>3
<1> QED
  BY <1>2, <1>4, <1>5, <1>6, <1>7 DEF w, L

(* What has been said when the first i messages have been sent.            *)
Drained(n, c, r, i, g) ==
    /\ Emptied(c, r.ctx, g, UNION {Greeted(c.input[k]) : k \in 1..i})
    /\ r.out \in Seq(PacketRecord)
    /\ \A j \in DOMAIN r.out : \E k \in 1..i : Says(n, c, c.input[k], r.out[j])
    /\ \A j, k \in DOMAIN r.out : r.out[j].op = "JOIN" /\ r.out[k].op = "JOIN" /\ r.out[j].to = r.out[k].to => j = k
    /\ \A k \in 1..i : c.input[k].op = "ACCEPT" =>
          \E j \in DOMAIN r.out : r.out[j].op = "ACCEPT" /\ r.out[j].to = c.input[k].mac
    /\ \A k \in 1..i : c.input[k].op = "BIRTH" =>
          \A m \in ChildrenBut(c, c.input[k].mac) :
             \E j \in DOMAIN r.out : r.out[j].op = "BIRTH" /\ r.out[j].mac = c.input[k].mac /\ r.out[j].to = m

LEMMA NextSent ==
    ASSUME NEW n \in Nodes, NEW c, Sane(c), NEW g, NEW R \in SUBSET Nodes, Queued(n, c, R),
           NEW i \in 1..Len(c.input), NEW r, Drained(n, c, r, i - 1, g)
    PROVE  Drained(n, c, SendNext(r, n, c.input[i]), i, g)
<1> DEFINE msg == c.input[i]
           s == SendMessage(r.ctx, n, msg)
           u == r.out
           v == s.out
           w == u \o v
           told(j) == UNION {Greeted(c.input[k]) : k \in 1..j}
<1>1. /\ c.input \in Seq([op : MessageOps, mac : Nodes]) /\ DOMAIN c.input = 1..Len(c.input) /\ Len(c.input) \in Nat
      /\ \A k \in DOMAIN c.input : c.input[k] \in [op : MessageOps, mac : Nodes]
  <2>1. c.input \in Seq([op : MessageOps, mac : Nodes])
    BY DEF Sane, Context
  <2>2. \A k \in DOMAIN c.input : c.input[k] \in [op : MessageOps, mac : Nodes]
    <3> DEFINE l == c.input
               M == [op : MessageOps, mac : Nodes]
    <3>1. l \in Seq(M)
      BY <2>1
    <3> HIDE DEF l, M
    <3>2. \A k \in DOMAIN l : l[k] \in M
      BY <3>1
    <3> QED
      BY <3>2 DEF l, M
  <2>3. DOMAIN c.input = 1..Len(c.input) /\ Len(c.input) \in Nat
    BY <2>1
  <2> QED
    BY <2>1, <2>2, <2>3
<1>2. i \in Nat /\ 1..i = (1..(i - 1)) \cup {i} /\ 1..i \subseteq DOMAIN c.input /\ i \notin 1..(i - 1)
  BY <1>1
<1>3. Emptied(c, s.ctx, g, told(i - 1) \cup Greeted(msg)) /\ Yields(n, c, msg, v)
  <2>1. Emptied(c, r.ctx, g, told(i - 1))
    BY DEF Drained
  <2>2. i \in DOMAIN c.input
    BY <1>2
  <2> HIDE DEF told
  <2> QED
    BY <2>1, <2>2, MessageSent
<1>4. told(i - 1) \cup Greeted(msg) = told(i)
  BY <1>2
<1>5. /\ u \in Seq(PacketRecord)
      /\ \A j \in DOMAIN u : \E k \in 1..(i - 1) : Says(n, c, c.input[k], u[j])
      /\ \A j, k \in DOMAIN u : u[j].op = "JOIN" /\ u[k].op = "JOIN" /\ u[j].to = u[k].to => j = k
      /\ \A k \in 1..(i - 1) : c.input[k].op = "ACCEPT" =>
            \E j \in DOMAIN u : u[j].op = "ACCEPT" /\ u[j].to = c.input[k].mac
      /\ \A k \in 1..(i - 1) : c.input[k].op = "BIRTH" =>
            \A m \in ChildrenBut(c, c.input[k].mac) :
               \E j \in DOMAIN u : u[j].op = "BIRTH" /\ u[j].mac = c.input[k].mac /\ u[j].to = m
  BY DEF Drained
<1>6. /\ v \in Seq(PacketRecord) /\ \A j \in DOMAIN v : Says(n, c, msg, v[j])
      /\ msg.op = "JOIN" => \A j, k \in DOMAIN v : j = k
      /\ msg.op = "ACCEPT" => \E j \in DOMAIN v : v[j].to = msg.mac
      /\ msg.op = "BIRTH" => \A k \in ChildrenBut(c, msg.mac) : \E j \in DOMAIN v : v[j].to = k
  BY <1>3 DEF Yields
<1>7. SendNext(r, n, msg) = Result(s.ctx, w)
  BY DEF SendNext
<1> HIDE DEF s, u, v, told
<1>8. /\ w \in Seq(PacketRecord)
      /\ \A j \in DOMAIN w : \/ j \in DOMAIN u /\ w[j] = u[j]
                             \/ j \notin DOMAIN u /\ j - Len(u) \in DOMAIN v /\ w[j] = v[j - Len(u)]
      /\ \A j \in DOMAIN u : j \in DOMAIN w /\ w[j] = u[j]
      /\ \A j \in DOMAIN v : j + Len(u) \in DOMAIN w /\ w[j + Len(u)] = v[j]
      /\ \A j, k \in DOMAIN w : j - Len(u) = k - Len(u) => j = k
  BY <1>5, <1>6, Joint
<1> HIDE DEF w
<1>9. \A j \in DOMAIN w : \E k \in 1..i : Says(n, c, c.input[k], w[j])
  <2> SUFFICES ASSUME NEW j \in DOMAIN w PROVE \E k \in 1..i : Says(n, c, c.input[k], w[j])
    OBVIOUS
  <2>1. CASE j \in DOMAIN u
    <3>1. w[j] = u[j]
      BY <1>8, <2>1
    <3>2. PICK k \in 1..(i - 1) : Says(n, c, c.input[k], u[j])
      BY <1>5, <2>1
    <3> QED
      BY <1>2, <3>1, <3>2
  <2>2. CASE j \notin DOMAIN u
    <3>1. Says(n, c, c.input[i], w[j])
      BY <1>6, <1>8, <2>2
    <3>2. i \in 1..i
      BY <1>2
    <3> QED
      BY <3>1, <3>2
  <2> QED
    BY <2>1, <2>2
<1>10. \A p : Says(n, c, msg, p) => p.op = msg.op /\ (msg.op # "BIRTH" => p.to = msg.mac) /\ (msg.op = "BIRTH" => p.mac = msg.mac)
  BY DEF Says
<1>11. ASSUME NEW j \in DOMAIN u, NEW k \in DOMAIN v, u[j].op = "JOIN", v[k].op = "JOIN", u[j].to = v[k].to
       PROVE  FALSE
  <2>1. PICK h \in 1..(i - 1) : Says(n, c, c.input[h], u[j])
    BY <1>5
  <2>2. c.input[h].op = "JOIN" /\ c.input[h].mac = u[j].to
    BY <1>11, <2>1 DEF Says
  <2>3. msg.op = "JOIN" /\ msg.mac = v[k].to
    BY <1>6, <1>10, <1>11
  <2>4. h \in DOMAIN c.input /\ i \in DOMAIN c.input /\ h # i
    BY <1>2
  <2>5. c.input[h] \in [op : MessageOps, mac : Nodes] /\ c.input[i] \in [op : MessageOps, mac : Nodes]
    BY <1>1, <2>4
  <2>6. c.input[h] = c.input[i]
    BY <1>11, <2>2, <2>3, <2>5
  <2>7. \A j1, j2 \in DOMAIN c.input : c.input[j1].op = "JOIN" /\ c.input[j2] = c.input[j1] => j1 = j2
    BY DEF Queued
  <2> QED
    BY <2>2, <2>4, <2>6, <2>7
<1>12. ASSUME NEW j \in DOMAIN w, NEW k \in DOMAIN w, w[j].op = "JOIN", w[k].op = "JOIN", w[j].to = w[k].to
       PROVE  j = k
  <2>1. CASE j \in DOMAIN u /\ k \in DOMAIN u
    BY <1>5, <1>8, <1>12, <2>1
  <2>2. CASE j \in DOMAIN u /\ k \notin DOMAIN u
    BY <1>8, <1>11, <1>12, <2>2
  <2>3. CASE j \notin DOMAIN u /\ k \in DOMAIN u
    BY <1>8, <1>11, <1>12, <2>3
  <2>4. CASE j \notin DOMAIN u /\ k \notin DOMAIN u
    <3>1. j - Len(u) \in DOMAIN v /\ w[j] = v[j - Len(u)] /\ k - Len(u) \in DOMAIN v
      BY <1>8, <2>4
    <3>2. msg.op = "JOIN"
      BY <1>6, <1>10, <1>12, <3>1
    <3>3. j - Len(u) = k - Len(u)
      BY <1>6, <3>1, <3>2
    <3> QED
      BY <1>8, <3>3
  <2> QED
    BY <2>1, <2>2, <2>3, <2>4
<1>13. ASSUME NEW k \in 1..i, c.input[k].op = "ACCEPT"
       PROVE  \E j \in DOMAIN w : w[j].op = "ACCEPT" /\ w[j].to = c.input[k].mac
  <2>1. CASE k \in 1..(i - 1)
    <3>1. PICK j \in DOMAIN u : u[j].op = "ACCEPT" /\ u[j].to = c.input[k].mac
      BY <1>5, <1>13, <2>1
    <3> QED
      BY <1>8, <3>1
  <2>2. CASE k = i
    <3>1. PICK j \in DOMAIN v : v[j].to = msg.mac
      BY <1>6, <1>13, <2>2
    <3>2. v[j].op = "ACCEPT"
      BY <1>6, <1>10, <1>13, <2>2
    <3> QED
      BY <1>8, <2>2, <3>1, <3>2
  <2> QED
    BY <1>2, <2>1, <2>2
<1>14. ASSUME NEW k \in 1..i, c.input[k].op = "BIRTH", NEW m \in ChildrenBut(c, c.input[k].mac)
       PROVE  \E j \in DOMAIN w : w[j].op = "BIRTH" /\ w[j].mac = c.input[k].mac /\ w[j].to = m
  <2>1. CASE k \in 1..(i - 1)
    <3>1. PICK j \in DOMAIN u : u[j].op = "BIRTH" /\ u[j].mac = c.input[k].mac /\ u[j].to = m
      BY <1>5, <1>14, <2>1
    <3> QED
      BY <1>8, <3>1
  <2>2. CASE k = i
    <3>1. PICK j \in DOMAIN v : v[j].to = m
      BY <1>6, <1>14, <2>2
    <3>2. v[j].op = "BIRTH" /\ v[j].mac = msg.mac
      BY <1>6, <1>10, <1>14, <2>2
    <3> QED
      BY <1>8, <2>2, <3>1, <3>2
  <2> QED
    BY <1>2, <2>1, <2>2
<1> DEFINE t == SendNext(r, n, msg)
<1>15. t.ctx = s.ctx /\ t.out = w
  BY <1>7, ResultIs
<1> HIDE DEF t
<1>16. Emptied(c, t.ctx, g, told(i))
  BY <1>3, <1>4, <1>15
<1>17. Drained(n, c, t, i, g)
  BY <1>8, <1>9, <1>12, <1>13, <1>14, <1>15, <1>16 DEF Drained, told
<1> QED
  BY <1>17 DEF t

-----------------------------------------------------------------------------
LEMMA DrainUnfolds ==
    ASSUME NEW c \in Context, NEW self
    PROVE  \E after : /\ after[0] = Result([c EXCEPT !.input = <<>>], <<>>)
                      /\ \A i \in 1..Len(c.input) : after[i] = SendNext(after[i - 1], self, c.input[i])
                      /\ DrainInput(c, self) = after[Len(c.input)]
<1> DEFINE N == Len(c.input)
           start == Result([c EXCEPT !.input = <<>>], <<>>)
           Rec(g, n) == g = [i \in 0..n |-> IF i = 0 THEN start ELSE SendNext(g[i - 1], self, c.input[i])]
<1>1. N \in Nat
  <2>1. c.input \in Seq([op : MessageOps, mac : Nodes])
    BY DEF Context
  <2> QED
    BY <2>1
<1> HIDE DEF N, start
<1>4. \E g : Rec(g, N)
  <2> DEFINE Bad == {n \in Nat : ~\E g : Rec(g, n)}
             b == Min(Bad)
  <2> SUFFICES ASSUME Bad # {}
               PROVE  FALSE
    BY <1>1
  <2>1. b \in Bad /\ \A n \in Bad : b <= n
    BY MinIn
  <2>2. b # 0
    <3>1. Rec([i \in 0..0 |-> start], 0)
      OBVIOUS
    <3> QED
      BY <2>1, <3>1
  <2>3. b - 1 \in Nat /\ b - 1 \notin Bad /\ b \in Nat
    <3> HIDE DEF b
    <3>1. b \in Nat
      BY <2>1
    <3> HIDE DEF Bad
    <3> QED
      BY <2>1, <2>2, <3>1
  <2>4. PICK g : Rec(g, b - 1)
    BY <2>3
  <2> HIDE DEF b
  <2> DEFINE f == [i \in 0..b |-> IF i = b THEN SendNext(g[b - 1], self, c.input[b]) ELSE g[i]]
  <2>5. \A i \in 0..(b - 1) : f[i] = g[i]
    BY <2>3
  <2>6. \A i \in 0..(b - 1) : g[i] = IF i = 0 THEN start ELSE SendNext(g[i - 1], self, c.input[i])
    BY <2>4
  <2>7. ASSUME NEW i \in 0..b
        PROVE  f[i] = IF i = 0 THEN start ELSE SendNext(f[i - 1], self, c.input[i])
    <3>1. CASE i = b
      <4>1. f[i] = SendNext(g[b - 1], self, c.input[b]) /\ f[b - 1] = g[b - 1]
        BY <2>3, <2>5, <3>1
      <4> QED
        BY <2>2, <3>1, <4>1
    <3>2. CASE i # b
      <4>1. i \in 0..(b - 1) /\ (i # 0 => i - 1 \in 0..(b - 1))
        BY <2>3, <3>2
      <4>2. f[i] = g[i] /\ (i # 0 => f[i - 1] = g[i - 1])
        BY <2>5, <4>1
      <4>3. g[i] = IF i = 0 THEN start ELSE SendNext(g[i - 1], self, c.input[i])
        BY <2>6, <4>1
      <4> QED
        BY <4>2, <4>3
    <3> QED
      BY <3>1, <3>2
  <2>8. f = [i \in 0..b |-> f[i]]
    OBVIOUS
  <2> HIDE DEF f
  <2>9. Rec(f, b)
    BY <2>7, <2>8
  <2> QED
    BY <2>1, <2>9
<1> DEFINE after == CHOOSE g : Rec(g, N)
<1>5. Rec(after, N)
  BY <1>4
<1>6. DrainInput(c, self) = after[N]
  BY DEF DrainInput, N, start
<1> HIDE DEF after
<1>7. after[0] = start /\ \A i \in 1..N : after[i] = SendNext(after[i - 1], self, c.input[i])
  <2>1. \A i \in 0..N : after[i] = IF i = 0 THEN start ELSE SendNext(after[i - 1], self, c.input[i])
    BY <1>5
  <2> QED
    BY <1>1, <2>1
<1> QED
  BY <1>6, <1>7 DEF N, start

LEMMA AllSent ==
    ASSUME NEW n \in Nodes, NEW c, Sane(c), Quiet(c), NEW g, NEW R \in SUBSET Nodes, Queued(n, c, R)
    PROVE  Drained(n, c, DrainInput(c, n), Len(c.input), g)
<1> DEFINE N == Len(c.input)
           d == [c EXCEPT !.input = <<>>]
           start == Result(d, <<>>)
<1>1. c \in Context /\ c.input \in Seq([op : MessageOps, mac : Nodes]) /\ N \in Nat
  <2>1. c.input \in Seq([op : MessageOps, mac : Nodes])
    BY DEF Sane, Context
  <2> QED
    BY <2>1 DEF Sane
<1>2. PICK after : /\ after[0] = start
                   /\ \A i \in 1..N : after[i] = SendNext(after[i - 1], n, c.input[i])
                   /\ DrainInput(c, n) = after[N]
  BY <1>1, DrainUnfolds
<1>3. Emptied(c, d, g, {})
  <2>1. <<>> \in Seq([op : MessageOps, mac : Nodes])
    OBVIOUS
  <2>2. /\ d \in Context /\ d.phase = c.phase /\ d.mode = c.mode /\ d.maxpeers = c.maxpeers
        /\ d.peers = c.peers /\ d.events = c.events /\ d.input = <<>>
    BY <1>1, <2>1 DEF Context
  <2> HIDE DEF d
  <2>3. \A i \in DOMAIN c.peers : Alike(d.peers[i], c.peers[i])
    BY <2>2 DEF Alike
  <2>4. Shape(d) /\ \A k \in Nodes : St(d, k) = St(c, k)
    BY <1>1, <2>2, <2>3, SameStates DEF Sane
  <2>5. Quiet(d) /\ \A k : Hears(d, g, k) <=> Hears(c, g, k)
    BY <2>2 DEF Quiet, Hears
  <2> QED
    BY <2>2, <2>4, <2>5 DEF Emptied
<1> HIDE DEF d, start
<1>4. start.ctx = d /\ start.out = <<>>
  BY ResultIs DEF start
<1>5. Drained(n, c, start, 0, g)
  <2>1. <<>> \in Seq(PacketRecord) /\ DOMAIN <<>> = {} /\ 1..0 = {}
    OBVIOUS
  <2>2. UNION {Greeted(c.input[k]) : k \in 1..0} = {}
    BY <2>1
  <2> QED
    BY <1>3, <1>4, <2>1, <2>2 DEF Drained
<1>6. \A i \in 0..N : Drained(n, c, after[i], i, g)
  <2> DEFINE Bad == {i \in 0..N : ~Drained(n, c, after[i], i, g)}
             b == Min(Bad)
  <2> SUFFICES ASSUME Bad # {}
               PROVE  FALSE
    OBVIOUS
  <2>0. Bad \in SUBSET Nat
    BY <1>1
  <2>1. b \in Bad /\ \A i \in Bad : b <= i
    BY <2>0, MinIn
  <2> HIDE DEF b
  <2>2. b \in 0..N /\ ~Drained(n, c, after[b], b, g)
    BY <2>1
  <2>3. b # 0
    BY <1>2, <1>5, <2>2
  <2>4. b \in 1..N /\ b - 1 \in 0..N
    BY <1>1, <2>2, <2>3
  <2>5. b - 1 \notin Bad
    <3> HIDE DEF Bad
    <3> QED
      BY <2>1, <2>4, <1>1
  <2>6. Drained(n, c, after[b - 1], b - 1, g)
    BY <2>4, <2>5
  <2>7. after[b] = SendNext(after[b - 1], n, c.input[b])
    BY <1>2, <2>4
  <2>8. Drained(n, c, SendNext(after[b - 1], n, c.input[b]), b, g)
    BY <2>4, <2>6, NextSent
  <2> QED
    BY <2>2, <2>7, <2>8
<1> QED
  BY <1>1, <1>2, <1>6

(* What Says means for the receiver, in the old context.                   *)
LEMMA SaidIs ==
    ASSUME NEW F, NEW B, NEW g, Playing(F, B, g), NEW n \in OnAir(F), NEW k \in DOMAIN F[n].input,
           NEW p, Says(n, F[n], F[n].input[k], p)
    PROVE  /\ p.from = n /\ p.to \in OnAir(F) \ {n} /\ Letter(p.to, F[p.to].mode, p, F)
           /\ p.op \in {"JOIN", "ACCEPT", "BULK", "BIRTH"}
           /\ p.op = "JOIN" => /\ St(F[n], p.to) = "OUTGOING_REQUEST"
                               /\ From(B[p.to], n, "JOIN") = {} /\ St(F[p.to], n) \notin Met
                               /\ From(B[n], p.to, "JOIN") # {} => St(F[p.to], n) = "OUTGOING_REQUEST"
                               /\ From(B[n], p.to, "CANCEL") = {}
           /\ p.op = "ACCEPT" => St(F[n], p.to) \in Established
<1> DEFINE c == F[n]
           msg == c.input[k]
           y == p.to
<1>1. /\ n \in Nodes /\ Sane(c) /\ Tidy(n, c) /\ Queued(n, c, OnAir(F))
      /\ \A m \in Nodes : St(c, m) # "NONE" => m \in OnAir(F)
      /\ \A m \in Nodes \ {n} : BothWays(n, m, c, F[m], B[m], B[n])
  BY PlayerIs
<1>2. /\ msg.op # "BULK_ABORT" => msg.mac # n
      /\ msg.mac \in OnAir(F)
      /\ msg.op = "ACCEPT" => c.mode # "CHILD"
      /\ msg.op = "BIRTH" => c.mode = "PARENT"
  BY <1>1 DEF Queued
<1>3. Waits(c, msg.op, msg.mac)
  BY DEF Waits
<1>4. OnAir(F) \subseteq Nodes
  BY DEF OnAir
<1> HIDE DEF c, msg
<1>5. Says(n, c, msg, p)
  BY DEF c, msg
<1>6. \A m : m \in ChildrenBut(c, y) \/ m \in ChildrenBut(c, p.mac) => m # n /\ m \in OnAir(F)
  <2>1. St(c, n) # "CHILD"
    BY <1>1 DEF Tidy
  <2> QED
    BY <1>1, <2>1 DEF ChildrenBut
<1>7. y \in OnAir(F) \ {n}
  BY <1>2, <1>5, <1>6 DEF Says
<1>8. BothWays(n, y, c, F[y], B[y], B[n])
  BY <1>1, <1>4, <1>7
<1>9. p.op = "JOIN" => St(c, y) = "OUTGOING_REQUEST" /\ Waits(c, "JOIN", y)
  BY <1>3, <1>5 DEF Says
<1>10. p.op = "JOIN" => /\ F[y].mode # "CHILD" /\ From(B[y], n, "JOIN") = {} /\ St(F[y], n) \notin Met
                        /\ From(B[n], y, "JOIN") # {} => St(F[y], n) = "OUTGOING_REQUEST"
                        /\ From(B[n], y, "CANCEL") = {}
  BY <1>8, <1>9 DEF BothWays, Pair
<1>11. Letter(y, F[y].mode, p, F)
  <2>1. p.from = n /\ p.op = msg.op /\ p.op \in {"JOIN", "ACCEPT", "BULK", "BIRTH"}
    BY <1>5 DEF Says
  <2>2. p.op = "BIRTH" => p.mac \notin {y, n} /\ p.mac \in OnAir(F)
    BY <1>2, <1>5 DEF Says, ChildrenBut
  <2>3. p.op = "ACCEPT" => \A m \in ToSet(p.siblings) : m \notin {y, n} /\ m \in OnAir(F)
    <3> SUFFICES ASSUME p.op = "ACCEPT", NEW m \in ToSet(p.siblings) PROVE m \notin {y, n} /\ m \in OnAir(F)
      OBVIOUS
    <3>1. m \in ChildrenBut(c, y)
      BY <1>5 DEF Says
    <3>2. m # y
      BY <3>1 DEF ChildrenBut
    <3> QED
      BY <1>6, <3>1, <3>2
  <2>4. p.op \notin {"JOIN", "BULK"} => F[n].mode # "CHILD"
    BY <1>2, <2>1 DEF c
  <2> QED
    BY <1>7, <1>10, <2>1, <2>2, <2>3, <2>4 DEF Letter
<1>12. p.op = "ACCEPT" => St(c, y) \in Established
  BY <1>5 DEF Says
<1>13. p.from = n /\ p.op \in {"JOIN", "ACCEPT", "BULK", "BIRTH"}
  BY <1>5 DEF Says
<1> QED
  BY <1>7, <1>9, <1>10, <1>11, <1>12, <1>13 DEF c

LEMMA DrainStep ==
    ASSUME NEW F, NEW B, NEW g, Playing(F, B, g), NEW n \in OnAir(F),
           NEW r, r = DrainInput(F[n], n), Fits(r.ctx), Within(r.ctx)
    PROVE  Playing([F EXCEPT ![n] = r.ctx], Posted(B, r.out), g)
<1> DEFINE c == F[n]
           a == r.ctx
           out == r.out
           N == Len(c.input)
           E == UNION {Greeted(c.input[k]) : k \in 1..N}
           H == [F EXCEPT ![n] = a]
<1>1. /\ n \in Nodes /\ c \in Context /\ Sane(c) /\ c.phase = "running" /\ Tidy(n, c) /\ Quiet(c)
      /\ \A m \in Nodes : St(c, m) # "NONE" => m \in OnAir(F)
      /\ \A m \in Nodes \ {n} : BothWays(n, m, c, F[m], B[m], B[n])
      /\ \A i \in DOMAIN B[n] : Letter(n, c.mode, B[n][i], F)
      /\ Queued(n, c, OnAir(F)) /\ Informed(c, g[n]) /\ g[n] \in SUBSET Nodes
      /\ OnAir(F) \in SUBSET Nodes
  BY PlayerIs DEF OnAir
<1>2. DOMAIN c.input = 1..N
  <2>1. c.input \in Seq([op : MessageOps, mac : Nodes])
    BY <1>1 DEF Context
  <2> QED
    BY <2>1
<1>3. Drained(n, c, r, N, g[n])
  <2> HIDE DEF c, N
  <2>1. Drained(n, c, DrainInput(c, n), Len(c.input), g[n])
    BY <1>1, AllSent
  <2> QED
    BY <2>1 DEF c, N
<1>4. /\ a \in Context /\ a.phase = c.phase /\ a.mode = c.mode /\ a.input = <<>>
      /\ Shape(a) /\ Quiet(a)
      /\ \A m \in Nodes : St(a, m) = St(c, m)
      /\ \A m : Hears(a, g[n], m) <=> Hears(c, g[n], m) \/ m \in E
  BY <1>3 DEF Drained, Emptied
<1>5. /\ out \in Seq(PacketRecord)
      /\ \A j \in DOMAIN out : \E k \in 1..N : Says(n, c, c.input[k], out[j])
      /\ \A j, k \in DOMAIN out : out[j].op = "JOIN" /\ out[k].op = "JOIN" /\ out[j].to = out[k].to => j = k
  BY <1>3 DEF Drained
<1>6. Sane(a)
  BY <1>4 DEF Sane
<1>7. Unattached(a) <=> Unattached(c)
  BY <1>1, <1>4, <1>6, UnattachedIs
<1>8. Tidy(n, a)
  BY <1>1, <1>4, <1>7 DEF Tidy
<1>9. DOMAIN a.input = {} /\ \A op, m : ~Waits(a, op, m)
  BY <1>4 DEF Waits
<1>10. \A m \in Nodes \ {n} : BothWays(n, m, a, F[m], B[m], B[n])
  <2> SUFFICES ASSUME NEW m \in Nodes \ {n} PROVE BothWays(n, m, a, F[m], B[m], B[n])
    OBVIOUS
  <2>1. BothWays(n, m, c, F[m], B[m], B[n])
    BY <1>1
  <2>2. a.mode = c.mode /\ St(a, m) = St(c, m) /\ (Waits(a, "JOIN", m) => Waits(c, "JOIN", m))
    BY <1>4, <1>9
  <2> HIDE DEF a, c
  <2> QED
    BY <1>7, <2>1, <2>2, PairQuiet
<1>11. /\ OnAir(H) = OnAir(F) /\ \A m \in Nodes : H[m].mode = F[m].mode
       /\ H[n] = a /\ \A m \in Nodes \ {n} : H[m] = F[m]
  BY <1>1, <1>4 DEF OnAir, Playing
<1>12. Informed(a, g[n])
  <2>1. \A m \in Nodes \cap E : St(a, m) \in PartnerStates(c)
    <3> SUFFICES ASSUME NEW m \in Nodes, NEW k \in 1..N, m \in Greeted(c.input[k])
                 PROVE  St(c, m) \in PartnerStates(c)
      BY <1>4
    <3>1. c.input[k].op = "ACCEPT" /\ c.input[k].mac = m
      BY DEF Greeted
    <3>2. c.mode # "CHILD" /\ St(c, m) \in Established
      BY <1>1, <1>2, <3>1 DEF Queued
    <3> QED
      BY <1>1, <3>2, FitsIs DEF Established, PartnerStates
  <2>2. \A m \in Nodes \ E : ~Waits(c, "ACCEPT", m)
    BY <1>2 DEF Waits, Greeted
  <2> HIDE DEF a, c, E
  <2> QED
    BY <1>1, <1>4, <2>1, <2>2, InformedKept
<1>13. Own(n, a, B[n], g[n], H)
  <2>1. Queued(n, a, OnAir(H))
    BY <1>9 DEF Queued
  <2>2. \A i \in DOMAIN B[n] : Letter(n, a.mode, B[n][i], H)
    <3> SUFFICES ASSUME NEW i \in DOMAIN B[n] PROVE Letter(n, a.mode, B[n][i], H)
      OBVIOUS
    <3>1. Letter(n, c.mode, B[n][i], F)
      BY <1>1
    <3>2. OnAir(F) \subseteq OnAir(H) /\ \A m \in Nodes : H[m].mode = F[m].mode
      BY <1>11
    <3> HIDE DEF H
    <3> QED
      BY <1>4, <3>1, <3>2, LetterKept
  <2>3. \A m \in Nodes : St(a, m) # "NONE" => m \in OnAir(H)
    BY <1>1, <1>4, <1>11
  <2>4. n \in OnAir(H)
    BY <1>11
  <2> QED
    BY <1>8, <1>12, <2>1, <2>2, <2>3, <2>4 DEF Own
<1>14. Playing(H, B, [g EXCEPT ![n] = g[n]])
  <2>1. a.mode = F[n].mode /\ (n \in OnAir(F) => a.phase = "running")
    BY <1>1, <1>4
  <2>2. g[n] \in SUBSET Nodes
    BY <1>1
  <2> HIDE DEF a
  <2> QED
    BY <1>1, <1>6, <1>10, <1>13, <2>1, <2>2, OnePlayer
<1>15. [g EXCEPT ![n] = g[n]] = g
  BY DEF Playing
<1>16. ASSUME NEW j \in DOMAIN out
       PROVE  /\ out[j].from = n /\ out[j].to \in OnAir(H) \ {n}
              /\ Letter(out[j].to, H[out[j].to].mode, out[j], H)
              /\ Mailable(n, out[j].to, H[n], H[out[j].to], B[out[j].to], B[n], out[j].op)
  <2> DEFINE p == out[j]
  <2>1. PICK k \in DOMAIN c.input : Says(n, c, c.input[k], p)
    BY <1>2, <1>5
  <2> HIDE DEF p, H
  <2>2. /\ p.from = n /\ p.to \in OnAir(F) \ {n} /\ Letter(p.to, F[p.to].mode, p, F)
        /\ p.op \in {"JOIN", "ACCEPT", "BULK", "BIRTH"}
        /\ p.op = "JOIN" => /\ St(F[n], p.to) = "OUTGOING_REQUEST"
                            /\ From(B[p.to], n, "JOIN") = {} /\ St(F[p.to], n) \notin Met
                            /\ From(B[n], p.to, "JOIN") # {} => St(F[p.to], n) = "OUTGOING_REQUEST"
                            /\ From(B[n], p.to, "CANCEL") = {}
        /\ p.op = "ACCEPT" => St(F[n], p.to) \in Established
    BY <2>1, SaidIs
  <2>3. p.to \in Nodes /\ p.to # n /\ H[p.to] = F[p.to] /\ p.to \in OnAir(H) \ {n}
    BY <1>1, <1>11, <2>2
  <2>4. Letter(p.to, H[p.to].mode, p, H)
    <3>1. OnAir(F) \subseteq OnAir(H) /\ \A m \in Nodes : H[m].mode = F[m].mode
      BY <1>11
    <3> QED
      BY <2>2, <2>3, <3>1, LetterKept
  <2>5. St(a, p.to) = St(F[n], p.to) /\ ~Waits(a, "JOIN", p.to)
    BY <1>4, <1>9, <2>3
  <2>6. Mailable(n, p.to, H[n], H[p.to], B[p.to], B[n], p.op)
    <3>1. H[n] = a
      BY <1>11
    <3> HIDE DEF a
    <3>2. Mailable(n, p.to, a, F[p.to], B[p.to], B[n], p.op)
      BY <2>2, <2>5 DEF Mailable
    <3> QED
      BY <2>3, <3>1, <3>2
  <2> QED
    BY <2>2, <2>3, <2>4, <2>6 DEF p
<1>17. Playing(H, B, g)
  BY <1>14, <1>15
<1> HIDE DEF H, out
<1>18. Playing(H, Posted(B, out), g)
  BY <1>1, <1>5, <1>16, <1>17, OutStep
<1> QED
  BY <1>18 DEF H, out

-----------------------------------------------------------------------------
(* The calls of the game.                                                  *)
LEMMA CallStep ==
    ASSUME NEW F, NEW B, NEW g, Playing(F, B, g), NEW n \in OnAir(F), NEW a, Sane(a), NEW h \in SUBSET Nodes,
           a.mode = F[n].mode, a.phase = "running",
           Tidy(n, a), Queued(n, a, OnAir(F)), Informed(a, h),
           \A m \in Nodes : St(a, m) # "NONE" => m \in OnAir(F),
           \A m \in Nodes \ {n} : BothWays(n, m, a, F[m], B[m], B[n])
    PROVE  Playing([F EXCEPT ![n] = a], B, [g EXCEPT ![n] = h])
<1> DEFINE H == [F EXCEPT ![n] = a]
<1>1. n \in Nodes /\ \A i \in DOMAIN B[n] : Letter(n, a.mode, B[n][i], F)
  BY PlayerIs
<1>2. OnAir(F) = OnAir(H) /\ \A m \in Nodes : H[m].mode = F[m].mode
  BY <1>1 DEF OnAir, Playing
<1> HIDE DEF H
<1>3. n \in OnAir(H) /\ Queued(n, a, OnAir(H)) /\ \A m \in Nodes : St(a, m) # "NONE" => m \in OnAir(H)
  BY <1>2
<1>4. \A i \in DOMAIN B[n] : Letter(n, a.mode, B[n][i], H)
  <2> SUFFICES ASSUME NEW i \in DOMAIN B[n] PROVE Letter(n, a.mode, B[n][i], H)
    OBVIOUS
  <2>1. Letter(n, a.mode, B[n][i], F) /\ OnAir(F) \subseteq OnAir(H)
    BY <1>1, <1>2
  <2> QED
    BY <1>2, <2>1, LetterKept
<1>5. Own(n, a, B[n], h, H)
  BY <1>3, <1>4 DEF Own
<1> QED
  BY <1>1, <1>5, OnePlayer DEF H

LEMMA ListStep ==
    ASSUME NEW F, NEW B, NEW g, Playing(F, B, g), NEW n \in OnAir(F), NEW a, Sane(a),
           a.mode = F[n].mode, a.phase = "running", a.events = F[n].events,
           Tidy(n, a), Queued(n, a, OnAir(F)),
           \A m \in Nodes : St(a, m) # "NONE" => m \in OnAir(F),
           \A m \in Nodes : St(F[n], m) \in Established => St(a, m) = St(F[n], m),
           \A m \in Nodes : St(a, m) \in PartnerStates(F[n]) => St(a, m) = St(F[n], m) \/ Waits(a, "ACCEPT", m),
           \A m : Waits(F[n], "ACCEPT", m) => Waits(a, "ACCEPT", m),
           \A m \in Nodes \ {n} : BothWays(n, m, a, F[m], B[m], B[n])
    PROVE  Playing([F EXCEPT ![n] = a], B, g)
<1> DEFINE c == F[n]
<1>1. n \in Nodes /\ Informed(c, g[n]) /\ Quiet(c) /\ g[n] \in SUBSET Nodes
  BY PlayerIs
<1>2. Quiet(a) /\ \A m : Hears(a, g[n], m) <=> Hears(c, g[n], m)
  BY <1>1 DEF Quiet, Hears
<1>3. \A m \in Nodes : St(c, m) \in PartnerStates(c) => St(a, m) = St(c, m)
  BY DEF PartnerStates, Established
<1>4. Informed(a, g[n])
  <2> DEFINE E == {}
  <2>1. \A m \in Nodes \ E : St(a, m) \in PartnerStates(c) =>
              Waits(a, "ACCEPT", m) \/ (St(c, m) = St(a, m) /\ ~Waits(c, "ACCEPT", m))
    OBVIOUS
  <2>2. (\A m \in Nodes : Hears(a, g[n], m) <=> Hears(c, g[n], m) \/ m \in E) /\ \A m \in Nodes \cap E : St(a, m) \in PartnerStates(c)
    BY <1>2
  <2> HIDE DEF c, E
  <2>3. a.mode = c.mode
    BY DEF c
  <2> QED
    BY <1>1, <1>2, <1>3, <2>1, <2>2, <2>3, InformedKept
<1>5. Playing([F EXCEPT ![n] = a], B, [g EXCEPT ![n] = g[n]])
  BY <1>1, <1>4, CallStep
<1>6. [g EXCEPT ![n] = g[n]] = g
  BY DEF Playing
<1> QED
  BY <1>5, <1>6

(* A request of m is accepted, by a host or a P2P player.                  *)
Taken(c, a, m, state) ==
    /\ a \in Context /\ a.mode = c.mode /\ a.phase = c.phase /\ a.events = c.events /\ Shape(a)
    /\ \A k \in Nodes : St(a, k) = With(c, m, state, k)
    /\ \A k : Waits(c, "ACCEPT", k) \/ k = m => Waits(a, "ACCEPT", k)
    /\ \A k : Waits(a, "JOIN", k) => Waits(c, "JOIN", k)
    /\ \A n, R : Queued(n, c, R) /\ m # n /\ m \in R /\ R \subseteq Nodes => Queued(n, a, R)

LEMMA SelectedStates ==
    ASSUME NEW c \in Context, Shape(c), NEW m \in Nodes, St(c, m) = "INCOMING_REQUEST", c.mode = "PARENT"
    PROVE  Taken(c, ParentSelects(c, m), m, "CHILD")
<1> DEFINE d == SetState(c, m, "CHILD")
           e == PushInput(d, "ACCEPT", m)
           a == PushInput(e, "BIRTH", m)
<1>1. "CHILD" \in PeerStates /\ "ACCEPT" \in MessageOps /\ "BIRTH" \in MessageOps /\ "CHILD" \in Established
      /\ "INCOMING_REQUEST" \notin Established
  BY DEF PeerStates, MessageOps, Established
<1>2. SameButList(c, d) /\ d.events = c.events /\ Shape(d) /\ \A k \in Nodes : St(d, k) = With(c, m, "CHILD", k)
  BY <1>1, StateStates
<1>3. ParentSelects(c, m) = a
  BY DEF ParentSelects
<1> HIDE DEF d
<1>4. /\ d \in Context /\ d.mode = c.mode /\ d.phase = c.phase /\ d.input = c.input
      /\ \A k \in Nodes : St(c, k) \in Established => St(d, k) = St(c, k)
      /\ \A o, k : Waits(d, o, k) <=> Waits(c, o, k)
  BY <1>1, <1>2 DEF SameButList, With, Waits
<1>5. \A n, R : Queued(n, c, R) /\ R \subseteq Nodes => Queued(n, d, R)
  BY <1>4, QueuedKept
<1>6. /\ e \in Context /\ e.mode = d.mode /\ e.phase = d.phase /\ e.events = d.events /\ Shape(e)
      /\ \A k \in Nodes : St(e, k) = St(d, k)
      /\ \A o, k : Waits(e, o, k) <=> Waits(d, o, k) \/ (o = "ACCEPT" /\ k = m)
      /\ \A n, R : Queued(n, d, R) /\ m # n /\ m \in R /\ R \subseteq Nodes
                   /\ d.mode # "CHILD" /\ St(d, m) \in Established
                   => Queued(n, e, R)
  BY <1>1, <1>2, <1>4, PushStates
<1> HIDE DEF e
<1>7. /\ a \in Context /\ a.mode = e.mode /\ a.phase = e.phase /\ a.events = e.events /\ Shape(a)
      /\ \A k \in Nodes : St(a, k) = St(e, k)
      /\ \A o, k : Waits(a, o, k) <=> Waits(e, o, k) \/ (o = "BIRTH" /\ k = m)
      /\ \A n, R : Queued(n, e, R) /\ m # n /\ m \in R /\ R \subseteq Nodes
                   /\ e.mode = "PARENT" /\ St(e, m) = "CHILD"
                   => Queued(n, a, R)
  BY <1>1, <1>6, PushStates
<1> HIDE DEF a
<1>8. St(d, m) = "CHILD" /\ d.mode = "PARENT"
  BY <1>2, <1>4 DEF With
<1>9. \A n, R : Queued(n, c, R) /\ m # n /\ m \in R /\ R \subseteq Nodes => Queued(n, a, R)
  BY <1>1, <1>5, <1>6, <1>7, <1>8
<1>10. /\ \A k : Waits(c, "ACCEPT", k) \/ k = m => Waits(a, "ACCEPT", k)
       /\ \A k : Waits(a, "JOIN", k) => Waits(c, "JOIN", k)
  BY <1>4, <1>6, <1>7
<1>11. Taken(c, a, m, "CHILD")
  BY <1>2, <1>4, <1>6, <1>7, <1>9, <1>10 DEF Taken
<1> QED
  BY <1>3, <1>11

LEMMA AcceptedStates ==
    ASSUME NEW c \in Context, Shape(c), NEW m \in Nodes, St(c, m) = "INCOMING_REQUEST", c.mode = "P2P"
    PROVE  Taken(c, P2PAccepts(c, m), m, "P2P")
<1> DEFINE b == SetState(c, m, "P2P")
           d == SetJoining(b, m, TRUE)
           a == PushInput(d, "ACCEPT", m)
<1>1. "P2P" \in PeerStates /\ "ACCEPT" \in MessageOps /\ "P2P" \in Established
      /\ "INCOMING_REQUEST" \notin Established
  BY DEF PeerStates, MessageOps, Established
<1>2. SameButList(c, b) /\ b.events = c.events /\ Shape(b) /\ \A k \in Nodes : St(b, k) = With(c, m, "P2P", k)
  BY <1>1, StateStates
<1>3. P2PAccepts(c, m) = a
  BY DEF P2PAccepts
<1> HIDE DEF b
<1>4. b \in Context
  BY <1>2 DEF SameButList
<1>5. SameButList(b, d) /\ d.events = b.events /\ Shape(d) /\ \A k \in Nodes : St(d, k) = St(b, k)
  BY <1>2, <1>4, JoiningStates
<1> HIDE DEF d
<1>6. /\ d \in Context /\ d.mode = c.mode /\ d.phase = c.phase /\ d.input = c.input
      /\ d.events = c.events
      /\ \A k \in Nodes : St(d, k) = With(c, m, "P2P", k)
      /\ \A k \in Nodes : St(c, k) \in Established => St(d, k) = St(c, k)
      /\ \A o, k : Waits(d, o, k) <=> Waits(c, o, k)
  BY <1>1, <1>2, <1>5 DEF SameButList, With, Waits
<1>7. \A n, R : Queued(n, c, R) /\ R \subseteq Nodes => Queued(n, d, R)
  BY <1>6, QueuedKept
<1>8. /\ a \in Context /\ a.mode = d.mode /\ a.phase = d.phase /\ a.events = d.events /\ Shape(a)
      /\ \A k \in Nodes : St(a, k) = St(d, k)
      /\ \A o, k : Waits(a, o, k) <=> Waits(d, o, k) \/ (o = "ACCEPT" /\ k = m)
      /\ \A n, R : Queued(n, d, R) /\ m # n /\ m \in R /\ R \subseteq Nodes
                   /\ d.mode # "CHILD" /\ St(d, m) \in Established
                   => Queued(n, a, R)
  BY <1>1, <1>5, <1>6, PushStates
<1> HIDE DEF a
<1>9. St(d, m) = "P2P" /\ d.mode # "CHILD"
  BY <1>6 DEF With
<1>10. \A n, R : Queued(n, c, R) /\ m # n /\ m \in R /\ R \subseteq Nodes => Queued(n, a, R)
  BY <1>1, <1>7, <1>8, <1>9
<1>11. /\ \A k : Waits(c, "ACCEPT", k) \/ k = m => Waits(a, "ACCEPT", k)
       /\ \A k : Waits(a, "JOIN", k) => Waits(c, "JOIN", k)
  BY <1>6, <1>8
<1>12. Taken(c, a, m, "P2P")
  BY <1>6, <1>8, <1>10, <1>11 DEF Taken
<1> QED
  BY <1>3, <1>12

LEMMA TakeStep ==
    ASSUME NEW F, NEW B, NEW g, Playing(F, B, g), NEW n \in OnAir(F), NEW m \in Nodes,
           NEW state \in {"CHILD", "P2P"}, F[n].mode = IF state = "CHILD" THEN "PARENT" ELSE "P2P",
           state = "P2P" => Unattached(F[n]), St(F[n], m) = "INCOMING_REQUEST",
           NEW a, Taken(F[n], a, m, state), Fits(a), Within(a)
    PROVE  Playing([F EXCEPT ![n] = a], B, g)
<1> DEFINE c == F[n]
<1>1. /\ n \in Nodes /\ c \in Context /\ Sane(c) /\ c.phase = "running" /\ Tidy(n, c)
      /\ \A k \in Nodes : St(c, k) # "NONE" => k \in OnAir(F)
      /\ \A k \in Nodes \ {n} : BothWays(n, k, c, F[k], B[k], B[n])
      /\ Queued(n, c, OnAir(F)) /\ OnAir(F) \subseteq Nodes
  BY PlayerIs DEF OnAir
<1>2. m # n /\ m \in OnAir(F)
  BY <1>1 DEF Tidy
<1>3. /\ a \in Context /\ a.mode = c.mode /\ a.phase = c.phase /\ a.events = c.events /\ Shape(a)
      /\ \A k \in Nodes : St(a, k) = With(c, m, state, k)
      /\ \A k : Waits(c, "ACCEPT", k) \/ k = m => Waits(a, "ACCEPT", k)
      /\ \A k : Waits(a, "JOIN", k) => Waits(c, "JOIN", k)
      /\ Queued(n, a, OnAir(F))
  BY <1>1, <1>2 DEF Taken
<1>4. Sane(a)
  BY <1>3 DEF Sane
<1>5. ~Unattached(a) /\ (state = "CHILD" => ~Unattached(c))
  <2>1. CASE state = "CHILD"
    BY <1>3, <2>1, <1>1, <1>4, UnattachedIs
  <2>2. CASE state = "P2P"
    BY <1>3, <1>4, <2>2, UnattachedIs DEF With
  <2> QED
    BY <2>1, <2>2
<1>6. c.mode # "CHILD"
  OBVIOUS
<1>7. Tidy(n, a)
  BY <1>1, <1>2, <1>3, <1>6 DEF Tidy, With
<1>8. \A k \in Nodes \ {n} : BothWays(n, k, a, F[k], B[k], B[n])
  <2> SUFFICES ASSUME NEW k \in Nodes \ {n} PROVE BothWays(n, k, a, F[k], B[k], B[n])
    OBVIOUS
  <2>1. BothWays(n, k, c, F[k], B[k], B[n]) /\ (Waits(a, "JOIN", k) => Waits(c, "JOIN", k)) /\ a.mode = c.mode
    BY <1>1, <1>3
  <2>2. CASE k = m
    <3>1. St(c, k) = "INCOMING_REQUEST" /\ St(a, k) \in {"CHILD", "P2P"}
      BY <1>3, <2>2 DEF With
    <3> HIDE DEF c
    <3> QED
      BY <1>5, <2>1, <3>1, PairTakes
  <2>3. CASE k # m
    <3>1. St(a, k) = St(c, k)
      BY <1>3, <2>3 DEF With
    <3> HIDE DEF c
    <3> QED
      BY <1>5, <2>1, <3>1, PairQuiet
  <2> QED
    BY <2>2, <2>3
<1>9. /\ \A k \in Nodes : St(a, k) # "NONE" => k \in OnAir(F)
      /\ \A k \in Nodes : St(c, k) \in Established => St(a, k) = St(c, k)
      /\ \A k \in Nodes : St(a, k) \in PartnerStates(c) => St(a, k) = St(c, k) \/ Waits(a, "ACCEPT", k)
  BY <1>1, <1>2, <1>3 DEF With, Established
<1> QED
  BY <1>1, <1>3, <1>4, <1>7, <1>8, <1>9, ListStep

LEMMA RequestStep ==
    ASSUME NEW F, NEW B, NEW g, Playing(F, B, g), NEW n \in OnAir(F), NEW m \in Nodes, MayRequest(F[n], m),
           NEW a, a = Requests(F[n], m), Fits(a), Within(a)
    PROVE  Playing([F EXCEPT ![n] = a], B, g)
<1> DEFINE c == F[n]
           flag == c.mode = "P2P"
           b == SetState(c, m, "OUTGOING_REQUEST")
           d == SetJoining(b, m, flag)
<1>1. /\ n \in Nodes /\ c \in Context /\ Sane(c) /\ Shape(c) /\ c.phase = "running" /\ Tidy(n, c)
      /\ \A k \in Nodes : St(c, k) # "NONE" => k \in OnAir(F)
      /\ \A k \in Nodes \ {n} : BothWays(n, k, c, F[k], B[k], B[n])
      /\ Queued(n, c, OnAir(F)) /\ OnAir(F) \subseteq Nodes
  BY PlayerIs DEF OnAir
<1>2. Unattached(c) /\ St(c, m) = "OFFER"
  <2>1. "NONE" \notin {"OFFER"}
    OBVIOUS
  <2> QED
    BY <1>1, <2>1, KnownAsIs DEF MayRequest
<1>3. m # n /\ m \in OnAir(F)
  BY <1>1, <1>2 DEF Tidy
<1>4. ~Waits(c, "JOIN", m)
  <2>1. BothWays(n, m, c, F[m], B[m], B[n])
    BY <1>1, <1>3
  <2> QED
    BY <1>2, <2>1 DEF BothWays, Pair, Spent
<1>5. "OUTGOING_REQUEST" \in PeerStates /\ "JOIN" \in MessageOps /\ flag \in BOOLEAN
      /\ "OUTGOING_REQUEST" \notin Established /\ "OFFER" \notin Established
  BY DEF PeerStates, MessageOps, Established
<1>6. a = PushInput(d, "JOIN", m)
  BY DEF Requests
<1>7. SameButList(c, b) /\ b.events = c.events /\ Shape(b)
      /\ \A k \in Nodes : St(b, k) = With(c, m, "OUTGOING_REQUEST", k)
  <2> HIDE DEF c
  <2> QED
    BY <1>1, <1>2, <1>5, StateStates
<1> HIDE DEF b, flag, c
<1>8. b \in Context
  BY <1>7 DEF SameButList
<1>9. SameButList(b, d) /\ d.events = b.events /\ Shape(d) /\ \A k \in Nodes : St(d, k) = St(b, k)
  <2>1. d \in {SetJoining(b, m, flag), SetSending(b, m, flag), SetLeaving(b, m), Refresh(b, m)}
    OBVIOUS
  <2> HIDE DEF d
  <2> QED
    BY <1>5, <1>7, <1>8, <2>1, FlagStates
<1> HIDE DEF d
<1>10. /\ d \in Context /\ d.mode = c.mode /\ d.phase = c.phase /\ d.input = c.input
       /\ d.events = c.events
       /\ \A k \in Nodes : St(d, k) = With(c, m, "OUTGOING_REQUEST", k)
       /\ \A k \in Nodes : St(c, k) \in Established => St(d, k) = St(c, k)
       /\ \A o, k : Waits(d, o, k) <=> Waits(c, o, k)
  BY <1>2, <1>5, <1>7, <1>9 DEF SameButList, With, Waits
<1>11. Queued(n, d, OnAir(F))
  BY <1>1, <1>10, QueuedKept
<1>12. /\ a \in Context /\ a.mode = d.mode /\ a.phase = d.phase /\ a.events = d.events /\ Shape(a)
       /\ \A k \in Nodes : St(a, k) = St(d, k)
       /\ \A o, k : Waits(a, o, k) <=> Waits(d, o, k) \/ (o = "JOIN" /\ k = m)
       /\ Queued(n, d, OnAir(F)) /\ m # n /\ m \in OnAir(F) /\ OnAir(F) \subseteq Nodes /\ ~Waits(d, "JOIN", m)
                    => Queued(n, a, OnAir(F))
  BY <1>5, <1>6, <1>9, <1>10, PushStates
<1>13. /\ a.mode = c.mode /\ a.phase = "running" /\ a.events = c.events
       /\ Queued(n, a, OnAir(F))
       /\ \A k \in Nodes : St(a, k) = With(c, m, "OUTGOING_REQUEST", k)
       /\ \A o, k : Waits(a, o, k) <=> Waits(c, o, k) \/ (o = "JOIN" /\ k = m)
  BY <1>1, <1>3, <1>4, <1>10, <1>11, <1>12
<1>14. Sane(a)
  BY <1>12 DEF Sane
<1>15. Unattached(a)
  BY <1>1, <1>2, <1>13, <1>14, UnattachedIs DEF With
<1>16. Tidy(n, a)
  BY <1>1, <1>2, <1>3, <1>12, <1>13, <1>15 DEF Tidy, With
<1>17. \A k \in Nodes \ {n} : BothWays(n, k, a, F[k], B[k], B[n])
  <2> SUFFICES ASSUME NEW k \in Nodes \ {n} PROVE BothWays(n, k, a, F[k], B[k], B[n])
    OBVIOUS
  <2>1. BothWays(n, k, c, F[k], B[k], B[n])
    BY <1>1
  <2>2. CASE k = m
    <3>1. St(c, k) = "OFFER" /\ St(a, k) = "OUTGOING_REQUEST"
      BY <1>2, <1>13, <2>2 DEF With
    <3> QED
      BY <1>2, <1>13, <2>1, <3>1, PairAsks
  <2>3. CASE k # m
    <3>1. St(a, k) = St(c, k) /\ (Waits(a, "JOIN", k) => Waits(c, "JOIN", k))
      BY <1>13, <2>3 DEF With
    <3> QED
      BY <1>2, <1>13, <2>1, <3>1, PairQuiet
  <2> QED
    BY <2>2, <2>3
<1>18. "OUTGOING_REQUEST" \notin PartnerStates(c)
  BY DEF PartnerStates
<1>19. /\ \A k \in Nodes : St(a, k) # "NONE" => k \in OnAir(F)
       /\ \A k \in Nodes : St(c, k) \in Established => St(a, k) = St(c, k)
       /\ \A k \in Nodes : St(a, k) \in PartnerStates(c) => St(a, k) = St(c, k) \/ Waits(a, "ACCEPT", k)
       /\ \A k : Waits(c, "ACCEPT", k) => Waits(a, "ACCEPT", k)
  BY <1>1, <1>2, <1>3, <1>5, <1>13, <1>18 DEF With
<1> QED
  BY <1>13, <1>14, <1>16, <1>17, <1>19, ListStep DEF c

-----------------------------------------------------------------------------
(* Data that is sent or taken back changes nobody's state.                 *)
LEMMA DataStep ==
    ASSUME NEW F, NEW B, NEW g, Playing(F, B, g), NEW n \in OnAir(F), NEW m \in Nodes,
           NEW flag \in BOOLEAN, NEW op \in {"BULK", "BULK_ABORT"}, St(F[n], m) # "NONE",
           op = "BULK" => St(F[n], m) \in Established,
           NEW a, a = PushInput(SetSending(F[n], m, flag), op, m), Fits(a), Within(a)
    PROVE  Playing([F EXCEPT ![n] = a], B, g)
<1> DEFINE c == F[n]
           d == SetSending(c, m, flag)
<1>1. /\ n \in Nodes /\ c \in Context /\ Sane(c) /\ Shape(c) /\ c.phase = "running" /\ Tidy(n, c)
      /\ \A k \in Nodes : St(c, k) # "NONE" => k \in OnAir(F)
      /\ \A k \in Nodes \ {n} : BothWays(n, k, c, F[k], B[k], B[n])
      /\ Queued(n, c, OnAir(F)) /\ OnAir(F) \subseteq Nodes
  BY PlayerIs DEF OnAir
<1>2. m \in OnAir(F) /\ (op = "BULK" => m # n)
  BY <1>1 DEF Tidy, Established
<1>3. op \in MessageOps /\ op \notin {"ACCEPT", "BIRTH", "JOIN"}
  BY DEF MessageOps
<1> HIDE DEF c
<1>4. SameButList(c, d) /\ d.events = c.events /\ Shape(d) /\ \A k \in Nodes : St(d, k) = St(c, k)
  BY <1>1, SendingStates
<1>5. a = PushInput(d, op, m)
  BY DEF c
<1> HIDE DEF d
<1>6. d \in Context /\ d.mode = c.mode /\ d.phase = c.phase /\ d.input = c.input
      /\ \A o, k : Waits(d, o, k) <=> Waits(c, o, k)
  BY <1>4 DEF SameButList, Waits
<1>7. Queued(n, d, OnAir(F))
  BY <1>1, <1>4, <1>6, QueuedKept
<1>8. /\ a \in Context /\ a.mode = d.mode /\ a.phase = d.phase /\ a.events = d.events /\ Shape(a)
      /\ \A k \in Nodes : St(a, k) = St(d, k)
      /\ \A o, k : Waits(a, o, k) <=> Waits(d, o, k) \/ (o = op /\ k = m)
      /\ Queued(n, a, OnAir(F))
  BY <1>1, <1>2, <1>3, <1>4, <1>5, <1>6, <1>7, PushStates
<1>9. /\ a.mode = c.mode /\ a.phase = "running" /\ a.events = c.events
      /\ \A k \in Nodes : St(a, k) = St(c, k)
      /\ \A k : Waits(a, "JOIN", k) => Waits(c, "JOIN", k)
      /\ \A k : Waits(c, "ACCEPT", k) => Waits(a, "ACCEPT", k)
  BY <1>1, <1>3, <1>4, <1>6, <1>8
<1>10. Sane(a)
  BY <1>8 DEF Sane
<1>11. Unattached(a) <=> Unattached(c)
  BY <1>1, <1>9, <1>10, UnattachedIs
<1>12. Tidy(n, a)
  BY <1>1, <1>8, <1>9, <1>11 DEF Tidy
<1>13. \A k \in Nodes \ {n} : BothWays(n, k, a, F[k], B[k], B[n])
  <2> SUFFICES ASSUME NEW k \in Nodes \ {n} PROVE BothWays(n, k, a, F[k], B[k], B[n])
    OBVIOUS
  <2>1. BothWays(n, k, c, F[k], B[k], B[n])
    BY <1>1
  <2> QED
    BY <1>9, <1>11, <2>1, PairQuiet
<1> QED
  BY <1>1, <1>8, <1>9, <1>10, <1>12, <1>13, ListStep DEF c

(* Events are delivered: the game knows what it would have heard.          *)
LEMMA ToldIs ==
    ASSUME NEW c \in Context, Quiet(c), NEW g
    PROVE  /\ Told(g, c.events) \in SUBSET Nodes
           /\ \A m \in Nodes : m \in Told(g, c.events) <=> Hears(c, g, m)
<1> DEFINE l == c.events
           E == [event : EventNames, mac : Nodes]
<1>1. l \in Seq(E)
  BY DEF Context
<1> HIDE DEF l, E
<1>2. \A i \in DOMAIN l : l[i] \in E
  BY <1>1
<1>3. \A i \in DOMAIN l : \A m : l[i].mac = m /\ l[i].event \in {"ESTABLISHED"} <=> l[i] = Event("ESTABLISHED", m)
  <2> SUFFICES ASSUME NEW i \in DOMAIN l, NEW m
               PROVE  l[i].mac = m /\ l[i].event \in {"ESTABLISHED"} <=> l[i] = Event("ESTABLISHED", m)
    OBVIOUS
  <2>1. l[i] \in [event : EventNames, mac : Nodes]
    BY <1>2 DEF E
  <2> QED
    BY <2>1 DEF Event
<1>4. \A m : {i \in DOMAIN l : l[i].mac = m /\ l[i].event \in {"LEAVE", "BYE", "TIMEOUT"}} = {}
  BY DEF Quiet, l
<1>5. \A m \in Nodes : m \in Told(g, l) <=> m \in g \/ \E i \in DOMAIN l : l[i] = Event("ESTABLISHED", m)
  <2> SUFFICES ASSUME NEW m \in Nodes
               PROVE  m \in Told(g, l) <=> m \in g \/ \E i \in DOMAIN l : l[i] = Event("ESTABLISHED", m)
    OBVIOUS
  <2> DEFINE lost == {i \in DOMAIN l : l[i].mac = m /\ l[i].event \in {"LEAVE", "BYE", "TIMEOUT"}}
             told == {i \in DOMAIN l : l[i].mac = m /\ l[i].event \in {"ESTABLISHED"}}
  <2>1. m \in Told(g, l) <=> (m \in g /\ lost = {}) \/ \E i \in told : \A j \in lost : j < i
    BY DEF Told
  <2>2. lost = {}
    BY <1>4
  <2>3. \A i : i \in told <=> i \in DOMAIN l /\ l[i] = Event("ESTABLISHED", m)
    BY <1>3
  <2> HIDE DEF lost, told
  <2> QED
    BY <2>1, <2>2, <2>3
<1>6. Told(g, l) \in SUBSET Nodes
  BY DEF Told
<1> QED
  BY <1>5, <1>6 DEF Hears, l

LEMMA DispatchStep ==
    ASSUME NEW F, NEW B, NEW g, Playing(F, B, g), NEW n \in OnAir(F)
    PROVE  Playing([F EXCEPT ![n].events = <<>>], B, [g EXCEPT ![n] = Told(g[n], F[n].events)])
<1> DEFINE c == F[n]
           a == [c EXCEPT !.events = <<>>]
           h == Told(g[n], c.events)
<1>1. /\ n \in Nodes /\ c \in Context /\ Sane(c) /\ Shape(c) /\ c.phase = "running" /\ Tidy(n, c) /\ Quiet(c)
      /\ \A k \in Nodes : St(c, k) # "NONE" => k \in OnAir(F)
      /\ \A k \in Nodes \ {n} : BothWays(n, k, c, F[k], B[k], B[n])
      /\ Queued(n, c, OnAir(F)) /\ OnAir(F) \subseteq Nodes /\ Informed(c, g[n])
  BY PlayerIs DEF OnAir
<1>2. h \in SUBSET Nodes /\ \A m \in Nodes : m \in h <=> Hears(c, g[n], m)
  <2> HIDE DEF c
  <2> QED
    BY <1>1, ToldIs
<1>3. <<>> \in Seq([event : EventNames, mac : Nodes]) /\ DOMAIN <<>> = {}
  OBVIOUS
<1>4. [F EXCEPT ![n].events = <<>>] = [F EXCEPT ![n] = a]
  BY DEF Playing
<1>5. /\ a \in Context /\ a.mode = c.mode /\ a.phase = c.phase /\ a.peers = c.peers /\ a.input = c.input
      /\ a.maxpeers = c.maxpeers /\ a.events = <<>>
  BY <1>1, <1>3 DEF Context
<1> HIDE DEF a, h, c
<1>6. \A i \in DOMAIN c.peers : Alike(a.peers[i], c.peers[i])
  BY <1>5 DEF Alike
<1>7. Shape(a) /\ \A k \in Nodes : St(a, k) = St(c, k)
  BY <1>1, <1>5, <1>6, SameStates
<1>8. Sane(a)
  <2>1. Fits(a)
    BY <1>1, <1>5 DEF Sane, Fits
  <2>2. Ties(a) = Ties(c)
    BY <1>5 DEF Ties, TieStates, PlacesOf
  <2>3. Within(a)
    BY <1>1, <1>5, <2>2 DEF Sane, Within
  <2> QED
    BY <1>5, <1>7, <2>1, <2>3 DEF Sane
<1>9. Unattached(a) <=> Unattached(c)
  BY <1>1, <1>5, <1>7, <1>8, UnattachedIs
<1>10. Tidy(n, a)
  BY <1>1, <1>5, <1>7, <1>9 DEF Tidy
<1>11. Queued(n, a, OnAir(F))
  BY <1>1, <1>5, <1>7, QueuedKept
<1>12. Quiet(a) /\ \A m \in Nodes : Hears(a, h, m) <=> Hears(c, g[n], m)
  BY <1>2, <1>3, <1>5 DEF Quiet, Hears
<1>13. Informed(a, h)
  <2> DEFINE E == {}
  <2>1. \A m \in Nodes \ E : St(a, m) \in PartnerStates(c) =>
              Waits(a, "ACCEPT", m) \/ (St(c, m) = St(a, m) /\ ~Waits(c, "ACCEPT", m))
    BY <1>5, <1>7 DEF Waits
  <2>2. (\A m \in Nodes : Hears(a, h, m) <=> Hears(c, g[n], m) \/ m \in E) /\ \A m \in Nodes \cap E : St(a, m) \in PartnerStates(c)
    BY <1>12
  <2> HIDE DEF E
  <2> QED
    BY <1>1, <1>5, <1>7, <1>12, <2>1, <2>2, InformedKept
<1>14. \A k \in Nodes \ {n} : BothWays(n, k, a, F[k], B[k], B[n])
  <2> SUFFICES ASSUME NEW k \in Nodes \ {n} PROVE BothWays(n, k, a, F[k], B[k], B[n])
    OBVIOUS
  <2>1. BothWays(n, k, c, F[k], B[k], B[n]) /\ (Waits(a, "JOIN", k) => Waits(c, "JOIN", k))
    BY <1>1, <1>5 DEF Waits
  <2> QED
    BY <1>5, <1>7, <1>9, <2>1, PairQuiet
<1>15. a.phase = "running" /\ a.mode = F[n].mode /\ \A k \in Nodes : St(a, k) # "NONE" => k \in OnAir(F)
  BY <1>1, <1>5, <1>7 DEF c
<1>16. Playing([F EXCEPT ![n] = a], B, [g EXCEPT ![n] = h])
  BY <1>2, <1>8, <1>10, <1>11, <1>13, <1>14, <1>15, CallStep
<1> QED
  BY <1>4, <1>16 DEF h, c

(* A HELLO at the end of some boxes.                                       *)
LEMMA BroadcastStep ==
    ASSUME NEW F, NEW B, NEW g, Playing(F, B, g), NEW n \in OnAir(F), F[n].mode # "CHILD",
           NEW R \in SUBSET (OnAir(F) \ {n})
    PROVE  Playing(F, [m \in Nodes |-> IF m \in R THEN Append(B[m], Packet(n, m, "HELLO")) ELSE B[m]], g)
<1> DEFINE T == [m \in Nodes |-> IF m \in R THEN Append(B[m], Packet(n, m, "HELLO")) ELSE B[m]]
<1>1. n \in Nodes /\ B \in [Nodes -> Seq(PacketRecord)] /\ OrderlyIn(F, B, g)
  BY DEF OnAir, Playing
<1>2. ASSUME NEW k \in Nodes \ {n}
      PROVE  /\ T[k] \in Seq(PacketRecord) /\ Grown(B[k], T[k], n)
             /\ \A i \in DOMAIN T[k] \ DOMAIN B[k] :
                    /\ k \in OnAir(F) /\ Letter(k, F[k].mode, T[k][i], F)
                    /\ Mailable(n, k, F[n], F[k], B[k], B[n], T[k][i].op)
  <2> DEFINE p == Packet(n, k, "HELLO")
             b == B[k]
             t == Append(b, p)
  <2>1. T[k] = IF k \in R THEN t ELSE b
    OBVIOUS
  <2>2. p \in PacketRecord /\ p.op = "HELLO" /\ p.from = n
    <3>1. <<>> \in Seq(Nodes)
      OBVIOUS
    <3> QED
      BY <1>1, <3>1 DEF Packet, PacketRecord
  <2>3. b \in Seq(PacketRecord)
    BY <1>1
  <2> HIDE DEF T, p, b
  <2>4. /\ t \in Seq(PacketRecord) /\ DOMAIN t = 1..(Len(b) + 1) /\ DOMAIN b = 1..Len(b) /\ Len(b) \in Nat
        /\ t[Len(b) + 1] = p /\ \A i \in 1..Len(b) : t[i] = b[i]
    BY <2>2, <2>3
  <2> HIDE DEF t
  <2>5. \A i \in DOMAIN t \ DOMAIN b : i = Len(b) + 1 /\ t[i] = p
    BY <2>4
  <2>6. Grown(b, t, n)
    BY <2>2, <2>3, <2>4, <2>5 DEF Grown
  <2>7. Grown(b, b, n)
    BY <2>3 DEF Grown
  <2>8. k # n => Letter(k, F[k].mode, p, F)
    BY <2>2 DEF Letter
  <2>9. Mailable(n, k, F[n], F[k], b, B[n], p.op)
    BY <2>2 DEF Mailable
  <2>10. CASE k \in R
    <3>1. T[k] = t /\ k \in OnAir(F) /\ k # n
      BY <2>1, <2>10
    <3> QED
      BY <2>4, <2>5, <2>6, <2>8, <2>9, <3>1 DEF b
  <2>11. CASE k \notin R
    <3>1. T[k] = b
      BY <2>1, <2>11
    <3> QED
      BY <2>3, <2>7, <3>1 DEF b
  <2> QED
    BY <2>10, <2>11
<1>3. T[n] = B[n] /\ T = [m \in Nodes |-> T[m]]
  BY <1>1
<1> HIDE DEF T
<1>4. OrderlyIn(F, T, g)
  BY <1>1, <1>2, <1>3, PostStep
<1>5. \A m \in Nodes : T[m] \in Seq(PacketRecord)
  BY <1>1, <1>2, <1>3
<1>6. T \in [Nodes -> Seq(PacketRecord)]
  BY <1>3, <1>5
<1> QED
  BY <1>4, <1>6 DEF Playing, T

(* A context without peers, messages and events knows nobody.              *)
Blank(c) == c.peers = <<>> /\ c.input = <<>> /\ c.events = <<>>

LEMMA BlankIs ==
    ASSUME NEW n, NEW c \in Context, Blank(c), NEW R
    PROVE  /\ Sane(c) /\ Tidy(n, c) /\ Queued(n, c, R) /\ Informed(c, {}) /\ \A m : St(c, m) = "NONE"
           /\ \A op, m : ~Waits(c, op, m)
           /\ Unattached(c) <=> c.mode # "PARENT"
<1>1. DOMAIN c.peers = {} /\ DOMAIN c.input = {} /\ DOMAIN c.events = {}
  BY DEF Blank
<1>2. \A m : St(c, m) = "NONE"
  BY <1>1, StIs
<1>3. Shape(c) /\ Fits(c)
  BY <1>1 DEF Shape, Fits
<1>4. Within(c)
  <2>1. Ties(c) = {}
    BY <1>1 DEF Ties, PlacesOf
  <2>2. Cardinality({}) = 0 /\ c.maxpeers \in 2..16
    BY FS_EmptySet DEF Context
  <2> QED
    BY <2>1, <2>2 DEF Within
<1>5. Sane(c)
  BY <1>3, <1>4 DEF Sane
<1>6. Unattached(c) <=> c.mode # "PARENT"
  BY <1>2, <1>5, UnattachedIs
<1>7. Tidy(n, c)
  BY <1>2, <1>3, <1>6 DEF Tidy
<1>8. Queued(n, c, R) /\ \A op, m : ~Waits(c, op, m)
  BY <1>1 DEF Queued, Waits
<1>9. Informed(c, {})
  BY <1>1, <1>2 DEF Informed, Hears, PartnerStates
<1> QED
  BY <1>2, <1>5, <1>6, <1>7, <1>8, <1>9

LEMMA LifeStep ==
    ASSUME NEW F, NEW B, NEW g, Playing(F, B, g), NEW n \in Nodes \ OnAir(F), NEW a \in Context, Blank(a),
           a.mode = F[n].mode
    PROVE  Playing([F EXCEPT ![n] = a], B, g) /\ B[n] = <<>>
<1> DEFINE c == F[n]
           H == [F EXCEPT ![n] = a]
<1>1. /\ c \in Context /\ Blank(c) /\ B[n] = <<>> /\ g[n] = {}
      /\ \A k \in Nodes \ {n} : BothWays(n, k, c, F[k], B[k], B[n])
  BY DEF Playing, OrderlyIn, Own, Pairs, Blank
<1>2. /\ \A m : St(c, m) = "NONE"
      /\ Unattached(c) <=> c.mode # "PARENT"
  BY <1>1, BlankIs
<1>3. /\ Sane(a) /\ Tidy(n, a) /\ Queued(n, a, OnAir(H)) /\ Informed(a, {}) /\ \A m : St(a, m) = "NONE"
      /\ \A op, m : ~Waits(a, op, m)
      /\ Unattached(a) <=> a.mode # "PARENT"
  BY BlankIs
<1>4. Own(n, a, B[n], {}, H)
  BY <1>1, <1>3 DEF Own, Blank
<1>5. \A k \in Nodes \ {n} : BothWays(n, k, a, F[k], B[k], B[n])
  <2> SUFFICES ASSUME NEW k \in Nodes \ {n} PROVE BothWays(n, k, a, F[k], B[k], B[n])
    OBVIOUS
  <2>1. BothWays(n, k, c, F[k], B[k], B[n])
    BY <1>1
  <2>2. a.mode = c.mode /\ St(a, k) = St(c, k) /\ (Unattached(a) => Unattached(c))
    BY <1>2, <1>3
  <2> HIDE DEF c
  <2> QED
    BY <1>3, <2>1, <2>2, PairQuiet
<1>6. Playing(H, B, [g EXCEPT ![n] = {}])
  <2>1. {} \in SUBSET Nodes
    OBVIOUS
  <2> QED
    BY <1>3, <1>4, <1>5, <2>1, OnePlayer
<1>7. [g EXCEPT ![n] = {}] = g
  BY <1>1 DEF Playing
<1> QED
  BY <1>1, <1>6, <1>7

-----------------------------------------------------------------------------
(* Without trouble the players keep to the rules above.                    *)
RoomInv == trouble \in Nat /\ (trouble = 0 => Playing(ctx, inbox, game))

LEMMA InitPlays == ASSUME Init PROVE RoomInv
<1>1. IInv
  BY InitIsSound
<1>2. ctx \in [Nodes -> Context] /\ \A n \in Nodes : Sound(n, ctx[n], granted)
  BY <1>1 DEF IInv, Contexts
<1>3. \A n \in Nodes : ctx[n].phase = "none" /\ Blank(ctx[n]) /\ inbox[n] = <<>> /\ game[n] = {}
  BY DEF Init, NoContext, Blank
<1>4. /\ inbox \in [Nodes -> Seq(PacketRecord)] /\ game \in [Nodes -> SUBSET Nodes]
      /\ trouble = 0
  <2>1. <<>> \in Seq(PacketRecord) /\ {} \in SUBSET Nodes
    OBVIOUS
  <2> QED
    BY <2>1 DEF Init
<1>5. \A n \in Nodes :
         /\ Sane(ctx[n]) /\ Tidy(n, ctx[n]) /\ Queued(n, ctx[n], OnAir(ctx)) /\ Informed(ctx[n], {})
         /\ \A m : St(ctx[n], m) = "NONE"
         /\ \A op, m : ~Waits(ctx[n], op, m)
  BY <1>2, <1>3, BlankIs
<1>6. \A n \in Nodes : Own(n, ctx[n], inbox[n], game[n], ctx)
  <2> SUFFICES ASSUME NEW n \in Nodes PROVE Own(n, ctx[n], inbox[n], game[n], ctx)
    OBVIOUS
  <2>1. DOMAIN inbox[n] = {}
    BY <1>3
  <2> QED
    BY <1>3, <1>5, <2>1 DEF Own, Blank
<1>7. \A n \in Nodes : Pairs(n, ctx[n], ctx, inbox)
  <2> SUFFICES ASSUME NEW n \in Nodes, NEW m \in Nodes
               PROVE  Pair(n, m, ctx[n], ctx[m], inbox[m], inbox[n])
    BY DEF Pairs, BothWays
  <2>1. \A k : From(inbox[m], k, "JOIN") = {} /\ From(inbox[m], k, "ACCEPT") = {}
               /\ From(inbox[m], k, "CANCEL") = {}
    <3>1. DOMAIN inbox[m] = {}
      BY <1>3
    <3> QED
      BY <3>1 DEF From
  <2>2. "NONE" \notin Met
    BY DEF Met, Established
  <2> QED
    BY <1>5, <2>1, <2>2 DEF Pair
<1> QED
  BY <1>2, <1>4, <1>5, <1>6, <1>7 DEF RoomInv, Playing, OrderlyIn

(* The life of a context.                                                  *)
LEMMA LifePlays ==
    ASSUME Playing(ctx, inbox, game), NEW n \in Nodes, Create(n) \/ Start(n) \/ Delete(n)
    PROVE  Playing(ctx', inbox', game')
<1> DEFINE c == ctx[n]
<1>1. n \notin OnAir(ctx) /\ c \in Context /\ Blank(c)
  <2>1. c.phase # "running"
    BY DEF Create, Start, Delete
  <2>2. n \notin OnAir(ctx)
    BY <2>1 DEF OnAir
  <2> QED
    BY <2>2 DEF Playing, OrderlyIn, Own, Blank
<1>2. ASSUME NEW a \in Context, Blank(a), a.mode = c.mode, ctx' = [ctx EXCEPT ![n] = a],
             inbox' = inbox \/ inbox' = [inbox EXCEPT ![n] = <<>>], game' = game
      PROVE  Playing(ctx', inbox', game')
  <2>0. n \in Nodes \ OnAir(ctx) /\ a \in Context /\ a.mode = ctx[n].mode /\ Blank(a)
    BY <1>1, <1>2
  <2>1. Playing([ctx EXCEPT ![n] = a], inbox, game) /\ inbox[n] = <<>>
    BY <2>0, LifeStep
  <2>2. [inbox EXCEPT ![n] = <<>>] = inbox
    BY <2>1 DEF Playing
  <2> QED
    BY <1>2, <2>1, <2>2
<1>3. CASE Create(n) \/ Start(n)
  <2>1. PICK phase \in {"created", "running"} : ctx' = [ctx EXCEPT ![n].phase = phase]
    BY <1>3 DEF Create, Start
  <2> DEFINE a == [c EXCEPT !.phase = phase]
  <2>2. a \in Context /\ Blank(a) /\ a.mode = c.mode
    BY <1>1 DEF Context, Blank
  <2>3. ctx' = [ctx EXCEPT ![n] = a] /\ inbox' = inbox /\ game' = game
    BY <1>3, <2>1 DEF Create, Start
  <2> HIDE DEF a, c
  <2> QED
    BY <1>2, <2>2, <2>3
<1>4. CASE Delete(n)
  <2> DEFINE a == NoContext(c.mode, c.maxpeers)
  <2>1. <<>> \in Seq(PeerRecord) /\ <<>> \in Seq([event : EventNames, mac : Nodes])
        /\ <<>> \in Seq([op : MessageOps, mac : Nodes])
    OBVIOUS
  <2>2. a \in Context /\ Blank(a) /\ a.mode = c.mode
    BY <1>1, <2>1 DEF NoContext, Context, Blank
  <2>3. ctx' = [ctx EXCEPT ![n] = a] /\ inbox' = [inbox EXCEPT ![n] = <<>>] /\ game' = game
    BY <1>4 DEF Delete
  <2> HIDE DEF a, c
  <2> QED
    BY <1>2, <2>2, <2>3
<1> QED
  BY <1>3, <1>4

(* The calls of the game.                                                  *)
LEMMA CallsPlay ==
    ASSUME Playing(ctx, inbox, game), NEW n \in Nodes, NEW m \in Nodes,
           \A k \in Nodes : Fits(ctx'[k]) /\ Within(ctx'[k]),
           Accept(n, m) \/ Request(n, m) \/ SendData(n, m) \/ AbortSendData(n, m)
    PROVE  Playing(ctx', inbox', game')
<1> DEFINE c == ctx[n]
<1>1. n \in OnAir(ctx) /\ inbox' = inbox /\ game' = game
  BY DEF Accept, Request, SendData, AbortSendData, Running, OnAir
<1>2. c \in Context /\ Shape(c)
  BY <1>1, PlayerIs
<1>3. ASSUME NEW a, ctx' = [ctx EXCEPT ![n] = a]
      PROVE  Fits(a) /\ Within(a)
  <2>1. ctx'[n] = a
    BY <1>3 DEF Playing
  <2> QED
    BY <2>1
<1>4. ASSUME NEW state \in {"CHILD", "P2P"}, c.mode = IF state = "CHILD" THEN "PARENT" ELSE "P2P",
             state = "P2P" => Unattached(c), St(c, m) = "INCOMING_REQUEST",
             NEW a, Taken(c, a, m, state), ctx' = [ctx EXCEPT ![n] = a]
      PROVE  Playing(ctx', inbox', game')
  <2>1. Fits(a) /\ Within(a)
    BY <1>3, <1>4
  <2> HIDE DEF c
  <2>2. /\ ctx[n].mode = IF state = "CHILD" THEN "PARENT" ELSE "P2P"
        /\ state = "P2P" => Unattached(ctx[n])
        /\ St(ctx[n], m) = "INCOMING_REQUEST" /\ Taken(ctx[n], a, m, state)
    BY <1>4 DEF c
  <2>3. Playing([ctx EXCEPT ![n] = a], inbox, game)
    BY <1>1, <2>1, <2>2, TakeStep
  <2> QED
    BY <1>1, <1>4, <2>3
<1>5. KnownAs(c, m, {"INCOMING_REQUEST"}) <=> St(c, m) = "INCOMING_REQUEST"
  <2> HIDE DEF c
  <2>1. KnownAs(c, m, {"INCOMING_REQUEST"}) <=> St(c, m) \in {"INCOMING_REQUEST"}
    BY <1>2, KnownAsIs
  <2> QED
    BY <2>1
<1>6. CASE Accept(n, m)
  <2>1. CASE MayParentSelect(ctx[n], m) /\ ctx' = [ctx EXCEPT ![n] = ParentSelects(@, m)]
    <3> DEFINE a == ParentSelects(c, m)
    <3>1. c.mode = "PARENT" /\ St(c, m) = "INCOMING_REQUEST"
      BY <1>5, <2>1 DEF MayParentSelect
    <3>2. ctx' = [ctx EXCEPT ![n] = a]
      BY <2>1
    <3>3. Taken(c, a, m, "CHILD")
      BY <1>2, <3>1, SelectedStates
    <3> HIDE DEF a, c
    <3> QED
      BY <1>4, <3>1, <3>2, <3>3
  <2>2. CASE MayP2PAccept(ctx[n], m) /\ ctx' = [ctx EXCEPT ![n] = P2PAccepts(@, m)]
    <3> DEFINE a == P2PAccepts(c, m)
    <3>1. c.mode = "P2P" /\ St(c, m) = "INCOMING_REQUEST" /\ Unattached(c)
      BY <1>5, <2>2 DEF MayP2PAccept
    <3>2. ctx' = [ctx EXCEPT ![n] = a]
      BY <2>2
    <3>3. Taken(c, a, m, "P2P")
      BY <1>2, <3>1, AcceptedStates
    <3> HIDE DEF a, c
    <3> QED
      BY <1>4, <3>1, <3>2, <3>3
  <2> QED
    BY <1>6, <2>1, <2>2 DEF Accept
<1>7. CASE Request(n, m)
  <2> DEFINE a == Requests(c, m)
  <2>1. MayRequest(c, m) /\ ctx' = [ctx EXCEPT ![n] = a]
    BY <1>7 DEF Request
  <2>2. Fits(a) /\ Within(a)
    BY <1>3, <2>1
  <2>3. Playing([ctx EXCEPT ![n] = a], inbox, game)
    BY <1>1, <2>1, <2>2, RequestStep
  <2> QED
    BY <1>1, <2>1, <2>3
<1>8. ASSUME NEW flag \in BOOLEAN, NEW op \in {"BULK", "BULK_ABORT"}, St(c, m) # "NONE",
             op = "BULK" => St(c, m) \in Established,
             NEW a, a = PushInput(SetSending(c, m, flag), op, m), ctx' = [ctx EXCEPT ![n] = a]
      PROVE  Playing(ctx', inbox', game')
  BY <1>1, <1>3, <1>8, DataStep
<1>9. CASE SendData(n, m)
  <2>1. "NONE" \notin Established
    BY DEF Established
  <2>2. MaySend(c, m) /\ ctx' = [ctx EXCEPT ![n] = Sends(c, m)]
    BY <1>9 DEF SendData
  <2> HIDE DEF c
  <2>3. St(c, m) \in Established
    BY <1>2, <2>1, <2>2, KnownAsIs DEF MaySend
  <2>4. Sends(c, m) = PushInput(SetSending(c, m, TRUE), "BULK", m)
    BY DEF Sends
  <2>5. TRUE \in BOOLEAN /\ St(c, m) # "NONE"
    BY <2>1, <2>3
  <2> QED
    BY <1>8, <2>2, <2>3, <2>4, <2>5
<1>10. CASE AbortSendData(n, m)
  <2>1. MayAbort(c, m) /\ ctx' = [ctx EXCEPT ![n] = Aborts(c, m)]
    BY <1>10 DEF AbortSendData
  <2> HIDE DEF c
  <2>2. St(c, m) # "NONE"
    BY <1>2, <2>1, StIs DEF MayAbort
  <2>3. Aborts(c, m) = PushInput(SetSending(c, m, FALSE), "BULK_ABORT", m)
    BY DEF Aborts
  <2>4. FALSE \in BOOLEAN
    OBVIOUS
  <2> QED
    BY <1>8, <2>1, <2>2, <2>3, <2>4
<1> QED
  BY <1>6, <1>7, <1>9, <1>10

(* Nobody is silent, so nobody is given up.                                *)
LEMMA NobodyMissing ==
    ASSUME Playing(ctx, inbox, game), NEW n \in Nodes
    PROVE  ~MissingOnAdhocctl(n) /\ \A m \in Nodes : ~HandleTimeout(n, m)
<1>1. ASSUME n \in OnAir(ctx), NEW m \in Nodes, Known(ctx[n], m)
      PROVE  ~Gone(m)
  <2>1. ctx[n] \in Context /\ \A k \in Nodes : St(ctx[n], k) # "NONE" => k \in OnAir(ctx)
    BY <1>1, PlayerIs
  <2>2. St(ctx[n], m) # "NONE"
    BY <1>1, <2>1, StIs
  <2> QED
    BY <2>1, <2>2 DEF OnAir, Gone
<1>2. ~MissingOnAdhocctl(n)
  BY <1>1 DEF MissingOnAdhocctl, Running, OnAir
<1> QED
  BY <1>1, <1>2 DEF HandleTimeout, MayTimeOut, Running, OnAir

(* The threads.                                                            *)
LEMMA ThreadsPlay ==
    ASSUME Playing(ctx, inbox, game), NEW n \in Nodes,
           \A k \in Nodes : Fits(ctx'[k]) /\ Within(ctx'[k]),
           InputThread(n) \/ DispatchEvents(n)
    PROVE  Playing(ctx', inbox', game')
<1> DEFINE c == ctx[n]
<1>1. n \in OnAir(ctx)
  BY DEF InputThread, BroadcastHello, Drain, Receive, MissingOnAdhocctl, HandleTimeout, DispatchEvents,
         Running, OnAir
<1>2. ASSUME NEW a, ctx' = [ctx EXCEPT ![n] = a]
      PROVE  Fits(a) /\ Within(a)
  <2>1. ctx'[n] = a
    BY <1>2 DEF Playing
  <2> QED
    BY <2>1
<1>3. CASE BroadcastHello(n)
  <2> DEFINE R == {m \in Nodes \ {n} : Running(m) /\ Unattached(ctx[m]) /\ ~HelloUnread(n, m)}
  <2>1. /\ inbox' = [m \in Nodes |-> IF m \in R THEN Append(inbox[m], Packet(n, m, "HELLO")) ELSE inbox[m]]
        /\ ctx' = ctx /\ game' = game /\ HasSlot(c)
    BY <1>3 DEF BroadcastHello
  <2>2. R \in SUBSET (OnAir(ctx) \ {n})
    BY DEF Running, OnAir
  <2>3. c.mode # "CHILD"
    BY <2>1 DEF HasSlot
  <2> HIDE DEF R
  <2>4. ctx[n].mode # "CHILD"
    BY <2>3
  <2> DEFINE D == [m \in Nodes |-> IF m \in R THEN Append(inbox[m], Packet(n, m, "HELLO")) ELSE inbox[m]]
  <2>5. Playing(ctx, D, game)
    BY <1>1, <2>2, <2>4, BroadcastStep
  <2>6. inbox' = D /\ ctx' = ctx /\ game' = game
    BY <2>1
  <2> HIDE DEF D
  <2> QED
    BY <2>5, <2>6
<1>4. CASE Drain(n)
  <2> DEFINE r == DrainInput(c, n)
  <2>1. ctx' = [ctx EXCEPT ![n] = r.ctx] /\ inbox' = Posted(inbox, r.out) /\ game' = game
    BY <1>4 DEF Drain, Becomes
  <2>2. Fits(r.ctx) /\ Within(r.ctx)
    BY <1>2, <2>1
  <2>3. r = DrainInput(c, n)
    OBVIOUS
  <2> HIDE DEF r
  <2>4. Playing([ctx EXCEPT ![n] = r.ctx], Posted(inbox, r.out), game)
    BY <1>1, <2>2, <2>3, DrainStep
  <2> QED
    BY <2>1, <2>4
<1>5. CASE Receive(n)
  <2>1. PICK i \in DOMAIN inbox[n] :
           /\ Oldest(n, i)
           /\ ctx' = [ctx EXCEPT ![n] = ActOn(c, n, inbox[n][i]).ctx]
           /\ inbox' = Posted([inbox EXCEPT ![n] = RemoveAt(@, i)], ActOn(c, n, inbox[n][i]).out)
    BY <1>5 DEF Receive
  <2>2. game' = game
    BY <1>5 DEF Receive
  <2> DEFINE r == ActOn(c, n, inbox[n][i])
             a == r.ctx
             D == [inbox EXCEPT ![n] = RemoveAt(inbox[n], i)]
  <2>3. ctx' = [ctx EXCEPT ![n] = a] /\ inbox' = Posted(D, r.out)
    BY <2>1
  <2>4. Fits(a) /\ Within(a)
    BY <1>2, <2>3
  <2>5. \A j \in 1..(i - 1) : inbox[n][j].from # inbox[n][i].from
    BY <2>1 DEF Oldest
  <2>6. Playing([ctx EXCEPT ![n] = a], Posted(D, r.out), game)
    <3>1. a = ActOn(c, n, inbox[n][i]).ctx
      OBVIOUS
    <3> HIDE DEF a
    <3> QED
      BY <1>1, <2>4, <2>5, <3>1, ReceiveStep
  <2> QED
    BY <2>2, <2>3, <2>6
<1>6. ~MissingOnAdhocctl(n) /\ \A m \in Nodes : ~HandleTimeout(n, m)
  BY NobodyMissing
<1>7. CASE DispatchEvents(n)
  <2> DEFINE H == [ctx EXCEPT ![n].events = <<>>]
             G == [game EXCEPT ![n] = Told(game[n], c.events)]
  <2>1. ctx' = H /\ inbox' = inbox /\ game' = G
    BY <1>7 DEF DispatchEvents
  <2>2. Playing(H, inbox, G)
    BY <1>1, DispatchStep
  <2> HIDE DEF H, G
  <2> QED
    BY <2>1, <2>2
<1> QED
  BY <1>3, <1>4, <1>5, <1>6, <1>7 DEF InputThread

LEMMA NextPlays == ASSUME IInv, RoomInv, IInv', [Next]_vars PROVE RoomInv'
<1>1. CASE UNCHANGED vars
  BY <1>1 DEF vars, RoomInv
<1>2. ASSUME NEW n \in Nodes, GameStep(n) \/ InputThread(n) \/ DispatchEvents(n) \/ Lose(n)
      PROVE  RoomInv'
  <2>1. trouble' = trouble \/ (trouble' = trouble + 1 /\ trouble \in Nat)
    BY <1>2 DEF GameStep, InputThread, DispatchEvents, Lose, Create, Start, Stop, Delete, PowerOff, Accept,
           Request, CancelTarget, SendData, AbortSendData, BroadcastHello, Drain, Receive,
           MissingOnAdhocctl, HandleTimeout, Trouble, RoomInv
  <2>2. trouble' \in Nat /\ (trouble' = 0 => trouble = 0 /\ trouble' = trouble)
    BY <2>1 DEF RoomInv
  <2> SUFFICES ASSUME trouble' = 0 PROVE Playing(ctx', inbox', game')
    BY <2>2 DEF RoomInv
  <2>3. Playing(ctx, inbox, game) /\ trouble' = trouble /\ ~Trouble
    <3>1. trouble = 0 /\ trouble' = 0
      BY <2>2
    <3> QED
      BY <3>1 DEF RoomInv, Trouble
  <2>4. \A k \in Nodes : Fits(ctx'[k]) /\ Within(ctx'[k])
    BY DEF IInv, Contexts, Sound
  <2>5. \/ Create(n) \/ Start(n) \/ Delete(n)
        \/ InputThread(n) \/ DispatchEvents(n)
        \/ \E m \in Nodes : Accept(n, m) \/ Request(n, m) \/ SendData(n, m) \/ AbortSendData(n, m)
    BY <1>2, <2>3 DEF GameStep, Stop, PowerOff, CancelTarget, Lose
  <2> QED
    BY <2>3, <2>4, <2>5, LifePlays, CallsPlay, ThreadsPlay
<1> QED
  BY <1>1, <1>2 DEF Next

(* The invariant holds in every state of every play.                       *)
THEOREM RoomInvariant == Spec => [](IInv /\ RoomInv)
<1>1. Init => IInv /\ RoomInv
  BY InitIsSound, InitPlays
<1>2. IInv /\ RoomInv /\ [Next]_vars => (IInv /\ RoomInv)'
  <2>1. IInv /\ [Next]_vars => IInv'
    BY NextIsSound
  <2> QED
    BY <2>1, NextPlays
<1> QED
  BY <1>1, <1>2, PTL DEF Spec

LEMMA WellInformed == ASSUME RoomInv PROVE GameInformed
<1> SUFFICES ASSUME Settled, trouble = 0, NEW n \in Nodes
             PROVE  game[n] = MacsIn(n, PartnerStates(ctx[n]))
  BY DEF GameInformed, PartnerStates
<1> DEFINE c == ctx[n]
           S == PartnerStates(c)
<1>1. /\ c \in Context /\ Shape(c) /\ Informed(c, game[n]) /\ game[n] \in SUBSET Nodes
      /\ DOMAIN c.events = {} /\ DOMAIN c.input = {}
  <2>1. Playing(ctx, inbox, game) /\ c.events = <<>> /\ c.input = <<>>
    BY DEF RoomInv, Settled
  <2> QED
    BY <2>1 DEF Playing, OrderlyIn, Own, Tidy
<1> HIDE DEF c
<1>2. "NONE" \notin S
  BY DEF PartnerStates
<1>3. \A m \in Nodes : m \in game[n] <=> St(c, m) \in S
  BY <1>1 DEF Informed, Hears, Waits
<1> HIDE DEF S
<1>4. MacsIn(n, S) = {c.peers[i].mac : i \in {j \in DOMAIN c.peers : c.peers[j].state \in S}}
  BY DEF MacsIn, StatesIn, PlacesOf, c
<1>5. ASSUME NEW m \in MacsIn(n, S)
      PROVE  m \in game[n]
  <2>1. PICK i \in DOMAIN c.peers : c.peers[i].state \in S /\ m = c.peers[i].mac
    BY <1>4, <1>5
  <2>2. m \in Nodes /\ St(c, m) = c.peers[i].state
    BY <1>1, <2>1, PeersAreNodes DEF Shape
  <2> QED
    BY <1>3, <2>1, <2>2
<1>6. ASSUME NEW m \in game[n]
      PROVE  m \in MacsIn(n, S)
  <2>1. m \in Nodes /\ St(c, m) \in S
    BY <1>1, <1>3, <1>6
  <2>2. Place(c, m) \in DOMAIN c.peers /\ c.peers[Place(c, m)].mac = m /\ c.peers[Place(c, m)].state \in S
    BY <1>1, <1>2, <2>1, StIs
  <2> QED
    BY <1>4, <2>2
<1>7. MacsIn(n, S) \subseteq game[n] /\ game[n] \subseteq MacsIn(n, S)
  BY <1>5, <1>6
<1> QED
  BY <1>7 DEF S, c

(* Without trouble, once all is settled every game has been told exactly   *)
(* of its parent, its children or its partner, whatever order the HELLOs,  *)
(* requests, answers, refusals, births and events came in.                 *)
THEOREM GamesAreInformed == Spec => []GameInformed
BY RoomInvariant, WellInformed, PTL

-----------------------------------------------------------------------------
(* Rooms: what the host p with the context c and the guest n with the      *)
(* context d and the box r think of each other and of the other guests.    *)
Births(r, p, k) == {i \in From(r, p, "BIRTH") : r[i].mac = k}

(* The guest has heard of k, or it will: from a letter or from the input   *)
(* thread of the host.                                                     *)
Heard(p, n, k, c, d, r) ==
    /\ St(d, p) = "PARENT" => St(d, k) = "CHILD" \/ Births(r, p, k) # {} \/ Waits(c, "BIRTH", k)
    /\ \A i \in From(r, p, "ACCEPT") : \/ k \in ToSet(r[i].siblings) \/ Waits(c, "BIRTH", k)
                                       \/ \E j \in Births(r, p, k) : j > i

Sibling(p, n, k, c, d, r) ==
    /\ St(d, p) = "PARENT" /\ St(d, k) = "CHILD" => St(c, k) = "CHILD"
    /\ \A i \in From(r, p, "ACCEPT") : k \in ToSet(r[i].siblings) => St(c, k) = "CHILD"
    /\ Births(r, p, k) # {} => St(c, k) = "CHILD"
    /\ St(c, k) = "CHILD" => Heard(p, n, k, c, d, r)

Member(p, n, c, d, r) ==
    /\ St(d, p) = "PARENT" => St(c, n) = "CHILD"
    /\ St(c, n) = "INCOMING_REQUEST" => St(d, p) = "OUTGOING_REQUEST"
    /\ St(c, n) = "CHILD" => \/ St(d, p) = "PARENT"
                             \/ /\ St(d, p) = "OUTGOING_REQUEST"
                                /\ From(r, p, "ACCEPT") # {} \/ Waits(c, "ACCEPT", n)
    /\ \A k \in Nodes \ {n} : Sibling(p, n, k, c, d, r)

(* Nobody plays peer to peer where somebody hosts.                         *)
Apart(F) == \A x, y \in Nodes : ~(F[x].mode = "PARENT" /\ F[y].mode = "P2P")

Rooms(F, B) ==
    /\ Apart(F)
    /\ \A p \in Nodes : F[p].mode = "PARENT" => \A n \in Nodes \ {p} : Member(p, n, F[p], F[n], B[n])

(* The guest's list does not matter beyond its parent, its request and its *)
(* siblings.                                                               *)
Keeps(p, d, a) ==
    /\ St(a, p) = "PARENT" <=> St(d, p) = "PARENT"
    /\ St(d, p) = "OUTGOING_REQUEST" => St(a, p) = "OUTGOING_REQUEST"
    /\ St(d, p) = "PARENT" => \A k \in Nodes : St(a, k) = "CHILD" <=> St(d, k) = "CHILD"

LEMMA GuestKeeps ==
    ASSUME NEW p, NEW n, NEW c, NEW d, NEW r, NEW a, Member(p, n, c, d, r), Keeps(p, d, a)
    PROVE  Member(p, n, c, a, r)
<1>1. \A k \in Nodes \ {n} : Sibling(p, n, k, c, a, r)
  BY DEF Member, Keeps, Sibling, Heard
<1> QED
  BY <1>1 DEF Member, Keeps

(* A letter is gone.                                                       *)
LEMMA LessFrom ==
    ASSUME NEW r \in Seq(PacketRecord), NEW i \in DOMAIN r
    PROVE  LET s == RemoveAt(r, i)
           IN  \E h : /\ \A j, k \in DOMAIN s : h[j] < h[k] => j < k
                      /\ \A p, op : \A j \in From(s, p, op) :
                            j \in DOMAIN s /\ h[j] \in From(r, p, op) /\ h[j] # i /\ s[j] = r[h[j]]
                      /\ \A p, op : \A j \in From(r, p, op) : j # i => \E k \in From(s, p, op) : h[k] = j
<1> DEFINE s == RemoveAt(r, i)
           h == [j \in DOMAIN s |-> IF j < i THEN j ELSE j + 1]
<1>1. /\ \A j \in DOMAIN s : h[j] \in DOMAIN r /\ h[j] # i /\ s[j] = r[h[j]]
      /\ \A j, k \in DOMAIN s : h[j] < h[k] => j < k
      /\ \A y, op : \A j \in From(s, y, op) : j \in DOMAIN s /\ h[j] \in From(r, y, op)
  BY BoxLess
<1>2. DOMAIN s = 1..(Len(r) - 1) /\ DOMAIN r = 1..Len(r) /\ Len(r) \in Nat
  BY RemoveAtFacts
<1>3. \A j \in DOMAIN r : j # i => \E k \in DOMAIN s : h[k] = j
  <2> SUFFICES ASSUME NEW j \in DOMAIN r, j # i PROVE \E k \in DOMAIN s : h[k] = j
    OBVIOUS
  <2> HIDE DEF s
  <2>1. CASE j < i
    BY <1>2, <2>1
  <2>2. CASE j > i
    <3>1. j - 1 \in DOMAIN s /\ ~(j - 1 < i)
      BY <1>2, <2>2
    <3>2. h[j - 1] = j
      BY <1>2, <3>1
    <3> QED
      BY <3>1, <3>2
  <2> QED
    BY <1>2, <2>1, <2>2
<1> HIDE DEF s, h
<1>4. \A p, op : \A j \in From(r, p, op) : j # i => \E k \in From(s, p, op) : h[k] = j
  BY <1>1, <1>3 DEF From
<1> QED
  BY <1>1, <1>4 DEF s

LEMMA GuestKeepsLess ==
    ASSUME NEW p, NEW n, NEW c, NEW d, NEW r \in Seq(PacketRecord), NEW a, Member(p, n, c, d, r), Keeps(p, d, a),
           NEW i \in DOMAIN r, \A j \in 1..(i - 1) : r[j].from # r[i].from,
           r[i].from = p /\ r[i].op = "ACCEPT" => St(d, p) # "OUTGOING_REQUEST",
           r[i].from = p /\ r[i].op = "BIRTH" => St(d, p) # "PARENT"
    PROVE  Member(p, n, c, a, RemoveAt(r, i))
<1> DEFINE s == RemoveAt(r, i)
<1>1. PICK h : /\ \A j, k \in DOMAIN s : h[j] < h[k] => j < k
               /\ \A q, op : \A j \in From(s, q, op) :
                     j \in DOMAIN s /\ h[j] \in From(r, q, op) /\ h[j] # i /\ s[j] = r[h[j]]
               /\ \A q, op : \A j \in From(r, q, op) : j # i => \E k \in From(s, q, op) : h[k] = j
  BY LessFrom
<1> HIDE DEF s
<1>2. DOMAIN r = 1..Len(r) /\ Len(r) \in Nat
  OBVIOUS
<1>3. \A op, j : j \in From(r, p, op) /\ j < i => r[i].from # p
  BY <1>2 DEF From
<1>4. \A op : i \in From(r, p, op) => r[i].from = p /\ r[i].op = op
  BY DEF From
<1>5. St(d, p) = "OUTGOING_REQUEST" /\ From(r, p, "ACCEPT") # {} => From(s, p, "ACCEPT") # {}
  BY <1>1, <1>4
<1>6. ASSUME NEW k
      PROVE  /\ \A j \in Births(s, p, k) : h[j] \in Births(r, p, k)
             /\ \A j \in Births(r, p, k) : j # i => \E l \in Births(s, p, k) : h[l] = j
  BY <1>1 DEF Births
<1>7. ASSUME NEW k \in Nodes \ {n}, St(c, k) = "CHILD"
      PROVE  Heard(p, n, k, c, a, s)
  <2>1. Heard(p, n, k, c, d, r)
    BY <1>7 DEF Member, Sibling
  <2>2. St(a, p) = "PARENT" => St(a, k) = "CHILD" \/ Births(s, p, k) # {} \/ Waits(c, "BIRTH", k)
    <3> SUFFICES ASSUME St(a, p) = "PARENT", NEW j \in Births(r, p, k)
                 PROVE  Births(s, p, k) # {}
      BY <2>1 DEF Heard, Keeps
    <3>1. j # i
      BY <1>4 DEF Births, Keeps
    <3> QED
      BY <1>6, <3>1
  <2>3. ASSUME NEW j \in From(s, p, "ACCEPT")
        PROVE  \/ k \in ToSet(s[j].siblings) \/ Waits(c, "BIRTH", k)
               \/ \E l \in Births(s, p, k) : l > j
    <3>1. j \in DOMAIN s /\ h[j] \in From(r, p, "ACCEPT") /\ h[j] # i /\ s[j] = r[h[j]]
      BY <1>1
    <3> SUFFICES ASSUME NEW l \in Births(r, p, k), l > h[j]
                 PROVE  \E o \in Births(s, p, k) : o > j
      BY <2>1, <3>1 DEF Heard
    <3>2. l # i
      BY <1>3, <1>4, <3>1 DEF Births
    <3>3. PICK o \in Births(s, p, k) : h[o] = l
      BY <1>6, <3>2
    <3>4. o \in DOMAIN s
      BY <1>1 DEF Births
    <3>5. j < o
      BY <1>1, <3>1, <3>3, <3>4
    <3> QED
      BY <3>5
  <2> QED
    BY <2>2, <2>3 DEF Heard
<1>8. \A k \in Nodes \ {n} : Sibling(p, n, k, c, a, s)
  BY <1>1, <1>6, <1>7 DEF Member, Keeps, Sibling
<1> QED
  BY <1>5, <1>8 DEF Member, Keeps, s

(* The host's ACCEPT makes the guest a member.                             *)
LEMMA GuestJoins ==
    ASSUME NEW p, NEW n, NEW c, NEW d, NEW r \in Seq(PacketRecord), NEW a, Member(p, n, c, d, r),
           NEW i \in DOMAIN r, r[i].from = p, r[i].op = "ACCEPT",
           St(c, n) = "CHILD", St(a, p) = "PARENT",
           \A k \in Nodes \ {n} : St(a, k) = "CHILD" <=> k \in ToSet(r[i].siblings)
    PROVE  Member(p, n, c, a, RemoveAt(r, i))
<1> DEFINE s == RemoveAt(r, i)
<1>1. PICK h : /\ \A j, k \in DOMAIN s : h[j] < h[k] => j < k
               /\ \A q, op : \A j \in From(s, q, op) :
                     j \in DOMAIN s /\ h[j] \in From(r, q, op) /\ h[j] # i /\ s[j] = r[h[j]]
               /\ \A q, op : \A j \in From(r, q, op) : j # i => \E k \in From(s, q, op) : h[k] = j
  BY LessFrom
<1> HIDE DEF s
<1>2. i \in From(r, p, "ACCEPT") /\ i \notin From(r, p, "BIRTH")
  BY DEF From
<1>3. ASSUME NEW k
      PROVE  /\ \A j \in Births(s, p, k) : h[j] \in Births(r, p, k)
             /\ \A j \in Births(r, p, k) : j # i => \E l \in Births(s, p, k) : h[l] = j
  BY <1>1 DEF Births
<1>4. ASSUME NEW k \in Nodes \ {n}, St(c, k) = "CHILD"
      PROVE  Heard(p, n, k, c, a, s)
  <2>1. Heard(p, n, k, c, d, r)
    BY <1>4 DEF Member, Sibling
  <2>2. \A j \in Births(r, p, k) : \E l \in Births(s, p, k) : h[l] = j
    <3>1. \A j \in Births(r, p, k) : j # i
      BY <1>2 DEF Births
    <3> QED
      BY <1>3, <3>1
  <2>3. St(a, k) = "CHILD" \/ Births(s, p, k) # {} \/ Waits(c, "BIRTH", k)
    BY <1>2, <1>4, <2>1, <2>2 DEF Heard
  <2>4. ASSUME NEW j \in From(s, p, "ACCEPT")
        PROVE  \/ k \in ToSet(s[j].siblings) \/ Waits(c, "BIRTH", k)
               \/ \E l \in Births(s, p, k) : l > j
    <3>1. j \in DOMAIN s /\ h[j] \in From(r, p, "ACCEPT") /\ s[j] = r[h[j]]
      BY <1>1
    <3> SUFFICES ASSUME NEW l \in Births(r, p, k), l > h[j]
                 PROVE  \E o \in Births(s, p, k) : o > j
      BY <2>1, <3>1 DEF Heard
    <3>2. PICK o \in Births(s, p, k) : h[o] = l
      BY <2>2
    <3>3. o \in DOMAIN s
      BY <1>1 DEF Births
    <3>4. j < o
      BY <1>1, <3>1, <3>2, <3>3
    <3> QED
      BY <3>4
  <2> QED
    BY <2>3, <2>4 DEF Heard
<1>5. ASSUME NEW k \in Nodes \ {n}
      PROVE  Sibling(p, n, k, c, a, s)
  <2>1. Sibling(p, n, k, c, d, r)
    BY DEF Member
  <2>2. St(a, k) = "CHILD" => St(c, k) = "CHILD"
    BY <1>2, <2>1 DEF Sibling
  <2>3. \A j \in From(s, p, "ACCEPT") : k \in ToSet(s[j].siblings) => St(c, k) = "CHILD"
    BY <1>1, <2>1 DEF Sibling
  <2>4. Births(s, p, k) # {} => St(c, k) = "CHILD"
    BY <1>3, <2>1 DEF Sibling
  <2> QED
    BY <1>4, <2>2, <2>3, <2>4 DEF Sibling
<1> QED
  BY <1>5 DEF Member, s

(* The host's BIRTH makes another guest a sibling.                         *)
LEMMA GuestHears ==
    ASSUME NEW p, NEW n, NEW c, NEW d, NEW r \in Seq(PacketRecord), NEW a, Member(p, n, c, d, r),
           NEW i \in DOMAIN r, \A j \in 1..(i - 1) : r[j].from # r[i].from,
           r[i].from = p, r[i].op = "BIRTH", r[i].mac # p,
           St(d, p) = "PARENT", \A k \in Nodes \cup {p} : St(a, k) = With(d, r[i].mac, "CHILD", k)
    PROVE  Member(p, n, c, a, RemoveAt(r, i))
<1> DEFINE s == RemoveAt(r, i)
<1>1. PICK h : /\ \A j, k \in DOMAIN s : h[j] < h[k] => j < k
               /\ \A q, op : \A j \in From(s, q, op) :
                     j \in DOMAIN s /\ h[j] \in From(r, q, op) /\ h[j] # i /\ s[j] = r[h[j]]
               /\ \A q, op : \A j \in From(r, q, op) : j # i => \E k \in From(s, q, op) : h[k] = j
  BY LessFrom
<1> HIDE DEF s
<1>2. DOMAIN r = 1..Len(r) /\ Len(r) \in Nat
  OBVIOUS
<1>3. \A op, j : j \in From(r, p, op) => ~(j < i)
  BY <1>2 DEF From
<1>4. i \in Births(r, p, r[i].mac) /\ \A k : i \in Births(r, p, k) => r[i].mac = k
  BY DEF Births, From
<1>5. ASSUME NEW k
      PROVE  /\ \A j \in Births(s, p, k) : h[j] \in Births(r, p, k)
             /\ \A j \in Births(r, p, k) : j # i => \E l \in Births(s, p, k) : h[l] = j
  BY <1>1 DEF Births
<1>6. St(a, p) = "PARENT"
  BY DEF With
<1>7. ASSUME NEW k \in Nodes \ {n}, St(c, k) = "CHILD"
      PROVE  Heard(p, n, k, c, a, s)
  <2>1. Heard(p, n, k, c, d, r)
    BY <1>7 DEF Member, Sibling
  <2>2. St(a, k) = "CHILD" \/ Births(s, p, k) # {} \/ Waits(c, "BIRTH", k)
    <3>1. CASE k = r[i].mac
      BY <3>1 DEF With
    <3>2. CASE k # r[i].mac
      <4>1. St(a, k) = St(d, k)
        BY <3>2 DEF With
      <4>2. Births(r, p, k) # {} => Births(s, p, k) # {}
        BY <1>4, <1>5, <3>2
      <4> QED
        BY <2>1, <4>1, <4>2 DEF Heard
    <3> QED
      BY <3>1, <3>2
  <2>3. ASSUME NEW j \in From(s, p, "ACCEPT")
        PROVE  \/ k \in ToSet(s[j].siblings) \/ Waits(c, "BIRTH", k)
               \/ \E l \in Births(s, p, k) : l > j
    <3>1. j \in DOMAIN s /\ h[j] \in From(r, p, "ACCEPT") /\ s[j] = r[h[j]]
      BY <1>1
    <3> SUFFICES ASSUME NEW l \in Births(r, p, k), l > h[j]
                 PROVE  \E o \in Births(s, p, k) : o > j
      BY <2>1, <3>1 DEF Heard
    <3>2. l # i
      BY <1>3, <3>1
    <3>3. PICK o \in Births(s, p, k) : h[o] = l
      BY <1>5, <3>2
    <3>4. o \in DOMAIN s
      BY <1>1 DEF Births
    <3>5. j < o
      BY <1>1, <3>1, <3>3, <3>4
    <3> QED
      BY <3>5
  <2> QED
    BY <2>2, <2>3 DEF Heard
<1>8. ASSUME NEW k \in Nodes \ {n}
      PROVE  Sibling(p, n, k, c, a, s)
  <2>1. Sibling(p, n, k, c, d, r)
    BY DEF Member
  <2>2. St(a, k) = "CHILD" => St(c, k) = "CHILD"
    BY <1>4, <2>1 DEF Sibling, With
  <2>3. \A j \in From(s, p, "ACCEPT") : k \in ToSet(s[j].siblings) => St(c, k) = "CHILD"
    BY <1>1, <2>1 DEF Sibling
  <2>4. Births(s, p, k) # {} => St(c, k) = "CHILD"
    BY <1>5, <2>1 DEF Sibling
  <2> QED
    BY <1>7, <2>2, <2>3, <2>4 DEF Sibling
<1>9. St(c, n) = "CHILD"
  BY DEF Member
<1> QED
  BY <1>6, <1>8, <1>9 DEF Member, s

(* Other letters do not matter.                                            *)
LEMMA MemberGrown ==
    ASSUME NEW p, NEW n, NEW c, NEW d, NEW r, NEW t, Member(p, n, c, d, r),
           DOMAIN r \subseteq DOMAIN t, \A i \in DOMAIN r : t[i] = r[i],
           \A i \in DOMAIN t \ DOMAIN r : t[i].from # p \/ t[i].op \notin {"ACCEPT", "BIRTH"}
    PROVE  Member(p, n, c, d, t)
<1>1. /\ From(t, p, "ACCEPT") = From(r, p, "ACCEPT")
      /\ From(t, p, "BIRTH") = From(r, p, "BIRTH")
  BY DEF From
<1>2. \A i \in From(r, p, "ACCEPT") \cup From(r, p, "BIRTH") : t[i] = r[i]
  BY DEF From
<1>3. \A k : Births(t, p, k) = Births(r, p, k)
  BY <1>1, <1>2 DEF Births
<1>4. \A k \in Nodes \ {n} : Sibling(p, n, k, c, d, t)
  BY <1>1, <1>2, <1>3 DEF Member, Sibling, Heard
<1> QED
  BY <1>1, <1>4 DEF Member

(* The host: a step that leaves the children alone.                        *)
LEMMA HostKeeps ==
    ASSUME NEW p, NEW n, NEW c, NEW d, NEW r, NEW a, Member(p, n, c, d, r), n \in Nodes,
           \A k \in Nodes : St(a, k) = "CHILD" <=> St(c, k) = "CHILD",
           St(a, n) = "INCOMING_REQUEST" => St(d, p) = "OUTGOING_REQUEST",
           \A op \in {"ACCEPT", "BIRTH"} : \A k : Waits(c, op, k) => Waits(a, op, k)
    PROVE  Member(p, n, a, d, r)
<1>1. \A k \in Nodes \ {n} : Sibling(p, n, k, a, d, r)
  BY DEF Member, Sibling, Heard
<1> QED
  BY <1>1 DEF Member

(* The host accepts the request of m.                                      *)
LEMMA HostSelects ==
    ASSUME NEW p, NEW n, NEW c, NEW d, NEW r, NEW a, NEW m, Member(p, n, c, d, r), n \in Nodes,
           \A k \in Nodes : St(a, k) = With(c, m, "CHILD", k), St(c, m) = "INCOMING_REQUEST",
           \A op \in {"ACCEPT", "BIRTH"} : \A k : Waits(c, op, k) \/ k = m => Waits(a, op, k)
    PROVE  Member(p, n, a, d, r)
<1>1. ASSUME NEW k \in Nodes \ {n}
      PROVE  Sibling(p, n, k, a, d, r)
  <2>1. Sibling(p, n, k, c, d, r)
    BY DEF Member
  <2>2. St(c, k) = "CHILD" => St(a, k) = "CHILD"
    BY DEF With
  <2>3. CASE k = m
    BY <2>1, <2>2, <2>3 DEF Sibling, Heard
  <2>4. CASE k # m
    <3>1. St(a, k) = St(c, k)
      BY <2>4 DEF With
    <3> QED
      BY <2>1, <3>1 DEF Sibling, Heard
  <2> QED
    BY <2>3, <2>4
<1>2. CASE n = m
  <2>1. St(a, n) = "CHILD" /\ Waits(a, "ACCEPT", n) /\ St(d, p) = "OUTGOING_REQUEST"
    BY <1>2 DEF Member, With
  <2> QED
    BY <1>1, <2>1 DEF Member
<1>3. CASE n # m
  <2>1. St(a, n) = St(c, n) /\ (Waits(c, "ACCEPT", n) => Waits(a, "ACCEPT", n))
    BY <1>3 DEF With
  <2> QED
    BY <1>1, <2>1 DEF Member
<1> QED
  BY <1>2, <1>3

(* The host's input thread has emptied the stack.                          *)
LEMMA HostSends ==
    ASSUME NEW p, NEW n, NEW c, NEW d, NEW r \in Seq(PacketRecord), NEW t \in Seq(PacketRecord), NEW a,
           Member(p, n, c, d, r), n \in Nodes,
           \A k \in Nodes : St(a, k) = St(c, k),
           DOMAIN r \subseteq DOMAIN t, \A i \in DOMAIN r : t[i] = r[i],
           \A i \in DOMAIN t \ DOMAIN r :
              /\ t[i].op = "ACCEPT" => ToSet(t[i].siblings) = ChildrenBut(c, n)
              /\ t[i].op = "BIRTH" => St(c, t[i].mac) = "CHILD",
           From(r, p, "ACCEPT") # {} => St(c, n) = "CHILD",
           Waits(c, "ACCEPT", n) => \E i \in DOMAIN t \ DOMAIN r : t[i].op = "ACCEPT" /\ t[i].from = p,
           \A k \in Nodes \ {n} : Waits(c, "BIRTH", k) /\ St(c, n) = "CHILD" =>
              \E i \in DOMAIN t \ DOMAIN r : t[i].op = "BIRTH" /\ t[i].from = p /\ t[i].mac = k
    PROVE  Member(p, n, a, d, t)
<1>1. \A i \in DOMAIN t \ DOMAIN r, j \in DOMAIN r : i > j
  <2>1. DOMAIN r = 1..Len(r) /\ Len(r) \in Nat /\ DOMAIN t = 1..Len(t) /\ Len(t) \in Nat
    OBVIOUS
  <2> QED
    BY <2>1
<1>2. \A op : \A i \in From(r, p, op) : i \in From(t, p, op) /\ t[i] = r[i] /\ i \in DOMAIN r
  BY DEF From
<1>3. \A op : \A i \in From(t, p, op) : i \in From(r, p, op) \/ (i \in DOMAIN t \ DOMAIN r /\ t[i].op = op)
  BY DEF From
<1>4. \A k : \A i \in Births(r, p, k) : i \in Births(t, p, k)
  BY <1>2 DEF Births
<1>5. \A k : \A i \in Births(t, p, k) : i \in Births(r, p, k) \/ (i \in DOMAIN t \ DOMAIN r /\ t[i].op = "BIRTH" /\ t[i].mac = k)
  BY <1>2, <1>3 DEF Births
<1>6. ASSUME NEW k \in Nodes \ {n}, Waits(c, "BIRTH", k), St(c, n) = "CHILD"
      PROVE  \E i \in Births(t, p, k) : i \in DOMAIN t \ DOMAIN r
  BY <1>6 DEF Births, From
<1>7. ASSUME NEW k \in Nodes \ {n}, St(c, k) = "CHILD"
      PROVE  Heard(p, n, k, a, d, t)
  <2>1. Heard(p, n, k, c, d, r)
    BY <1>7 DEF Member, Sibling
  <2>2. St(d, p) = "PARENT" => St(d, k) = "CHILD" \/ Births(t, p, k) # {}
    BY <1>4, <1>6, <2>1 DEF Heard, Member
  <2>3. ASSUME NEW j \in From(t, p, "ACCEPT")
        PROVE  k \in ToSet(t[j].siblings) \/ \E l \in Births(t, p, k) : l > j
    <3>1. CASE j \in From(r, p, "ACCEPT")
      <4>1. St(c, n) = "CHILD" /\ j \in DOMAIN r /\ t[j] = r[j]
        BY <1>2, <3>1
      <4>2. CASE Waits(c, "BIRTH", k)
        BY <1>1, <1>6, <4>1, <4>2
      <4>3. CASE ~Waits(c, "BIRTH", k)
        BY <1>4, <2>1, <3>1, <4>1, <4>3 DEF Heard
      <4> QED
        BY <4>2, <4>3
    <3>2. CASE j \in DOMAIN t \ DOMAIN r /\ t[j].op = "ACCEPT"
      BY <1>7, <3>2 DEF ChildrenBut
    <3> QED
      BY <1>3, <3>1, <3>2
  <2> QED
    BY <2>2, <2>3 DEF Heard
<1>8. ASSUME NEW k \in Nodes \ {n}
      PROVE  Sibling(p, n, k, a, d, t)
  <2>1. Sibling(p, n, k, c, d, r)
    BY DEF Member
  <2>2. \A j \in From(t, p, "ACCEPT") : k \in ToSet(t[j].siblings) => St(c, k) = "CHILD"
    BY <1>2, <1>3, <2>1 DEF Sibling, ChildrenBut
  <2>3. ASSUME NEW j \in Births(t, p, k)
        PROVE  St(c, k) = "CHILD"
    <3>1. CASE j \in Births(r, p, k)
      BY <2>1, <3>1 DEF Sibling
    <3>2. CASE j \in DOMAIN t \ DOMAIN r /\ t[j].op = "BIRTH" /\ t[j].mac = k
      BY <3>2
    <3> QED
      BY <1>5, <3>1, <3>2
  <2> QED
    BY <1>7, <2>1, <2>2, <2>3 DEF Sibling
<1>9. From(r, p, "ACCEPT") # {} \/ Waits(c, "ACCEPT", n) => From(t, p, "ACCEPT") # {}
  BY <1>2 DEF From
<1> QED
  BY <1>8, <1>9 DEF Member

(* One player's list or box changes.                                       *)
LEMMA RoomsOne ==
    ASSUME NEW F \in [Nodes -> Context], NEW B, NEW D, Rooms(F, B), NEW x \in Nodes, NEW a, a.mode = F[x].mode,
           \A m \in Nodes \ {x} : D[m] = B[m],
           a.mode = "PARENT" => \A n \in Nodes \ {x} : Member(x, n, a, F[n], B[n]),
           \A p \in Nodes \ {x} : F[p].mode = "PARENT" => Member(p, x, F[p], a, D[x])
    PROVE  Rooms([F EXCEPT ![x] = a], D)
<1> DEFINE H == [F EXCEPT ![x] = a]
<1>1. H[x] = a /\ \A m \in Nodes \ {x} : H[m] = F[m]
  OBVIOUS
<1> HIDE DEF H
<1>0. \A m \in Nodes : H[m].mode = F[m].mode
  BY <1>1
<1> SUFFICES ASSUME NEW p \in Nodes, H[p].mode = "PARENT", NEW n \in Nodes \ {p}
             PROVE  Member(p, n, H[p], H[n], D[n])
  BY <1>0 DEF Rooms, Apart, H
<1>2. CASE p = x
  BY <1>1, <1>2
<1>3. CASE n = x
  BY <1>1, <1>3
<1>4. CASE p # x /\ n # x
  BY <1>1, <1>4 DEF Rooms
<1> QED
  BY <1>2, <1>3, <1>4

(* A step of a player that is neither in a room nor at the door of one.    *)
LEMMA RoomsKeep ==
    ASSUME NEW F \in [Nodes -> Context], NEW B, Rooms(F, B), NEW x \in Nodes, NEW a, a.mode = F[x].mode,
           a.mode = "PARENT" =>
              /\ \A k \in Nodes : St(a, k) = "CHILD" <=> St(F[x], k) = "CHILD"
              /\ \A k \in Nodes \ {x} : St(a, k) = "INCOMING_REQUEST" =>
                    St(F[x], k) = "INCOMING_REQUEST" \/ St(F[k], x) = "OUTGOING_REQUEST"
              /\ \A op \in {"ACCEPT", "BIRTH"} : \A k : Waits(F[x], op, k) => Waits(a, op, k),
           \A p \in Nodes \ {x} : F[p].mode = "PARENT" => Keeps(p, F[x], a)
    PROVE  Rooms([F EXCEPT ![x] = a], B)
<1>1. ASSUME a.mode = "PARENT", NEW n \in Nodes \ {x}
      PROVE  Member(x, n, a, F[n], B[n])
  <2>1. Member(x, n, F[x], F[n], B[n])
    BY <1>1 DEF Rooms
  <2>2. St(a, n) = "INCOMING_REQUEST" => St(F[n], x) = "OUTGOING_REQUEST"
    BY <1>1, <2>1 DEF Member
  <2> QED
    BY <1>1, <2>1, <2>2, HostKeeps
<1>2. ASSUME NEW p \in Nodes \ {x}, F[p].mode = "PARENT"
      PROVE  Member(p, x, F[p], a, B[x])
  BY <1>2, GuestKeeps DEF Rooms
<1> QED
  BY <1>1, <1>2, RoomsOne

LEMMA RoomsGrown ==
    ASSUME NEW F, NEW B, NEW D, Rooms(F, B),
           \A n \in Nodes : /\ DOMAIN B[n] \subseteq DOMAIN D[n] /\ \A i \in DOMAIN B[n] : D[n][i] = B[n][i]
                            /\ \A i \in DOMAIN D[n] \ DOMAIN B[n] : D[n][i].op \notin {"ACCEPT", "BIRTH"}
    PROVE  Rooms(F, D)
<1> SUFFICES ASSUME NEW p \in Nodes, F[p].mode = "PARENT", NEW n \in Nodes \ {p}
             PROVE  Member(p, n, F[p], F[n], D[n])
  BY DEF Rooms
<1>1. Member(p, n, F[p], F[n], B[n])
  BY DEF Rooms
<1> QED
  BY <1>1, MemberGrown

LEMMA RoomsPost ==
    ASSUME NEW F, NEW B \in [Nodes -> Seq(PacketRecord)], Rooms(F, B), NEW out \in Seq(PacketRecord),
           \A j \in DOMAIN out : out[j].op \notin {"ACCEPT", "BIRTH"}
    PROVE  Rooms(F, Posted(B, out))
<1> DEFINE T == Posted(B, out)
<1>1. ASSUME NEW n \in Nodes
      PROVE  /\ DOMAIN B[n] \subseteq DOMAIN T[n] /\ \A i \in DOMAIN B[n] : T[n][i] = B[n][i]
             /\ \A i \in DOMAIN T[n] \ DOMAIN B[n] : T[n][i].op \notin {"ACCEPT", "BIRTH"}
  <2>1. PICK h : Carries(B[n], T[n], out, n, h)
    BY PostedIs
  <2> HIDE DEF T
  <2> QED
    BY <2>1 DEF Carries
<1> HIDE DEF T
<1>2. Rooms(F, T)
  BY <1>1, RoomsGrown
<1> QED
  BY <1>2 DEF T

(* The host's list after a JOIN of a player that it has not met.           *)
LEMMA JoinStates ==
    ASSUME NEW n, NEW c, Sane(c), c.mode = "PARENT", NEW y \in Nodes, St(c, y) \notin Met
    PROVE  LET res == ActOnJoin(c, n, y)
           IN  /\ SameButList(c, res.ctx)
               /\ \A k \in Nodes \ {y} : St(res.ctx, k) = St(c, k)
               /\ St(res.ctx, y) # "CHILD"
               /\ res.out \in {<<>>, <<Packet(n, y, "CANCEL")>>}
<1> DEFINE res == ActOnJoin(c, n, y)
           a == res.ctx
<1>1. c \in Context /\ Shape(c) /\ "REQUEST" \in EventNames /\ St(c, y) # "CHILD"
  BY DEF Sane, EventNames, Met, Established
<1>2. CASE HasSlot(c) /\ Known(c, y)
  <2>1. res = Result(c, <<>>)
    BY <1>2 DEF ActOnJoin
  <2>2. a = c /\ res.out = <<>>
    BY <2>1, ResultIs
  <2> HIDE DEF res
  <2> QED
    BY <1>1, <2>2 DEF SameButList, res
<1>3. CASE ~HasSlot(c)
  <2>1. res = SendCancel(c, n, y)
    BY <1>3 DEF ActOnJoin
  <2>2. a = (IF ~Known(c, y) THEN c ELSE DeletePeer(c, y)) /\ res.out = <<Packet(n, y, "CANCEL")>>
    BY <2>1, ResultIs DEF SendCancel
  <2> HIDE DEF res
  <2>3. SameButList(c, a) /\ \A k \in Nodes : St(a, k) = With(c, y, "NONE", k)
    <3>1. CASE St(c, y) = "NONE"
      <4>1. a = c
        BY <1>1, <2>2, <3>1, StIs
      <4> QED
        BY <1>1, <3>1, <4>1 DEF SameButList, With
    <3>2. CASE St(c, y) # "NONE"
      <4>1. a = DeletePeer(c, y)
        BY <1>1, <2>2, <3>2, StIs
      <4> HIDE DEF a
      <4> QED
        BY <1>1, <3>2, <4>1, DeleteStates
    <3> QED
      BY <3>1, <3>2
  <2> QED
    BY <2>2, <2>3 DEF With, res
<1>4. CASE HasSlot(c) /\ ~Known(c, y)
  <2> DEFINE d == Link(c, y, "INCOMING_REQUEST", FALSE)
  <2>1. res = Result(Spawn(d, "REQUEST", y), <<>>)
    BY <1>4 DEF ActOnJoin
  <2>2. SameButList(c, d) /\ Shape(d) /\ \A k \in Nodes : St(d, k) = With(c, y, "INCOMING_REQUEST", k)
    <3>1. St(c, y) = "NONE" /\ "INCOMING_REQUEST" \in FreeStates(c) /\ FALSE \in BOOLEAN
      BY <1>1, <1>4, StIs, FreeStatesAre
    <3> QED
      BY <1>1, <3>1, LinkStates
  <2> HIDE DEF d, res
  <2>3. a = Spawn(d, "REQUEST", y) /\ res.out = <<>>
    BY <2>1, ResultIs
  <2>4. d \in Context
    BY <2>2 DEF SameButList
  <2> HIDE DEF a
  <2>5. SameButList(d, a) /\ \A k \in Nodes : St(a, k) = St(d, k)
    BY <1>1, <2>2, <2>3, <2>4, SpawnStates
  <2>6. SameButList(c, a)
    BY <2>2, <2>5 DEF SameButList
  <2> QED
    BY <2>2, <2>3, <2>5, <2>6 DEF With, res, a
<1> QED
  BY <1>2, <1>3, <1>4

(* A host reads a letter: its children stay, and a new request is that of  *)
(* a player who waits for the answer.                                      *)
LEMMA HostReads ==
    ASSUME NEW F, NEW B, NEW g, Playing(F, B, g), NEW x \in OnAir(F), F[x].mode = "PARENT",
           NEW i \in DOMAIN B[x]
    PROVE  LET res == ActOn(F[x], x, B[x][i])
           IN  /\ SameButList(F[x], res.ctx)
               /\ \A k \in Nodes : St(res.ctx, k) = "CHILD" <=> St(F[x], k) = "CHILD"
               /\ \A k \in Nodes \ {x} : St(res.ctx, k) = "INCOMING_REQUEST" =>
                     St(F[x], k) = "INCOMING_REQUEST" \/ St(F[k], x) = "OUTGOING_REQUEST"
               /\ res.out \in Seq(PacketRecord)
               /\ \A j \in DOMAIN res.out : res.out[j].op \notin {"ACCEPT", "BIRTH"}
<1> DEFINE c == F[x]
           p == B[x][i]
           y == p.from
           res == ActOn(c, x, p)
           Goal == /\ SameButList(c, res.ctx)
                   /\ \A k \in Nodes : St(res.ctx, k) = "CHILD" <=> St(c, k) = "CHILD"
                   /\ \A k \in Nodes \ {x} : St(res.ctx, k) = "INCOMING_REQUEST" =>
                         St(c, k) = "INCOMING_REQUEST" \/ St(F[k], x) = "OUTGOING_REQUEST"
                   /\ res.out \in Seq(PacketRecord)
                   /\ \A j \in DOMAIN res.out : res.out[j].op \notin {"ACCEPT", "BIRTH"}
<1> SUFFICES Goal
  OBVIOUS
<1>1. /\ x \in Nodes /\ c \in Context /\ Sane(c) /\ Shape(c) /\ B[x] \in Seq(PacketRecord)
      /\ Letter(x, c.mode, p, F)
      /\ \A m \in Nodes \ {x} : BothWays(x, m, c, F[m], B[m], B[x])
  BY PlayerIs
<1>2. y \in Nodes /\ y # x
  BY <1>1 DEF Letter, OnAir
<1>3. BothWays(x, y, c, F[y], B[y], B[x]) /\ i \in From(B[x], y, p.op) /\ St(c, y) # "OUTGOING_REQUEST"
  <2>1. St(c, y) # "OUTGOING_REQUEST"
    BY <1>1, <1>2, FitsIs
  <2> QED
    BY <1>1, <1>2, <2>1 DEF From
<1>4. ~Unattached(c)
  BY DEF Unattached
<1> HIDE DEF c, p, res
<1>0. res = ActOn(c, x, p) /\ c.mode = "PARENT"
  BY DEF res, c
<1>5. ASSUME NEW e, res = Result(e, <<>>), SameButList(c, e), \A k \in Nodes : St(e, k) = St(c, k)
      PROVE  Goal
  <2>1. res.ctx = e /\ res.out = <<>>
    BY <1>5, ResultIs
  <2>2. res.out \in Seq(PacketRecord) /\ DOMAIN res.out = {}
    BY <2>1
  <2>3. SameButList(c, res.ctx) /\ \A k \in Nodes : St(res.ctx, k) = St(c, k)
    BY <1>5, <2>1
  <2> QED
    BY <2>2, <2>3
<1>6. SameButList(c, c)
  BY <1>1 DEF SameButList
<1>7. CASE p.op = "HELLO"
  <2>1. res = Result(ActOnHello(c, y), <<>>)
    BY <1>0, <1>7 DEF ActOn
  <2>2. ActOnHello(c, y) = c
    BY <1>4 DEF ActOnHello
  <2> QED
    BY <1>5, <1>6, <2>1, <2>2
<1>8. CASE p.op = "JOIN"
  <2>1. res = ActOnJoin(c, x, y)
    BY <1>0, <1>8 DEF ActOn
  <2>2. St(c, y) \notin Met /\ St(F[y], x) = "OUTGOING_REQUEST"
    BY <1>3, <1>8 DEF BothWays, Pair
  <2>3. /\ SameButList(c, res.ctx)
        /\ \A k \in Nodes \ {y} : St(res.ctx, k) = St(c, k)
        /\ St(res.ctx, y) # "CHILD"
        /\ res.out \in {<<>>, <<Packet(x, y, "CANCEL")>>}
    BY <1>0, <1>1, <1>2, <2>1, <2>2, JoinStates
  <2>4. St(c, y) # "CHILD"
    BY <2>2 DEF Met, Established
  <2>5. res.out \in Seq(PacketRecord) /\ \A j \in DOMAIN res.out : res.out[j].op \notin {"ACCEPT", "BIRTH"}
    <3> DEFINE q == Packet(x, y, "CANCEL")
    <3>1. q \in PacketRecord /\ q.op = "CANCEL"
      BY <1>1, <1>2 DEF Packet, PacketRecord
    <3> HIDE DEF q
    <3>2. res.out = <<>> \/ res.out = <<q>>
      BY <2>3 DEF q
    <3>3. ASSUME res.out = <<>>
          PROVE  res.out \in Seq(PacketRecord) /\ DOMAIN res.out = {}
      BY <3>3
    <3>4. ASSUME res.out = <<q>>
          PROVE  res.out \in Seq(PacketRecord) /\ DOMAIN res.out = {1} /\ res.out[1] = q
      BY <3>1, <3>4
    <3> QED
      BY <3>1, <3>2, <3>3, <3>4
  <2> QED
    BY <2>2, <2>3, <2>4, <2>5
<1>9. CASE p.op = "ACCEPT"
  <2>1. res = Result(ActOnAccept(c, x, y, p.siblings), <<>>)
    BY <1>0, <1>9 DEF ActOn
  <2>2. ActOnAccept(c, x, y, p.siblings) = c
    BY <1>4 DEF ActOnAccept
  <2> QED
    BY <1>5, <1>6, <2>1, <2>2
<1>10. CASE p.op = "CANCEL"
  <2>1. FALSE
    BY <1>3, <1>10 DEF BothWays, Pair
  <2> QED
    BY <2>1
<1>11. CASE p.op = "BULK"
  <2>1. res = Result(ActOnBulk(c, y), <<>>)
    BY <1>0, <1>11 DEF ActOn
  <2> QED
    BY <1>1, <1>2, <1>5, <2>1, BulkStates
<1>12. CASE p.op = "BIRTH"
  <2>1. res = Result(ActOnBirth(c, y, p.mac), <<>>)
    BY <1>0, <1>12 DEF ActOn
  <2>2. ActOnBirth(c, y, p.mac) = c
    BY <1>0 DEF ActOnBirth, FromParent
  <2> QED
    BY <1>5, <1>6, <2>1, <2>2
<1>13. p.op \in {"HELLO", "JOIN", "ACCEPT", "CANCEL", "BULK", "BIRTH"}
  BY <1>1 DEF Letter
<1> QED
  BY <1>7, <1>8, <1>9, <1>10, <1>11, <1>12, <1>13

(* A child reads a letter, whose it is, and stays the host's member or     *)
(* becomes it.                                                             *)
LEMMA GuestReads ==
    ASSUME NEW F, NEW B, NEW g, Playing(F, B, g), NEW x \in OnAir(F), F[x].mode = "CHILD",
           NEW i \in DOMAIN B[x], \A j \in 1..(i - 1) : B[x][j].from # B[x][i].from,
           Rooms(F, B)
    PROVE  LET res == ActOn(F[x], x, B[x][i])
           IN  /\ SameButList(F[x], res.ctx) /\ res.out = <<>>
               /\ \A p \in Nodes \ {x} : F[p].mode = "PARENT" => Member(p, x, F[p], res.ctx, RemoveAt(B[x], i))
<1> DEFINE c == F[x]
           r == B[x]
           q == r[i]
           y == q.from
           res == ActOn(c, x, q)
           Goal == /\ SameButList(c, res.ctx) /\ res.out = <<>>
                   /\ \A p \in Nodes \ {x} : F[p].mode = "PARENT" => Member(p, x, F[p], res.ctx, RemoveAt(r, i))
<1> SUFFICES Goal
  OBVIOUS
<1>1. /\ x \in Nodes /\ c \in Context /\ Sane(c) /\ Shape(c) /\ Tidy(x, c) /\ r \in Seq(PacketRecord)
      /\ Letter(x, c.mode, q, F)
      /\ \A m \in Nodes \ {x} : BothWays(x, m, c, F[m], B[m], B[x])
  BY PlayerIs
<1>2. y \in Nodes /\ y # x
  BY <1>1 DEF Letter, OnAir
<1>3. BothWays(x, y, c, F[y], B[y], r) /\ i \in From(r, y, q.op)
  BY <1>1, <1>2 DEF From
<1>4. q \in PacketRecord /\ q.siblings \in Seq(Nodes)
  <2> HIDE DEF r
  <2>1. q \in PacketRecord
    BY <1>1 DEF r
  <2> QED
    BY <2>1 DEF PacketRecord
<1>5. i \in DOMAIN r /\ \A j \in 1..(i - 1) : r[j].from # y
  OBVIOUS
<1>6. \A p \in Nodes \ {x} : F[p].mode = "PARENT" => Member(p, x, F[p], c, r)
  BY <1>1 DEF Rooms
<1>7. \A p \in Nodes : F[p] \in Context /\ Sane(F[p])
  BY DEF Playing
<1> HIDE DEF c, r, q, res
<1>0. res = ActOn(c, x, q) /\ c.mode = "CHILD"
  BY DEF res, c, q, r
<1>8. /\ \A k, m \in Nodes : St(c, k) \in Bonds /\ St(c, m) \in Bonds => k = m
      /\ Unattached(c) <=> \A m \in Nodes : St(c, m) # "PARENT"
      /\ \A state \in Bonds : \A m \in Nodes : IsThe(state, c, m) <=> St(c, m) = state
  <2>1. \A m \in Nodes : St(c, m) # "P2P"
    BY <1>0, <1>1, FitsIs
  <2>2. Unattached(c) <=> \A m \in Nodes : St(c, m) # "PARENT"
    BY <1>0, <1>1, <2>1, UnattachedIs
  <2>3. \A k, m \in Nodes : St(c, k) \in Bonds /\ St(c, m) \in Bonds => k = m
    BY <1>0, <1>1, BondIs
  <2> QED
    BY <1>0, <1>1, <2>2, <2>3, IsTheIs
(* The letter concerns none of the hosts.                                  *)
<1>9. ASSUME NEW e, res = Result(e, <<>>), SameButList(c, e),
             \A p \in Nodes \ {x} : /\ Keeps(p, c, e)
                                    /\ y = p /\ q.op = "ACCEPT" => St(c, p) # "OUTGOING_REQUEST"
                                    /\ y = p /\ q.op = "BIRTH" => St(c, p) # "PARENT"
      PROVE  Goal
  <2>1. res.ctx = e /\ res.out = <<>>
    BY <1>9, ResultIs
  <2>2. ASSUME NEW p \in Nodes \ {x}, F[p].mode = "PARENT"
        PROVE  Member(p, x, F[p], e, RemoveAt(r, i))
    <3>1. /\ r[i].from = p /\ r[i].op = "ACCEPT" => St(c, p) # "OUTGOING_REQUEST"
          /\ r[i].from = p /\ r[i].op = "BIRTH" => St(c, p) # "PARENT"
          /\ \A j \in 1..(i - 1) : r[j].from # r[i].from
      BY <1>5, <1>9 DEF q
    <3>2. Member(p, x, F[p], c, r) /\ Keeps(p, c, e)
      BY <1>6, <1>9, <2>2
    <3> QED
      BY <1>1, <1>5, <3>1, <3>2, GuestKeepsLess
  <2> QED
    BY <1>9, <2>1, <2>2
<1>10. SameButList(c, c) /\ \A p : Keeps(p, c, c)
  BY <1>1 DEF SameButList, Keeps
<1>11. CASE q.op = "HELLO"
  <2> DEFINE e == ActOnHello(c, y)
  <2>1. res = Result(e, <<>>)
    BY <1>0, <1>11 DEF ActOn
  <2>2. /\ SameButList(c, e)
        /\ \A k \in Nodes : St(e, k) = IF Unattached(c) /\ St(c, y) = "NONE" THEN With(c, y, "OFFER", k) ELSE St(c, k)
    BY <1>1, <1>2, HelloStates
  <2> HIDE DEF e
  <2>3. \A p \in Nodes \ {x} : Keeps(p, c, e)
    <3>1. CASE Unattached(c) /\ St(c, y) = "NONE"
      BY <1>8, <2>2, <3>1 DEF Keeps, With
    <3>2. CASE ~(Unattached(c) /\ St(c, y) = "NONE")
      BY <2>2, <3>2 DEF Keeps
    <3> QED
      BY <3>1, <3>2
  <2> QED
    BY <1>9, <1>11, <2>1, <2>2, <2>3
<1>12. CASE q.op = "JOIN"
  <2>1. FALSE
    BY <1>0, <1>1, <1>12 DEF Letter
  <2> QED
    BY <2>1
<1>13. CASE q.op = "ACCEPT"
  <2> DEFINE e == ActOnAccept(c, x, y, q.siblings)
  <2>1. res = Result(e, <<>>)
    BY <1>0, <1>13 DEF ActOn
  <2>2. St(c, y) = "OUTGOING_REQUEST" => Unattached(c) /\ IsThe("OUTGOING_REQUEST", c, y)
    BY <1>2, <1>8 DEF Bonds
  <2>3. CASE ~(Unattached(c) /\ IsThe("OUTGOING_REQUEST", c, y))
    <3>1. e = c
      BY <2>3 DEF ActOnAccept
    <3> HIDE DEF e
    <3> QED
      BY <1>9, <1>10, <1>13, <2>1, <2>2, <2>3, <3>1
  <2>4. CASE Unattached(c) /\ IsThe("OUTGOING_REQUEST", c, y)
    <3>1. \A k \in ToSet(q.siblings) : k \notin {x, y}
      BY <1>1, <1>13 DEF Letter
    <3>2. /\ SameButList(c, e) /\ \A k \in Nodes : St(e, k) = Answered(x, c, y, q.siblings, k)
          /\ St(c, y) = "OUTGOING_REQUEST"
      BY <1>1, <1>2, <1>4, <2>4, <3>1, AcceptStates
    <3> HIDE DEF e
    <3>3. res.ctx = e /\ res.out = <<>>
      BY <2>1, ResultIs
    <3>4. ASSUME NEW p \in Nodes \ {x}, F[p].mode = "PARENT", p # y
          PROVE  Member(p, x, F[p], e, RemoveAt(r, i))
      <4>1. St(c, p) # "PARENT" /\ St(c, p) # "OUTGOING_REQUEST"
        BY <1>2, <1>8, <3>2, <3>4 DEF Bonds
      <4>2. St(e, p) # "PARENT"
        BY <3>2, <3>4 DEF Answered
      <4>3. Keeps(p, c, e)
        BY <4>1, <4>2 DEF Keeps
      <4>4. r[i].from # p /\ \A j \in 1..(i - 1) : r[j].from # r[i].from
        BY <1>5, <3>4 DEF q
      <4> QED
        BY <1>1, <1>5, <1>6, <3>4, <4>3, <4>4, GuestKeepsLess
    <3>5. ASSUME F[y].mode = "PARENT"
          PROVE  Member(y, x, F[y], e, RemoveAt(r, i))
      <4>1. St(F[y], x) = "CHILD"
        <5>1. St(F[y], x) \in Established
          BY <1>3, <1>13 DEF BothWays, Pair
        <5> QED
          BY <1>1, <1>2, <1>7, <3>5, <5>1, FitsIs DEF Established
      <4>2. St(e, y) = "PARENT"
        BY <1>0, <1>2, <3>2 DEF Answered
      <4>3. \A k \in Nodes \ {x} : St(e, k) = "CHILD" <=> k \in ToSet(q.siblings)
        BY <1>0, <3>1, <3>2 DEF Answered
      <4>4. r[i].from = y /\ r[i].op = "ACCEPT" /\ \A k \in Nodes \ {x} : St(e, k) = "CHILD" <=> k \in ToSet(r[i].siblings)
        BY <1>13, <4>3 DEF q
      <4>5. Member(y, x, F[y], c, r)
        BY <1>2, <1>6, <3>5
      <4> QED
        BY <1>1, <1>5, <4>1, <4>2, <4>4, <4>5, GuestJoins
    <3> QED
      BY <3>2, <3>3, <3>4, <3>5
  <2> QED
    BY <2>3, <2>4
<1>14. CASE q.op = "CANCEL"
  <2> DEFINE e == ActOnCancel(c, x, y)
  <2>1. res = Result(e, <<>>)
    BY <1>0, <1>14 DEF ActOn
  <2>2. St(c, y) = "OUTGOING_REQUEST"
    BY <1>3, <1>14 DEF BothWays, Pair
  <2>3. SameButList(c, e) /\ \A k \in Nodes : St(e, k) = St(c, k)
    BY <1>1, <1>2, <2>2, DeniedStates
  <2> HIDE DEF e
  <2> QED
    BY <1>9, <1>14, <2>1, <2>3 DEF Keeps
<1>15. CASE q.op = "BULK"
  <2> DEFINE e == ActOnBulk(c, y)
  <2>1. res = Result(e, <<>>)
    BY <1>0, <1>15 DEF ActOn
  <2>2. SameButList(c, e) /\ \A k \in Nodes : St(e, k) = St(c, k)
    BY <1>1, <1>2, BulkStates
  <2> HIDE DEF e
  <2> QED
    BY <1>9, <1>15, <2>1, <2>2 DEF Keeps
<1>16. CASE q.op = "BIRTH"
  <2> DEFINE e == ActOnBirth(c, y, q.mac)
  <2>1. res = Result(e, <<>>)
    BY <1>0, <1>16 DEF ActOn
  <2>2. CASE ~FromParent(c, y)
    <3>1. e = c
      BY <2>2 DEF ActOnBirth
    <3>2. St(c, y) # "PARENT"
      BY <1>0, <1>2, <1>8, <2>2 DEF FromParent, Bonds
    <3> HIDE DEF e
    <3> QED
      BY <1>9, <1>10, <1>16, <2>1, <3>1, <3>2
  <2>3. CASE FromParent(c, y)
    <3>1. q.mac \in Nodes /\ q.mac # x /\ q.mac # y
      BY <1>1, <1>16 DEF Letter, OnAir
    <3>2. SameButList(c, e) /\ (\A m \in Nodes : St(e, m) = With(c, q.mac, "CHILD", m)) /\ St(c, y) = "PARENT"
      BY <1>1, <1>2, <2>3, <3>1, BirthStates
    <3> HIDE DEF e
    <3>3. res.ctx = e /\ res.out = <<>>
      BY <2>1, ResultIs
    <3>4. ASSUME NEW p \in Nodes \ {x}, F[p].mode = "PARENT", p # y
          PROVE  Member(p, x, F[p], e, RemoveAt(r, i))
      <4>1. St(c, p) # "PARENT" /\ St(c, p) # "OUTGOING_REQUEST"
        BY <1>2, <1>8, <3>2, <3>4 DEF Bonds
      <4>2. Keeps(p, c, e)
        BY <3>2, <4>1 DEF Keeps, With
      <4>3. r[i].from # p /\ \A j \in 1..(i - 1) : r[j].from # r[i].from
        BY <1>5, <3>4 DEF q
      <4> QED
        BY <1>1, <1>5, <1>6, <3>4, <4>2, <4>3, GuestKeepsLess
    <3>5. ASSUME F[y].mode = "PARENT"
          PROVE  Member(y, x, F[y], e, RemoveAt(r, i))
      <4>1. /\ r[i].from = y /\ r[i].op = "BIRTH" /\ r[i].mac # y
            /\ \A k \in Nodes \cup {y} : St(e, k) = With(c, r[i].mac, "CHILD", k)
            /\ \A j \in 1..(i - 1) : r[j].from # r[i].from
        BY <1>2, <1>5, <1>16, <3>1, <3>2 DEF q
      <4>2. Member(y, x, F[y], c, r)
        BY <1>2, <1>6, <3>5
      <4> QED
        BY <1>1, <1>5, <3>2, <4>1, <4>2, GuestHears
    <3> QED
      BY <3>2, <3>3, <3>4, <3>5
  <2> QED
    BY <2>2, <2>3
<1>17. q.op \in {"HELLO", "JOIN", "ACCEPT", "CANCEL", "BULK", "BIRTH"}
  BY <1>1 DEF Letter
<1> QED
  BY <1>11, <1>12, <1>13, <1>14, <1>15, <1>16, <1>17

(* Where somebody plays peer to peer there is no room.                     *)
LEMMA NoRooms ==
    ASSUME NEW F, NEW B, Rooms(F, B), NEW x \in Nodes, F[x].mode = "P2P",
           NEW H, \A m \in Nodes : H[m].mode = F[m].mode, NEW D
    PROVE  Rooms(H, D)
BY DEF Apart, Rooms

LEMMA ReadsAlone ==
    ASSUME NEW F, NEW B, NEW g, Playing(F, B, g), NEW x \in OnAir(F), NEW i \in DOMAIN B[x]
    PROVE  SameButList(F[x], ActOn(F[x], x, B[x][i]).ctx)
<1> DEFINE c == F[x]
           q == B[x][i]
           y == q.from
           res == ActOn(c, x, q)
<1> SUFFICES SameButList(c, res.ctx)
  OBVIOUS
<1>1. /\ x \in Nodes /\ c \in Context /\ Sane(c) /\ Tidy(x, c) /\ B[x] \in Seq(PacketRecord)
      /\ Letter(x, c.mode, q, F)
  BY PlayerIs
<1>2. y \in Nodes /\ y # x /\ q \in PacketRecord
  BY <1>1 DEF Letter, OnAir
<1>3. q.siblings \in Seq(Nodes) /\ q.mac \in Nodes
  <2> HIDE DEF q
  <2> QED
    BY <1>2 DEF PacketRecord
<1> HIDE DEF c, q, res
<1>0. res = ActOn(c, x, q)
  BY DEF res
<1>4. ASSUME NEW e, res = Result(e, <<>>), Calm(c, e) \/ SameButList(c, e)
      PROVE  SameButList(c, res.ctx)
  BY <1>4, ResultIs DEF Calm
<1>5. CASE q.op = "HELLO"
  BY <1>0, <1>1, <1>2, <1>4, <1>5, ActOnHelloIsCalm DEF ActOn
<1>6. CASE q.op = "JOIN"
  <2>1. res = ActOnJoin(c, x, y)
    BY <1>0, <1>6 DEF ActOn
  <2>2. Sent(c, x, ActOnJoin(c, x, y), {})
    BY <1>1, <1>2, ActOnJoinIsCalm
  <2> QED
    BY <2>1, <2>2 DEF Sent, Calm
<1>7. CASE q.op = "ACCEPT"
  <2> DEFINE e == ActOnAccept(c, x, y, q.siblings)
  <2>1. res = Result(e, <<>>)
    BY <1>0, <1>7 DEF ActOn
  <2>2. SameButList(c, e)
    <3>1. CASE Unattached(c) /\ IsThe("OUTGOING_REQUEST", c, y)
      <4>1. \A k \in ToSet(q.siblings) : k \notin {x, y}
        BY <1>1, <1>7 DEF Letter
      <4> QED
        BY <1>1, <1>2, <1>3, <3>1, <4>1, AcceptStates
    <3>2. CASE ~(Unattached(c) /\ IsThe("OUTGOING_REQUEST", c, y))
      <4>1. e = c
        BY <3>2 DEF ActOnAccept
      <4> HIDE DEF e
      <4> QED
        BY <1>1, <4>1 DEF SameButList
    <3> QED
      BY <3>1, <3>2
  <2> HIDE DEF e
  <2> QED
    BY <1>4, <2>1, <2>2
<1>8. CASE q.op = "CANCEL"
  BY <1>0, <1>1, <1>2, <1>4, <1>8, ActOnCancelIsCalm DEF ActOn
<1>9. CASE q.op = "BULK"
  BY <1>0, <1>1, <1>2, <1>4, <1>9, ActOnBulkIsCalm DEF ActOn
<1>10. CASE q.op = "BIRTH"
  BY <1>0, <1>1, <1>2, <1>3, <1>4, <1>10, ActOnBirthIsCalm DEF ActOn
<1>11. q.op \in {"HELLO", "JOIN", "ACCEPT", "CANCEL", "BULK", "BIRTH"}
  BY <1>1 DEF Letter
<1> QED
  BY <1>5, <1>6, <1>7, <1>8, <1>9, <1>10, <1>11

LEMMA RoomsReceive ==
    ASSUME NEW F, NEW B, NEW g, Playing(F, B, g), Rooms(F, B), NEW x \in OnAir(F), NEW i \in DOMAIN B[x],
           \A j \in 1..(i - 1) : B[x][j].from # B[x][i].from,
           NEW res, res = ActOn(F[x], x, B[x][i]), Fits(res.ctx), Within(res.ctx)
    PROVE  Rooms([F EXCEPT ![x] = res.ctx], Posted([B EXCEPT ![x] = RemoveAt(B[x], i)], res.out))
<1> DEFINE c == F[x]
           r == B[x]
           a == res.ctx
           D == [B EXCEPT ![x] = RemoveAt(B[x], i)]
           H == [F EXCEPT ![x] = res.ctx]
<1>1. /\ x \in Nodes /\ c \in Context /\ Sane(c) /\ r \in Seq(PacketRecord)
      /\ F \in [Nodes -> Context] /\ B \in [Nodes -> Seq(PacketRecord)]
  BY PlayerIs DEF Playing
<1>2. Sane(a)
  <2>1. Playing([F EXCEPT ![x] = a], Posted([B EXCEPT ![x] = RemoveAt(B[x], i)], ActOn(F[x], x, B[x][i]).out), g)
    <3>1. a = ActOn(F[x], x, B[x][i]).ctx
      OBVIOUS
    <3> HIDE DEF a
    <3> QED
      BY <3>1, ReceiveStep DEF a
  <2>2. [F EXCEPT ![x] = a][x] = a
    BY <1>1
  <2> HIDE DEF a
  <2> QED
    BY <1>1, <2>1, <2>2 DEF Playing
<1>3. D \in [Nodes -> Seq(PacketRecord)] /\ D[x] = RemoveAt(r, i) /\ \A m \in Nodes \ {x} : D[m] = B[m]
  <2>1. RemoveAt(r, i) \in Seq(PacketRecord)
    BY <1>1, BoxLess
  <2> QED
    BY <1>1, <2>1
<1>4. ASSUME Rooms(H, D), res.out \in Seq(PacketRecord),
             \A j \in DOMAIN res.out : res.out[j].op \notin {"ACCEPT", "BIRTH"}
      PROVE  Rooms(H, Posted(D, res.out))
  <2> HIDE DEF H, D
  <2> QED
    BY <1>3, <1>4, RoomsPost
<1>5. i \in DOMAIN r /\ \A j \in 1..(i - 1) : r[j].from # r[i].from
  OBVIOUS
<1>6. ASSUME NEW p \in Nodes \ {x}, F[p].mode = "PARENT"
      PROVE  Member(p, x, F[p], c, r)
  BY <1>1, <1>6 DEF Rooms
<1> SUFFICES Rooms(H, Posted(D, res.out))
  OBVIOUS
<1>7. CASE c.mode = "PARENT"
  <2>1. /\ SameButList(c, a)
        /\ \A k \in Nodes : St(a, k) = "CHILD" <=> St(c, k) = "CHILD"
        /\ \A k \in Nodes \ {x} : St(a, k) = "INCOMING_REQUEST" =>
              St(c, k) = "INCOMING_REQUEST" \/ St(F[k], x) = "OUTGOING_REQUEST"
        /\ res.out \in Seq(PacketRecord)
        /\ \A j \in DOMAIN res.out : res.out[j].op \notin {"ACCEPT", "BIRTH"}
    <3> DEFINE t == ActOn(F[x], x, B[x][i])
    <3>1. /\ SameButList(F[x], t.ctx)
          /\ \A k \in Nodes : St(t.ctx, k) = "CHILD" <=> St(F[x], k) = "CHILD"
          /\ \A k \in Nodes \ {x} : St(t.ctx, k) = "INCOMING_REQUEST" =>
                St(F[x], k) = "INCOMING_REQUEST" \/ St(F[k], x) = "OUTGOING_REQUEST"
          /\ t.out \in Seq(PacketRecord)
          /\ \A j \in DOMAIN t.out : t.out[j].op \notin {"ACCEPT", "BIRTH"}
      BY <1>7, HostReads
    <3>2. t = res
      OBVIOUS
    <3> HIDE DEF t
    <3> QED
      BY <3>1, <3>2
  <2>2. a.mode = "PARENT" /\ a.mode = c.mode /\ a.input = c.input
    BY <1>7, <2>1 DEF SameButList
  <2>3. ASSUME NEW n \in Nodes \ {x}
        PROVE  Member(x, n, a, F[n], B[n])
    <3>1. Member(x, n, c, F[n], B[n])
      BY <1>1, <1>7 DEF Rooms
    <3>2. St(a, n) = "INCOMING_REQUEST" => St(F[n], x) = "OUTGOING_REQUEST"
      BY <2>1, <3>1 DEF Member
    <3>3. \A op, k : Waits(c, op, k) => Waits(a, op, k)
      BY <2>2 DEF Waits
    <3> HIDE DEF a, c
    <3> QED
      BY <2>1, <3>1, <3>2, <3>3, HostKeeps
  <2>4. ASSUME NEW p \in Nodes \ {x}, F[p].mode = "PARENT"
        PROVE  Member(p, x, F[p], a, D[x])
    <3>1. Member(p, x, F[p], c, r)
      BY <1>6, <2>4
    <3>2. \A k \in Nodes : St(c, k) \notin {"PARENT", "OUTGOING_REQUEST"} /\ St(a, k) # "PARENT"
      BY <1>1, <1>2, <1>7, <2>2, FitsIs
    <3> HIDE DEF a, c, r, D
    <3>3. Keeps(p, c, a)
      BY <3>2 DEF Keeps
    <3>4. Member(p, x, F[p], a, RemoveAt(r, i))
      BY <1>1, <1>5, <3>1, <3>2, <3>3, GuestKeepsLess
    <3> QED
      BY <1>3, <3>4
  <2>5. Rooms(H, D)
    <3>1. a.mode = F[x].mode
      BY <2>2
    <3> HIDE DEF a, D
    <3> QED
      BY <1>1, <1>3, <2>3, <2>4, <3>1, RoomsOne DEF a
  <2> QED
    BY <1>4, <2>1, <2>5
<1>8. CASE c.mode = "CHILD"
  <2>1. /\ SameButList(c, a) /\ res.out = <<>>
        /\ \A p \in Nodes \ {x} : F[p].mode = "PARENT" => Member(p, x, F[p], a, RemoveAt(r, i))
    BY <1>8, GuestReads
  <2>2. a.mode = "CHILD" /\ a.mode = F[x].mode
    BY <1>8, <2>1 DEF SameButList
  <2>3. \A p \in Nodes \ {x} : F[p].mode = "PARENT" => Member(p, x, F[p], a, D[x])
    BY <1>3, <2>1
  <2>4. Rooms(H, D)
    <3> HIDE DEF D
    <3>1. a.mode = "PARENT" => \A n \in Nodes \ {x} : Member(x, n, a, F[n], B[n])
      BY <2>2
    <3>2. \A m \in Nodes \ {x} : D[m] = B[m]
      BY <1>3
    <3>3. H = [F EXCEPT ![x] = a]
      OBVIOUS
    <3> HIDE DEF a, H
    <3>4. Rooms([F EXCEPT ![x] = a], D)
      BY <1>1, <2>2, <2>3, <3>1, <3>2, RoomsOne
    <3> QED
      BY <3>3, <3>4
  <2>5. res.out \in Seq(PacketRecord) /\ DOMAIN res.out = {}
    BY <2>1
  <2> QED
    BY <1>4, <2>4, <2>5
<1>9. CASE c.mode = "P2P"
  <2>1. SameButList(c, a)
    BY ReadsAlone
  <2>2. a.mode = c.mode
    BY <2>1 DEF SameButList
  <2> HIDE DEF a
  <2>3. \A m \in Nodes : H[m].mode = F[m].mode
    BY <1>1, <2>2 DEF a
  <2> HIDE DEF H
  <2> QED
    BY <1>1, <1>9, <2>3, NoRooms
<1>10. c.mode \in {"PARENT", "CHILD", "P2P"}
  BY <1>1, FitsIs
<1> QED
  BY <1>7, <1>8, <1>9, <1>10

(* The input thread sends what its stack holds.                            *)
LEMMA RoomsDrain ==
    ASSUME NEW F, NEW B, NEW g, Playing(F, B, g), Rooms(F, B), NEW x \in OnAir(F),
           \A k \in OnAir(F) : ctx[k].phase # "none", NEW r, r = DrainInput(F[x], x)
    PROVE  Rooms([F EXCEPT ![x] = r.ctx], Posted(B, r.out))
<1> DEFINE c == F[x]
           a == r.ctx
           out == r.out
           N == Len(c.input)
           H == [F EXCEPT ![x] = a]
           T == Posted(B, out)
<1>1. /\ x \in Nodes /\ c \in Context /\ Sane(c) /\ Quiet(c)
      /\ \A m \in Nodes : St(c, m) # "NONE" => m \in OnAir(F)
      /\ \A m \in Nodes \ {x} : BothWays(x, m, c, F[m], B[m], B[x])
      /\ Queued(x, c, OnAir(F)) /\ OnAir(F) \in SUBSET Nodes
      /\ F \in [Nodes -> Context] /\ B \in [Nodes -> Seq(PacketRecord)]
  BY PlayerIs DEF OnAir, Playing
<1>2. DOMAIN c.input = 1..N
  <2>1. c.input \in Seq([op : MessageOps, mac : Nodes])
    BY <1>1 DEF Context
  <2> QED
    BY <2>1
<1>3. Drained(x, c, r, N, g[x])
  <2> HIDE DEF c, N
  <2>1. Drained(x, c, DrainInput(c, x), Len(c.input), g[x])
    BY <1>1, AllSent
  <2> QED
    BY <2>1 DEF c, N
<1>4. a.mode = c.mode /\ \A m \in Nodes : St(a, m) = St(c, m)
  BY <1>3 DEF Drained, Emptied
<1>5. /\ out \in Seq(PacketRecord)
      /\ \A j \in DOMAIN out : \E k \in 1..N : Says(x, c, c.input[k], out[j])
      /\ \A k \in 1..N : c.input[k].op = "ACCEPT" =>
            \E j \in DOMAIN out : out[j].op = "ACCEPT" /\ out[j].to = c.input[k].mac
      /\ \A k \in 1..N : c.input[k].op = "BIRTH" =>
            \A m \in ChildrenBut(c, c.input[k].mac) :
               \E j \in DOMAIN out : out[j].op = "BIRTH" /\ out[j].mac = c.input[k].mac /\ out[j].to = m
  BY <1>3 DEF Drained
<1>6. H[x] = a /\ \A m \in Nodes \ {x} : H[m] = F[m]
  BY <1>1
(* What is new in a box is said by x and about its stack.                  *)
<1>7. ASSUME NEW n \in Nodes
      PROVE  /\ B[n] \in Seq(PacketRecord) /\ T[n] \in Seq(PacketRecord)
             /\ DOMAIN B[n] \subseteq DOMAIN T[n] /\ \A i \in DOMAIN B[n] : T[n][i] = B[n][i]
             /\ \A i \in DOMAIN T[n] \ DOMAIN B[n] :
                   T[n][i].to = n /\ \E k \in DOMAIN c.input : Says(x, c, c.input[k], T[n][i])
             /\ n \in OnAir(F) => \A j \in DOMAIN out : out[j].to = n =>
                   \E i \in DOMAIN T[n] \ DOMAIN B[n] : T[n][i] = out[j]
  <2>1. /\ ctx[n].phase # "none" => \A j \in DOMAIN out : out[j].to = n =>
                     \E i \in DOMAIN T[n] \ DOMAIN B[n] : T[n][i] = out[j]
        /\ \E h : Carries(B[n], T[n], out, n, h)
    <3>1. out \in Seq(PacketRecord) /\ B \in [Nodes -> Seq(PacketRecord)]
      BY <1>1, <1>5
    <3> HIDE DEF out
    <3> QED
      BY <3>1, PostedIs
  <2> HIDE DEF T, out
  <2>2. PICK h : Carries(B[n], T[n], out, n, h)
    BY <2>1
  <2>3. \A i \in DOMAIN T[n] \ DOMAIN B[n] :
           T[n][i].to = n /\ \E k \in DOMAIN c.input : Says(x, c, c.input[k], T[n][i])
    <3> SUFFICES ASSUME NEW i \in DOMAIN T[n] \ DOMAIN B[n]
                 PROVE  T[n][i].to = n /\ \E k \in DOMAIN c.input : Says(x, c, c.input[k], T[n][i])
      OBVIOUS
    <3>1. h[i] \in DOMAIN out /\ out[h[i]].to = n /\ T[n][i] = out[h[i]]
      BY <2>2 DEF Carries
    <3>2. \E k \in DOMAIN c.input : Says(x, c, c.input[k], out[h[i]])
      BY <1>2, <1>5, <3>1
    <3> QED
      BY <3>1, <3>2
  <2> QED
    BY <2>1, <2>2, <2>3 DEF Carries
<1> HIDE DEF a, H, T, out, N, c
<1>8. \A n \in Nodes : \A i \in DOMAIN T[n] \ DOMAIN B[n] : T[n][i].from = x
  BY <1>7 DEF Says
<1>0. \A m \in Nodes : H[m].mode = F[m].mode
  BY <1>4, <1>6 DEF c
<1> SUFFICES ASSUME NEW p \in Nodes, H[p].mode = "PARENT", NEW n \in Nodes \ {p}
             PROVE  Member(p, n, H[p], H[n], T[n])
  BY <1>0 DEF Rooms, Apart, H, T, a, out
<1>9. F[p].mode = "PARENT"
  BY <1>4, <1>6 DEF c
<1>10. Member(p, n, F[p], F[n], B[n])
  BY <1>9 DEF Rooms
<1>11. CASE p # x
  <2>1. Member(p, n, F[p], F[n], T[n])
    <3>1. \A i \in DOMAIN T[n] \ DOMAIN B[n] : T[n][i].from # p
      BY <1>8, <1>11
    <3> QED
      BY <1>7, <1>10, <3>1, MemberGrown
  <2>2. Keeps(p, F[n], H[n])
    BY <1>4, <1>6 DEF Keeps, c
  <2>3. Member(p, n, F[p], H[n], T[n])
    BY <2>1, <2>2, GuestKeeps
  <2> QED
    BY <1>6, <1>11, <2>3
<1>12. CASE p = x
  <2>1. c.mode = "PARENT" /\ n # x /\ n \in Nodes /\ Member(x, n, c, F[n], B[n]) /\ H[n] = F[n] /\ H[p] = a
    BY <1>6, <1>9, <1>10, <1>12 DEF c
  <2>2. ASSUME NEW i \in DOMAIN T[n] \ DOMAIN B[n]
        PROVE  /\ T[n][i].op = "ACCEPT" => ToSet(T[n][i].siblings) = ChildrenBut(c, n)
               /\ T[n][i].op = "BIRTH" => St(c, T[n][i].mac) = "CHILD"
    <3>1. PICK k \in DOMAIN c.input : Says(x, c, c.input[k], T[n][i])
      BY <1>7, <2>1
    <3>2. T[n][i].to = n
      BY <1>7, <2>1
    <3>3. c.input[k].op = "BIRTH" => St(c, c.input[k].mac) = "CHILD"
      BY <1>1 DEF Queued
    <3> QED
      BY <2>1, <3>1, <3>2, <3>3 DEF Says
  <2>3. From(B[n], x, "ACCEPT") # {} => St(c, n) = "CHILD"
    <3>1. From(B[n], x, "ACCEPT") # {} => St(c, n) \in Established
      BY <1>1, <2>1 DEF BothWays, Pair
    <3> QED
      BY <1>1, <2>1, <3>1, FitsIs DEF Established
  <2>4. ASSUME Waits(c, "ACCEPT", n)
        PROVE  \E i \in DOMAIN T[n] \ DOMAIN B[n] : T[n][i].op = "ACCEPT" /\ T[n][i].from = x
    <3>1. PICK k \in DOMAIN c.input : c.input[k].op = "ACCEPT" /\ c.input[k].mac = n
      BY <2>4 DEF Waits
    <3>2. n \in OnAir(F)
      BY <1>1, <3>1 DEF Queued
    <3>3. PICK j \in DOMAIN out : out[j].op = "ACCEPT" /\ out[j].to = n
      BY <1>2, <1>5, <3>1
    <3> QED
      BY <1>7, <1>8, <2>1, <3>2, <3>3
  <2>5. ASSUME NEW k \in Nodes \ {n}, Waits(c, "BIRTH", k), St(c, n) = "CHILD"
        PROVE  \E i \in DOMAIN T[n] \ DOMAIN B[n] : T[n][i].op = "BIRTH" /\ T[n][i].from = x /\ T[n][i].mac = k
    <3>1. PICK l \in DOMAIN c.input : c.input[l].op = "BIRTH" /\ c.input[l].mac = k
      BY <2>5 DEF Waits
    <3>2. n \in OnAir(F) /\ n \in ChildrenBut(c, k)
      BY <1>1, <2>1, <2>5 DEF ChildrenBut
    <3>3. PICK j \in DOMAIN out : out[j].op = "BIRTH" /\ out[j].mac = k /\ out[j].to = n
      <4>1. \A m \in ChildrenBut(c, c.input[l].mac) :
               \E j \in DOMAIN out : out[j].op = "BIRTH" /\ out[j].mac = c.input[l].mac /\ out[j].to = m
        BY <1>2, <1>5, <3>1
      <4> QED
        BY <3>1, <3>2, <4>1
    <3> QED
      BY <1>7, <1>8, <2>1, <3>2, <3>3
  <2>6. Member(x, n, a, F[n], T[n])
    <3>1. /\ B[n] \in Seq(PacketRecord) /\ T[n] \in Seq(PacketRecord)
          /\ DOMAIN B[n] \subseteq DOMAIN T[n] /\ \A i \in DOMAIN B[n] : T[n][i] = B[n][i]
      BY <1>7, <2>1
    <3> QED
      BY <1>4, <2>1, <2>2, <2>3, <2>4, <2>5, <3>1, HostSends
  <2> QED
    BY <1>12, <2>1, <2>6
<1> QED
  BY <1>11, <1>12

(* The host accepts a request.                                             *)
LEMMA SelectedWaits ==
    ASSUME NEW c \in Context, Shape(c), NEW m \in Nodes, St(c, m) = "INCOMING_REQUEST"
    PROVE  \A op \in {"ACCEPT", "BIRTH"} : \A k : Waits(c, op, k) \/ k = m => Waits(ParentSelects(c, m), op, k)
<1> DEFINE d == SetState(c, m, "CHILD")
           e == PushInput(d, "ACCEPT", m)
           a == PushInput(e, "BIRTH", m)
<1>1. "CHILD" \in PeerStates /\ "ACCEPT" \in MessageOps /\ "BIRTH" \in MessageOps
  BY DEF PeerStates, MessageOps
<1>2. SameButList(c, d) /\ Shape(d)
  BY <1>1, StateStates
<1>3. ParentSelects(c, m) = a
  BY DEF ParentSelects
<1> HIDE DEF d
<1>4. d \in Context /\ d.input = c.input
  BY <1>2 DEF SameButList
<1>5. e \in Context /\ Shape(e) /\ \A op, k : Waits(e, op, k) <=> Waits(d, op, k) \/ (op = "ACCEPT" /\ k = m)
  BY <1>1, <1>2, <1>4, PushStates
<1> HIDE DEF e
<1>6. \A op, k : Waits(a, op, k) <=> Waits(e, op, k) \/ (op = "BIRTH" /\ k = m)
  BY <1>1, <1>5, PushStates
<1>7. \A op, k : Waits(d, op, k) <=> Waits(c, op, k)
  BY <1>4 DEF Waits
<1> QED
  BY <1>3, <1>5, <1>6, <1>7

(* A step that changes neither states nor answers and births.              *)
LEMMA RoomsSame ==
    ASSUME NEW F \in [Nodes -> Context], NEW B, Rooms(F, B), NEW x \in Nodes, NEW a, a.mode = F[x].mode,
           \A k \in Nodes : St(a, k) = St(F[x], k),
           \A op \in {"ACCEPT", "BIRTH"} : \A k : Waits(F[x], op, k) => Waits(a, op, k)
    PROVE  Rooms([F EXCEPT ![x] = a], B)
<1>1. \A p \in Nodes \ {x} : Keeps(p, F[x], a)
  BY DEF Keeps
<1> QED
  BY <1>1, RoomsKeep

LEMMA RoomsSelect ==
    ASSUME NEW F, NEW B, NEW g, Playing(F, B, g), Rooms(F, B), NEW x \in OnAir(F), NEW m \in Nodes,
           F[x].mode = "PARENT", St(F[x], m) = "INCOMING_REQUEST", NEW a, a = ParentSelects(F[x], m)
    PROVE  Rooms([F EXCEPT ![x] = a], B)
<1> DEFINE c == F[x]
<1>1. x \in Nodes /\ c \in Context /\ Sane(c) /\ Shape(c) /\ F \in [Nodes -> Context]
  BY PlayerIs DEF Playing
<1>2. /\ a.mode = c.mode
      /\ \A k \in Nodes : St(a, k) = With(c, m, "CHILD", k)
  <2> HIDE DEF c
  <2>1. Taken(c, ParentSelects(c, m), m, "CHILD")
    BY <1>1, SelectedStates DEF c
  <2> QED
    BY <2>1 DEF Taken, c
<1>3. \A op \in {"ACCEPT", "BIRTH"} : \A k : Waits(c, op, k) \/ k = m => Waits(a, op, k)
  BY <1>1, SelectedWaits
<1>4. ASSUME NEW n \in Nodes \ {x}
      PROVE  Member(x, n, a, F[n], B[n])
  <2>1. Member(x, n, c, F[n], B[n])
    BY <1>1 DEF Rooms
  <2> HIDE DEF c
  <2> QED
    BY <1>2, <1>3, <2>1, HostSelects DEF c
<1>5. ASSUME NEW p \in Nodes \ {x}, F[p].mode = "PARENT"
      PROVE  Member(p, x, F[p], a, B[x])
  <2>1. Member(p, x, F[p], c, B[x])
    BY <1>1, <1>5 DEF Rooms
  <2>2. St(c, p) \notin {"PARENT", "OUTGOING_REQUEST"}
    BY <1>1, FitsIs
  <2>3. Keeps(p, c, a)
    BY <1>2, <2>2 DEF Keeps, With
  <2> QED
    BY <2>1, <2>3, GuestKeeps
<1> QED
  BY <1>1, <1>2, <1>4, <1>5, RoomsOne

(* A request changes an offer's state only.                                *)
LEMMA RequestStates ==
    ASSUME NEW c \in Context, Shape(c), NEW m \in Nodes, MayRequest(c, m)
    PROVE  LET a == Requests(c, m)
           IN  /\ a.mode = c.mode /\ c.mode # "PARENT" /\ St(c, m) = "OFFER"
               /\ \A k \in Nodes : St(a, k) = With(c, m, "OUTGOING_REQUEST", k)
<1> DEFINE flag == c.mode = "P2P"
           b == SetState(c, m, "OUTGOING_REQUEST")
           d == SetJoining(b, m, flag)
           a == PushInput(d, "JOIN", m)
<1>1. Unattached(c) /\ St(c, m) = "OFFER" /\ c.mode # "PARENT"
  <2>1. "NONE" \notin {"OFFER"}
    OBVIOUS
  <2> QED
    BY <2>1, KnownAsIs DEF MayRequest, Unattached
<1>2. "OUTGOING_REQUEST" \in PeerStates /\ "JOIN" \in MessageOps /\ flag \in BOOLEAN
  BY DEF PeerStates, MessageOps
<1>3. Requests(c, m) = a
  BY DEF Requests
<1>4. SameButList(c, b) /\ Shape(b) /\ \A k \in Nodes : St(b, k) = With(c, m, "OUTGOING_REQUEST", k)
  BY <1>1, <1>2, StateStates
<1> HIDE DEF b, flag
<1>5. SameButList(b, d) /\ Shape(d) /\ \A k \in Nodes : St(d, k) = St(b, k)
  BY <1>2, <1>4, JoiningStates DEF SameButList
<1> HIDE DEF d
<1>6. a.mode = d.mode /\ \A k \in Nodes : St(a, k) = St(d, k)
  BY <1>2, <1>5, PushStates DEF SameButList
<1>7. a.mode = c.mode
  BY <1>4, <1>5, <1>6 DEF SameButList
<1> HIDE DEF a
<1> QED
  BY <1>1, <1>3, <1>4, <1>5, <1>6, <1>7

LEMMA RoomsRequest ==
    ASSUME NEW F, NEW B, NEW g, Playing(F, B, g), Rooms(F, B), NEW x \in OnAir(F), NEW m \in Nodes,
           MayRequest(F[x], m), NEW a, a = Requests(F[x], m)
    PROVE  Rooms([F EXCEPT ![x] = a], B)
<1> DEFINE c == F[x]
<1>1. x \in Nodes /\ c \in Context /\ Shape(c) /\ F \in [Nodes -> Context]
  BY PlayerIs DEF Playing
<1>2. /\ a.mode = c.mode /\ c.mode # "PARENT" /\ St(c, m) = "OFFER"
      /\ \A k \in Nodes : St(a, k) = With(c, m, "OUTGOING_REQUEST", k)
  <2> HIDE DEF c
  <2>1. a = Requests(c, m) /\ MayRequest(c, m)
    BY DEF c
  <2> QED
    BY <1>1, <2>1, RequestStates
<1>3. \A p \in Nodes \ {x} : Keeps(p, c, a)
  BY <1>2 DEF Keeps, With
<1> QED
  BY <1>1, <1>2, <1>3, RoomsKeep

LEMMA RoomsData ==
    ASSUME NEW F, NEW B, NEW g, Playing(F, B, g), Rooms(F, B), NEW x \in OnAir(F), NEW m \in Nodes,
           NEW flag \in BOOLEAN, NEW op \in {"BULK", "BULK_ABORT"},
           NEW a, a = PushInput(SetSending(F[x], m, flag), op, m)
    PROVE  Rooms([F EXCEPT ![x] = a], B)
<1> DEFINE c == F[x]
           d == SetSending(c, m, flag)
<1>1. x \in Nodes /\ c \in Context /\ Shape(c) /\ F \in [Nodes -> Context] /\ op \in MessageOps
  BY PlayerIs DEF Playing, MessageOps
<1>2. a = PushInput(d, op, m)
  OBVIOUS
<1> HIDE DEF c
<1>3. SameButList(c, d) /\ Shape(d) /\ \A k \in Nodes : St(d, k) = St(c, k)
  BY <1>1, SendingStates
<1> HIDE DEF d
<1>4. d \in Context /\ d.mode = c.mode /\ d.input = c.input
  BY <1>3 DEF SameButList
<1>5. /\ a.mode = d.mode /\ (\A k \in Nodes : St(a, k) = St(d, k))
      /\ \A o, k : Waits(d, o, k) => Waits(a, o, k)
  BY <1>1, <1>2, <1>3, <1>4, PushStates
<1>6. \A o, k : Waits(c, o, k) => Waits(a, o, k)
  BY <1>4, <1>5 DEF Waits
<1> QED
  BY <1>1, <1>3, <1>4, <1>5, <1>6, RoomsSame DEF c

LEMMA RoomsDispatch ==
    ASSUME NEW F, NEW B, NEW g, Playing(F, B, g), Rooms(F, B), NEW x \in OnAir(F)
    PROVE  Rooms([F EXCEPT ![x].events = <<>>], B)
<1> DEFINE c == F[x]
           a == [c EXCEPT !.events = <<>>]
<1>1. x \in Nodes /\ c \in Context /\ Shape(c) /\ F \in [Nodes -> Context]
  BY PlayerIs DEF Playing
<1>2. <<>> \in Seq([event : EventNames, mac : Nodes])
  OBVIOUS
<1>3. [F EXCEPT ![x].events = <<>>] = [F EXCEPT ![x] = a]
  BY <1>1
<1>4. a \in Context /\ a.mode = c.mode /\ a.peers = c.peers /\ a.input = c.input
  BY <1>1, <1>2 DEF Context
<1> HIDE DEF a, c
<1>5. \A i \in DOMAIN c.peers : Alike(a.peers[i], c.peers[i])
  BY <1>4 DEF Alike
<1>6. \A k \in Nodes : St(a, k) = St(c, k)
  BY <1>1, <1>4, <1>5, SameStates
<1>7. \A op, k : Waits(c, op, k) => Waits(a, op, k)
  BY <1>4 DEF Waits
<1>8. Rooms([F EXCEPT ![x] = a], B)
  BY <1>1, <1>4, <1>6, <1>7, RoomsSame DEF c
<1> QED
  BY <1>3, <1>8

LEMMA RoomsBroadcast ==
    ASSUME NEW F, NEW B \in [Nodes -> Seq(PacketRecord)], Rooms(F, B), NEW x \in Nodes, NEW T,
           \A m \in Nodes : T[m] \in {B[m], Append(B[m], Packet(x, m, "HELLO"))}
    PROVE  Rooms(F, T)
<1>1. ASSUME NEW n \in Nodes
      PROVE  /\ DOMAIN B[n] \subseteq DOMAIN T[n] /\ \A i \in DOMAIN B[n] : T[n][i] = B[n][i]
             /\ \A i \in DOMAIN T[n] \ DOMAIN B[n] : T[n][i].op \notin {"ACCEPT", "BIRTH"}
  <2> DEFINE p == Packet(x, n, "HELLO")
             b == B[n]
             t == Append(b, p)
  <2>1. T[n] \in {b, t}
    OBVIOUS
  <2>2. p \in PacketRecord /\ p.op = "HELLO"
    <3>1. <<>> \in Seq(Nodes)
      OBVIOUS
    <3> QED
      BY <3>1 DEF Packet, PacketRecord
  <2>3. b \in Seq(PacketRecord)
    OBVIOUS
  <2> HIDE DEF p, b
  <2>4. /\ DOMAIN t = 1..(Len(b) + 1) /\ DOMAIN b = 1..Len(b) /\ Len(b) \in Nat
        /\ t[Len(b) + 1] = p /\ \A i \in 1..Len(b) : t[i] = b[i]
    BY <2>2, <2>3
  <2> HIDE DEF t
  <2>5. \A i \in DOMAIN t \ DOMAIN b : t[i] = p
    BY <2>4
  <2>6. CASE T[n] = t
    BY <2>2, <2>4, <2>5, <2>6 DEF b
  <2>7. CASE T[n] = b
    BY <2>7 DEF b
  <2> QED
    BY <2>1, <2>6, <2>7
<1> QED
  BY <1>1, RoomsGrown

LEMMA RoomsLife ==
    ASSUME NEW F \in [Nodes -> Context], NEW B, Rooms(F, B), NEW x \in Nodes, Blank(F[x]),
           NEW a \in Context, Blank(a), a.mode = F[x].mode
    PROVE  Rooms([F EXCEPT ![x] = a], B)
<1>1. \A m : St(a, m) = "NONE" /\ St(F[x], m) = "NONE"
  BY BlankIs
<1>2. \A op, m : ~Waits(F[x], op, m)
  BY BlankIs
<1> QED
  BY <1>1, <1>2, RoomsSame

(* Without trouble the rooms are as described above, if nobody plays peer  *)
(* to peer where somebody hosts.                                           *)
Unmixed == \A s \in Scenarios : \A x, y \in DOMAIN s.modes : ~(s.modes[x] = "PARENT" /\ s.modes[y] = "P2P")

HallInv == trouble = 0 => Rooms(ctx, inbox)

LEMMA InitHasRooms == ASSUME Unmixed, Init PROVE HallInv
<1>1. /\ \A n \in Nodes : ctx[n] \in Context /\ Blank(ctx[n]) /\ inbox[n] = <<>>
      /\ \A n \in Nodes : ctx[n].mode = IF n \in Players THEN scenario.modes[n] ELSE "CHILD"
      /\ scenario \in Scenarios
  <2>1. IInv
    BY InitIsSound
  <2> QED
    BY <2>1 DEF Init, NoContext, Blank, IInv, Contexts
<1>2. Apart(ctx)
  BY <1>1 DEF Unmixed, Apart, Players
<1>3. \A n, m \in Nodes : St(ctx[n], m) = "NONE"
  BY <1>1, BlankIs
<1>4. \A n \in Nodes : \A m, op : From(inbox[n], m, op) = {}
  <2>1. \A n \in Nodes : DOMAIN inbox[n] = {}
    BY <1>1
  <2> QED
    BY <2>1 DEF From
<1>5. \A n \in Nodes : \A m, k : Births(inbox[n], m, k) = {}
  BY <1>4 DEF Births
<1>6. ASSUME NEW p \in Nodes, NEW n \in Nodes \ {p}
      PROVE  Member(p, n, ctx[p], ctx[n], inbox[n])
  BY <1>3, <1>4, <1>5 DEF Member, Sibling, Heard
<1> QED
  BY <1>2, <1>6 DEF HallInv, Rooms

LEMMA LifeKeepsRooms ==
    ASSUME Playing(ctx, inbox, game), Rooms(ctx, inbox), NEW n \in Nodes, Create(n) \/ Start(n) \/ Delete(n)
    PROVE  Rooms(ctx', inbox')
<1> DEFINE c == ctx[n]
<1>1. n \notin OnAir(ctx) /\ c \in Context /\ Blank(c) /\ inbox[n] = <<>> /\ ctx \in [Nodes -> Context]
      /\ inbox \in [Nodes -> Seq(PacketRecord)]
  <2>1. n \notin OnAir(ctx)
    BY DEF Create, Start, Delete, OnAir
  <2> QED
    BY <2>1 DEF Playing, OrderlyIn, Own, Blank
<1>2. ASSUME NEW a \in Context, Blank(a), a.mode = c.mode, ctx' = [ctx EXCEPT ![n] = a], inbox' = inbox
      PROVE  Rooms(ctx', inbox')
  BY <1>1, <1>2, RoomsLife
<1>3. CASE Create(n) \/ Start(n)
  <2>1. PICK phase \in {"created", "running"} : ctx' = [ctx EXCEPT ![n].phase = phase]
    BY <1>3 DEF Create, Start
  <2> DEFINE a == [c EXCEPT !.phase = phase]
  <2>2. a \in Context /\ Blank(a) /\ a.mode = c.mode
    BY <1>1 DEF Context, Blank
  <2>3. ctx' = [ctx EXCEPT ![n] = a] /\ inbox' = inbox
    BY <1>1, <1>3, <2>1 DEF Create, Start
  <2> HIDE DEF a, c
  <2> QED
    BY <1>2, <2>2, <2>3
<1>4. CASE Delete(n)
  <2> DEFINE a == NoContext(c.mode, c.maxpeers)
  <2>1. <<>> \in Seq(PeerRecord) /\ <<>> \in Seq([event : EventNames, mac : Nodes])
        /\ <<>> \in Seq([op : MessageOps, mac : Nodes])
    OBVIOUS
  <2>2. a \in Context /\ Blank(a) /\ a.mode = c.mode
    BY <1>1, <2>1 DEF NoContext, Context, Blank
  <2>3. ctx' = [ctx EXCEPT ![n] = a] /\ inbox' = inbox
    BY <1>1, <1>4 DEF Delete
  <2> HIDE DEF a, c
  <2> QED
    BY <1>2, <2>2, <2>3
<1> QED
  BY <1>3, <1>4

LEMMA CallsKeepRooms ==
    ASSUME Playing(ctx, inbox, game), Rooms(ctx, inbox), NEW n \in Nodes, NEW m \in Nodes,
           Accept(n, m) \/ Request(n, m) \/ SendData(n, m) \/ AbortSendData(n, m)
    PROVE  Rooms(ctx', inbox')
<1> DEFINE c == ctx[n]
<1>1. n \in OnAir(ctx) /\ inbox' = inbox
  BY DEF Accept, Request, SendData, AbortSendData, Running, OnAir
<1>2. c \in Context /\ Shape(c) /\ ctx \in [Nodes -> Context]
  BY <1>1, PlayerIs DEF Playing
<1>3. KnownAs(c, m, {"INCOMING_REQUEST"}) <=> St(c, m) = "INCOMING_REQUEST"
  <2> HIDE DEF c
  <2>1. KnownAs(c, m, {"INCOMING_REQUEST"}) <=> St(c, m) \in {"INCOMING_REQUEST"}
    BY <1>2, KnownAsIs
  <2> QED
    BY <2>1
<1>4. CASE Accept(n, m)
  <2>1. CASE MayParentSelect(ctx[n], m) /\ ctx' = [ctx EXCEPT ![n] = ParentSelects(@, m)]
    <3> DEFINE a == ParentSelects(ctx[n], m)
    <3>1. ctx[n].mode = "PARENT" /\ St(ctx[n], m) = "INCOMING_REQUEST"
      BY <1>3, <2>1 DEF MayParentSelect
    <3>2. ctx' = [ctx EXCEPT ![n] = a] /\ a = ParentSelects(ctx[n], m)
      BY <2>1
    <3> HIDE DEF a
    <3>3. Rooms([ctx EXCEPT ![n] = a], inbox)
      BY <1>1, <3>1, <3>2, RoomsSelect
    <3> QED
      BY <1>1, <3>2, <3>3
  <2>2. CASE MayP2PAccept(ctx[n], m) /\ ctx' = [ctx EXCEPT ![n] = P2PAccepts(@, m)]
    <3> DEFINE a == P2PAccepts(c, m)
    <3>1. c.mode = "P2P" /\ St(c, m) = "INCOMING_REQUEST"
      BY <1>3, <2>2 DEF MayP2PAccept
    <3>2. ctx' = [ctx EXCEPT ![n] = a]
      BY <2>2
    <3>3. a.mode = c.mode
      <4>1. Taken(c, a, m, "P2P")
        <5> HIDE DEF c
        <5> QED
          BY <1>2, <3>1, AcceptedStates
      <4> QED
        BY <4>1 DEF Taken
    <3> HIDE DEF a
    <3>4. \A k \in Nodes : ctx'[k].mode = ctx[k].mode
      BY <1>2, <3>2, <3>3
    <3> QED
      BY <3>1, <3>4, NoRooms
  <2> QED
    BY <1>4, <2>1, <2>2 DEF Accept
<1>5. CASE Request(n, m)
  <2> DEFINE a == Requests(ctx[n], m)
  <2>1. MayRequest(ctx[n], m) /\ ctx' = [ctx EXCEPT ![n] = a] /\ a = Requests(ctx[n], m)
    BY <1>5 DEF Request
  <2> HIDE DEF a
  <2>2. Rooms([ctx EXCEPT ![n] = a], inbox)
    BY <1>1, <2>1, RoomsRequest
  <2> QED
    BY <1>1, <2>1, <2>2
<1>6. ASSUME NEW flag \in BOOLEAN, NEW op \in {"BULK", "BULK_ABORT"},
             NEW a, a = PushInput(SetSending(ctx[n], m, flag), op, m), ctx' = [ctx EXCEPT ![n] = a]
      PROVE  Rooms(ctx', inbox')
  <2>1. Rooms([ctx EXCEPT ![n] = a], inbox)
    BY <1>1, <1>6, RoomsData
  <2> QED
    BY <1>1, <1>6, <2>1
<1>7. CASE SendData(n, m)
  <2>1. ctx' = [ctx EXCEPT ![n] = PushInput(SetSending(ctx[n], m, TRUE), "BULK", m)]
    BY <1>7 DEF SendData, Sends
  <2>2. TRUE \in BOOLEAN /\ "BULK" \in {"BULK", "BULK_ABORT"}
    OBVIOUS
  <2> QED
    BY <1>6, <2>1, <2>2
<1>8. CASE AbortSendData(n, m)
  <2>1. ctx' = [ctx EXCEPT ![n] = PushInput(SetSending(ctx[n], m, FALSE), "BULK_ABORT", m)]
    BY <1>8 DEF AbortSendData, Aborts
  <2>2. FALSE \in BOOLEAN /\ "BULK_ABORT" \in {"BULK", "BULK_ABORT"}
    OBVIOUS
  <2> QED
    BY <1>6, <2>1, <2>2
<1> QED
  BY <1>4, <1>5, <1>7, <1>8

LEMMA ThreadsKeepRooms ==
    ASSUME Playing(ctx, inbox, game), Rooms(ctx, inbox), NEW n \in Nodes,
           \A k \in Nodes : Fits(ctx'[k]) /\ Within(ctx'[k]),
           InputThread(n) \/ DispatchEvents(n)
    PROVE  Rooms(ctx', inbox')
<1>1. n \in OnAir(ctx) /\ inbox \in [Nodes -> Seq(PacketRecord)] /\ ctx \in [Nodes -> Context]
  BY DEF InputThread, BroadcastHello, Drain, Receive, MissingOnAdhocctl, HandleTimeout, DispatchEvents,
         Running, OnAir, Playing
<1>2. ASSUME NEW a, ctx' = [ctx EXCEPT ![n] = a]
      PROVE  Fits(a) /\ Within(a)
  <2>1. ctx'[n] = a
    BY <1>1, <1>2
  <2> QED
    BY <2>1
<1>3. CASE BroadcastHello(n)
  <2> DEFINE R == {m \in Nodes \ {n} : Running(m) /\ Unattached(ctx[m]) /\ ~HelloUnread(n, m)}
  <2>1. /\ inbox' = [m \in Nodes |-> IF m \in R THEN Append(inbox[m], Packet(n, m, "HELLO")) ELSE inbox[m]]
        /\ ctx' = ctx
    BY <1>3 DEF BroadcastHello
  <2> HIDE DEF R
  <2>2. \A m \in Nodes : inbox'[m] \in {inbox[m], Append(inbox[m], Packet(n, m, "HELLO"))}
    BY <2>1
  <2>3. Rooms(ctx, inbox')
    BY <1>1, <2>2, RoomsBroadcast
  <2> QED
    BY <2>1, <2>3
<1>4. CASE Drain(n)
  <2> DEFINE r == DrainInput(ctx[n], n)
  <2>1. ctx' = [ctx EXCEPT ![n] = r.ctx] /\ inbox' = Posted(inbox, r.out) /\ r = DrainInput(ctx[n], n)
    BY <1>4 DEF Drain, Becomes
  <2>2. \A k \in OnAir(ctx) : ctx[k].phase # "none"
    BY DEF OnAir
  <2> HIDE DEF r
  <2>3. Rooms([ctx EXCEPT ![n] = r.ctx], Posted(inbox, r.out))
    BY <1>1, <2>1, <2>2, RoomsDrain
  <2> QED
    BY <2>1, <2>3
<1>5. CASE Receive(n)
  <2>1. PICK i \in DOMAIN inbox[n] :
           /\ Oldest(n, i)
           /\ ctx' = [ctx EXCEPT ![n] = ActOn(ctx[n], n, inbox[n][i]).ctx]
           /\ inbox' = Posted([inbox EXCEPT ![n] = RemoveAt(@, i)], ActOn(ctx[n], n, inbox[n][i]).out)
    BY <1>5 DEF Receive
  <2> DEFINE r == ActOn(ctx[n], n, inbox[n][i])
             D == [inbox EXCEPT ![n] = RemoveAt(inbox[n], i)]
  <2>2. ctx' = [ctx EXCEPT ![n] = r.ctx] /\ inbox' = Posted(D, r.out) /\ r = ActOn(ctx[n], n, inbox[n][i])
    BY <2>1
  <2>3. \A j \in 1..(i - 1) : inbox[n][j].from # inbox[n][i].from
    BY <2>1 DEF Oldest
  <2> HIDE DEF r
  <2>4. Fits(r.ctx) /\ Within(r.ctx)
    BY <1>2, <2>2
  <2>5. Rooms([ctx EXCEPT ![n] = r.ctx], Posted([inbox EXCEPT ![n] = RemoveAt(inbox[n], i)], r.out))
    BY <1>1, <2>2, <2>3, <2>4, RoomsReceive
  <2> QED
    BY <2>2, <2>5
<1>6. ~MissingOnAdhocctl(n) /\ \A m \in Nodes : ~HandleTimeout(n, m)
  BY NobodyMissing
<1>7. CASE DispatchEvents(n)
  <2> DEFINE H == [ctx EXCEPT ![n].events = <<>>]
  <2>1. ctx' = H /\ inbox' = inbox
    BY <1>7 DEF DispatchEvents
  <2>2. Rooms(H, inbox)
    BY <1>1, RoomsDispatch
  <2> HIDE DEF H
  <2> QED
    BY <2>1, <2>2
<1> QED
  BY <1>3, <1>4, <1>5, <1>6, <1>7 DEF InputThread

LEMMA NextKeepsRooms == ASSUME IInv, RoomInv, HallInv, IInv', [Next]_vars PROVE HallInv'
<1>1. CASE UNCHANGED vars
  BY <1>1 DEF vars, HallInv
<1>2. ASSUME NEW n \in Nodes, GameStep(n) \/ InputThread(n) \/ DispatchEvents(n) \/ Lose(n)
      PROVE  HallInv'
  <2>1. trouble' = trouble \/ (trouble' = trouble + 1 /\ trouble \in Nat)
    BY <1>2 DEF GameStep, InputThread, DispatchEvents, Lose, Create, Start, Stop, Delete, PowerOff, Accept,
           Request, CancelTarget, SendData, AbortSendData, BroadcastHello, Drain, Receive,
           MissingOnAdhocctl, HandleTimeout, Trouble, RoomInv
  <2> SUFFICES ASSUME trouble' = 0 PROVE Rooms(ctx', inbox')
    BY DEF HallInv
  <2>2. trouble = 0 /\ trouble' = trouble
    BY <2>1 DEF RoomInv
  <2>3. Playing(ctx, inbox, game) /\ Rooms(ctx, inbox) /\ ~Trouble
    BY <2>2 DEF RoomInv, HallInv, Trouble
  <2>4. \A k \in Nodes : Fits(ctx'[k]) /\ Within(ctx'[k])
    BY DEF IInv, Contexts, Sound
  <2>5. \/ Create(n) \/ Start(n) \/ Delete(n)
        \/ InputThread(n) \/ DispatchEvents(n)
        \/ \E m \in Nodes : Accept(n, m) \/ Request(n, m) \/ SendData(n, m) \/ AbortSendData(n, m)
    BY <1>2, <2>3 DEF GameStep, Stop, PowerOff, CancelTarget, Lose
  <2> QED
    BY <2>3, <2>4, <2>5, LifeKeepsRooms, CallsKeepRooms, ThreadsKeepRooms
<1> QED
  BY <1>1, <1>2 DEF Next

(* Once all is settled, nobody waits for anything.                         *)
LEMMA RoomsAgree == ASSUME RoomInv, HallInv PROVE RoomAgreement
<1> SUFFICES ASSUME Settled, trouble = 0, NEW p \in Nodes, ctx[p].mode = "PARENT"
             PROVE  /\ MacsIn(p, {"CHILD"}) = {n \in Nodes : p \in MacsIn(n, {"PARENT"})}
                    /\ \A n \in MacsIn(p, {"CHILD"}) : MacsIn(n, {"CHILD"}) = MacsIn(p, {"CHILD"}) \ {n}
  BY DEF RoomAgreement
<1>1. /\ \A n \in Nodes : /\ ctx[n] \in Context /\ Sane(ctx[n]) /\ Shape(ctx[n]) /\ Tidy(n, ctx[n])
                          /\ DOMAIN ctx[n].input = {} /\ DOMAIN inbox[n] = {}
      /\ Rooms(ctx, inbox)
  <2>1. \A n \in Nodes : ctx[n].input = <<>> /\ inbox[n] = <<>>
    BY DEF Settled
  <2>2. Playing(ctx, inbox, game) /\ Rooms(ctx, inbox)
    BY DEF RoomInv, HallInv
  <2>3. \A n \in Nodes : DOMAIN ctx[n].input = {} /\ DOMAIN inbox[n] = {}
    BY <2>1
  <2> QED
    BY <2>2, <2>3 DEF Playing, OrderlyIn, Own, Sane
<1>2. ASSUME NEW n \in Nodes, NEW state \in PeerStates
      PROVE  /\ MacsIn(n, {state}) \subseteq Nodes
             /\ \A m \in Nodes : m \in MacsIn(n, {state}) <=> St(ctx[n], m) = state
  <2> DEFINE c == ctx[n]
  <2>1. MacsIn(n, {state}) = {c.peers[i].mac : i \in {j \in DOMAIN c.peers : c.peers[j].state \in {state}}}
    BY DEF MacsIn, StatesIn, PlacesOf
  <2>2. c \in Context /\ Shape(c)
    BY <1>1
  <2> HIDE DEF c
  <2>3. \A i \in DOMAIN c.peers : c.peers[i].mac \in Nodes /\ St(c, c.peers[i].mac) = c.peers[i].state
    BY <2>2, PeersAreNodes DEF Shape
  <2>4. "NONE" \notin PeerStates
    BY DEF PeerStates
  <2>5. ASSUME NEW m \in Nodes, St(c, m) = state
        PROVE  Place(c, m) \in DOMAIN c.peers /\ c.peers[Place(c, m)].mac = m /\ c.peers[Place(c, m)].state = state
    BY <2>2, <2>4, <2>5, StIs
  <2> DEFINE M == MacsIn(n, {state})
  <2>6. /\ \A i \in DOMAIN c.peers : c.peers[i].state = state => c.peers[i].mac \in M
        /\ \A m \in M : \E i \in DOMAIN c.peers : c.peers[i].state = state /\ c.peers[i].mac = m
    BY <2>1
  <2> HIDE DEF M
  <2>7. M \subseteq Nodes
    BY <2>3, <2>6
  <2>8. \A m \in Nodes : m \in M => St(c, m) = state
    BY <2>3, <2>6
  <2>9. \A m \in Nodes : St(c, m) = state => m \in M
    BY <2>5, <2>6
  <2> QED
    BY <2>7, <2>8, <2>9 DEF c, M
<1>3. "CHILD" \in PeerStates /\ "PARENT" \in PeerStates
  BY DEF PeerStates
<1>4. \A n \in Nodes : \A m, op : From(inbox[n], m, op) = {} /\ ~Waits(ctx[n], op, m)
  BY <1>1 DEF From, Waits
<1>5. \A n \in Nodes : \A m, k : Births(inbox[n], m, k) = {}
  BY <1>4 DEF Births
<1>6. ASSUME NEW n \in Nodes \ {p}
      PROVE  /\ St(ctx[n], p) = "PARENT" <=> St(ctx[p], n) = "CHILD"
             /\ St(ctx[p], n) = "CHILD" => \A k \in Nodes \ {n} : St(ctx[n], k) = "CHILD" <=> St(ctx[p], k) = "CHILD"
  <2>1. Member(p, n, ctx[p], ctx[n], inbox[n])
    BY <1>1 DEF Rooms
  <2>2. \A k \in Nodes \ {n} : St(ctx[n], p) = "PARENT" /\ St(ctx[p], k) = "CHILD" => St(ctx[n], k) = "CHILD"
    BY <1>4, <1>5, <2>1 DEF Member, Sibling, Heard
  <2>3. \A k \in Nodes \ {n} : St(ctx[n], p) = "PARENT" /\ St(ctx[n], k) = "CHILD" => St(ctx[p], k) = "CHILD"
    BY <2>1 DEF Member, Sibling
  <2>4. St(ctx[n], p) = "PARENT" <=> St(ctx[p], n) = "CHILD"
    BY <1>4, <2>1 DEF Member
  <2> QED
    BY <2>2, <2>3, <2>4
<1>7. \A n \in Nodes : St(ctx[n], n) \notin {"PARENT", "CHILD"}
  BY <1>1 DEF Tidy
<1>8. MacsIn(p, {"CHILD"}) = {n \in Nodes : p \in MacsIn(n, {"PARENT"})}
  <2>1. \A n \in Nodes : n \in MacsIn(p, {"CHILD"}) <=> p \in MacsIn(n, {"PARENT"})
    BY <1>2, <1>3, <1>6, <1>7
  <2>2. MacsIn(p, {"CHILD"}) \subseteq Nodes
    BY <1>2, <1>3
  <2> QED
    BY <2>1, <2>2
<1>9. ASSUME NEW n \in MacsIn(p, {"CHILD"})
      PROVE  MacsIn(n, {"CHILD"}) = MacsIn(p, {"CHILD"}) \ {n}
  <2>1. n \in Nodes /\ MacsIn(p, {"CHILD"}) \subseteq Nodes /\ St(ctx[p], n) = "CHILD"
    BY <1>2, <1>3
  <2>2. n # p /\ MacsIn(n, {"CHILD"}) \subseteq Nodes
    BY <1>2, <1>3, <1>7, <2>1
  <2>3. \A k \in Nodes : k \in MacsIn(n, {"CHILD"}) <=> k \in MacsIn(p, {"CHILD"}) \ {n}
    BY <1>2, <1>3, <1>6, <1>7, <2>1, <2>2
  <2> QED
    BY <2>1, <2>2, <2>3
<1> QED
  BY <1>8, <1>9

(* The invariant holds in every state of every play of such a game.        *)
THEOREM HallInvariant == ASSUME Unmixed PROVE Spec => [](IInv /\ RoomInv /\ HallInv)
<1>1. Init => IInv /\ RoomInv /\ HallInv
  BY InitIsSound, InitPlays, InitHasRooms
<1>2. IInv /\ RoomInv /\ HallInv /\ [Next]_vars => (IInv /\ RoomInv /\ HallInv)'
  <2>1. IInv /\ [Next]_vars => IInv'
    BY NextIsSound
  <2> QED
    BY <2>1, NextPlays, NextKeepsRooms
<1> QED
  BY <1>1, <1>2, PTL DEF Spec

(* Without trouble, once all is settled host and children agree on who is  *)
(* in the room, and so do the children among each other, however many were *)
(* accepted before the ACCEPTs and BIRTHs went out.                        *)
THEOREM RoomsAreAgreed == ASSUME Unmixed PROVE Spec => []RoomAgreement
BY HallInvariant, RoomsAgree, PTL
=============================================================================
