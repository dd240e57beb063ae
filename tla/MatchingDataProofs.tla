------------------------- MODULE MatchingDataProofs -------------------------
(***************************************************************************)
(* Data between players who match: no host and no equal is busy with a peer*)
(* but while the data for it waits in the input stack, whatever calls and  *)
(* troubles there are and however many play, and no child that is alone    *)
(* with its host.                                                          *)
(*                                                                         *)
(* A piece of the code is steady if it makes nobody busy and lists nobody  *)
(* twice.  All are but what a child does who is told of another child; in  *)
(* a play of two there is none, so nothing that is queued or on the way    *)
(* tells of one (Close, Terse).                                            *)
(***************************************************************************)
EXTENDS MatchingProofs

-----------------------------------------------------------------------------
(* Data.  Whom c lists, and whom it is busy with; every peer has one entry.*)
Members(c) == {c.peers[i].mac : i \in DOMAIN c.peers}
Busy(c) == {c.peers[i].mac : i \in {j \in DOMAIN c.peers : c.peers[j].sending}}
Once(c) == \A i, j \in DOMAIN c.peers : c.peers[i].mac = c.peers[j].mac => i = j

(* The list d is busy with nobody but those c is busy with, lists nobody   *)
(* twice, and but for those of M nobody new.  (A child also lists itself   *)
(* and its siblings; whom it lists does not matter.)                       *)
Idler(c, d) == SameButList(c, d) /\ Busy(d) \subseteq Busy(c)

Steady(c, d, M) ==
    /\ Idler(c, d)
    /\ Once(c) => Once(d)
    /\ c.mode # "CHILD" => Members(d) \subseteq Members(c) \cup M

Entry(p, q) == p.mac = q.mac /\ (p.sending => q.sending)

LEMMA IdlerPlaces ==
    ASSUME NEW c, NEW d, SameButList(c, d), NEW h,
           \A i \in DOMAIN d.peers : \/ ~d.peers[i].sending
                                     \/ h[i] \in DOMAIN c.peers /\ Entry(d.peers[i], c.peers[h[i]])
    PROVE  Idler(c, d)
BY DEF Idler, Busy, Entry

LEMMA SteadyPlaces ==
    ASSUME NEW c, NEW d, SameButList(c, d), NEW M, NEW h,
           \A i \in DOMAIN d.peers : h[i] \in DOMAIN c.peers /\ Entry(d.peers[i], c.peers[h[i]]),
           \A i, j \in DOMAIN d.peers : h[i] = h[j] => i = j
    PROVE  Steady(c, d, M)
<1>1. Idler(c, d)
  BY IdlerPlaces
<1>2. Once(c) => Once(d)
  BY DEF Once, Entry
<1>3. Members(d) \subseteq Members(c)
  BY DEF Members, Entry
<1> QED
  BY <1>1, <1>2, <1>3 DEF Steady

LEMMA SteadyTwice ==
    ASSUME NEW c, NEW d, NEW e, NEW M, Steady(c, d, M), Steady(d, e, M)
    PROVE  Steady(c, e, M)
<1>1. SameButList(c, e) /\ d.mode = c.mode
  BY DEF Steady, Idler, SameButList
<1> QED
  BY <1>1 DEF Steady, Idler

LEMMA SteadySame ==
    ASSUME NEW c, NEW d, NEW M, SameButList(c, d), d.peers = c.peers
    PROVE  Steady(c, d, M)
BY DEF Steady, Idler, Busy, Once, Members

LEMMA SteadyItself == ASSUME NEW c \in Context, NEW M PROVE Steady(c, c, M)
BY SteadySame DEF SameButList

LEMMA SteadyTypes == ASSUME NEW c, NEW d, NEW M, Steady(c, d, M) PROVE c \in Context /\ d \in Context /\ d.mode = c.mode
BY DEF Steady, Idler, SameButList

LEMMA SteadySpawn ==
    ASSUME NEW c \in Context, NEW event \in EventNames, NEW m \in Nodes, NEW M
    PROVE  Steady(c, Spawn(c, event, m), M)
<1>1. SameButList(c, Spawn(c, event, m)) /\ Spawn(c, event, m).peers = c.peers
  BY SpawnIsCalm DEF Calm
<1> QED
  BY <1>1, SteadySame

(* A newcomer in front.                                                    *)
LEMMA IdlerLink ==
    ASSUME NEW c \in Context, NEW m \in Nodes, NEW state \in PeerStates, NEW joining \in BOOLEAN
    PROVE  LET d == Link(c, m, state, joining)
           IN  /\ Idler(c, d)
               /\ ~Known(c, m) /\ Once(c) => Once(d)
               /\ Members(d) \subseteq Members(c) \cup {m}
<1> DEFINE p == [mac |-> m, state |-> state, joining |-> joining, sending |-> FALSE, leaving |-> FALSE]
           l == <<p>> \o c.peers
           d == [c EXCEPT !.peers = l]
<1>1. p \in PeerRecord /\ p.mac = m /\ ~p.sending
  BY DEF PeerRecord
<1>2. c.peers \in Seq(PeerRecord)
  BY DEF Context
<1>3. Link(c, m, state, joining) = d
  BY DEF Link, Context
<1> HIDE DEF p
<1>4. /\ l \in Seq(PeerRecord) /\ DOMAIN l = 1..(Len(c.peers) + 1) /\ DOMAIN c.peers = 1..Len(c.peers)
      /\ l[1] = p /\ \A i \in DOMAIN l : i # 1 => i - 1 \in DOMAIN c.peers /\ l[i] = c.peers[i - 1]
  BY <1>1, <1>2
<1> HIDE DEF l
<1>5. SameButList(c, d) /\ d.peers = l
  BY <1>4, WithList
<1> HIDE DEF d
<1>6. \A i \in DOMAIN d.peers : \/ i = 1 /\ d.peers[i].mac = m /\ ~d.peers[i].sending
                                \/ i - 1 \in DOMAIN c.peers /\ d.peers[i] = c.peers[i - 1]
  BY <1>1, <1>4, <1>5
<1>7. Idler(c, d) /\ Members(d) \subseteq Members(c) \cup {m}
  BY <1>5, <1>6 DEF Idler, Busy, Members
<1>8. ASSUME ~Known(c, m), Once(c)
      PROVE  Once(d)
  <2>1. \A i \in DOMAIN c.peers : c.peers[i].mac # m
    BY <1>8, PlaceIs
  <2>2. \A i \in DOMAIN d.peers : i \in Int
    BY <1>4, <1>5
  <2> QED
    BY <1>6, <1>8, <2>1, <2>2 DEF Once
<1> QED
  BY <1>3, <1>7, <1>8

LEMMA SteadyLink ==
    ASSUME NEW c \in Context, NEW m \in Nodes, NEW state \in PeerStates, NEW joining \in BOOLEAN,
           ~Known(c, m), NEW M, c.mode # "CHILD" => m \in M
    PROVE  Steady(c, Link(c, m, state, joining), M)
BY IdlerLink DEF Steady

LEMMA SteadyDelete ==
    ASSUME NEW c \in Context, NEW m, Known(c, m), NEW M
    PROVE  Steady(c, DeletePeer(c, m), M)
<1> DEFINE k == Place(c, m)
           l == RemoveAt(c.peers, k)
           d == [c EXCEPT !.peers = l]
           h == [i \in DOMAIN l |-> IF i < k THEN i ELSE i + 1]
<1>1. c.peers \in Seq(PeerRecord) /\ k \in DOMAIN c.peers
  BY PlaceIs
<1>0. DeletePeer(c, m) = d
  BY DEF DeletePeer, Context
<1> HIDE DEF k
<1>2. /\ l \in Seq(PeerRecord) /\ DOMAIN l = 1..(Len(c.peers) - 1)
      /\ \A i \in DOMAIN l : l[i] = c.peers[IF i < k THEN i ELSE i + 1]
  BY <1>1, RemoveAtFacts
<1>3. \A i \in DOMAIN l : h[i] = (IF i < k THEN i ELSE i + 1) /\ i \in Int /\ h[i] \in DOMAIN c.peers
  BY <1>1, <1>2
<1>4. \A i, j \in DOMAIN l : h[i] = h[j] => i = j
  BY <1>1, <1>3
<1> HIDE DEF l, h
<1>5. SameButList(c, d) /\ d.peers = l
  BY <1>2, WithList
<1> HIDE DEF d
<1>6. \A i \in DOMAIN d.peers : h[i] \in DOMAIN c.peers /\ Entry(d.peers[i], c.peers[h[i]])
  BY <1>2, <1>3, <1>5 DEF Entry
<1> QED
  BY <1>0, <1>4, <1>5, <1>6, SteadyPlaces

(* One entry is rewritten.                                                 *)
LEMMA EntryWritten ==
    ASSUME NEW c \in Context, NEW k, NEW r, NEW M,
           k \in DOMAIN c.peers => r \in PeerRecord /\ Entry(r, c.peers[k])
    PROVE  Steady(c, [c EXCEPT !.peers = [@ EXCEPT ![k] = r]], M)
<1> DEFINE l == [c.peers EXCEPT ![k] = r]
           d == [c EXCEPT !.peers = l]
           h == [i \in DOMAIN l |-> i]
<1>1. \A i \in DOMAIN l : h[i] = i
  OBVIOUS
<1>2. /\ l \in Seq(PeerRecord) /\ DOMAIN l = DOMAIN c.peers
      /\ \A i \in DOMAIN c.peers : l[i] = IF i = k THEN r ELSE c.peers[i]
  BY ListRewritten
<1>3. [c EXCEPT !.peers = [@ EXCEPT ![k] = r]] = d
  BY DEF Context
<1> HIDE DEF h, l
<1>4. SameButList(c, d) /\ d.peers = l
  BY <1>2, WithList
<1> HIDE DEF d
<1>5. \A i \in DOMAIN d.peers : h[i] \in DOMAIN c.peers /\ Entry(d.peers[i], c.peers[h[i]])
  BY <1>1, <1>2, <1>4 DEF Entry
<1>6. \A i, j \in DOMAIN d.peers : h[i] = h[j] => i = j
  BY <1>1, <1>2, <1>4
<1> QED
  BY <1>3, <1>4, <1>5, <1>6, SteadyPlaces

LEMMA SteadyFields ==
    ASSUME NEW c \in Context, NEW m, NEW flag \in BOOLEAN, NEW state \in PeerStates, NEW M
    PROVE  /\ Steady(c, SetJoining(c, m, flag), M) /\ Steady(c, SetSending(c, m, FALSE), M)
           /\ Steady(c, SetLeaving(c, m), M) /\ Steady(c, Refresh(c, m), M)
           /\ Steady(c, SetState(c, m, state), M)
<1> DEFINE k == Place(c, m)
           p == c.peers[k]
           R == {[p EXCEPT !.joining = flag], [p EXCEPT !.sending = FALSE], [p EXCEPT !.leaving = TRUE],
                 [p EXCEPT !.leaving = FALSE], [p EXCEPT !.state = state]}
<1>1. k \in DOMAIN c.peers => p \in PeerRecord
  BY DEF Context
<1>2. \A r \in R : k \in DOMAIN c.peers => r \in PeerRecord /\ Entry(r, p)
  <2> HIDE DEF p
  <2> QED
    BY <1>1 DEF PeerRecord, Entry
<1>3. \A r \in R : Steady(c, [c EXCEPT !.peers = [@ EXCEPT ![k] = r]], M)
  <2> HIDE DEF R
  <2> QED
    BY <1>2, EntryWritten
<1>4. /\ SetJoining(c, m, flag) = [c EXCEPT !.peers = [@ EXCEPT ![k] = [p EXCEPT !.joining = flag]]]
      /\ SetSending(c, m, FALSE) = [c EXCEPT !.peers = [@ EXCEPT ![k] = [p EXCEPT !.sending = FALSE]]]
      /\ SetLeaving(c, m) = [c EXCEPT !.peers = [@ EXCEPT ![k] = [p EXCEPT !.leaving = TRUE]]]
      /\ Refresh(c, m) = [c EXCEPT !.peers = [@ EXCEPT ![k] = [p EXCEPT !.leaving = FALSE]]]
      /\ SetState(c, m, state) = [c EXCEPT !.peers = [@ EXCEPT ![k] = [p EXCEPT !.state = state]]]
  BY DEF SetJoining, SetSending, SetLeaving, Refresh, SetState
<1> QED
  BY <1>3, <1>4

LEMMA SteadyEmptied ==
    ASSUME NEW c \in Context, NEW M
    PROVE  Steady(c, [c EXCEPT !.peers = <<>>], M)
<1> DEFINE d == [c EXCEPT !.peers = <<>>]
<1>1. <<>> \in Seq(PeerRecord)
  OBVIOUS
<1>2. SameButList(c, d) /\ d.peers = <<>>
  BY <1>1, WithList
<1>3. DOMAIN d.peers = {}
  BY <1>2
<1> HIDE DEF d
<1>4. Steady(c, d, M)
  BY <1>2, <1>3, SteadyPlaces
<1> QED
  BY <1>4 DEF d

LEMMA SteadyPicked ==
    ASSUME NEW c \in Context, NEW I \in SUBSET DOMAIN c.peers, NEW M
    PROVE  Steady(c, [c EXCEPT !.peers = Picked(c.peers, I)], M)
<1> DEFINE l == Picked(c.peers, I)
           d == [c EXCEPT !.peers = l]
           h == [k \in DOMAIN l |-> Nth(I, k)]
<1>1. c.peers \in Seq(PeerRecord)
  BY DEF Context
<1>2. /\ l \in Seq(PeerRecord) /\ DOMAIN l = 1..Cardinality(I)
      /\ \A k \in 1..Cardinality(I) : Nth(I, k) \in I /\ l[k] = c.peers[Nth(I, k)]
      /\ \A j, k \in 1..Cardinality(I) : Nth(I, j) = Nth(I, k) => j = k
  BY <1>1, PickedFacts
<1>3. \A k \in DOMAIN l : h[k] = Nth(I, k)
  OBVIOUS
<1> HIDE DEF h, l
<1>4. SameButList(c, d) /\ d.peers = l
  BY <1>2, WithList
<1> HIDE DEF d
<1>5. \A i \in DOMAIN d.peers : h[i] \in DOMAIN c.peers /\ Entry(d.peers[i], c.peers[h[i]])
  BY <1>2, <1>3, <1>4 DEF Entry
<1>6. \A i, j \in DOMAIN d.peers : h[i] = h[j] => i = j
  BY <1>2, <1>3, <1>4
<1>7. Steady(c, d, M)
  BY <1>4, <1>5, <1>6, SteadyPlaces
<1> QED
  BY <1>7 DEF d, l

LEMMA SteadyAlike ==
    ASSUME NEW c \in Context, NEW l \in Seq(PeerRecord), DOMAIN l = DOMAIN c.peers, NEW M,
           \A i \in DOMAIN l : Entry(l[i], c.peers[i])
    PROVE  Steady(c, [c EXCEPT !.peers = l], M)
<1> DEFINE h == [i \in DOMAIN l |-> i]
           d == [c EXCEPT !.peers = l]
<1>1. \A i \in DOMAIN l : h[i] = i
  OBVIOUS
<1>2. SameButList(c, d) /\ d.peers = l
  BY WithList
<1> HIDE DEF h, d
<1>3. \A i \in DOMAIN d.peers : h[i] \in DOMAIN c.peers /\ Entry(d.peers[i], c.peers[h[i]])
  BY <1>1, <1>2
<1>4. \A i, j \in DOMAIN d.peers : h[i] = h[j] => i = j
  BY <1>1, <1>2
<1>5. Steady(c, d, M)
  BY <1>2, <1>3, <1>4, SteadyPlaces
<1> QED
  BY <1>5 DEF d

LEMMA SteadyDisband ==
    ASSUME NEW c \in Context, NEW self, NEW M
    PROVE  Steady(c, Disband(c, self), M)
<1> DEFINE I == OtherPlaces(c, self)
           others == Picked(c.peers, I)
           d == [c EXCEPT !.peers = others]
           l == [i \in DOMAIN others |-> [others[i] EXCEPT !.leaving = TRUE]]
<1>1. I \in SUBSET DOMAIN c.peers /\ c.peers \in Seq(PeerRecord)
  BY DEF OtherPlaces, Context
<1>2. others \in Seq(PeerRecord) /\ DOMAIN others = 1..Cardinality(I) /\ Cardinality(I) \in Nat
  BY <1>1, PickedFacts
<1>3. Steady(c, d, M)
  BY <1>1, SteadyPicked
<1>4. d \in Context /\ d.peers = others
  BY <1>2, <1>3, SteadyTypes, WithList
<1> HIDE DEF others
<1>5. \A i \in DOMAIN others : [others[i] EXCEPT !.leaving = TRUE] \in PeerRecord
                               /\ Entry([others[i] EXCEPT !.leaving = TRUE], others[i])
  <2> SUFFICES ASSUME NEW i \in DOMAIN others
               PROVE  [others[i] EXCEPT !.leaving = TRUE] \in PeerRecord
                      /\ Entry([others[i] EXCEPT !.leaving = TRUE], others[i])
    OBVIOUS
  <2>1. others[i] \in PeerRecord
    BY <1>2
  <2> QED
    BY <2>1 DEF PeerRecord, Entry
<1>6. l \in [1..Cardinality(I) -> PeerRecord] /\ DOMAIN l = DOMAIN others
      /\ \A i \in DOMAIN l : Entry(l[i], others[i])
  BY <1>2, <1>5
<1>7. l \in Seq(PeerRecord)
  BY <1>2, <1>6
<1> HIDE DEF l
<1>8. [d EXCEPT !.peers = l] = [c EXCEPT !.peers = l]
  BY DEF Context
<1> HIDE DEF d
<1>9. Steady(d, [d EXCEPT !.peers = l], M)
  BY <1>4, <1>6, <1>7, SteadyAlike
<1>10. Steady(c, [c EXCEPT !.peers = l], M)
  BY <1>3, <1>8, <1>9, SteadyTwice
<1>11. Disband(c, self) = [c EXCEPT !.peers = l]
  BY DEF Disband, l, others
<1> QED
  BY <1>10, <1>11

LEMMA SteadyClean ==
    ASSUME NEW c \in Context, NEW M
    PROVE  Steady(c, CleanPeerList(c), M)
<1> DEFINE I == PlacesOf(c, Established \cup {"SELF"})
<1>1. I \in SUBSET DOMAIN c.peers
  BY DEF PlacesOf
<1>2. Steady(c, [c EXCEPT !.peers = Picked(c.peers, I)], M)
  BY <1>1, SteadyPicked
<1>3. CleanPeerList(c) = [c EXCEPT !.peers = Picked(c.peers, I)]
  BY DEF CleanPeerList, Context
<1> QED
  BY <1>2, <1>3

LEMMA SteadyLeaves ==
    ASSUME NEW c \in Context, NEW M
    PROVE  Steady(c, SpawnLeaves(c), M)
<1>1. SameButList(c, SpawnLeaves(c)) /\ SpawnLeaves(c).peers = c.peers
  BY SpawnLeavesIsCalm DEF Calm
<1> QED
  BY <1>1, SteadySame

(* Siblings that are named come in without a message to them; if none is   *)
(* named, the list stays.                                                  *)
LEMMA IdlerSiblings ==
    ASSUME NEW c \in Context, NEW siblings \in Seq(Nodes), c.mode = "CHILD", NEW M
    PROVE  /\ Idler(c, AddSiblings(c, siblings))
           /\ DOMAIN siblings = {} => Steady(c, AddSiblings(c, siblings), M)
<1> DEFINE I == {i \in DOMAIN siblings : ~Known(c, siblings[i])}
           new == Picked(siblings, I)
           newborn(m) == [mac |-> m, state |-> "CHILD", joining |-> FALSE,
                          sending |-> FALSE, leaving |-> FALSE]
           linked == [i \in DOMAIN new |-> newborn(new[i])]
           child(p) == [p EXCEPT !.state = "CHILD", !.sending = FALSE, !.leaving = FALSE]
           renewed == [i \in DOMAIN c.peers |->
                          IF c.peers[i].mac \in ToSet(siblings) /\ Place(c, c.peers[i].mac) = i
                          THEN child(c.peers[i]) ELSE c.peers[i]]
           l == linked \o renewed
           d == [c EXCEPT !.peers = l]
           K == Cardinality(I)
           N == Len(c.peers)
           h == [i \in DOMAIN l |-> i - K]
<1>0. DOMAIN siblings = {} => K = 0
  BY FS_EmptySet
<1>1. /\ new \in Seq(Nodes) /\ DOMAIN new = 1..K /\ K \in Nat
      /\ N \in Nat /\ DOMAIN c.peers = 1..N /\ c.peers \in Seq(PeerRecord)
  BY PickedFacts DEF Context
<1> HIDE DEF new, K, N
<1>3. linked \in Seq(PeerRecord) /\ Len(linked) = K
      /\ \A i \in 1..K : ~linked[i].sending
  <2>1. \A m \in Nodes : newborn(m) \in PeerRecord /\ ~newborn(m).sending
    BY DEF PeerRecord, PeerStates
  <2> HIDE DEF newborn
  <2>2. linked \in [1..K -> PeerRecord] /\ \A i \in 1..K : ~linked[i].sending
    BY <1>1, <2>1
  <2> HIDE DEF linked
  <2> QED
    BY <1>1, <2>2
<1>4. renewed \in Seq(PeerRecord) /\ Len(renewed) = N
      /\ \A i \in 1..N : Entry(renewed[i], c.peers[i])
  <2>1. \A p \in PeerRecord : child(p) \in PeerRecord /\ ~child(p).sending /\ child(p).mac = p.mac
    BY DEF PeerRecord, PeerStates
  <2> HIDE DEF child
  <2>2. \A i \in 1..N : c.peers[i] \in PeerRecord
    BY <1>1
  <2>3. renewed \in [1..N -> PeerRecord]
        /\ \A i \in 1..N : renewed[i] = c.peers[i] \/ renewed[i] = child(c.peers[i])
    BY <1>1, <2>1, <2>2
  <2> HIDE DEF renewed
  <2>4. \A i \in 1..N : Entry(renewed[i], c.peers[i])
    <3> SUFFICES ASSUME NEW i \in 1..N PROVE Entry(renewed[i], c.peers[i])
      OBVIOUS
    <3>1. CASE renewed[i] = c.peers[i]
      BY <3>1 DEF Entry
    <3>2. CASE renewed[i] = child(c.peers[i])
      BY <2>1, <2>2, <3>2 DEF Entry
    <3> QED
      BY <2>3, <3>1, <3>2
  <2> QED
    BY <1>1, <2>3, <2>4
<1>5. AddSiblings(c, siblings) = d
  BY DEF AddSiblings, linked, newborn, renewed, child, new
<1> HIDE DEF linked, renewed
<1>6. /\ l \in Seq(PeerRecord) /\ DOMAIN l = 1..(K + N)
      /\ \A i \in 1..(K + N) : l[i] = IF i <= K THEN linked[i] ELSE renewed[i - K]
  <2>1. l \in Seq(PeerRecord) /\ Len(l) = K + N
        /\ \A i \in 1..(K + N) : l[i] = IF i <= K THEN linked[i] ELSE renewed[i - K]
    BY <1>1, <1>3, <1>4, ConcatProperties
  <2> HIDE DEF l
  <2> QED
    BY <2>1
<1>7. \A i \in DOMAIN l : h[i] = i - K
  OBVIOUS
<1> HIDE DEF l, h
<1>8. SameButList(c, d) /\ d.peers = l
  BY <1>6, WithList
<1> HIDE DEF d
<1>9. \A i \in DOMAIN d.peers : \/ i <= K /\ ~d.peers[i].sending
                                \/ h[i] \in DOMAIN c.peers /\ Entry(d.peers[i], c.peers[h[i]])
  <2> SUFFICES ASSUME NEW i \in 1..(K + N)
               PROVE  \/ i <= K /\ ~l[i].sending
                      \/ h[i] \in DOMAIN c.peers /\ Entry(l[i], c.peers[h[i]])
    BY <1>6, <1>8
  <2>1. CASE i <= K
    BY <1>1, <1>3, <1>6, <2>1
  <2>2. CASE ~(i <= K)
    <3>1. i - K \in 1..N /\ h[i] = i - K /\ l[i] = renewed[i - K]
      <4>1. i \in DOMAIN l /\ ~(i <= K) /\ i - K \in 1..N
        BY <1>1, <1>6, <2>2
      <4> QED
        BY <1>6, <1>7, <4>1
    <3> QED
      BY <1>1, <1>4, <3>1
  <2> QED
    BY <2>1, <2>2
<1>10. \A i, j \in DOMAIN d.peers : h[i] = h[j] => i = j
  BY <1>1, <1>6, <1>7, <1>8
<1>11. Idler(c, d)
  BY <1>8, <1>9, IdlerPlaces
<1>12. ASSUME K = 0
       PROVE  Steady(c, d, M)
  <2>1. \A i \in DOMAIN d.peers : h[i] \in DOMAIN c.peers /\ Entry(d.peers[i], c.peers[h[i]])
    BY <1>1, <1>6, <1>8, <1>9, <1>12
  <2> QED
    BY <1>8, <1>10, <2>1, SteadyPlaces
<1> QED
  BY <1>0, <1>5, <1>11, <1>12

LEMMA SteadySelf ==
    ASSUME NEW c \in Context, NEW self \in Nodes, c.mode = "CHILD", NEW M
    PROVE  Steady(c, AddSelf(c, self), M)
<1>1. ~Known(c, self) => Steady(c, Link(c, self, "SELF", FALSE), M)
  BY SteadyLink DEF PeerStates
<1> QED
  BY <1>1, SteadyItself DEF AddSelf

-----------------------------------------------------------------------------
(* The senders.                                                            *)
LEMMA SteadyCancel ==
    ASSUME NEW c \in Context, NEW self, NEW m, NEW M
    PROVE  Steady(c, SendCancel(c, self, m).ctx, M)
<1> DEFINE d == IF ~Known(c, m) THEN c
                ELSE IF c.mode = "CHILD" THEN [c EXCEPT !.peers = <<>>] ELSE DeletePeer(c, m)
<1>1. Steady(c, d, M)
  <2>1. CASE ~Known(c, m)
    BY <2>1, SteadyItself
  <2>2. CASE Known(c, m) /\ c.mode = "CHILD"
    BY <2>2, SteadyEmptied
  <2>3. CASE Known(c, m) /\ c.mode # "CHILD"
    BY <2>3, SteadyDelete
  <2> QED
    BY <2>1, <2>2, <2>3
<1>3. SendCancel(c, self, m) = Result(d, <<Packet(self, m, "CANCEL")>>)
  BY DEF SendCancel
<1> HIDE DEF d
<1> QED
  BY <1>1, <1>3, ResultIs

LEMMA SteadyDeath ==
    ASSUME NEW c \in Context, NEW self, NEW m, NEW M
    PROVE  Steady(c, SendDeath(c, self, m).ctx, M)
<1>1. CASE ~Known(c, m)
  BY <1>1, SteadyItself, ResultIs DEF SendDeath
<1>2. CASE Known(c, m)
  BY <1>2, SteadyDelete, ResultIs DEF SendDeath
<1> QED
  BY <1>1, <1>2

(* After a message has gone out, its receiver is busy no more.             *)
LEMMA BulkFrees ==
    ASSUME NEW c \in Context, NEW self, NEW m \in Nodes, NEW M
    PROVE  /\ Steady(c, SendBulk(c, self, m).ctx, M)
           /\ Once(c) => m \notin Busy(SendBulk(c, self, m).ctx)
<1> DEFINE s == SetSending(c, m, FALSE)
           d == Spawn(s, "DATA_ACK", m)
<1>1. CASE ~Known(c, m)
  <2>1. SendBulk(c, self, m).ctx = c
    BY <1>1, ResultIs DEF SendBulk
  <2>2. m \notin Busy(c)
    BY <1>1, PlaceIs DEF Busy
  <2> QED
    BY <2>1, <2>2, SteadyItself
<1>2. CASE Known(c, m)
  <2> DEFINE k == Place(c, m)
             r == [c.peers[k] EXCEPT !.sending = FALSE]
             l == [c.peers EXCEPT ![k] = r]
  <2>1. k \in DOMAIN c.peers /\ c.peers[k].mac = m
    BY <1>2, PlaceIs
  <2>2. r.mac = m /\ ~r.sending /\ r \in PeerRecord
    <3>1. c.peers[k] \in PeerRecord
      BY <2>1 DEF Context
    <3> QED
      BY <2>1, <3>1 DEF PeerRecord
  <2>3. FALSE \in BOOLEAN /\ "OFFER" \in PeerStates
    BY DEF PeerStates
  <2>4. Steady(c, s, M) /\ s \in Context
    <3>1. Steady(c, SetSending(c, m, FALSE), M)
      BY <2>3, SteadyFields
    <3> QED
      BY <3>1, SteadyTypes
  <2>5. s = [c EXCEPT !.peers = l]
    BY DEF SetSending, Context
  <2>6. SendBulk(c, self, m).ctx = d
    BY <1>2, ResultIs DEF SendBulk
  <2> HIDE DEF k, r
  <2>7. /\ DOMAIN l = DOMAIN c.peers /\ l \in Seq(PeerRecord)
        /\ \A i \in DOMAIN c.peers : l[i] = IF i = k THEN r ELSE c.peers[i]
    BY <2>2, ListRewritten
  <2> HIDE DEF l, s
  <2>8. s.peers = l
    BY <2>5 DEF Context
  <2>9. Steady(s, d, M) /\ d.peers = l
    BY <2>4, <2>8, SteadySpawn, SpawnIsCalm DEF EventNames
  <2> HIDE DEF d
  <2>10. Once(c) => m \notin Busy(d)
    BY <2>1, <2>2, <2>7, <2>9 DEF Once, Busy
  <2> QED
    BY <2>4, <2>6, <2>9, <2>10, SteadyTwice
<1> QED
  BY <1>1, <1>2

LEMMA SteadyMessage ==
    ASSUME NEW c \in Context, NEW self \in Nodes, NEW msg \in [op : MessageOps, mac : Nodes], NEW M
    PROVE  /\ Steady(c, SendMessage(c, self, msg).ctx, M)
           /\ Once(c) /\ msg.op = "BULK" => msg.mac \notin Busy(SendMessage(c, self, msg).ctx)
<1> DEFINE m == msg.mac
           r == SendMessage(c, self, msg)
<1> SUFFICES Steady(c, r.ctx, M) /\ (Once(c) /\ msg.op = "BULK" => m \notin Busy(r.ctx))
  OBVIOUS
<1>1. m \in Nodes /\ msg.op \in {"JOIN", "ACCEPT", "CANCEL", "BULK", "BULK_ABORT", "BIRTH", "DEATH"}
  BY DEF MessageOps
<1>2. Steady(c, c, M) /\ Steady(c, Spawn(c, "ESTABLISHED", m), M)
  BY <1>1, SteadyItself, SteadySpawn DEF EventNames
<1>3. ASSUME r.ctx = c \/ r.ctx = Spawn(c, "ESTABLISHED", m), msg.op # "BULK"
      PROVE  Steady(c, r.ctx, M) /\ (Once(c) /\ msg.op = "BULK" => m \notin Busy(r.ctx))
  <2> HIDE DEF r
  <2> QED
    BY <1>2, <1>3
<1>4. CASE msg.op = "ACCEPT"
  <2>1. r = SendAccept(c, self, m)
    BY <1>4 DEF SendMessage
  <2> HIDE DEF r
  <2>2. r.ctx = c \/ r.ctx = Spawn(c, "ESTABLISHED", m)
    BY <2>1, ResultIs DEF SendAccept
  <2> QED
    BY <1>2, <1>4, <2>2
<1>5. CASE msg.op \in {"JOIN", "BIRTH", "BULK_ABORT"}
  <2>1. r \in {SendJoin(c, self, m), SendBirth(c, self, m), Result(c, <<>>)}
    <3>1. msg.op = "JOIN" => r = SendJoin(c, self, m)
      BY DEF SendMessage
    <3>2. msg.op = "BIRTH" => r = SendBirth(c, self, m)
      BY DEF SendMessage
    <3>3. msg.op = "BULK_ABORT" => r = Result(c, <<>>)
      BY DEF SendMessage
    <3> HIDE DEF r
    <3> QED
      BY <1>5, <3>1, <3>2, <3>3
  <2> HIDE DEF r
  <2>2. r.ctx = c
    BY <2>1, ResultIs DEF SendJoin, SendBirth
  <2> QED
    BY <1>2, <1>5, <2>2
<1>6. CASE msg.op = "CANCEL"
  <2>1. r = SendCancel(c, self, m)
    BY <1>6 DEF SendMessage
  <2> HIDE DEF r
  <2> QED
    BY <1>6, <2>1, SteadyCancel
<1>7. CASE msg.op = "BULK"
  <2>1. r = SendBulk(c, self, m)
    BY <1>7 DEF SendMessage
  <2> HIDE DEF r
  <2> QED
    BY <1>1, <2>1, BulkFrees
<1>8. CASE msg.op = "DEATH"
  <2>1. r = SendDeath(c, self, m)
    BY <1>8 DEF SendMessage
  <2> HIDE DEF r
  <2> QED
    BY <1>8, <2>1, SteadyDeath
<1> HIDE DEF r
<1> QED
  BY <1>1, <1>4, <1>5, <1>6, <1>7, <1>8

-----------------------------------------------------------------------------
(* The handlers.                                                           *)
LEMMA SteadyHello ==
    ASSUME NEW c \in Context, NEW m \in Nodes, NEW M, m \in M
    PROVE  Steady(c, ActOnHello(c, m), M)
<1>1. CASE Unattached(c)
  <2> DEFINE d == IF Known(c, m) THEN c ELSE Link(c, m, "OFFER", FALSE)
  <2>1. ~Known(c, m) => Steady(c, Link(c, m, "OFFER", FALSE), M)
    BY SteadyLink DEF PeerStates
  <2>2. Steady(c, d, M)
    BY <2>1, SteadyItself
  <2>3. ActOnHello(c, m) = Spawn(d, "HELLO", m)
    BY <1>1 DEF ActOnHello
  <2> HIDE DEF d
  <2>4. d \in Context
    BY <2>2, SteadyTypes
  <2>5. Steady(d, Spawn(d, "HELLO", m), M)
    BY <2>4, SteadySpawn DEF EventNames
  <2> QED
    BY <2>2, <2>3, <2>5, SteadyTwice
<1>2. CASE ~Unattached(c)
  BY <1>2, SteadyItself DEF ActOnHello
<1> QED
  BY <1>1, <1>2

LEMMA SteadyJoin ==
    ASSUME NEW c \in Context, NEW self \in Nodes, NEW m \in Nodes, NEW M, m \in M
    PROVE  Steady(c, ActOnJoin(c, self, m).ctx, M)
<1>1. Steady(c, Result(c, <<>>).ctx, M)
  BY SteadyItself, ResultIs
<1>2. Steady(c, SendCancel(c, self, m).ctx, M)
  BY SteadyCancel
<1>3. CASE c.mode # "CHILD"
  <2> DEFINE joining == c.mode = "P2P"
             a == SetState(c, m, "INCOMING_REQUEST")
             b == SetJoining(a, m, joining)
             d == IF Known(c, m) THEN Refresh(b, m) ELSE Link(c, m, "INCOMING_REQUEST", joining)
             e == Spawn(d, "REQUEST", m)
  <2>1. "INCOMING_REQUEST" \in PeerStates /\ joining \in BOOLEAN /\ FALSE \in BOOLEAN
    BY DEF PeerStates
  <2>2. ActOnJoin(c, self, m) =
           IF ~HasSlot(c) THEN SendCancel(c, self, m)
           ELSE IF Known(c, m) /\ c.mode = "PARENT" THEN Result(c, <<>>)
           ELSE Result(e, <<>>)
    BY <1>3 DEF ActOnJoin
  <2> HIDE DEF joining
  <2>3. Steady(c, a, M) /\ a \in Context
    <3>1. Steady(c, SetState(c, m, "INCOMING_REQUEST"), M)
      BY <2>1, SteadyFields
    <3> QED
      BY <3>1, SteadyTypes
  <2> HIDE DEF a
  <2>4. Steady(a, b, M) /\ b \in Context
    <3>1. Steady(a, SetJoining(a, m, joining), M)
      BY <2>1, <2>3, SteadyFields
    <3> QED
      BY <3>1, SteadyTypes
  <2> HIDE DEF b
  <2>5. Steady(b, Refresh(b, m), M)
    BY <2>1, <2>4, SteadyFields
  <2>6. Steady(c, Refresh(b, m), M)
    BY <2>3, <2>4, <2>5, SteadyTwice
  <2>7. ~Known(c, m) => Steady(c, Link(c, m, "INCOMING_REQUEST", joining), M)
    BY <2>1, SteadyLink
  <2>8. Steady(c, d, M)
    BY <2>6, <2>7
  <2> HIDE DEF d
  <2>9. d \in Context
    BY <2>8, SteadyTypes
  <2>10. Steady(d, e, M)
    BY <2>9, SteadySpawn DEF EventNames
  <2> HIDE DEF e
  <2>11. Steady(c, Result(e, <<>>).ctx, M)
    BY <2>8, <2>10, SteadyTwice, ResultIs
  <2> QED
    BY <1>1, <1>2, <2>2, <2>11
<1>4. CASE c.mode = "CHILD"
  BY <1>1, <1>4 DEF ActOnJoin
<1> QED
  BY <1>3, <1>4

LEMMA SteadyAccept ==
    ASSUME NEW c \in Context, NEW self \in Nodes, NEW m \in Nodes, NEW siblings \in Seq(Nodes), NEW M
    PROVE  /\ Idler(c, ActOnAccept(c, self, m, siblings))
           /\ c.mode # "CHILD" \/ DOMAIN siblings = {} => Steady(c, ActOnAccept(c, self, m, siblings), M)
<1> DEFINE answered == Unattached(c) /\ IsThe("OUTGOING_REQUEST", c, m)
<1>1. CASE ~answered
  <2>1. ActOnAccept(c, self, m, siblings) = c
    BY <1>1 DEF ActOnAccept
  <2> QED
    BY <2>1, SteadyItself DEF Steady
<1>2. ASSUME NEW j, Steady(c, j, M)
      PROVE  Steady(c, Spawn(Spawn(j, "ESTABLISHED", m), "ACCEPT", m), M)
  <2>1. j \in Context
    BY <1>2, SteadyTypes
  <2>2. Steady(j, Spawn(j, "ESTABLISHED", m), M)
    BY <2>1, SteadySpawn DEF EventNames
  <2>3. Spawn(j, "ESTABLISHED", m) \in Context
    BY <2>2, SteadyTypes
  <2>4. Steady(Spawn(j, "ESTABLISHED", m), Spawn(Spawn(j, "ESTABLISHED", m), "ACCEPT", m), M)
    BY <2>3, SteadySpawn DEF EventNames
  <2> QED
    BY <1>2, <2>2, <2>4, SteadyTwice
<1>3. ASSUME NEW j, Idler(c, j)
      PROVE  Idler(c, Spawn(Spawn(j, "ESTABLISHED", m), "ACCEPT", m))
  <2>1. j \in Context
    BY <1>3 DEF Idler, SameButList
  <2>2. Steady(j, Spawn(j, "ESTABLISHED", m), M)
    BY <2>1, SteadySpawn DEF EventNames
  <2>3. Spawn(j, "ESTABLISHED", m) \in Context
    BY <2>2, SteadyTypes
  <2>4. Steady(Spawn(j, "ESTABLISHED", m), Spawn(Spawn(j, "ESTABLISHED", m), "ACCEPT", m), M)
    BY <2>3, SteadySpawn DEF EventNames
  <2>5. Steady(j, Spawn(Spawn(j, "ESTABLISHED", m), "ACCEPT", m), M)
    BY <2>2, <2>4, SteadyTwice
  <2> DEFINE e == Spawn(Spawn(j, "ESTABLISHED", m), "ACCEPT", m)
  <2> HIDE DEF e
  <2>6. Idler(j, e)
    BY <2>5 DEF Steady, e
  <2>7. Idler(c, e)
    BY <1>3, <2>6 DEF Idler, SameButList
  <2> QED
    BY <2>7 DEF e
<1>4. CASE answered /\ c.mode = "CHILD"
  <2> DEFINE a == SetState(c, m, "PARENT")
             b == CleanPeerList(a)
             d == AddSiblings(b, siblings)
             e == AddSelf(d, self)
  <2>1. ActOnAccept(c, self, m, siblings) = Spawn(Spawn(e, "ESTABLISHED", m), "ACCEPT", m)
    BY <1>4 DEF ActOnAccept
  <2>2. Steady(c, a, M) /\ a \in Context /\ a.mode = "CHILD"
    <3>1. "PARENT" \in PeerStates /\ FALSE \in BOOLEAN
      BY DEF PeerStates
    <3>2. Steady(c, SetState(c, m, "PARENT"), M)
      BY <3>1, SteadyFields
    <3> QED
      BY <1>4, <3>2, SteadyTypes
  <2> HIDE DEF a
  <2>3. Steady(a, b, M)
    BY <2>2, SteadyClean
  <2>4. Steady(c, b, M) /\ b \in Context /\ b.mode = "CHILD"
    BY <2>2, <2>3, SteadyTwice, SteadyTypes
  <2> HIDE DEF b
  <2>5. Idler(b, d) /\ (DOMAIN siblings = {} => Steady(b, d, M))
    BY <2>4, IdlerSiblings
  <2>6. d \in Context /\ d.mode = "CHILD"
    BY <2>4, <2>5 DEF Idler, SameButList
  <2> HIDE DEF d
  <2>7. Steady(d, e, M)
    BY <2>6, SteadySelf
  <2> HIDE DEF e
  <2>8. Idler(c, e)
    BY <2>4, <2>5, <2>7 DEF Steady, Idler, SameButList
  <2>9. DOMAIN siblings = {} => Steady(c, e, M)
    BY <2>4, <2>5, <2>7, SteadyTwice
  <2> QED
    BY <1>2, <1>3, <1>4, <2>1, <2>8, <2>9
<1>5. CASE answered /\ c.mode = "P2P"
  <2> DEFINE a == SetState(c, m, "P2P")
             b == CleanPeerList(a)
             d == SetJoining(b, m, TRUE)
  <2>1. ActOnAccept(c, self, m, siblings) = Spawn(Spawn(d, "ESTABLISHED", m), "ACCEPT", m)
    BY <1>5 DEF ActOnAccept
  <2>0. "P2P" \in PeerStates /\ TRUE \in BOOLEAN
    BY DEF PeerStates
  <2>2. Steady(c, a, M) /\ a \in Context
    <3>1. Steady(c, SetState(c, m, "P2P"), M)
      BY <2>0, SteadyFields
    <3> QED
      BY <3>1, SteadyTypes
  <2> HIDE DEF a
  <2>3. Steady(a, b, M)
    BY <2>2, SteadyClean
  <2>4. Steady(c, b, M) /\ b \in Context
    BY <2>2, <2>3, SteadyTwice, SteadyTypes
  <2> HIDE DEF b
  <2>5. Steady(b, d, M)
    BY <2>0, <2>4, SteadyFields
  <2>6. Steady(c, d, M)
    BY <2>4, <2>5, SteadyTwice
  <2> HIDE DEF d
  <2>7. Steady(c, ActOnAccept(c, self, m, siblings), M)
    BY <1>2, <2>1, <2>6
  <2> QED
    BY <2>7 DEF Steady
<1>6. answered => c.mode \in {"CHILD", "P2P"}
  BY DEF Unattached
<1> QED
  BY <1>1, <1>4, <1>5, <1>6

LEMMA SteadyCancelled ==
    ASSUME NEW c \in Context, NEW self \in Nodes, NEW m \in Nodes, NEW M
    PROVE  Steady(c, ActOnCancel(c, self, m), M)
<1> DEFINE u == SetJoining(c, m, FALSE)
           e == CancelMeans(c, m)
           s == Spawn(u, e, m)
           k == SpawnLeaves(u)
<1>0. FALSE \in BOOLEAN /\ "OFFER" \in PeerStates
  BY DEF PeerStates
<1>1. Steady(c, u, M) /\ u \in Context
  <2>1. Steady(c, SetJoining(c, m, FALSE), M)
    BY <1>0, SteadyFields
  <2> QED
    BY <2>1, SteadyTypes
<1>2. ActOnCancel(c, self, m) = IF ~Known(c, m) THEN c
                                ELSE IF e # "none" THEN SetLeaving(s, m)
                                ELSE IF c.mode = "CHILD" /\ IsThe("PARENT", c, m) THEN Disband(k, self)
                                ELSE u
  BY DEF ActOnCancel
<1>3. e # "none" => e \in EventNames
  BY CancelMeansAnEvent
<1> HIDE DEF u, e
<1>4. ASSUME e # "none"
      PROVE  Steady(c, SetLeaving(s, m), M)
  <2>1. Steady(u, s, M)
    BY <1>1, <1>3, <1>4, SteadySpawn
  <2>2. s \in Context
    BY <2>1, SteadyTypes
  <2> HIDE DEF s
  <2>3. Steady(s, SetLeaving(s, m), M)
    BY <1>0, <2>2, SteadyFields
  <2> QED
    BY <1>1, <2>1, <2>3, SteadyTwice
<1>5. Steady(c, Disband(k, self), M)
  <2>1. Steady(u, k, M)
    BY <1>1, SteadyLeaves
  <2>2. k \in Context
    BY <2>1, SteadyTypes
  <2> HIDE DEF k
  <2>3. Steady(k, Disband(k, self), M)
    BY <2>2, SteadyDisband
  <2> QED
    BY <1>1, <2>1, <2>3, SteadyTwice
<1> HIDE DEF s, k
<1>6. Steady(c, c, M)
  BY SteadyItself
<1> QED
  BY <1>1, <1>2, <1>4, <1>5, <1>6

LEMMA SteadyBulk ==
    ASSUME NEW c \in Context, NEW m \in Nodes, NEW M
    PROVE  Steady(c, ActOnBulk(c, m), M)
BY SteadySpawn, SteadyItself DEF ActOnBulk, EventNames

LEMMA IdlerBirth ==
    ASSUME NEW c \in Context, NEW m, NEW newborn \in Nodes, NEW M
    PROVE  /\ Idler(c, ActOnBirth(c, m, newborn))
           /\ c.mode # "CHILD" => Steady(c, ActOnBirth(c, m, newborn), M)
<1>1. CASE FromParent(c, m)
  <2>1. Idler(c, Link(c, newborn, "CHILD", FALSE)) /\ c.mode = "CHILD"
    BY <1>1, IdlerLink DEF PeerStates, FromParent
  <2> QED
    BY <1>1, <2>1 DEF ActOnBirth
<1>2. CASE ~FromParent(c, m)
  <2>1. ActOnBirth(c, m, newborn) = c
    BY <1>2 DEF ActOnBirth
  <2> QED
    BY <2>1, SteadyItself DEF Steady
<1> QED
  BY <1>1, <1>2

LEMMA SteadyDead ==
    ASSUME NEW c \in Context, NEW m, NEW dead \in Nodes, NEW M
    PROVE  Steady(c, ActOnDeath(c, m, dead), M)
<1>1. CASE FromParent(c, m) /\ KnownAs(c, dead, {"CHILD"})
  <2> DEFINE d == Spawn(c, "LEAVE", dead)
  <2>1. Steady(c, d, M) /\ d.peers = c.peers
    BY SpawnIsCalm, SteadySpawn DEF EventNames
  <2>2. ActOnDeath(c, m, dead) = DeletePeer(d, dead)
    BY <1>1 DEF ActOnDeath
  <2> HIDE DEF d
  <2>3. Known(d, dead) /\ d \in Context
    BY <1>1, <2>1, SteadyTypes DEF Known, KnownAs, Place
  <2>4. Steady(d, DeletePeer(d, dead), M)
    BY <2>3, SteadyDelete
  <2> QED
    BY <2>1, <2>2, <2>4, SteadyTwice
<1>2. CASE ~(FromParent(c, m) /\ KnownAs(c, dead, {"CHILD"}))
  BY <1>2, SteadyItself DEF ActOnDeath
<1> QED
  BY <1>1, <1>2

LEMMA SteadyBye ==
    ASSUME NEW c \in Context, NEW self \in Nodes, NEW m \in Nodes, NEW M
    PROVE  Steady(c, ActOnBye(c, self, m), M)
<1> DEFINE s == Spawn(c, "BYE", m)
<1>1. Steady(c, s, M)
  BY SteadySpawn DEF EventNames
<1>2. \/ ActOnBye(c, self, m) = c \/ ActOnBye(c, self, m) = SetLeaving(s, m)
      \/ ActOnBye(c, self, m) = Disband(s, self)
  BY DEF ActOnBye
<1> HIDE DEF s
<1>3. s \in Context /\ FALSE \in BOOLEAN /\ "OFFER" \in PeerStates
  BY <1>1, SteadyTypes DEF PeerStates
<1>4. Steady(s, SetLeaving(s, m), M) /\ Steady(s, Disband(s, self), M)
  BY <1>3, SteadyFields, SteadyDisband
<1>5. Steady(c, SetLeaving(s, m), M) /\ Steady(c, Disband(s, self), M) /\ Steady(c, c, M)
  BY <1>1, <1>4, SteadyTwice, SteadyItself
<1> QED
  BY <1>2, <1>5

LEMMA SteadyTimeOut ==
    ASSUME NEW c \in Context, NEW self \in Nodes, NEW m \in Nodes, NEW M
    PROVE  Steady(c, TimeOut(c, self, m).ctx, M)
<1> DEFINE d == IF TimeoutIsTold(c, m) THEN Spawn(c, "TIMEOUT", m) ELSE c
<1>1. Steady(c, d, M)
  <2>1. Steady(c, Spawn(c, "TIMEOUT", m), M) /\ Steady(c, c, M)
    BY SteadySpawn, SteadyItself DEF EventNames
  <2> QED
    BY <2>1
<1>2. TimeOut(c, self, m) = SendDeath(d, self, m) \/ TimeOut(c, self, m) = SendCancel(d, self, m)
  BY DEF TimeOut
<1> HIDE DEF d
<1>3. d \in Context
  BY <1>1, SteadyTypes
<1>4. Steady(d, SendDeath(d, self, m).ctx, M) /\ Steady(d, SendCancel(d, self, m).ctx, M)
  BY <1>3, SteadyDeath, SteadyCancel
<1> QED
  BY <1>1, <1>2, <1>4, SteadyTwice

(* A received packet makes its receiver busy with nobody; and nobody comes *)
(* into a list twice, unless a host tells a child of another one.          *)
Tells(c, p) == c.mode = "CHILD" /\ (p.op = "BIRTH" \/ DOMAIN p.siblings # {})

LEMMA ActedOn ==
    ASSUME NEW n \in Nodes, NEW c \in Context, NEW p \in PacketRecord, NEW M, p.from \in M
    PROVE  /\ Idler(c, ActOn(c, n, p).ctx)
           /\ ~Tells(c, p) => Steady(c, ActOn(c, n, p).ctx, M)
<1> DEFINE r == ActOn(c, n, p)
<1> SUFFICES Idler(c, r.ctx) /\ (~Tells(c, p) => Steady(c, r.ctx, M))
  OBVIOUS
<1>1. /\ p.from \in Nodes /\ p.mac \in Nodes /\ p.siblings \in Seq(Nodes)
      /\ p.op \in {"HELLO", "JOIN", "ACCEPT", "CANCEL", "BULK", "BIRTH", "DEATH", "BYE"}
  BY DEF PacketRecord
<1>2. ASSUME NEW d, Steady(c, d, M), r.ctx = d
      PROVE  Idler(c, r.ctx) /\ (~Tells(c, p) => Steady(c, r.ctx, M))
  <2> HIDE DEF r
  <2> QED
    BY <1>2 DEF Steady
<1>4. CASE p.op = "HELLO"
  <2>1. r.ctx = ActOnHello(c, p.from)
    BY <1>4, ResultIs DEF ActOn
  <2> HIDE DEF r
  <2> QED
    BY <1>1, <1>2, <2>1, SteadyHello
<1>5. CASE p.op = "JOIN"
  <2>1. r.ctx = ActOnJoin(c, n, p.from).ctx
    BY <1>5 DEF ActOn
  <2> HIDE DEF r
  <2> QED
    BY <1>1, <1>2, <2>1, SteadyJoin
<1>6. CASE p.op = "ACCEPT"
  <2>1. r.ctx = ActOnAccept(c, n, p.from, p.siblings)
    BY <1>6, ResultIs DEF ActOn
  <2> HIDE DEF r
  <2> QED
    BY <1>1, <2>1, SteadyAccept DEF Tells
<1>7. CASE p.op = "CANCEL"
  <2>1. r.ctx = ActOnCancel(c, n, p.from)
    BY <1>7, ResultIs DEF ActOn
  <2> HIDE DEF r
  <2> QED
    BY <1>1, <1>2, <2>1, SteadyCancelled
<1>8. CASE p.op = "BULK"
  <2>1. r.ctx = ActOnBulk(c, p.from)
    BY <1>8, ResultIs DEF ActOn
  <2> HIDE DEF r
  <2> QED
    BY <1>1, <1>2, <2>1, SteadyBulk
<1>9. CASE p.op = "BIRTH"
  <2>1. r.ctx = ActOnBirth(c, p.from, p.mac)
    BY <1>9, ResultIs DEF ActOn
  <2> HIDE DEF r
  <2> QED
    BY <1>1, <1>9, <2>1, IdlerBirth DEF Tells
<1>10. CASE p.op = "DEATH"
  <2>1. r.ctx = ActOnDeath(c, p.from, p.mac)
    BY <1>10, ResultIs DEF ActOn
  <2> HIDE DEF r
  <2> QED
    BY <1>1, <1>2, <2>1, SteadyDead
<1>11. CASE p.op = "BYE"
  <2>1. r.ctx = ActOnBye(c, n, p.from)
    BY <1>11, ResultIs DEF ActOn
  <2> HIDE DEF r
  <2> QED
    BY <1>1, <1>2, <2>1, SteadyBye
<1> HIDE DEF r
<1> QED
  BY <1>1, <1>4, <1>5, <1>6, <1>7, <1>8, <1>9, <1>10, <1>11

-----------------------------------------------------------------------------
(* What is sent where a host has one partner, the only node of W, at most: *)
(* nobody is told of a third.                                              *)
Lone(n, W) == n \notin W /\ \A a, b \in W : a = b

Close(c, W) ==
    /\ c.mode = "PARENT" => Members(c) \subseteq W /\ \A i \in DOMAIN c.input : c.input[i].mac \in W
    /\ c.mode # "PARENT" => \A i \in DOMAIN c.input : c.input[i].op # "BIRTH"

Curtly(n, mode, p) ==
    /\ p.from = n /\ p.op # "BIRTH" /\ DOMAIN p.siblings = {}
    /\ mode = "PARENT" => p.to # n

Curt(n, mode, out) == out \in Seq(PacketRecord) /\ \A i \in DOMAIN out : Curtly(n, mode, out[i])

LEMMA CurtNone == ASSUME NEW n, NEW mode PROVE Curt(n, mode, <<>>)
<1>1. <<>> \in Seq(PacketRecord) /\ DOMAIN <<>> = {}
  OBVIOUS
<1> QED
  BY <1>1 DEF Curt

LEMMA CurtBoth ==
    ASSUME NEW n, NEW mode, NEW s, NEW t, Curt(n, mode, s), Curt(n, mode, t)
    PROVE  Curt(n, mode, s \o t)
<1>1. s \in Seq(PacketRecord) /\ t \in Seq(PacketRecord)
  BY DEF Curt
<1>2. /\ s \o t \in Seq(PacketRecord) /\ Len(s \o t) = Len(s) + Len(t)
      /\ \A i \in 1..(Len(s) + Len(t)) : (s \o t)[i] = IF i <= Len(s) THEN s[i] ELSE t[i - Len(s)]
  BY <1>1, ConcatProperties
<1> DEFINE u == s \o t
<1> HIDE DEF u
<1>3. /\ u \in Seq(PacketRecord) /\ DOMAIN u = 1..(Len(s) + Len(t))
      /\ Len(s) \in Nat /\ Len(t) \in Nat /\ DOMAIN s = 1..Len(s) /\ DOMAIN t = 1..Len(t)
  BY <1>1, <1>2 DEF u
<1>4. ASSUME NEW i \in 1..(Len(s) + Len(t))
      PROVE  \/ i \in DOMAIN s /\ u[i] = s[i]
             \/ i - Len(s) \in DOMAIN t /\ u[i] = t[i - Len(s)]
  <2>1. u[i] = IF i <= Len(s) THEN s[i] ELSE t[i - Len(s)]
    BY <1>2 DEF u
  <2> QED
    BY <1>3, <2>1
<1>5. Curt(n, mode, u)
  BY <1>3, <1>4 DEF Curt
<1> QED
  BY <1>5 DEF u

LEMMA CurtPacket ==
    ASSUME NEW n \in Nodes, NEW m \in Nodes, NEW op \in Kinds, op # "BIRTH", NEW k \in Nodes, NEW mode,
           mode = "PARENT" => m # n, NEW siblings \in Seq(Nodes), DOMAIN siblings = {}
    PROVE  /\ \A p \in {Packet(n, m, op), About(n, m, op, k), [Packet(n, m, op) EXCEPT !.siblings = siblings]} :
                 p \in PacketRecord /\ Curtly(n, mode, p)
<1>1. <<>> \in Seq(Nodes) /\ DOMAIN <<>> = {}
  OBVIOUS
<1>2. Packet(n, m, op) \in PacketRecord /\ Curtly(n, mode, Packet(n, m, op))
  BY <1>1 DEF Packet, PacketRecord, Kinds, Curtly
<1>3. About(n, m, op, k) \in PacketRecord /\ Curtly(n, mode, About(n, m, op, k))
  BY <1>1 DEF Packet, About, PacketRecord, Kinds, Curtly
<1>4. LET p == [Packet(n, m, op) EXCEPT !.siblings = siblings]
      IN  p \in PacketRecord /\ Curtly(n, mode, p)
  BY DEF Packet, PacketRecord, Kinds, Curtly
<1> QED
  BY <1>2, <1>3, <1>4

LEMMA CurtOne ==
    ASSUME NEW n, NEW mode, NEW p \in PacketRecord, Curtly(n, mode, p)
    PROVE  Curt(n, mode, <<p>>)
<1>1. <<p>> \in Seq(PacketRecord) /\ DOMAIN <<p>> = {1} /\ <<p>>[1] = p
  OBVIOUS
<1> QED
  BY <1>1 DEF Curt

LEMMA CurtTo ==
    ASSUME NEW n \in Nodes, NEW m \in Nodes, NEW op \in Kinds, op # "BIRTH", NEW mode,
           mode = "PARENT" => m # n
    PROVE  Curt(n, mode, <<Packet(n, m, op)>>)
<1>1. <<>> \in Seq(Nodes) /\ DOMAIN <<>> = {}
  OBVIOUS
<1> DEFINE p == Packet(n, m, op)
<1>2. p \in PacketRecord /\ Curtly(n, mode, p)
  BY <1>1, CurtPacket
<1> HIDE DEF p
<1>3. Curt(n, mode, <<p>>)
  BY <1>2, CurtOne
<1> QED
  BY <1>3 DEF p

LEMMA CurtForAll ==
    ASSUME NEW n \in Nodes, NEW c \in Context, NEW I \in SUBSET DOMAIN c.peers,
           NEW op \in Kinds, op # "BIRTH", NEW m \in Nodes, c.mode = "PARENT" => n \notin Members(c)
    PROVE  LET told == Picked(c.peers, I)
           IN  /\ Curt(n, c.mode, [i \in DOMAIN told |-> Packet(n, told[i].mac, op)])
               /\ Curt(n, c.mode, [i \in DOMAIN told |-> About(n, told[i].mac, op, m)])
<1> DEFINE told == Picked(c.peers, I)
           s == [i \in DOMAIN told |-> Packet(n, told[i].mac, op)]
           t == [i \in DOMAIN told |-> About(n, told[i].mac, op, m)]
           K == Cardinality(I)
<1>1. c.peers \in Seq(PeerRecord)
  BY DEF Context
<1>2. told \in Seq(PeerRecord) /\ DOMAIN told = 1..K /\ K \in Nat
      /\ \A k \in 1..K : Nth(I, k) \in I /\ told[k] = c.peers[Nth(I, k)]
  BY <1>1, PickedFacts
<1> HIDE DEF told, K
<1> HIDE DEF s, t
<1>3. \A i \in 1..K : told[i].mac \in Nodes /\ told[i].mac \in Members(c)
  <2> SUFFICES ASSUME NEW i \in 1..K PROVE told[i].mac \in Nodes /\ told[i].mac \in Members(c)
    OBVIOUS
  <2>1. told[i] \in PeerRecord
    BY <1>2
  <2> QED
    BY <1>2, <2>1 DEF PeerRecord, Members
<1>4. <<>> \in Seq(Nodes) /\ DOMAIN <<>> = {}
  OBVIOUS
<1>5. \A i \in 1..K : /\ Packet(n, told[i].mac, op) \in PacketRecord
                      /\ Curtly(n, c.mode, Packet(n, told[i].mac, op))
                      /\ About(n, told[i].mac, op, m) \in PacketRecord
                      /\ Curtly(n, c.mode, About(n, told[i].mac, op, m))
  BY <1>3, <1>4, CurtPacket
<1>6. /\ s \in [1..K -> PacketRecord] /\ t \in [1..K -> PacketRecord]
      /\ \A i \in 1..K : Curtly(n, c.mode, s[i]) /\ Curtly(n, c.mode, t[i])
  BY <1>2, <1>5 DEF s, t
<1>7. s \in Seq(PacketRecord) /\ t \in Seq(PacketRecord)
  BY <1>2, <1>6
<1>8. DOMAIN s = 1..K /\ DOMAIN t = 1..K
  BY <1>6
<1>9. Curt(n, c.mode, s) /\ Curt(n, c.mode, t)
  BY <1>6, <1>7, <1>8 DEF Curt
<1> QED
  BY <1>9 DEF s, t, told

LEMMA CurtByes ==
    ASSUME NEW c \in Context, NEW n \in Nodes, c.mode = "PARENT" => n \notin Members(c)
    PROVE  Curt(n, c.mode, SendByes(c, n))
<1> DEFINE I == PlacesOf(c, Established)
<1>1. I \in SUBSET DOMAIN c.peers
  BY DEF PlacesOf
<1>2. "BYE" \in Kinds
  BY DEF Kinds
<1> HIDE DEF I
<1>3. LET told == Picked(c.peers, I)
      IN  Curt(n, c.mode, [i \in DOMAIN told |-> Packet(n, told[i].mac, "BYE")])
  BY <1>1, <1>2, CurtForAll
<1> QED
  BY <1>3 DEF SendByes, I

(* A host's only partner has no siblings.                                  *)
LEMMA NoOthers ==
    ASSUME NEW c \in Context, NEW n, NEW W, Lone(n, W), Members(c) \subseteq W, NEW m \in W
    PROVE  DOMAIN OtherChildren(c, m) = {}
<1> DEFINE I == PlacesOf(c, {"CHILD"}) \cap OtherPlaces(c, m)
<1>1. I = {}
  BY DEF Lone, Members, PlacesOf, OtherPlaces
<1>2. c.peers \in Seq(PeerRecord) /\ I \in SUBSET DOMAIN c.peers
  BY DEF Context, PlacesOf
<1>3. OtherChildren(c, m) = Picked(c.peers, I)
  BY DEF OtherChildren
<1> HIDE DEF I
<1>4. DOMAIN Picked(c.peers, I) = 1..Cardinality(I)
  BY <1>2, PickedFacts
<1>5. Cardinality({}) = 0
  BY FS_EmptySet
<1> QED
  BY <1>1, <1>3, <1>4, <1>5

LEMMA CurtTold ==
    ASSUME NEW c \in Context, NEW n \in Nodes, NEW m \in Nodes, NEW W, Lone(n, W),
           c.mode = "PARENT" => Members(c) \subseteq W /\ m \in W,
           NEW op \in {"BIRTH", "DEATH"}, op = "BIRTH" => c.mode = "PARENT"
    PROVE  Curt(n, c.mode, TellChildren(c, n, m, op))
<1>1. CASE c.mode = "PARENT"
  <2> DEFINE out == TellChildren(c, n, m, op)
  <2>1. DOMAIN OtherChildren(c, m) = {}
    BY <1>1, NoOthers
  <2>2. DOMAIN out = {}
    BY <2>1 DEF TellChildren
  <2>3. Fine(n, out, {})
    BY TellChildrenIsFine
  <2> HIDE DEF out
  <2>4. Curt(n, c.mode, out)
    BY <2>2, <2>3 DEF Fine, Curt
  <2> QED
    BY <2>4 DEF out
<1>2. CASE c.mode # "PARENT"
  <2> DEFINE I == PlacesOf(c, {"CHILD"}) \cap OtherPlaces(c, m)
  <2>1. I \in SUBSET DOMAIN c.peers
    BY DEF PlacesOf
  <2>2. op \in Kinds /\ op # "BIRTH"
    BY <1>2 DEF Kinds
  <2> HIDE DEF I
  <2>3. LET told == Picked(c.peers, I)
        IN  Curt(n, c.mode, [i \in DOMAIN told |-> About(n, told[i].mac, op, m)])
    BY <1>2, <2>1, <2>2, CurtForAll
  <2> QED
    BY <2>3 DEF TellChildren, OtherChildren, I
<1> QED
  BY <1>1, <1>2

LEMMA CurtAccept ==
    ASSUME NEW c \in Context, NEW n \in Nodes, NEW m \in Nodes, NEW W, Lone(n, W),
           c.mode = "PARENT" => Members(c) \subseteq W /\ m \in W
    PROVE  Curt(n, c.mode, SendAccept(c, n, m).out)
<1> DEFINE p == [Packet(n, m, "ACCEPT") EXCEPT !.siblings = SiblingsOf(c, m)]
<1>1. SendAccept(c, n, m).out = <<p>> \/ SendAccept(c, n, m).out = <<>>
  BY ResultIs DEF SendAccept
<1>2. SiblingsOf(c, m) \in Seq(Nodes)
  BY SiblingsAreNodes
<1>3. DOMAIN SiblingsOf(c, m) = {}
  <2>1. CASE c.mode = "PARENT"
    <3>1. DOMAIN OtherChildren(c, m) = {}
      BY <2>1, NoOthers
    <3> QED
      BY <2>1, <3>1 DEF SiblingsOf
  <2>2. CASE c.mode # "PARENT"
    <3>1. DOMAIN <<>> = {}
      OBVIOUS
    <3> QED
      BY <2>2, <3>1 DEF SiblingsOf
  <2> QED
    BY <2>1, <2>2
<1>4. "ACCEPT" \in Kinds /\ (c.mode = "PARENT" => m # n)
  BY DEF Kinds, Lone
<1>5. p \in PacketRecord /\ Curtly(n, c.mode, p)
  <2> DEFINE s == SiblingsOf(c, m)
  <2> HIDE DEF s
  <2>1. LET q == [Packet(n, m, "ACCEPT") EXCEPT !.siblings = s]
        IN  q \in PacketRecord /\ Curtly(n, c.mode, q)
    BY <1>2, <1>3, <1>4, CurtPacket DEF s
  <2> QED
    BY <2>1 DEF s
<1> HIDE DEF p
<1> QED
  BY <1>1, <1>5, CurtOne, CurtNone

LEMMA CurtCancel ==
    ASSUME NEW c, NEW n \in Nodes, NEW m \in Nodes, NEW mode, mode = "PARENT" => m # n
    PROVE  Curt(n, mode, SendCancel(c, n, m).out)
<1>1. SendCancel(c, n, m).out = <<Packet(n, m, "CANCEL")>>
  BY ResultIs DEF SendCancel
<1>2. Curt(n, mode, <<Packet(n, m, "CANCEL")>>)
  BY CurtTo DEF Kinds
<1> QED
  BY <1>1, <1>2

LEMMA CurtDeath ==
    ASSUME NEW c \in Context, NEW n \in Nodes, NEW m \in Nodes, NEW W, Lone(n, W),
           c.mode = "PARENT" => Members(c) \subseteq W /\ m \in W
    PROVE  Curt(n, c.mode, SendDeath(c, n, m).out)
<1> DEFINE bye == <<Packet(n, m, "BYE")>>
           told == TellChildren(c, n, m, "DEATH")
<1>1. SendDeath(c, n, m).out = bye \o told \/ SendDeath(c, n, m).out = <<>>
  <2> DEFINE d == DeletePeer(c, m)
             both == bye \o told
             r == SendDeath(c, n, m)
  <2> SUFFICES r.out = both \/ r.out = <<>>
    OBVIOUS
  <2>1. r = Result(d, both) \/ r = Result(c, <<>>)
    BY DEF SendDeath
  <2> HIDE DEF d, both, r
  <2> QED
    BY <2>1, ResultIs
<1>2. Curt(n, c.mode, bye)
  BY CurtTo DEF Kinds, Lone
<1>3. Curt(n, c.mode, told)
  BY CurtTold
<1> HIDE DEF bye, told
<1>4. Curt(n, c.mode, bye \o told)
  BY <1>2, <1>3, CurtBoth
<1> QED
  BY <1>1, <1>4, CurtNone

LEMMA CurtMessage ==
    ASSUME NEW c \in Context, NEW n \in Nodes, NEW msg \in [op : MessageOps, mac : Nodes],
           NEW W, Lone(n, W), c.mode = "PARENT" => Members(c) \subseteq W /\ msg.mac \in W,
           c.mode # "PARENT" => msg.op # "BIRTH"
    PROVE  Curt(n, c.mode, SendMessage(c, n, msg).out)
<1> DEFINE m == msg.mac
           r == SendMessage(c, n, msg)
<1> SUFFICES Curt(n, c.mode, r.out)
  OBVIOUS
<1>1. m \in Nodes /\ msg.op \in {"JOIN", "ACCEPT", "CANCEL", "BULK", "BULK_ABORT", "BIRTH", "DEATH"}
      /\ (c.mode = "PARENT" => m # n)
  BY DEF MessageOps, Lone
<1>2. \A op \in {"JOIN", "BULK"} : Curt(n, c.mode, <<Packet(n, m, op)>>)
  BY <1>1, CurtTo DEF Kinds
<1>3. Curt(n, c.mode, <<>>)
  BY CurtNone
<1>4. CASE msg.op = "ACCEPT"
  <2>1. r = SendAccept(c, n, m)
    BY <1>4 DEF SendMessage
  <2> HIDE DEF r
  <2> QED
    BY <1>1, <2>1, CurtAccept
<1>5. CASE msg.op = "JOIN"
  <2>1. r = SendJoin(c, n, m)
    BY <1>5 DEF SendMessage
  <2> HIDE DEF r
  <2>2. r.out = <<Packet(n, m, "JOIN")>> \/ r.out = <<>>
    BY <2>1, ResultIs DEF SendJoin
  <2> QED
    BY <1>2, <1>3, <2>2
<1>6. CASE msg.op = "CANCEL"
  <2>1. r = SendCancel(c, n, m)
    BY <1>6 DEF SendMessage
  <2> HIDE DEF r
  <2> QED
    BY <1>1, <2>1, CurtCancel
<1>7. CASE msg.op = "BULK"
  <2>1. r = SendBulk(c, n, m)
    BY <1>7 DEF SendMessage
  <2> HIDE DEF r
  <2>2. r.out = <<Packet(n, m, "BULK")>> \/ r.out = <<>>
    <3> DEFINE d == Spawn(SetSending(c, m, FALSE), "DATA_ACK", m)
    <3>1. r = Result(d, <<Packet(n, m, "BULK")>>) \/ r = Result(c, <<>>)
      BY <2>1 DEF SendBulk
    <3> HIDE DEF d
    <3> QED
      BY <3>1, ResultIs
  <2> QED
    BY <1>2, <1>3, <2>2
<1>8. CASE msg.op = "BIRTH"
  <2>1. r = SendBirth(c, n, m)
    BY <1>8 DEF SendMessage
  <2> HIDE DEF r
  <2>2. r.out = TellChildren(c, n, m, "BIRTH") \/ r.out = <<>>
    BY <2>1, ResultIs DEF SendBirth
  <2>3. Curt(n, c.mode, TellChildren(c, n, m, "BIRTH"))
    BY <1>1, <1>8, CurtTold
  <2> QED
    BY <1>3, <2>2, <2>3
<1>9. CASE msg.op = "DEATH"
  <2>1. r = SendDeath(c, n, m)
    BY <1>9 DEF SendMessage
  <2> HIDE DEF r
  <2> QED
    BY <1>1, <2>1, CurtDeath
<1>10. CASE msg.op = "BULK_ABORT"
  <2>1. r = Result(c, <<>>)
    BY <1>10 DEF SendMessage
  <2> HIDE DEF r
  <2> QED
    BY <1>3, <2>1, ResultIs
<1> HIDE DEF r
<1> QED
  BY <1>1, <1>4, <1>5, <1>6, <1>7, <1>8, <1>9, <1>10

LEMMA CurtActs ==
    ASSUME NEW c \in Context, NEW n \in Nodes, NEW p \in PacketRecord, NEW W, Lone(n, W),
           c.mode = "PARENT" => p.from \in W
    PROVE  Curt(n, c.mode, ActOn(c, n, p).out)
<1> DEFINE r == ActOn(c, n, p)
<1> SUFFICES Curt(n, c.mode, r.out)
  OBVIOUS
<1>1. /\ p.from \in Nodes /\ (c.mode = "PARENT" => p.from # n)
      /\ p.op \in {"HELLO", "JOIN", "ACCEPT", "CANCEL", "BULK", "BIRTH", "DEATH", "BYE"}
  BY DEF PacketRecord, Lone
<1>2. Curt(n, c.mode, <<>>)
  BY CurtNone
<1>3. CASE p.op = "JOIN"
  <2>1. r = ActOnJoin(c, n, p.from)
    BY <1>3 DEF ActOn
  <2> HIDE DEF r
  <2>2. r = SendCancel(c, n, p.from) \/ r.out = <<>>
    BY <2>1, ResultIs DEF ActOnJoin
  <2>3. Curt(n, c.mode, SendCancel(c, n, p.from).out)
    BY <1>1, CurtCancel
  <2> QED
    BY <1>2, <2>2, <2>3
<1>4. CASE p.op # "JOIN"
  <2>1. r.out = <<>>
    <3>1. /\ p.op = "HELLO" => r.out = <<>>
          /\ p.op = "ACCEPT" => r.out = <<>>
          /\ p.op = "CANCEL" => r.out = <<>>
          /\ p.op = "BULK" => r.out = <<>>
          /\ p.op = "BIRTH" => r.out = <<>>
          /\ p.op = "DEATH" => r.out = <<>>
          /\ p.op = "BYE" => r.out = <<>>
      BY ResultIs DEF ActOn
    <3> HIDE DEF r
    <3> QED
      BY <1>1, <1>4, <3>1
  <2> HIDE DEF r
  <2> QED
    BY <1>2, <2>1
<1> QED
  BY <1>3, <1>4

LEMMA CurtTimeOut ==
    ASSUME NEW c \in Context, NEW n \in Nodes, NEW m \in Nodes, Known(c, m), NEW W, Lone(n, W),
           c.mode = "PARENT" => Members(c) \subseteq W
    PROVE  Curt(n, c.mode, TimeOut(c, n, m).out)
<1> DEFINE d == IF TimeoutIsTold(c, m) THEN Spawn(c, "TIMEOUT", m) ELSE c
<1>1. d \in Context /\ d.mode = c.mode /\ d.peers = c.peers
  <2>1. Calm(c, Spawn(c, "TIMEOUT", m)) /\ Spawn(c, "TIMEOUT", m).peers = c.peers
    BY SpawnIsCalm DEF EventNames
  <2> QED
    BY <2>1 DEF Calm, SameButList
<1>2. \/ TimeOut(c, n, m) = SendDeath(d, n, m)
      \/ TimeOut(c, n, m) = SendCancel(d, n, m) /\ c.mode # "PARENT"
  BY DEF TimeOut
<1> HIDE DEF d
<1>3. Members(d) = Members(c) /\ m \in Members(c)
  BY <1>1, PlaceIs DEF Members
<1>4. Curt(n, d.mode, SendDeath(d, n, m).out)
  BY <1>1, <1>3, CurtDeath
<1>5. c.mode # "PARENT" => Curt(n, c.mode, SendCancel(d, n, m).out)
  BY CurtCancel
<1> QED
  BY <1>1, <1>2, <1>4, <1>5

-----------------------------------------------------------------------------
(* The whole stack: whoever a message waited for is busy no more.          *)
LEMMA StackEmptied ==
    ASSUME NEW c \in Context, NEW n \in Nodes, NEW W
    PROVE  LET r == DrainInput(c, n)
           IN  /\ Steady([c EXCEPT !.input = <<>>], r.ctx, {})
               /\ Once(c) => \A k \in DOMAIN c.input : c.input[k].op = "BULK" => c.input[k].mac \notin Busy(r.ctx)
               /\ Lone(n, W) /\ Close(c, W) => Curt(n, c.mode, r.out)
<1> DEFINE N == Len(c.input)
           d == [c EXCEPT !.input = <<>>]
           start == Result(d, <<>>)
           Freed(e, i) == \A k \in 1..i : c.input[k].op = "BULK" => c.input[k].mac \notin Busy(e)
           Good(r, i) == /\ Steady(d, r.ctx, {})
                         /\ Once(c) => Freed(r.ctx, i)
                         /\ Lone(n, W) /\ Close(c, W) => Curt(n, c.mode, r.out)
<1>1. c.input \in Seq([op : MessageOps, mac : Nodes]) /\ N \in Nat /\ DOMAIN c.input = 1..N
  <2>1. c.input \in Seq([op : MessageOps, mac : Nodes])
    BY DEF Context
  <2> QED
    BY <2>1
<1>2. PICK after : /\ after[0] = start
                   /\ \A i \in 1..N : after[i] = SendNext(after[i - 1], n, c.input[i])
                   /\ DrainInput(c, n) = after[N]
  BY <1>1, DrainUnfolds
<1>3. d \in Context /\ d.mode = c.mode /\ d.peers = c.peers
  <2>1. <<>> \in Seq([op : MessageOps, mac : Nodes])
    OBVIOUS
  <2> QED
    BY <2>1 DEF Context
<1>4. \A i \in 1..N : c.input[i] \in [op : MessageOps, mac : Nodes]
  <2> DEFINE in == c.input
             T == [op : MessageOps, mac : Nodes]
  <2>1. in \in Seq(T) /\ DOMAIN in = 1..N /\ N = Len(in)
    BY <1>1
  <2> HIDE DEF in, T, N
  <2>2. \A i \in 1..N : in[i] \in T
    BY <2>1
  <2> QED
    BY <2>2 DEF in, T
<1> HIDE DEF d, start, N
<1>5. start.ctx = d /\ start.out = <<>>
  BY ResultIs DEF start
<1>6. Good(start, 0)
  <2>1. 1..0 = {}
    OBVIOUS
  <2>2. Steady(d, d, {}) /\ Curt(n, c.mode, <<>>)
    BY <1>3, SteadyItself, CurtNone
  <2> QED
    BY <1>5, <2>1, <2>2
<1>7. ASSUME NEW i \in 1..N, NEW r, Good(r, i - 1)
      PROVE  Good(SendNext(r, n, c.input[i]), i)
  <2> DEFINE msg == c.input[i]
             e == r.ctx
             s == SendMessage(e, n, msg)
             t == SendNext(r, n, msg)
  <2> SUFFICES Good(t, i)
    OBVIOUS
  <2>1. msg \in [op : MessageOps, mac : Nodes]
    BY <1>4
  <2>2. Steady(d, e, {}) /\ (Once(c) => Freed(e, i - 1))
        /\ (Lone(n, W) /\ Close(c, W) => Curt(n, c.mode, r.out))
    BY <1>7
  <2>3. t.ctx = s.ctx /\ t.out = r.out \o s.out
    BY ResultIs DEF SendNext
  <2> HIDE DEF t
  <2>4. e \in Context /\ e.mode = c.mode
    BY <1>3, <2>2, SteadyTypes
  <2> HIDE DEF e
  <2>5. Steady(e, s.ctx, {}) /\ (Once(e) /\ msg.op = "BULK" => msg.mac \notin Busy(s.ctx))
    <3> HIDE DEF msg
    <3> QED
      BY <2>1, <2>4, SteadyMessage
  <2>6. Steady(d, s.ctx, {})
    BY <2>2, <2>5, SteadyTwice
  <2>7. Once(c) => Freed(s.ctx, i)
    <3> SUFFICES ASSUME Once(c), NEW k \in 1..i, c.input[k].op = "BULK"
                 PROVE  c.input[k].mac \notin Busy(s.ctx)
      OBVIOUS
    <3>1. Once(e)
      <4>1. Once(d)
        BY <1>3 DEF Once
      <4> QED
        BY <2>2, <4>1 DEF Steady
    <3>2. CASE k = i
      BY <2>5, <3>1, <3>2
    <3>3. CASE k # i
      <4>1. k \in 1..(i - 1)
        BY <1>1, <3>3
      <4>2. c.input[k].mac \notin Busy(e)
        BY <2>2, <4>1
      <4> HIDE DEF s
      <4> QED
        BY <2>5, <4>2 DEF Steady, Idler
    <3> QED
      BY <3>2, <3>3
  <2>8. ASSUME Lone(n, W), Close(c, W)
        PROVE  Curt(n, c.mode, r.out \o s.out)
    <3>1. Members(d) = Members(c)
      BY <1>3 DEF Members
    <3>2. c.mode = "PARENT" => Members(e) \subseteq W /\ msg.mac \in W
      BY <1>1, <1>3, <2>2, <2>8, <3>1 DEF Steady, Close
    <3>3. c.mode # "PARENT" => msg.op # "BIRTH"
      BY <1>1, <2>8 DEF Close
    <3>4. Curt(n, e.mode, s.out)
      <4> HIDE DEF msg
      <4> QED
        BY <2>1, <2>4, <2>8, <3>2, <3>3, CurtMessage
    <3> HIDE DEF s
    <3> QED
      BY <2>2, <2>4, <2>8, <3>4, CurtBoth
  <2> HIDE DEF s, Freed
  <2> QED
    BY <2>3, <2>6, <2>7, <2>8
<1> HIDE DEF Good
<1>8. \A i \in 0..N : Good(after[i], i)
  <2> DEFINE Bad == {i \in 0..N : ~Good(after[i], i)}
             b == Min(Bad)
  <2> SUFFICES ASSUME Bad # {}
               PROVE  FALSE
    OBVIOUS
  <2>0. Bad \in SUBSET Nat
    BY <1>1
  <2>1. b \in Bad /\ \A i \in Bad : b <= i
    BY <2>0, MinIn
  <2> HIDE DEF b
  <2>2. b \in 0..N /\ ~Good(after[b], b)
    BY <2>1
  <2>3. b # 0
    BY <1>2, <1>6, <2>2
  <2>4. b \in 1..N /\ b - 1 \in 0..N
    BY <1>1, <2>2, <2>3
  <2>5. b - 1 \notin Bad
    <3> HIDE DEF Bad
    <3> QED
      BY <2>1, <2>4, <1>1
  <2>6. Good(after[b - 1], b - 1)
    BY <2>4, <2>5
  <2>7. after[b] = SendNext(after[b - 1], n, c.input[b])
    BY <1>2, <2>4
  <2>8. Good(SendNext(after[b - 1], n, c.input[b]), b)
    BY <1>7, <2>4, <2>6
  <2> QED
    BY <2>2, <2>7, <2>8
<1>9. Good(after[N], N)
  BY <1>1, <1>8
<1> QED
  BY <1>1, <1>2, <1>9 DEF Good, d

-----------------------------------------------------------------------------
(* The invariant, for the scenario s: who is sure is busy with no peer     *)
(* without a message to it in the stack; as a message frees one entry only,*)
(* it lists no peer twice.  A child that is told of siblings may.          *)
Cast(s, n) == IF n \in DOMAIN s.modes THEN s.modes[n] ELSE "CHILD"
Partners(s, n) == DOMAIN s.modes \ {n}

(* Two players and their data.                                             *)
Cramped(s) == "Send" \in s.calls /\ \E x, y \in Nodes : DOMAIN s.modes \subseteq {x, y}

Sure(s, c) == c.mode # "CHILD" \/ Cramped(s)

Occupied(c) == Once(c) /\ \A m \in Busy(c) : Waits(c, "BULK", m)

Well(s, n, c) ==
    /\ c.mode = Cast(s, n) /\ (c.phase # "none" => n \in DOMAIN s.modes)
    /\ IF "Send" \in s.calls THEN Sure(s, c) => Occupied(c) ELSE Busy(c) = {}
    /\ Cramped(s) => Close(c, Partners(s, n))

(* A datagram for n that brings nobody into its list but the sender.       *)
Brief(s, n, p) ==
    /\ p.op # "BIRTH" /\ DOMAIN p.siblings = {}
    /\ Cast(s, n) = "PARENT" => p.from \in Partners(s, n)

Terse(s, n, box) == box \in Seq(PacketRecord) /\ \A i \in DOMAIN box : Brief(s, n, box[i])

BusyIn(s, F, B) == \A n \in Nodes : Well(s, n, F[n]) /\ (Cramped(s) => Terse(s, n, B[n]))

BusyInv == BusyIn(scenario, ctx, inbox)

LEMMA PartnersAreOne ==
    ASSUME NEW s, Cramped(s), NEW n \in DOMAIN s.modes
    PROVE  Lone(n, Partners(s, n))
<1>1. PICK x \in Nodes, y \in Nodes : DOMAIN s.modes \subseteq {x, y}
  BY DEF Cramped
<1> QED
  BY <1>1 DEF Lone, Partners

LEMMA WellSteady ==
    ASSUME NEW s, NEW n, NEW c, Well(s, n, c), NEW d, NEW M, Steady(c, d, M),
           Cramped(s) /\ c.mode = "PARENT" => M \subseteq Partners(s, n)
    PROVE  Well(s, n, d)
<1>1. d.mode = c.mode /\ d.phase = c.phase /\ d.input = c.input /\ Busy(d) \subseteq Busy(c)
      /\ (Once(c) => Once(d)) /\ (c.mode # "CHILD" => Members(d) \subseteq Members(c) \cup M)
  BY DEF Steady, Idler, SameButList
<1>2. (Occupied(c) => Occupied(d)) /\ (Sure(s, c) <=> Sure(s, d))
  BY <1>1 DEF Occupied, Waits, Sure
<1>3. Cramped(s) => Close(d, Partners(s, n))
  BY <1>1 DEF Well, Close
<1> QED
  BY <1>1, <1>2, <1>3 DEF Well

LEMMA WellIdle ==
    ASSUME NEW s, NEW n, NEW c, Well(s, n, c), NEW d, Idler(c, d), "Send" \notin s.calls
    PROVE  Well(s, n, d)
BY DEF Well, Idler, SameButList, Cramped

LEMMA WellUnsure ==
    ASSUME NEW s, NEW n, NEW c, Well(s, n, c), NEW d, Idler(c, d), "Send" \in s.calls, ~Sure(s, c)
    PROVE  Well(s, n, d)
BY DEF Well, Sure, Idler, SameButList

(* Only what a context lists, and what waits in its input, counts.         *)
LEMMA WellElse ==
    ASSUME NEW s, NEW n, NEW c, Well(s, n, c), NEW d, d.mode = c.mode,
           d.phase # "none" => n \in DOMAIN s.modes, d.peers = c.peers, d.input = c.input
    PROVE  Well(s, n, d)
<1>1. Busy(d) = Busy(c) /\ Once(d) = Once(c) /\ Members(d) = Members(c)
  BY DEF Busy, Once, Members
<1>2. (Occupied(c) => Occupied(d)) /\ (Sure(s, c) <=> Sure(s, d))
  BY <1>1 DEF Occupied, Waits, Sure
<1>3. Cramped(s) => Close(d, Partners(s, n))
  BY <1>1 DEF Well, Close
<1> QED
  BY <1>1, <1>2, <1>3 DEF Well

LEMMA WellAlone ==
    ASSUME NEW s, NEW n, NEW d, d.mode = Cast(s, n), d.phase # "none" => n \in DOMAIN s.modes,
           d.peers = <<>>, d.input = <<>>
    PROVE  Well(s, n, d)
<1>1. DOMAIN d.peers = {} /\ DOMAIN d.input = {}
  OBVIOUS
<1> QED
  BY <1>1 DEF Well, Occupied, Once, Busy, Close, Members

LEMMA PushIs ==
    ASSUME NEW c \in Context, NEW op \in MessageOps, NEW m \in Nodes
    PROVE  LET d == PushInput(c, op, m)
           IN  /\ d \in Context /\ d.mode = c.mode /\ d.phase = c.phase /\ d.peers = c.peers
               /\ Waits(d, op, m) /\ \A o, k : Waits(c, o, k) => Waits(d, o, k)
               /\ \A i \in DOMAIN d.input : \/ d.input[i].op = op /\ d.input[i].mac = m
                                            \/ i - 1 \in DOMAIN c.input /\ d.input[i] = c.input[i - 1]
<1> DEFINE M == [op : MessageOps, mac : Nodes]
           msg == [op |-> op, mac |-> m]
           l == <<msg>> \o c.input
           d == [c EXCEPT !.input = l]
<1>1. c.input \in Seq(M) /\ msg \in M /\ msg.op = op /\ msg.mac = m
  BY DEF Context
<1>2. PushInput(c, op, m) = d
  BY DEF PushInput, Context
<1> HIDE DEF M, msg
<1>3. /\ DOMAIN l = 1..(Len(c.input) + 1) /\ DOMAIN c.input = 1..Len(c.input) /\ Len(c.input) \in Nat
      /\ l[1] = msg /\ \A i \in DOMAIN l : i # 1 => i - 1 \in DOMAIN c.input /\ l[i] = c.input[i - 1]
      /\ \A i \in DOMAIN c.input : i + 1 \in DOMAIN l /\ l[i + 1] = c.input[i]
      /\ 1 \in DOMAIN l /\ l \in Seq(M)
  BY <1>1
<1> HIDE DEF l
<1>4. d \in Context /\ d.mode = c.mode /\ d.phase = c.phase /\ d.peers = c.peers /\ d.input = l
  BY <1>3 DEF Context, M
<1> HIDE DEF d
<1>5. Waits(d, op, m) /\ \A o, k : Waits(c, o, k) => Waits(d, o, k)
  BY <1>1, <1>3, <1>4 DEF Waits
<1> QED
  BY <1>1, <1>2, <1>3, <1>4, <1>5

(* A message is queued, for a peer that may have been made busy for it.    *)
LEMMA WellQueued ==
    ASSUME NEW s, NEW n, NEW c, Well(s, n, c), NEW a \in Context, a.mode = c.mode, a.phase = c.phase,
           a.input = c.input, Once(c) => Once(a), Members(a) \subseteq Members(c),
           NEW op \in MessageOps, NEW m \in Members(c), m \in Nodes,
           op = "BIRTH" => c.mode = "PARENT", op = "BULK" => "Send" \in s.calls,
           \A k \in Busy(a) : k \in Busy(c) \/ (op = "BULK" /\ k = m)
    PROVE  Well(s, n, PushInput(a, op, m)) /\ PushInput(a, op, m) \in Context
<1> DEFINE d == PushInput(a, op, m)
<1>1. /\ d \in Context /\ d.mode = c.mode /\ d.phase = c.phase /\ d.peers = a.peers
      /\ Waits(d, op, m) /\ \A o, k : Waits(a, o, k) => Waits(d, o, k)
      /\ \A i \in DOMAIN d.input : \/ d.input[i].op = op /\ d.input[i].mac = m
                                   \/ i - 1 \in DOMAIN c.input /\ d.input[i] = c.input[i - 1]
  BY PushIs
<1> HIDE DEF d
<1>2. Busy(d) = Busy(a) /\ Once(d) = Once(a) /\ Members(d) = Members(a)
  BY <1>1 DEF Busy, Once, Members
<1>3. \A o, k : Waits(c, o, k) => Waits(d, o, k)
  BY <1>1 DEF Waits
<1>4. ASSUME "Send" \in s.calls, Sure(s, d)
      PROVE  Occupied(d)
  BY <1>1, <1>2, <1>3, <1>4 DEF Well, Occupied, Sure
<1>5. ASSUME "Send" \notin s.calls
      PROVE  Busy(d) = {}
  BY <1>2, <1>5 DEF Well
<1>6. ASSUME Cramped(s)
      PROVE  Close(d, Partners(s, n))
  <2>1. Close(c, Partners(s, n))
    BY <1>6 DEF Well
  <2>2. c.mode = "PARENT" => \A i \in DOMAIN d.input : d.input[i].mac \in Partners(s, n)
    BY <1>1, <2>1 DEF Close
  <2>3. c.mode # "PARENT" => \A i \in DOMAIN d.input : d.input[i].op # "BIRTH"
    BY <1>1, <2>1 DEF Close
  <2> QED
    BY <1>1, <1>2, <2>1, <2>2, <2>3 DEF Close
<1>7. Well(s, n, d)
  BY <1>1, <1>4, <1>5, <1>6 DEF Well
<1> QED
  BY <1>1, <1>7 DEF d

LEMMA WellSteadyQueued ==
    ASSUME NEW s, NEW n, NEW c, Well(s, n, c), NEW a, Steady(c, a, {}), Members(a) \subseteq Members(c),
           NEW op \in MessageOps \ {"BULK"}, NEW m \in Members(c), m \in Nodes, op = "BIRTH" => c.mode = "PARENT"
    PROVE  Well(s, n, PushInput(a, op, m)) /\ PushInput(a, op, m) \in Context
<1>1. /\ a \in Context /\ a.mode = c.mode /\ a.phase = c.phase /\ a.input = c.input /\ (Once(c) => Once(a))
      /\ Members(a) \subseteq Members(c) /\ Busy(a) \subseteq Busy(c)
  BY DEF Steady, Idler, SameButList
<1> QED
  BY <1>1, WellQueued

(* Whom a game's call is about stays in the list.                          *)
LEMMA MembersStay ==
    ASSUME NEW c \in Context, NEW m, NEW state \in PeerStates, NEW flag \in BOOLEAN
    PROVE  /\ Members(SetState(c, m, state)) = Members(c)
           /\ Members(SetJoining(c, m, flag)) = Members(c)
           /\ LET d == SetSending(c, m, flag)
              IN  /\ Members(d) = Members(c) /\ d \in Context /\ d.mode = c.mode /\ d.phase = c.phase
                  /\ d.input = c.input /\ (Once(c) => Once(d)) /\ \A k \in Busy(d) : k \in Busy(c) \/ k = m
<1> DEFINE k == Place(c, m)
           p == c.peers[k]
           R == {[p EXCEPT !.state = state], [p EXCEPT !.joining = flag], [p EXCEPT !.sending = flag]}
<1>1. /\ k \in DOMAIN c.peers => p \in PeerRecord
      /\ k \in DOMAIN c.peers => p.mac = m
  <2>1. Known(c, m) \/ k = 0
    BY DEF Known
  <2>2. 0 \notin DOMAIN c.peers /\ \A i \in DOMAIN c.peers : c.peers[i] \in PeerRecord
    BY DEF Context
  <2>3. Known(c, m) => c.peers[k].mac = m
    BY PlaceIs
  <2> QED
    BY <2>1, <2>2, <2>3
<1>2. \A r \in R : k \in DOMAIN c.peers => r \in PeerRecord /\ r.mac = p.mac
  <2> HIDE DEF p
  <2> QED
    BY <1>1 DEF PeerRecord
<1> DEFINE Same(d) == /\ SameButList(c, d) /\ DOMAIN d.peers = DOMAIN c.peers
                      /\ \A i \in DOMAIN c.peers : /\ d.peers[i].mac = c.peers[i].mac
                                                   /\ i # k => d.peers[i] = c.peers[i]
<1>3. ASSUME NEW r \in R
      PROVE  Same([c EXCEPT !.peers = [@ EXCEPT ![k] = r]])
  <2> DEFINE l == [c.peers EXCEPT ![k] = r]
             d == [c EXCEPT !.peers = l]
  <2>1. [c EXCEPT !.peers = [@ EXCEPT ![k] = r]] = d
    BY DEF Context
  <2>2. k \in DOMAIN c.peers => r \in PeerRecord /\ r.mac = p.mac
    BY <1>2
  <2> HIDE DEF R
  <2>3. /\ l \in Seq(PeerRecord) /\ DOMAIN l = DOMAIN c.peers
        /\ \A i \in DOMAIN c.peers : l[i] = IF i = k THEN r ELSE c.peers[i]
    BY <2>2, ListRewritten
  <2> HIDE DEF l
  <2>4. SameButList(c, d) /\ d.peers = l
    BY <2>3, WithList
  <2> HIDE DEF d
  <2>5. Same(d)
    BY <2>2, <2>3, <2>4
  <2> HIDE DEF Same
  <2> QED
    BY <2>1, <2>5
<1>4. /\ SetState(c, m, state) = [c EXCEPT !.peers = [@ EXCEPT ![k] = [p EXCEPT !.state = state]]]
      /\ SetJoining(c, m, flag) = [c EXCEPT !.peers = [@ EXCEPT ![k] = [p EXCEPT !.joining = flag]]]
      /\ SetSending(c, m, flag) = [c EXCEPT !.peers = [@ EXCEPT ![k] = [p EXCEPT !.sending = flag]]]
  BY DEF SetState, SetJoining, SetSending
<1>5. \A e \in {SetState(c, m, state), SetJoining(c, m, flag), SetSending(c, m, flag)} : Same(e)
  <2> HIDE DEF Same
  <2> QED
    BY <1>3, <1>4
<1> DEFINE d == SetSending(c, m, flag)
<1>6. \A e \in {SetState(c, m, state), SetJoining(c, m, flag), d} : Members(e) = Members(c)
  <2> SUFFICES ASSUME NEW e \in {SetState(c, m, state), SetJoining(c, m, flag), d}
               PROVE  Members(e) = Members(c)
    OBVIOUS
  <2>1. DOMAIN e.peers = DOMAIN c.peers /\ \A i \in DOMAIN c.peers : e.peers[i].mac = c.peers[i].mac
    BY <1>5
  <2> HIDE DEF d
  <2> QED
    BY <2>1 DEF Members
<1>7. /\ SameButList(c, d) /\ DOMAIN d.peers = DOMAIN c.peers
      /\ \A i \in DOMAIN c.peers : d.peers[i].mac = c.peers[i].mac /\ (i # k => d.peers[i] = c.peers[i])
  BY <1>5
<1> HIDE DEF d, k, p, R
<1>8. Once(c) => Once(d)
  BY <1>7 DEF Once
<1>9. \A x \in Busy(d) : x \in Busy(c) \/ x = m
  <2>1. k \in DOMAIN c.peers => c.peers[k].mac = m
    BY <1>1 DEF p
  <2> QED
    BY <1>7, <2>1 DEF Busy
<1> QED
  BY <1>6, <1>7, <1>8, <1>9 DEF SameButList, d

-----------------------------------------------------------------------------
(* The calls of the game.                                                  *)
LEMMA PushedMembers ==
    ASSUME NEW c \in Context, NEW op \in MessageOps, NEW m \in Nodes
    PROVE  LET d == PushInput(c, op, m) IN d \in Context /\ Members(d) = Members(c) /\ d.mode = c.mode
<1> DEFINE d == PushInput(c, op, m)
<1>1. d \in Context /\ d.peers = c.peers /\ d.mode = c.mode
  BY PushIs
<1> HIDE DEF d
<1>2. Members(d) = Members(c)
  BY <1>1 DEF Members
<1> QED
  BY <1>1, <1>2 DEF d

LEMMA OneIsListed == ASSUME NEW c \in Context, NEW m, Known(c, m) PROVE m \in Members(c)
BY PlaceIs DEF Members

LEMMA WellPush ==
    ASSUME NEW s, NEW n, NEW c \in Context, Well(s, n, c), NEW op \in MessageOps \ {"BULK"},
           NEW m \in Members(c), m \in Nodes, op = "BIRTH" => c.mode = "PARENT"
    PROVE  Well(s, n, PushInput(c, op, m))
BY WellQueued

LEMMA StateStays ==
    ASSUME NEW c \in Context, NEW m, NEW state \in PeerStates
    PROVE  LET d == SetState(c, m, state) IN Steady(c, d, {}) /\ Members(d) = Members(c) /\ d \in Context
<1>1. FALSE \in BOOLEAN
  OBVIOUS
<1>2. Steady(c, SetState(c, m, state), {})
  BY <1>1, SteadyFields
<1>3. Members(SetState(c, m, state)) = Members(c)
  <2>1. ASSUME NEW flag \in BOOLEAN
        PROVE  Members(SetState(c, m, state)) = Members(c) /\ Members(SetJoining(c, m, flag)) = Members(c)
    BY MembersStay
  <2> QED
    BY <1>1, <2>1
<1> QED
  BY <1>2, <1>3, SteadyTypes

LEMMA JoiningStays ==
    ASSUME NEW c \in Context, NEW m, NEW flag \in BOOLEAN
    PROVE  LET d == SetJoining(c, m, flag) IN Steady(c, d, {}) /\ Members(d) = Members(c)
<1>1. "OFFER" \in PeerStates
  BY DEF PeerStates
<1>2. Steady(c, SetJoining(c, m, flag), {})
  BY <1>1, SteadyFields
<1>3. Members(SetJoining(c, m, flag)) = Members(c)
  BY <1>1, MembersStay
<1> QED
  BY <1>2, <1>3

LEMMA WellSelects ==
    ASSUME NEW s, NEW n, NEW c \in Context, Well(s, n, c), NEW m \in Nodes, MayParentSelect(c, m)
    PROVE  Well(s, n, ParentSelects(c, m))
<1> DEFINE a == SetState(c, m, "CHILD")
           b == PushInput(a, "ACCEPT", m)
<1>1. c.mode = "PARENT" /\ m \in Members(c)
  BY OneIsListed DEF MayParentSelect, KnownAs
<1>2. "CHILD" \in PeerStates /\ FALSE \in BOOLEAN /\ "ACCEPT" \in MessageOps \ {"BULK"}
      /\ "BIRTH" \in MessageOps \ {"BULK"}
  BY DEF PeerStates, MessageOps
<1>3. Steady(c, a, {}) /\ Members(a) = Members(c)
  BY <1>2, StateStays
<1>4. ParentSelects(c, m) = PushInput(b, "BIRTH", m)
  BY DEF ParentSelects
<1>5. a \in Context /\ a.mode = c.mode
  BY <1>3, SteadyTypes
<1> HIDE DEF a
<1>6. Well(s, n, b)
  BY <1>1, <1>2, <1>3, WellSteadyQueued
<1>7. b \in Context /\ Members(b) = Members(c) /\ b.mode = c.mode
  BY <1>2, <1>3, <1>5, PushedMembers
<1> HIDE DEF b
<1>8. Well(s, n, PushInput(b, "BIRTH", m))
  BY <1>1, <1>2, <1>6, <1>7, WellPush
<1> QED
  BY <1>4, <1>8

LEMMA WellAccepts ==
    ASSUME NEW s, NEW n, NEW c \in Context, Well(s, n, c), NEW m \in Nodes, MayP2PAccept(c, m)
    PROVE  Well(s, n, P2PAccepts(c, m))
<1> DEFINE a == SetState(c, m, "P2P")
           b == SetJoining(a, m, TRUE)
<1>1. m \in Members(c)
  BY OneIsListed DEF MayP2PAccept, KnownAs
<1>2. "P2P" \in PeerStates /\ TRUE \in BOOLEAN /\ "ACCEPT" \in MessageOps \ {"BULK"}
  BY DEF PeerStates, MessageOps
<1>3. Steady(c, a, {}) /\ Members(a) = Members(c)
  BY <1>2, StateStays
<1>4. P2PAccepts(c, m) = PushInput(b, "ACCEPT", m)
  BY DEF P2PAccepts
<1>5. a \in Context
  BY <1>3, SteadyTypes
<1> HIDE DEF a
<1>6. Steady(a, b, {}) /\ Members(b) = Members(c)
  BY <1>2, <1>3, <1>5, JoiningStays
<1>7. Steady(c, b, {})
  BY <1>3, <1>6, SteadyTwice
<1> HIDE DEF b
<1>8. Well(s, n, PushInput(b, "ACCEPT", m))
  BY <1>1, <1>2, <1>6, <1>7, WellSteadyQueued
<1> QED
  BY <1>4, <1>8

LEMMA WellRequests ==
    ASSUME NEW s, NEW n, NEW c \in Context, Well(s, n, c), NEW m \in Nodes, MayRequest(c, m)
    PROVE  Well(s, n, Requests(c, m))
<1> DEFINE a == SetState(c, m, "OUTGOING_REQUEST")
           p2p == c.mode = "P2P"
           b == SetJoining(a, m, p2p)
<1>1. m \in Members(c)
  BY OneIsListed DEF MayRequest, KnownAs
<1>2. "OUTGOING_REQUEST" \in PeerStates /\ p2p \in BOOLEAN /\ "JOIN" \in MessageOps \ {"BULK"}
      /\ FALSE \in BOOLEAN
  BY DEF PeerStates, MessageOps
<1>3. Steady(c, a, {}) /\ Members(a) = Members(c)
  BY <1>2, StateStays
<1>4. Requests(c, m) = PushInput(b, "JOIN", m)
  BY DEF Requests
<1>5. a \in Context
  BY <1>3, SteadyTypes
<1> HIDE DEF a, p2p
<1>6. Steady(a, b, {}) /\ Members(b) = Members(c)
  BY <1>2, <1>3, <1>5, JoiningStays
<1>7. Steady(c, b, {})
  BY <1>3, <1>6, SteadyTwice
<1> HIDE DEF b
<1>8. Well(s, n, PushInput(b, "JOIN", m))
  BY <1>1, <1>2, <1>6, <1>7, WellSteadyQueued
<1> QED
  BY <1>4, <1>8

LEMMA WellCancels ==
    ASSUME NEW s, NEW n, NEW c \in Context, Well(s, n, c), NEW m \in Nodes, MayCancel(c, m)
    PROVE  Well(s, n, Cancels(c, m))
<1> DEFINE kicks == c.mode = "PARENT" /\ StateOf(c, m) = "CHILD"
           b == IF kicks THEN PushInput(c, "DEATH", m) ELSE c
           d == SetState(b, m, "CANCEL_IN_PROGRESS")
<1>1. m \in Members(c)
  BY OneIsListed DEF MayCancel, KnownAs
<1>2. "CANCEL_IN_PROGRESS" \in PeerStates /\ FALSE \in BOOLEAN /\ "CANCEL" \in MessageOps \ {"BULK"}
      /\ "DEATH" \in MessageOps \ {"BULK"}
  BY DEF PeerStates, MessageOps
<1>3. Well(s, n, PushInput(c, "DEATH", m))
  BY <1>1, <1>2, WellPush
<1>4. LET e == PushInput(c, "DEATH", m) IN e \in Context /\ Members(e) = Members(c)
  BY <1>2, PushedMembers
<1>5. Well(s, n, b) /\ b \in Context /\ Members(b) = Members(c)
  BY <1>3, <1>4
<1>6. Cancels(c, m) = PushInput(d, "CANCEL", m)
  BY DEF Cancels
<1> HIDE DEF b
<1>7. Steady(b, d, {}) /\ Members(d) = Members(b)
  BY <1>2, <1>5, StateStays
<1> HIDE DEF d
<1>8. Well(s, n, PushInput(d, "CANCEL", m))
  BY <1>1, <1>2, <1>5, <1>7, WellSteadyQueued
<1> QED
  BY <1>6, <1>8

LEMMA WellSends ==
    ASSUME NEW s, NEW n, NEW c \in Context, Well(s, n, c), NEW m \in Nodes, MaySend(c, m), "Send" \in s.calls
    PROVE  Well(s, n, Sends(c, m))
<1> DEFINE d == SetSending(c, m, TRUE)
<1>1. m \in Members(c)
  BY OneIsListed DEF MaySend, KnownAs
<1>2. TRUE \in BOOLEAN /\ "BULK" \in MessageOps /\ "P2P" \in PeerStates
  BY DEF MessageOps, PeerStates
<1>3. /\ Members(d) = Members(c) /\ d \in Context /\ d.mode = c.mode /\ d.phase = c.phase
      /\ d.input = c.input /\ (Once(c) => Once(d)) /\ \A k \in Busy(d) : k \in Busy(c) \/ k = m
  BY <1>2, MembersStay
<1>4. Sends(c, m) = PushInput(d, "BULK", m)
  BY DEF Sends
<1> HIDE DEF d
<1>5. Well(s, n, PushInput(d, "BULK", m))
  BY <1>1, <1>2, <1>3, WellQueued
<1> QED
  BY <1>4, <1>5

LEMMA WellAborts ==
    ASSUME NEW s, NEW n, NEW c \in Context, Well(s, n, c), NEW m \in Nodes, MayAbort(c, m)
    PROVE  Well(s, n, Aborts(c, m))
<1> DEFINE a == SetSending(c, m, FALSE)
<1>1. m \in Members(c)
  BY OneIsListed DEF MayAbort
<1>2. "P2P" \in PeerStates /\ FALSE \in BOOLEAN /\ "BULK_ABORT" \in MessageOps \ {"BULK"}
  BY DEF PeerStates, MessageOps
<1>3. Steady(c, a, {}) /\ Members(a) = Members(c)
  BY <1>2, SteadyFields, MembersStay
<1>4. Aborts(c, m) = PushInput(a, "BULK_ABORT", m)
  BY DEF Aborts
<1> HIDE DEF a
<1>5. Well(s, n, PushInput(a, "BULK_ABORT", m))
  BY <1>1, <1>2, <1>3, WellSteadyQueued
<1> QED
  BY <1>4, <1>5

-----------------------------------------------------------------------------
(* The boxes.                                                              *)
LEMMA TerseBoth ==
    ASSUME NEW n, NEW s, NEW a, NEW b, Terse(s, n, a), Terse(s, n, b)
    PROVE  Terse(s, n, a \o b)
<1>1. a \in Seq(PacketRecord) /\ b \in Seq(PacketRecord)
  BY DEF Terse
<1>2. /\ a \o b \in Seq(PacketRecord) /\ Len(a \o b) = Len(a) + Len(b)
      /\ \A i \in 1..(Len(a) + Len(b)) : (a \o b)[i] = IF i <= Len(a) THEN a[i] ELSE b[i - Len(a)]
  BY <1>1, ConcatProperties
<1> DEFINE u == a \o b
<1> HIDE DEF u
<1>3. /\ u \in Seq(PacketRecord) /\ DOMAIN u = 1..(Len(a) + Len(b))
      /\ Len(a) \in Nat /\ Len(b) \in Nat /\ DOMAIN a = 1..Len(a) /\ DOMAIN b = 1..Len(b)
  BY <1>1, <1>2 DEF u
<1>4. ASSUME NEW i \in 1..(Len(a) + Len(b))
      PROVE  \/ i \in DOMAIN a /\ u[i] = a[i]
             \/ i - Len(a) \in DOMAIN b /\ u[i] = b[i - Len(a)]
  <2>1. u[i] = IF i <= Len(a) THEN a[i] ELSE b[i - Len(a)]
    BY <1>2 DEF u
  <2> QED
    BY <1>3, <2>1
<1>5. Terse(s, n, u)
  BY <1>3, <1>4 DEF Terse
<1> QED
  BY <1>5 DEF u

LEMMA TerseLess ==
    ASSUME NEW n, NEW s, NEW b, Terse(s, n, b), NEW k \in DOMAIN b
    PROVE  Terse(s, n, RemoveAt(b, k))
<1> DEFINE t == RemoveAt(b, k)
<1>1. b \in Seq(PacketRecord)
  BY DEF Terse
<1>2. /\ t \in Seq(PacketRecord) /\ DOMAIN t = 1..(Len(b) - 1)
      /\ \A i \in 1..(Len(b) - 1) : t[i] = b[IF i < k THEN i ELSE i + 1]
  BY <1>1, RemoveAtFacts
<1>3. \A i \in 1..(Len(b) - 1) : (IF i < k THEN i ELSE i + 1) \in DOMAIN b
  BY <1>1
<1> HIDE DEF t
<1>4. Terse(s, n, t)
  BY <1>2, <1>3 DEF Terse
<1> QED
  BY <1>4 DEF t

LEMMA TerseEmpty == ASSUME NEW s, NEW n PROVE Terse(s, n, <<>>)
<1>1. <<>> \in Seq(PacketRecord) /\ DOMAIN <<>> = {}
  OBVIOUS
<1> QED
  BY <1>1 DEF Terse

LEMMA TersePosted ==
    ASSUME NEW s, NEW self \in DOMAIN s.modes, NEW boxes, NEW out, Curt(self, Cast(s, self), out),
           \A n \in Nodes : Terse(s, n, boxes[n])
    PROVE  \A n \in Nodes : Terse(s, n, Posted(boxes, out)[n])
<1> SUFFICES ASSUME NEW n \in Nodes PROVE Terse(s, n, Posted(boxes, out)[n])
  OBVIOUS
<1> DEFINE I == {i \in DOMAIN out : out[i].to = n}
           mine == Picked(out, I)
<1>1. out \in Seq(PacketRecord) /\ I \in SUBSET DOMAIN out
  BY DEF Curt
<1>2. /\ mine \in Seq(PacketRecord) /\ DOMAIN mine = 1..Cardinality(I)
      /\ \A k \in 1..Cardinality(I) : Nth(I, k) \in I /\ mine[k] = out[Nth(I, k)]
  BY <1>1, PickedFacts
<1> HIDE DEF mine
<1>3. \A i \in I : Brief(s, n, out[i])
  BY DEF Curt, Curtly, Brief, Partners
<1> HIDE DEF I
<1>4. Terse(s, n, mine)
  BY <1>2, <1>3 DEF Terse
<1>5. Terse(s, n, boxes[n]) /\ Terse(s, n, boxes[n] \o mine)
  BY <1>4, TerseBoth
<1>6. Posted(boxes, out)[n] = IF ctx[n].phase = "none" THEN boxes[n] ELSE boxes[n] \o mine
  BY DEF Posted, mine, I
<1> QED
  BY <1>5, <1>6

-----------------------------------------------------------------------------
(* The steps.                                                              *)
LEMMA InitIsIdle == ASSUME Init PROVE BusyInv
<1> DEFINE d(n) == NoContext(Cast(scenario, n), scenario.maxpeers)
<1>1. ctx = [n \in Nodes |-> d(n)] /\ inbox = [n \in Nodes |-> <<>>]
  BY DEF Init, Cast, Players
<1> SUFFICES ASSUME NEW n \in Nodes
             PROVE  Well(scenario, n, ctx[n]) /\ Terse(scenario, n, inbox[n])
  BY DEF BusyInv, BusyIn
<1>2. /\ d(n).mode = Cast(scenario, n) /\ d(n).phase = "none" /\ d(n).peers = <<>> /\ d(n).input = <<>>
  BY DEF NoContext
<1> HIDE DEF d
<1>3. ctx[n] = d(n) /\ inbox[n] = <<>>
  BY <1>1
<1>4. Well(scenario, n, d(n))
  BY <1>2, WellAlone
<1> QED
  BY <1>3, <1>4, TerseEmpty

TerseBoxes(b) == Cramped(scenario) => \A k \in Nodes : Terse(scenario, k, b[k])

LEMMA BusyStep ==
    ASSUME IInv, BusyInv, NEW n \in Nodes, NEW d, Well(scenario, n, d), ctx' = [ctx EXCEPT ![n] = d],
           scenario' = scenario, TerseBoxes(inbox')
    PROVE  BusyInv'
<1>1. ctx \in [Nodes -> Context]
  BY DEF IInv, Contexts
<1> DEFINE F == [ctx EXCEPT ![n] = d]
<1>2. \A k \in Nodes : F[k] = IF k = n THEN d ELSE ctx[k]
  BY <1>1
<1> HIDE DEF F
<1>3. \A k \in Nodes : Well(scenario, k, F[k]) /\ (Cramped(scenario) => Terse(scenario, k, inbox'[k]))
  BY <1>2 DEF BusyInv, BusyIn, TerseBoxes
<1>4. BusyIn(scenario, F, inbox')
  BY <1>3 DEF BusyIn
<1>5. ctx' = F
  BY DEF F
<1> QED
  BY <1>4, <1>5 DEF BusyInv

LEMMA TerseAlready == ASSUME BusyInv PROVE TerseBoxes(inbox)
BY DEF BusyInv, BusyIn, TerseBoxes

LEMMA TerseInBox ==
    ASSUME NEW b \in [Nodes -> Seq(PacketRecord)], TerseBoxes(b), NEW n \in Nodes, NEW box,
           Cramped(scenario) => Terse(scenario, n, box)
    PROVE  TerseBoxes([b EXCEPT ![n] = box])
BY DEF TerseBoxes

LEMMA TerseOutBox ==
    ASSUME NEW n \in DOMAIN scenario.modes, NEW boxes, TerseBoxes(boxes), NEW out,
           Cramped(scenario) => Curt(n, Cast(scenario, n), out)
    PROVE  TerseBoxes(Posted(boxes, out))
<1> SUFFICES ASSUME Cramped(scenario)
             PROVE  \A k \in Nodes : Terse(scenario, k, Posted(boxes, out)[k])
  BY DEF TerseBoxes
<1>1. \A k \in Nodes : Terse(scenario, k, boxes[k])
  BY DEF TerseBoxes
<1> QED
  BY <1>1, TersePosted

(* Who is on the air is a player, and if data is sent among children there *)
(* is nobody but his partner.                                              *)
LEMMA RunningIsLone ==
    ASSUME IInv, BusyInv, NEW n \in Nodes, Running(n)
    PROVE  /\ n \in DOMAIN scenario.modes /\ ctx[n].mode = Cast(scenario, n)
           /\ Cramped(scenario) => Lone(n, Partners(scenario, n)) /\ Close(ctx[n], Partners(scenario, n))
<1>1. Well(scenario, n, ctx[n]) /\ scenario \in Scenarios /\ ctx[n].phase = "running"
  BY DEF BusyInv, BusyIn, IInv, Running
<1>2. n \in DOMAIN scenario.modes /\ ctx[n].mode = Cast(scenario, n)
  BY <1>1 DEF Well
<1>3. Cramped(scenario) => Lone(n, Partners(scenario, n))
  BY <1>1, <1>2, PartnersAreOne
<1> QED
  BY <1>1, <1>2, <1>3 DEF Well

LEMMA LifeIsIdle ==
    ASSUME IInv, BusyInv, NEW n \in Nodes,
           Create(n) \/ Start(n) \/ Stop(n) \/ Delete(n) \/ PowerOff(n) \/ DispatchEvents(n)
    PROVE  BusyInv'
<1> DEFINE c == ctx[n]
           s == scenario
<1>1. c \in Context /\ ctx \in [Nodes -> Context] /\ inbox \in [Nodes -> Seq(PacketRecord)]
  BY DEF IInv, Contexts, Mail
<1>2. Well(s, n, c) /\ TerseBoxes(inbox)
  BY TerseAlready DEF BusyInv, BusyIn
<1>3. ASSUME NEW d, d.mode = c.mode, d.peers = c.peers, d.input = c.input,
             d.phase # "none" => n \in DOMAIN s.modes,
             ctx' = [ctx EXCEPT ![n] = d], UNCHANGED <<scenario, inbox>>
      PROVE  BusyInv'
  <2>1. Well(s, n, d)
    BY <1>2, <1>3, WellElse
  <2> QED
    BY <1>2, <1>3, <2>1, BusyStep
<1>4. ASSUME NEW phase, n \in DOMAIN s.modes,
             ctx' = [ctx EXCEPT ![n].phase = phase], UNCHANGED <<scenario, inbox>>
      PROVE  BusyInv'
  <2> DEFINE d == [c EXCEPT !.phase = phase]
  <2>1. ctx' = [ctx EXCEPT ![n] = d]
    BY <1>4
  <2>2. d.mode = c.mode /\ d.peers = c.peers /\ d.input = c.input
    BY <1>1 DEF Context
  <2> HIDE DEF d, c
  <2> QED
    BY <1>3, <1>4, <2>1, <2>2
<1>5. CASE Create(n)
  BY <1>4, <1>5 DEF Create, Players
<1>6. CASE Start(n)
  <2>1. n \in DOMAIN s.modes
    BY <1>2, <1>6 DEF Start, Well
  <2> QED
    BY <1>4, <1>6, <2>1 DEF Start
<1>7. CASE Stop(n)
  <2> DEFINE d == [c EXCEPT !.phase = "created", !.peers = <<>>, !.events = <<>>]
             out == SendByes(c, n)
  <2>1. ctx' = [ctx EXCEPT ![n] = d] /\ inbox' = Posted(inbox, out) /\ c.input = <<>>
        /\ scenario' = scenario /\ Running(n)
    <3>1. Becomes(n, Result(d, out)) /\ c.input = <<>> /\ scenario' = scenario /\ Running(n)
      BY <1>7 DEF Stop
    <3> HIDE DEF d, out
    <3> QED
      BY <3>1, ResultIs DEF Becomes
  <2>2. /\ n \in DOMAIN s.modes /\ c.mode = Cast(s, n)
        /\ Cramped(s) => Lone(n, Partners(s, n)) /\ Close(c, Partners(s, n))
    BY <2>1, RunningIsLone
  <2>3. d.mode = c.mode /\ d.peers = <<>> /\ d.input = <<>>
    BY <1>1, <2>1 DEF Context
  <2>4. Cramped(s) => Curt(n, Cast(s, n), out)
    <3>1. Cramped(s) /\ c.mode = "PARENT" => n \notin Members(c)
      BY <2>2 DEF Lone, Close
    <3>2. Cramped(s) => Curt(n, c.mode, out)
      BY <1>1, <3>1, CurtByes
    <3> QED
      BY <2>2, <3>2
  <2> HIDE DEF d, out
  <2>5. Well(s, n, d)
    BY <2>2, <2>3, WellAlone
  <2>6. TerseBoxes(inbox')
    BY <1>2, <2>1, <2>2, <2>4, TerseOutBox
  <2> QED
    BY <2>1, <2>5, <2>6, BusyStep
<1>8. CASE Delete(n) \/ PowerOff(n)
  <2> DEFINE d == NoContext(c.mode, c.maxpeers)
  <2>1. ctx' = [ctx EXCEPT ![n] = d] /\ inbox' = [inbox EXCEPT ![n] = <<>>] /\ scenario' = scenario
    BY <1>8 DEF Delete, PowerOff
  <2>2. d.mode = c.mode /\ d.phase = "none" /\ d.peers = <<>> /\ d.input = <<>>
    BY DEF NoContext
  <2>3. c.mode = Cast(s, n)
    BY <1>2 DEF Well
  <2> HIDE DEF d
  <2>4. Well(s, n, d)
    BY <2>2, <2>3, WellAlone
  <2>5. TerseBoxes(inbox')
    BY <1>1, <1>2, <2>1, TerseEmpty, TerseInBox
  <2> QED
    BY <2>1, <2>4, <2>5, BusyStep
<1>9. CASE DispatchEvents(n)
  <2> DEFINE d == [c EXCEPT !.events = <<>>]
  <2>1. ctx' = [ctx EXCEPT ![n] = d] /\ UNCHANGED <<scenario, inbox>>
    BY <1>9 DEF DispatchEvents
  <2>2. d.mode = c.mode /\ d.phase = c.phase /\ d.peers = c.peers /\ d.input = c.input
    BY <1>1 DEF Context
  <2>3. c.phase # "none" => n \in DOMAIN s.modes
    BY <1>2 DEF Well
  <2> HIDE DEF d, c
  <2> QED
    BY <1>3, <2>1, <2>2, <2>3
<1> QED
  BY <1>5, <1>6, <1>7, <1>8, <1>9

LEMMA CallsAreIdle ==
    ASSUME IInv, BusyInv, NEW n \in Nodes, NEW m \in Nodes,
           \/ Accept(n, m) \/ Request(n, m) \/ CancelTarget(n, m) \/ AbortSendData(n, m)
           \/ Uses("Send") /\ SendData(n, m)
    PROVE  BusyInv'
<1> DEFINE c == ctx[n]
           s == scenario
<1>1. c \in Context
  BY DEF IInv, Contexts
<1>2. Well(s, n, c) /\ TerseBoxes(inbox)
  BY TerseAlready DEF BusyInv, BusyIn
<1>3. ASSUME NEW d, Well(s, n, d), ctx' = [ctx EXCEPT ![n] = d], UNCHANGED <<scenario, inbox>>
      PROVE  BusyInv'
  BY <1>2, <1>3, BusyStep
<1>4. CASE Accept(n, m)
  <2>1. UNCHANGED <<scenario, inbox>>
    BY <1>4 DEF Accept
  <2>2. CASE MayParentSelect(c, m) /\ ctx' = [ctx EXCEPT ![n] = ParentSelects(c, m)]
    BY <1>1, <1>2, <1>3, <2>1, <2>2, WellSelects
  <2>3. CASE MayP2PAccept(c, m) /\ ctx' = [ctx EXCEPT ![n] = P2PAccepts(c, m)]
    BY <1>1, <1>2, <1>3, <2>1, <2>3, WellAccepts
  <2> QED
    BY <1>4, <2>2, <2>3 DEF Accept
<1>5. CASE Request(n, m)
  <2>1. ctx' = [ctx EXCEPT ![n] = Requests(c, m)] /\ MayRequest(c, m) /\ UNCHANGED <<scenario, inbox>>
    BY <1>5 DEF Request
  <2> QED
    BY <1>1, <1>2, <1>3, <2>1, WellRequests
<1>6. CASE CancelTarget(n, m)
  <2>1. ctx' = [ctx EXCEPT ![n] = Cancels(c, m)] /\ MayCancel(c, m) /\ UNCHANGED <<scenario, inbox>>
    BY <1>6 DEF CancelTarget
  <2> QED
    BY <1>1, <1>2, <1>3, <2>1, WellCancels
<1>7. CASE Uses("Send") /\ SendData(n, m)
  <2>1. ctx' = [ctx EXCEPT ![n] = Sends(c, m)] /\ MaySend(c, m) /\ UNCHANGED <<scenario, inbox>>
    BY <1>7 DEF SendData
  <2>2. "Send" \in s.calls
    BY <1>7 DEF Uses
  <2> QED
    BY <1>1, <1>2, <1>3, <2>1, <2>2, WellSends
<1>8. CASE AbortSendData(n, m)
  <2>1. ctx' = [ctx EXCEPT ![n] = Aborts(c, m)] /\ MayAbort(c, m) /\ UNCHANGED <<scenario, inbox>>
    BY <1>8 DEF AbortSendData
  <2> QED
    BY <1>1, <1>2, <1>3, <2>1, WellAborts
<1> QED
  BY <1>4, <1>5, <1>6, <1>7, <1>8

-----------------------------------------------------------------------------
LEMMA HelloIsBrief ==
    ASSUME NEW s, NEW n \in DOMAIN s.modes, n \in Nodes, NEW m \in Nodes, m # n, NEW box, Terse(s, m, box)
    PROVE  Terse(s, m, Append(box, Packet(n, m, "HELLO")))
<1> DEFINE p == Packet(n, m, "HELLO")
           t == Append(box, p)
<1>1. box \in Seq(PacketRecord)
  BY DEF Terse
<1>2. p \in PacketRecord /\ p.op = "HELLO" /\ p.from = n /\ DOMAIN p.siblings = {}
  BY DEF Packet, PacketRecord
<1> HIDE DEF p
<1>3. Brief(s, m, p)
  BY <1>2 DEF Brief, Partners
<1>4. /\ t \in Seq(PacketRecord) /\ DOMAIN t = 1..(Len(box) + 1) /\ DOMAIN box = 1..Len(box)
      /\ Len(box) \in Nat /\ t[Len(box) + 1] = p /\ \A i \in 1..Len(box) : t[i] = box[i]
  BY <1>1, <1>2
<1> HIDE DEF t
<1>5. \A i \in DOMAIN t : i \in DOMAIN box \/ i = Len(box) + 1
  BY <1>4
<1>6. Terse(s, m, t)
  BY <1>3, <1>4, <1>5 DEF Terse
<1> QED
  BY <1>6 DEF t, p

LEMMA DrainIsIdle ==
    ASSUME IInv, BusyInv, NEW n \in Nodes, Drain(n)
    PROVE  BusyInv'
<1> DEFINE c == ctx[n]
           s == scenario
           d == [c EXCEPT !.input = <<>>]
           r == DrainInput(c, n)
           W == Partners(s, n)
<1>1. c \in Context /\ Well(s, n, c) /\ TerseBoxes(inbox)
  BY TerseAlready DEF BusyInv, BusyIn, IInv, Contexts
<1>2. ctx' = [ctx EXCEPT ![n] = r.ctx] /\ inbox' = Posted(inbox, r.out) /\ scenario' = s /\ Running(n)
  BY DEF Drain, Becomes
<1>3. /\ n \in DOMAIN s.modes /\ c.mode = Cast(s, n)
      /\ Cramped(s) => Lone(n, W) /\ Close(c, W)
  BY <1>2, RunningIsLone
<1>4. /\ Steady(d, r.ctx, {})
      /\ Once(c) => \A k \in DOMAIN c.input : c.input[k].op = "BULK" => c.input[k].mac \notin Busy(r.ctx)
      /\ Lone(n, W) /\ Close(c, W) => Curt(n, c.mode, r.out)
  BY <1>1, StackEmptied
<1>5. d.mode = c.mode /\ d.phase = c.phase /\ d.peers = c.peers /\ d.input = <<>>
  BY <1>1 DEF Context
<1> HIDE DEF d, r
<1>6. Busy(d) = Busy(c) /\ Once(d) = Once(c) /\ Members(d) = Members(c) /\ DOMAIN d.input = {}
  BY <1>5 DEF Busy, Once, Members
<1> DEFINE e == r.ctx
<1>7. /\ e.mode = c.mode /\ e.phase = c.phase /\ e.input = <<>> /\ DOMAIN e.input = {}
      /\ Busy(e) \subseteq Busy(c) /\ (Once(c) => Once(e))
      /\ (c.mode # "CHILD" => Members(e) \subseteq Members(c))
  BY <1>4, <1>5, <1>6 DEF Steady, Idler, SameButList
<1> HIDE DEF c, e
<1>8. ASSUME "Send" \in s.calls, Sure(s, e)
      PROVE  Occupied(e)
  <2>1. Once(c) /\ \A m \in Busy(c) : Waits(c, "BULK", m)
    BY <1>1, <1>7, <1>8 DEF Well, Occupied, Sure
  <2>2. \A k \in DOMAIN c.input : c.input[k].op = "BULK" => c.input[k].mac \notin Busy(e)
    BY <1>4, <2>1 DEF e
  <2>3. Busy(e) = {}
    BY <1>7, <2>1, <2>2 DEF Waits
  <2> QED
    BY <1>7, <2>1, <2>3 DEF Occupied
<1>9. "Send" \notin s.calls => Busy(e) = {}
  BY <1>1, <1>7 DEF Well
<1>10. Cramped(s) => Close(e, W)
  BY <1>3, <1>7 DEF Close
<1>11. Well(s, n, e)
  BY <1>3, <1>7, <1>8, <1>9, <1>10 DEF Well
<1>12. TerseBoxes(inbox')
  BY <1>1, <1>2, <1>3, <1>4, TerseOutBox
<1>13. ctx' = [ctx EXCEPT ![n] = e]
  BY <1>2 DEF e
<1> QED
  BY <1>2, <1>11, <1>12, <1>13, BusyStep

LEMMA ReceiveIsIdle ==
    ASSUME IInv, BusyInv, NEW n \in Nodes, Receive(n)
    PROVE  BusyInv'
<1> DEFINE c == ctx[n]
           s == scenario
           box == inbox[n]
           W == Partners(s, n)
<1>1. /\ c \in Context /\ Well(s, n, c) /\ TerseBoxes(inbox)
      /\ inbox \in [Nodes -> Seq(PacketRecord)] /\ box \in Seq(PacketRecord)
      /\ Cramped(s) => Terse(s, n, box)
  BY TerseAlready DEF BusyInv, BusyIn, IInv, Contexts, Mail
<1>2. PICK i \in DOMAIN box :
         /\ ctx' = [ctx EXCEPT ![n] = ActOn(c, n, box[i]).ctx]
         /\ inbox' = Posted([inbox EXCEPT ![n] = RemoveAt(@, i)], ActOn(c, n, box[i]).out)
  BY DEF Receive
<1>3. scenario' = s /\ Running(n)
  BY DEF Receive
<1>4. /\ n \in DOMAIN s.modes /\ c.mode = Cast(s, n) /\ c.phase = "running"
      /\ Cramped(s) => Lone(n, W) /\ Close(c, W)
  BY <1>3, RunningIsLone DEF Running
<1> DEFINE p == box[i]
           r == ActOn(c, n, p)
           b == [inbox EXCEPT ![n] = RemoveAt(box, i)]
<1>5. p \in PacketRecord /\ (Cramped(s) => Brief(s, n, p))
  <2> HIDE DEF box
  <2>1. Cramped(s) => Brief(s, n, box[i])
    BY <1>1 DEF Terse
  <2> QED
    BY <1>1, <2>1
<1>6. inbox' = Posted(b, r.out) /\ ctx' = [ctx EXCEPT ![n] = r.ctx]
  BY <1>2
<1> HIDE DEF p
<1>7. Idler(c, r.ctx) /\ (~Tells(c, p) => Steady(c, r.ctx, {p.from}))
  BY <1>1, <1>5, ActedOn
<1>8. Cramped(s) => Curt(n, Cast(s, n), r.out)
  <2>1. Cramped(s) /\ c.mode = "PARENT" => p.from \in W
    BY <1>4, <1>5 DEF Brief
  <2>2. Cramped(s) => Curt(n, c.mode, r.out)
    BY <1>1, <1>4, <1>5, <2>1, CurtActs
  <2> QED
    BY <1>4, <2>2
<1>9. TerseBoxes(b)
  BY <1>1, TerseLess, TerseInBox
<1> DEFINE e == r.ctx
           out == r.out
<1>10. Well(s, n, e)
  <2>1. CASE "Send" \notin s.calls
    BY <1>1, <1>7, <2>1, WellIdle
  <2>2. CASE "Send" \in s.calls /\ Sure(s, c)
    <3>1. ~Tells(c, p)
      BY <1>5, <2>2 DEF Tells, Brief, Sure
    <3>2. Cramped(s) /\ c.mode = "PARENT" => {p.from} \subseteq W
      BY <1>4, <1>5 DEF Brief
    <3>3. Steady(c, e, {p.from})
      BY <1>7, <3>1
    <3> HIDE DEF e, c, p
    <3> QED
      BY <1>1, <3>2, <3>3, WellSteady
  <2>3. CASE "Send" \in s.calls /\ ~Sure(s, c)
    <3>1. Well(s, n, c) /\ Idler(c, e) /\ "Send" \in s.calls /\ ~Sure(s, c)
      BY <1>1, <1>7, <2>3
    <3> HIDE DEF e, c, s
    <3> QED
      BY <3>1, WellUnsure
  <2> QED
    BY <2>1, <2>2, <2>3
<1>11. ctx' = [ctx EXCEPT ![n] = e] /\ inbox' = Posted(b, out) /\ (Cramped(s) => Curt(n, Cast(s, n), out))
  BY <1>6, <1>8
<1> HIDE DEF e, out, b
<1>12. TerseBoxes(inbox')
  BY <1>4, <1>9, <1>11, TerseOutBox
<1> QED
  BY <1>3, <1>10, <1>11, <1>12, BusyStep

LEMMA ThreadsAreIdle ==
    ASSUME IInv, BusyInv, NEW n \in Nodes, InputThread(n) \/ Lose(n)
    PROVE  BusyInv'
<1> DEFINE c == ctx[n]
           s == scenario
           box == inbox[n]
           W == Partners(s, n)
<1>1. /\ c \in Context /\ Well(s, n, c) /\ TerseBoxes(inbox) /\ ctx \in [Nodes -> Context]
      /\ inbox \in [Nodes -> Seq(PacketRecord)] /\ (Cramped(s) => Terse(s, n, box))
  BY TerseAlready DEF BusyInv, BusyIn, IInv, Contexts, Mail
<1>2. ASSUME scenario' = scenario, ctx' = ctx, TerseBoxes(inbox')
      PROVE  BusyInv'
  <2>1. BusyIn(scenario, ctx, inbox')
    BY <1>2 DEF BusyInv, BusyIn, TerseBoxes
  <2> QED
    BY <1>2, <2>1 DEF BusyInv
<1>3. CASE BroadcastHello(n)
  <2>1. PICK reached \in SUBSET (Nodes \ {n}) :
           inbox' = [m \in Nodes |-> IF m \in reached THEN Append(inbox[m], Packet(n, m, "HELLO"))
                                                      ELSE inbox[m]]
    BY <1>3 DEF BroadcastHello
  <2>2. scenario' = scenario /\ ctx' = ctx /\ Running(n)
    BY <1>3 DEF BroadcastHello
  <2>3. n \in DOMAIN s.modes
    BY <2>2, RunningIsLone
  <2>4. ASSUME Cramped(s), NEW m \in Nodes
        PROVE  Terse(s, m, inbox'[m])
    <3>1. Terse(s, m, inbox[m])
      BY <1>1, <2>4 DEF TerseBoxes
    <3>2. m # n => Terse(s, m, Append(inbox[m], Packet(n, m, "HELLO")))
      BY <2>3, <3>1, HelloIsBrief
    <3> QED
      BY <2>1, <3>1, <3>2
  <2>5. TerseBoxes(inbox')
    BY <2>4 DEF TerseBoxes
  <2> QED
    BY <1>2, <2>2, <2>5
<1>4. CASE MissingOnAdhocctl(n)
  <2>1. PICK m \in Nodes : ctx' = [ctx EXCEPT ![n] = ActOnBye(c, n, m)]
    BY <1>4 DEF MissingOnAdhocctl
  <2>2. UNCHANGED <<scenario, inbox>>
    BY <1>4 DEF MissingOnAdhocctl
  <2> DEFINE d == ActOnBye(c, n, m)
  <2>3. Steady(c, d, {})
    BY <1>1, SteadyBye
  <2> HIDE DEF d
  <2>4. Well(s, n, d)
    BY <1>1, <2>3, WellSteady
  <2>5. ctx' = [ctx EXCEPT ![n] = d]
    BY <2>1 DEF d
  <2> QED
    BY <1>1, <2>2, <2>4, <2>5, BusyStep
<1>5. ASSUME NEW m \in Nodes, HandleTimeout(n, m)
      PROVE  BusyInv'
  <2> DEFINE r == TimeOut(c, n, m)
             d == r.ctx
             out == r.out
  <2>1. /\ ctx' = [ctx EXCEPT ![n] = d] /\ inbox' = Posted(inbox, out) /\ scenario' = s
        /\ Running(n) /\ Known(c, m)
    BY <1>5 DEF HandleTimeout, Becomes, MayTimeOut
  <2>2. /\ n \in DOMAIN s.modes /\ c.mode = Cast(s, n)
        /\ Cramped(s) => Lone(n, W) /\ Close(c, W)
    BY <2>1, RunningIsLone
  <2>3. Steady(c, d, {})
    BY <1>1, SteadyTimeOut
  <2>4. Cramped(s) => Curt(n, Cast(s, n), out)
    <3>1. Cramped(s) /\ c.mode = "PARENT" => Members(c) \subseteq W
      BY <2>2 DEF Close
    <3>2. Cramped(s) => Curt(n, c.mode, out)
      BY <1>1, <2>1, <2>2, <3>1, CurtTimeOut
    <3> QED
      BY <2>2, <3>2
  <2> HIDE DEF d, out
  <2>5. Well(s, n, d)
    BY <1>1, <2>3, WellSteady
  <2>6. TerseBoxes(inbox')
    BY <1>1, <2>1, <2>2, <2>4, TerseOutBox
  <2> QED
    BY <2>1, <2>5, <2>6, BusyStep
<1>6. CASE Lose(n)
  <2>1. PICK i \in DOMAIN box : inbox' = [inbox EXCEPT ![n] = RemoveAt(box, i)]
    BY <1>6 DEF Lose
  <2>2. scenario' = scenario /\ ctx' = ctx
    BY <1>6 DEF Lose
  <2>3. TerseBoxes(inbox')
    BY <1>1, <2>1, TerseLess, TerseInBox
  <2> QED
    BY <1>2, <2>2, <2>3
<1> QED
  BY <1>3, <1>4, <1>5, <1>6, DrainIsIdle, ReceiveIsIdle DEF InputThread

LEMMA NextIsIdle ==
    ASSUME IInv, BusyInv, [Next]_vars
    PROVE  BusyInv'
<1>1. CASE UNCHANGED vars
  BY <1>1 DEF vars, BusyInv
<1>2. ASSUME NEW n \in Nodes, GameStep(n) \/ InputThread(n) \/ DispatchEvents(n) \/ Lose(n)
      PROVE  BusyInv'
  BY <1>2, LifeIsIdle, CallsAreIdle, ThreadsAreIdle DEF GameStep
<1> QED
  BY <1>1, <1>2 DEF Next

LEMMA BusyOnesWait == IInv /\ BusyInv => BusyMeansQueued
<1> SUFFICES ASSUME IInv, BusyInv, NEW n \in Nodes, NEW i \in DOMAIN ctx[n].peers, ctx[n].peers[i].sending,
                    ctx[n].mode # "CHILD" \/ \E x, y \in Nodes : Players \subseteq {x, y}
             PROVE  [op |-> "BULK", mac |-> ctx[n].peers[i].mac] \in ToSet(ctx[n].input)
  BY DEF BusyMeansQueued, BusyOnlyQueued
<1> DEFINE c == ctx[n]
           m == c.peers[i].mac
<1>1. c \in Context /\ Well(scenario, n, c)
  BY DEF BusyInv, BusyIn, IInv, Contexts
<1>2. m \in Busy(c)
  BY DEF Busy
<1>3. Waits(c, "BULK", m)
  <2>1. "Send" \in scenario.calls /\ Sure(scenario, c)
    BY <1>1, <1>2 DEF Well, Sure, Cramped, Players
  <2> QED
    BY <1>1, <1>2, <2>1 DEF Well, Occupied
<1> HIDE DEF c, m
<1>4. PICK k \in DOMAIN c.input : c.input[k].op = "BULK" /\ c.input[k].mac = m
  BY <1>3 DEF Waits
<1> DEFINE M == [op : MessageOps, mac : Nodes]
<1>5. c.input[k] \in M
  <2>1. c.input \in Seq(M)
    BY <1>1 DEF Context
  <2> HIDE DEF M
  <2> QED
    BY <1>4, <2>1
<1>6. c.input[k] = [op |-> "BULK", mac |-> m]
  BY <1>4, <1>5
<1>7. [op |-> "BULK", mac |-> m] \in ToSet(c.input)
  BY <1>6 DEF ToSet
<1> QED
  BY <1>7 DEF c, m

(* The invariant of the busy bits holds in every state of every play.      *)
THEOREM BusyInvariant == Spec => [](IInv /\ BusyInv)
<1>1. Init => IInv /\ BusyInv
  BY InitIsSound, InitIsIdle
<1>2. IInv /\ BusyInv /\ [Next]_vars => (IInv /\ BusyInv)'
  BY NextIsSound, NextIsIdle
<1> QED
  BY <1>1, <1>2, PTL DEF Spec

(* No host and no equal is busy with a peer but while data for it waits to *)
(* be sent, so SendData is never refused for good, and no child that plays *)
(* with its host alone; whatever calls and troubles there are.             *)
THEOREM BusyIsQueued == Spec => []BusyMeansQueued
BY BusyInvariant, BusyOnesWait, PTL
=============================================================================
