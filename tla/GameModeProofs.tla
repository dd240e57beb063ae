--------------------------- MODULE GameModeProofs ---------------------------
(***************************************************************************)
(* For any number of players: the socket of the game mode data exchange is *)
(* open as long as a thread may use it, and a game begins with the blocks  *)
(* of all its peers.  Between two players, the last state of a block gets  *)
(* to the other though a datagram is lost.                                 *)
(*                                                                         *)
(* _gamemode_socket_users is counted up and down by four calls and never   *)
(* compared with what it counts.  The inductive invariant relates it to    *)
(* the master and the replicas that exist, the master to its thread, and   *)
(* the lock to the call that waits for a thread while it holds it.         *)
(***************************************************************************)
EXTENDS GameModeData, FiniteSetTheorems, SequenceTheorems, TLAPS

MasterShape == [created : BOOLEAN, version : Nat, updated : Nat, lastInfo : SUBSET Nodes,
                stop : BOOLEAN, thread : {"none", "loop", "again", "done", "ended"}]

CallShape == [at : {"idle", "first", "all", "joinMaster", "joinReceiver"},
              peer : Nodes \cup {"nobody"}]

Shapes ==
    /\ Players \subseteq Nodes
    /\ info \in [Nodes -> SUBSET Nodes] /\ data \in [Nodes -> Nat]
    /\ master \in [Nodes -> MasterShape] /\ call \in [Nodes -> CallShape]
    /\ users \in [Nodes -> Nat] /\ lock \in [Nodes -> BOOLEAN]
    /\ receiver \in [Nodes -> {"none", "running", "ended"}]
    /\ DOMAIN replicas = Nodes
    /\ \A n \in Nodes : IsFiniteSet(DOMAIN replicas[n])

Needs(n) == Cardinality(DOMAIN replicas[n]) + (IF master[n].created THEN 1 ELSE 0)

(* Who holds the lock across steps, and what is still there when he does.  *)
LockInv(n) ==
    /\ lock[n] <=> call[n].at \in {"joinMaster", "joinReceiver"}
    /\ call[n].at = "joinMaster" => master[n].created

PlayerInv(n) ==
    /\ users[n] = Needs(n)
    /\ master[n].created <=> master[n].thread # "none"
    /\ receiver[n] = "running" /\ ~lock[n] => users[n] > 0
    /\ LockInv(n)

IInv == Shapes /\ \A n \in Nodes : PlayerInv(n)
-----------------------------------------------------------------------------
(* Nobody uses anything at first.                                          *)
LEMMA InitIsSafe == Init => IInv
<1> SUFFICES ASSUME Init PROVE IInv
  OBVIOUS
<1>1. Players \subseteq Nodes
  BY ScenarioAssumption DEF Init, Players
<1>2. master \in [Nodes -> MasterShape] /\ call \in [Nodes -> CallShape]
  BY DEF Init, MasterShape, CallShape, NoMaster, Idle
<1>3. \A n \in Nodes : replicas[n] = <<>> /\ DOMAIN replicas[n] = {}
  BY DEF Init
<1>4. Shapes
  BY <1>1, <1>2, <1>3, FS_EmptySet DEF Init, Shapes
<1>5. ASSUME NEW n \in Nodes PROVE PlayerInv(n)
  BY <1>3, FS_EmptySet DEF Init, PlayerInv, Needs, LockInv, NoMaster, Idle
<1> QED
  BY <1>4, <1>5 DEF IInv

(* A master with some fields changed is a master still.                    *)
LEMMA MasterChanges ==
    ASSUME NEW n \in Nodes, NEW r \in MasterShape, master \in [Nodes -> MasterShape],
           master' = [master EXCEPT ![n] = r]
    PROVE  /\ master' \in [Nodes -> MasterShape] /\ master'[n] = r
           /\ \A k \in Nodes \ {n} : master'[k] = master[k]
  OBVIOUS

(* The invariant of a player whose state a step leaves as it is.           *)
LEMMA Untouched ==
    ASSUME NEW k \in Nodes, PlayerInv(k), users'[k] = users[k], replicas'[k] = replicas[k],
           master'[k].created = master[k].created,
           master'[k].thread # "none" <=> master[k].thread # "none",
           receiver'[k] = receiver[k], lock'[k] = lock[k], call'[k].at = call[k].at
    PROVE  PlayerInv(k)'
  BY DEF PlayerInv, Needs, LockInv

(* A new master is one more user.                                          *)
LEMMA CreateMasterIsSafe ==
    ASSUME IInv, NEW n \in Nodes, CreateMaster(n)
    PROVE  IInv'
<1>1. StartedMaster(n) \in MasterShape
  BY DEF IInv, Shapes, StartedMaster, MasterShape
<1>2. master' \in [Nodes -> MasterShape] /\ master'[n].created /\ master'[n].thread = "loop"
  BY <1>1 DEF IInv, Shapes, CreateMaster, StartedMaster
<1>3. /\ users' \in [Nodes -> Nat] /\ users'[n] = users[n] + 1
      /\ users[n] \in Nat
  BY DEF IInv, Shapes, CreateMaster
<1>4. Shapes'
  BY <1>2, <1>3 DEF IInv, Shapes, CreateMaster, Players
<1>5. ASSUME NEW k \in Nodes \ {n} PROVE PlayerInv(k)'
  BY <1>5, Untouched DEF IInv, Shapes, CreateMaster
<1>6. users'[n] = Needs(n)'
  <2>1. PlayerInv(n) /\ ~master[n].created /\ Cardinality(DOMAIN replicas[n]) \in Nat
    BY FS_CardinalityType DEF IInv, CreateMaster, Shapes
  <2>2. users[n] = Cardinality(DOMAIN replicas[n])
    BY <2>1 DEF PlayerInv, Needs
  <2>3. replicas'[n] = replicas[n]
    BY DEF CreateMaster
  <2> QED
    BY <2>2, <2>3, <1>2, <1>3 DEF Needs
<1>7. users'[n] > 0
  BY <1>3
<1>8. LockInv(n)'
  BY <1>2 DEF IInv, PlayerInv, LockInv, CreateMaster, Shapes
<1>9. PlayerInv(n)'
  BY <1>2, <1>6, <1>7, <1>8 DEF PlayerInv
<1> QED
  BY <1>4, <1>5, <1>9 DEF IInv

(* A call that goes on from its first wait to its second counts nothing.   *)
LEMMA FirstDataIsSafe ==
    ASSUME IInv, NEW n \in Nodes, FirstData(n)
    PROVE  IInv'
<1>1. call' \in [Nodes -> CallShape] /\ call'[n].at \in {"all", "idle"} /\ call[n].at = "first"
  <2>1. [call[n] EXCEPT !.at = "all"] \in CallShape /\ Idle \in CallShape
    BY DEF IInv, Shapes, CallShape, Idle
  <2>2. [call[n] EXCEPT !.at = "all"].at = "all" /\ Idle.at = "idle"
    BY DEF IInv, Shapes, CallShape, Idle
  <2> QED
    BY <2>1, <2>2 DEF FirstData, IInv, Shapes
<1>2. Shapes'
  BY <1>1 DEF IInv, Shapes, FirstData, Players
<1>3. ASSUME NEW k \in Nodes \ {n} PROVE PlayerInv(k)'
  BY <1>3, Untouched DEF IInv, Shapes, FirstData
<1>4. PlayerInv(n)'
  BY <1>1 DEF IInv, PlayerInv, Needs, LockInv, FirstData
<1> QED
  BY <1>2, <1>3, <1>4 DEF IInv

(* A call that returns from its second wait counts nothing.                *)
LEMMA AllDataIsSafe ==
    ASSUME IInv, NEW n \in Nodes, AllData(n)
    PROVE  IInv'
<1>1. Shapes'
  BY DEF IInv, Shapes, Players, AllData, CallShape, Idle
<1>2. ASSUME NEW k \in Nodes \ {n} PROVE PlayerInv(k)'
  BY Untouched DEF IInv, Shapes, AllData
<1>3. PlayerInv(n)'
  BY DEF IInv, Shapes, PlayerInv, Needs, LockInv, Idle, AllData
<1> QED
  BY <1>1, <1>2, <1>3 DEF IInv

(* A new version of the block is no new user.                              *)
LEMMA UpdateMasterIsSafe ==
    ASSUME IInv, NEW n \in Nodes, UpdateMaster(n)
    PROVE  IInv'
<1>1. PICK v \in Nat : v = data[n] + 1
  BY DEF IInv, Shapes
<1>2. master' = [master EXCEPT ![n] = [@ EXCEPT !.version = v, !.updated = 2]]
  BY <1>1 DEF IInv, Shapes, MasterShape, UpdateMaster, UpdatesToSend
<1>3. /\ master' \in [Nodes -> MasterShape] /\ master'[n].created = master[n].created
      /\ master'[n].thread = master[n].thread
  <2> DEFINE r == [master[n] EXCEPT !.version = v, !.updated = 2]
  <2>0. master[n] \in MasterShape
    BY DEF IInv, Shapes
  <2>1. r \in MasterShape /\ r.created = master[n].created /\ r.thread = master[n].thread
    BY <2>0 DEF MasterShape
  <2> HIDE DEF r
  <2>2. master' = [master EXCEPT ![n] = r]
    BY <1>2 DEF r
  <2> QED
    BY <2>1, <2>2, MasterChanges DEF IInv, Shapes
<1>4. data' \in [Nodes -> Nat]
  BY <1>1 DEF IInv, Shapes, UpdateMaster
<1>5. Shapes'
  BY <1>3, <1>4 DEF IInv, Shapes, UpdateMaster, Players
<1>6. ASSUME NEW k \in Nodes PROVE PlayerInv(k)'
  BY <1>2, <1>3, Untouched DEF IInv, Shapes, UpdateMaster
<1> QED
  BY <1>5, <1>6 DEF IInv

(* The call that deletes takes the lock while the master is still there.   *)
LEMMA DeleteMasterIsSafe ==
    ASSUME IInv, NEW n \in Nodes, DeleteMaster(n)
    PROVE  IInv'
<1>1. /\ master' \in [Nodes -> MasterShape] /\ master'[n].created = master[n].created
      /\ master'[n].thread = master[n].thread
  <2> DEFINE r == [master[n] EXCEPT !.stop = TRUE]
  <2>0. master[n] \in MasterShape
    BY DEF IInv, Shapes
  <2>1. r \in MasterShape /\ r.created = master[n].created /\ r.thread = master[n].thread
    BY <2>0 DEF MasterShape
  <2>2. master' = [master EXCEPT ![n] = r]
    BY DEF DeleteMaster
  <2> HIDE DEF r
  <2> QED
    BY <2>1, <2>2, MasterChanges DEF IInv, Shapes
<1>2. call' \in [Nodes -> CallShape] /\ call'[n].at = "joinMaster"
  BY DEF IInv, Shapes, DeleteMaster, CallShape
<1>3. Shapes'
  BY <1>1, <1>2 DEF IInv, Shapes, DeleteMaster, Players
<1>4. ASSUME NEW k \in Nodes \ {n} PROVE PlayerInv(k)'
  BY <1>4, Untouched DEF IInv, Shapes, DeleteMaster
<1>5. PlayerInv(n)'
  BY <1>1, <1>2 DEF IInv, Shapes, PlayerInv, Needs, LockInv, DeleteMaster
<1> QED
  BY <1>3, <1>4, <1>5 DEF IInv

(* The receiver has ended before the call that waits for it lets go.       *)
LEMMA ReceiverJoinedIsSafe ==
    ASSUME IInv, NEW n \in Nodes, ReceiverJoined(n)
    PROVE  IInv'
<1>1. Shapes'
  BY DEF IInv, Shapes, Players, ReceiverJoined, CallShape, Idle
<1>2. ASSUME NEW k \in Nodes \ {n} PROVE PlayerInv(k)'
  BY Untouched DEF IInv, Shapes, ReceiverJoined
<1>3. PlayerInv(n)'
  BY DEF IInv, Shapes, PlayerInv, Needs, LockInv, Idle, ReceiverJoined
<1> QED
  BY <1>1, <1>2, <1>3 DEF IInv

(* A turn of the master thread, and one that is late, keeps the master.    *)
LEMMA MasterTurnIsSafe ==
    ASSUME IInv, NEW n \in Nodes, MasterTurn(n) \/ MasterTimesOut(n)
    PROVE  IInv'
<1>1. PICK d \in Nat : d = Decremented(n)
  BY DEF IInv, Shapes, MasterShape, Decremented
<1>2. /\ Turned(n) \in MasterShape /\ Turned(n).created = master[n].created
      /\ Turned(n).thread = master[n].thread
  <2>1. master[n] \in MasterShape /\ info[n] \in SUBSET Nodes
    BY DEF IInv, Shapes
  <2> DEFINE r == [master[n] EXCEPT !.updated = d, !.lastInfo = info[n]]
  <2>2. r \in MasterShape /\ r.created = master[n].created /\ r.thread = master[n].thread
    BY <2>1 DEF MasterShape
  <2>3. Turned(n) \in {master[n], r}
    BY <1>1 DEF Turned
  <2> QED
    BY <2>1, <2>2, <2>3
<1>3. PICK r \in MasterShape :
          /\ master' = [master EXCEPT ![n] = r] /\ r.created = master[n].created
          /\ r.thread # "none" /\ master[n].thread # "none"
  <2>1. CASE MasterTimesOut(n)
    BY <2>1, <1>2 DEF MasterTimesOut, MayTurn
  <2>2. CASE MasterTurn(n)
    <3>1. PICK t \in {"loop", "again", "done"} :
              master' = [master EXCEPT ![n] = [Turned(n) EXCEPT !.thread = t]]
      <4>1. Turned(n) = [Turned(n) EXCEPT !.thread = "loop"]
        BY <1>2, <2>2 DEF MasterTurn, MayTurn, MasterShape
      <4> QED
        BY <2>2, <4>1 DEF MasterTurn
    <3> QED
      <4> DEFINE r == [Turned(n) EXCEPT !.thread = t]
      <4>1. r \in MasterShape /\ r.created = master[n].created /\ r.thread = t
        BY <1>2 DEF MasterShape
      <4> QED
        BY <3>1, <4>1, <2>2 DEF MasterTurn, MayTurn
  <2> QED
    BY <2>1, <2>2
<1>4. UNCHANGED <<scenario, info, data, replicas, users, receiver, lock, call>>
  BY DEF MasterTurn, MasterTimesOut
<1>5. Shapes'
  BY <1>3, <1>4 DEF IInv, Shapes, Players
<1>6. ASSUME NEW k \in Nodes PROVE PlayerInv(k)'
  BY <1>3, <1>4, Untouched DEF IInv, Shapes
<1> QED
  BY <1>5, <1>6 DEF IInv

(* The master thread may pause or end, and the master stays until joined.  *)
LEMMA MasterResumesIsSafe ==
    ASSUME IInv, NEW n \in Nodes, MasterResumes(n) \/ MasterStops(n)
    PROVE  IInv'
<1>1. PICK r \in MasterShape :
          /\ master' = [master EXCEPT ![n] = r] /\ r.created = master[n].created
          /\ r.thread # "none" /\ master[n].thread # "none"
  <2>0. master[n] \in MasterShape
    BY DEF IInv, Shapes
  <2>1. CASE MasterResumes(n) /\ master[n].thread = "again"
    <3>1. master' = [master EXCEPT ![n] = [@ EXCEPT !.thread = "loop", !.updated = 1]]
      BY <2>1 DEF MasterResumes, IInv, Shapes, MasterShape
    <3> DEFINE r == [master[n] EXCEPT !.thread = "loop", !.updated = 1]
    <3>2. r \in MasterShape /\ r.created = master[n].created /\ r.thread # "none"
      BY <2>0 DEF MasterShape
    <3> QED
      BY <3>1, <3>2, <2>1
  <2>2. CASE MasterResumes(n) /\ master[n].thread = "done"
    <3>1. master' = [master EXCEPT ![n] = [@ EXCEPT !.thread = "loop"]]
      BY <2>2 DEF MasterResumes
    <3> DEFINE r == [master[n] EXCEPT !.thread = "loop"]
    <3>2. r \in MasterShape /\ r.created = master[n].created /\ r.thread # "none"
      BY <2>0 DEF MasterShape
    <3> QED
      BY <3>1, <3>2, <2>2
  <2>3. CASE MasterStops(n)
    <3>1. master' = [master EXCEPT ![n] = [@ EXCEPT !.thread = "ended"]]
      BY <2>3 DEF MasterStops
    <3> DEFINE r == [master[n] EXCEPT !.thread = "ended"]
    <3>2. r \in MasterShape /\ r.created = master[n].created /\ r.thread # "none"
      BY <2>0 DEF MasterShape
    <3> QED
      BY <3>1, <3>2, <2>3 DEF MasterStops
  <2> QED
    BY <2>1, <2>2, <2>3 DEF MasterResumes
<1>2. UNCHANGED <<scenario, info, data, replicas, users, receiver, lock, call>>
  BY DEF MasterResumes, MasterStops
<1>3. Shapes'
  BY <1>1, <1>2 DEF IInv, Shapes, Players
<1>4. ASSUME NEW k \in Nodes PROVE PlayerInv(k)'
  BY <1>1, <1>2, Untouched DEF IInv, Shapes
<1> QED
  BY <1>3, <1>4 DEF IInv

(* The receiver ends while the call that waits for it has the lock.        *)
LEMMA ReplicaStopsIsSafe ==
    ASSUME IInv, NEW n \in Nodes, ReplicaStops(n)
    PROVE  IInv'
<1>1. Shapes'
  BY DEF IInv, Shapes, Players, ReplicaStops
<1>2. ASSUME NEW k \in Nodes \ {n} PROVE PlayerInv(k)'
  BY Untouched DEF IInv, Shapes, ReplicaStops
<1>3. PlayerInv(n)'
  BY DEF IInv, Shapes, PlayerInv, Needs, LockInv, ReplicaStops
<1> QED
  BY <1>1, <1>2, <1>3 DEF IInv

(* A peer that leaves changes no count.                                    *)
LEMMA PeerLeftIsSafe ==
    ASSUME IInv, NEW n \in Nodes, NEW m \in Nodes, PeerLeft(n, m)
    PROVE  IInv'
<1>1. Shapes'
  BY DEF IInv, Shapes, Players, PeerLeft
<1>2. ASSUME NEW k \in Nodes PROVE PlayerInv(k)'
  BY Untouched DEF IInv, PeerLeft
<1> QED
  BY <1>1, <1>2 DEF IInv

(* A datagram that is lost changes no count.                               *)
LEMMA LoseIsSafe ==
    ASSUME IInv, NEW n \in Nodes, Lose(n)
    PROVE  IInv'
<1>1. Shapes'
  BY DEF IInv, Shapes, Players, Lose
<1>2. ASSUME NEW k \in Nodes PROVE PlayerInv(k)'
  BY Untouched DEF IInv, Lose
<1> QED
  BY <1>1, <1>2 DEF IInv

(* A new replica is one more user, and its thread runs from then on.       *)
LEMMA CreateReplicaIsSafe ==
    ASSUME IInv, NEW n \in Nodes, NEW m \in Nodes, CreateReplica(n, m)
    PROVE  IInv'
<1> DEFINE Old == DOMAIN replicas[n]
<1>1. /\ m \notin Old /\ IsFiniteSet(Old) /\ users[n] = Needs(n)
      /\ users \in [Nodes -> Nat] /\ lock[n] = FALSE /\ DOMAIN replicas = Nodes
  BY DEF IInv, Shapes, PlayerInv, CreateReplica, MayCall
<1>2. /\ DOMAIN replicas' = Nodes /\ DOMAIN replicas'[n] = Old \cup {m}
      /\ \A k \in Nodes \ {n} : replicas'[k] = replicas[k]
  <2>1. replicas'[n] = Remembered(n, m)
    BY <1>1 DEF CreateReplica
  <2>2. DOMAIN replicas'[n] = Old \cup {m}
    BY <2>1 DEF Remembered
  <2> QED
    BY <1>1, <2>2 DEF CreateReplica
<1>3. /\ IsFiniteSet(Old \cup {m}) /\ Cardinality(Old) \in Nat
      /\ Cardinality(Old \cup {m}) = Cardinality(Old) + 1
  BY <1>1, FS_AddElement, FS_CardinalityType
<1>4. users' \in [Nodes -> Nat] /\ users'[n] = users[n] + 1 /\ users'[n] > 0
  BY <1>1 DEF CreateReplica
<1>5. call' \in [Nodes -> CallShape] /\ call'[n].at = "first"
  BY DEF IInv, Shapes, CallShape, CreateReplica
<1>6. Shapes'
  <2>1. ASSUME NEW k \in Nodes PROVE IsFiniteSet(DOMAIN replicas'[k])
    BY <1>2, <1>3 DEF IInv, Shapes
  <2> QED
    BY <2>1, <1>2, <1>4, <1>5 DEF IInv, Shapes, CreateReplica, Players
<1>7. ASSUME NEW k \in Nodes \ {n} PROVE PlayerInv(k)'
  BY <1>2, Untouched DEF IInv, Shapes, CreateReplica
<1>8. users'[n] = Needs(n)'
  <2>1. master'[n] = master[n]
    BY DEF CreateReplica
  <2> HIDE DEF Old
  <2>2. users[n] = Cardinality(Old) + (IF master[n].created THEN 1 ELSE 0)
    BY <1>1 DEF Needs, Old
  <2> QED
    BY <2>1, <2>2, <1>2, <1>3, <1>4 DEF Needs
<1>9. LockInv(n)'
  BY <1>1, <1>5 DEF LockInv, CreateReplica
<1>10. PlayerInv(n)'
  BY <1>4, <1>8, <1>9 DEF IInv, PlayerInv, CreateReplica
<1> QED
  BY <1>6, <1>7, <1>10 DEF IInv

(* A step that only writes into replicas that are there.                   *)
LEMMA ReplicasStay ==
    ASSUME IInv, \A n \in Nodes : DOMAIN replicas'[n] = DOMAIN replicas[n],
           DOMAIN replicas' = Nodes,
           UNCHANGED <<scenario, info, data, master, users, receiver, lock, call>>
    PROVE  IInv'
<1>1. Shapes'
  BY DEF IInv, Shapes, Players
<1>2. ASSUME NEW k \in Nodes PROVE PlayerInv(k)'
  BY DEF IInv, PlayerInv, Needs, LockInv
<1> QED
  BY <1>1, <1>2 DEF IInv

(* The game takes what has arrived at a replica.                           *)
LEMMA UpdateReplicaIsSafe ==
    ASSUME IInv, NEW n \in Nodes, NEW m \in Nodes, UpdateReplica(n, m)
    PROVE  IInv'
<1>1. DOMAIN replicas = Nodes
  BY DEF IInv, Shapes
<1>2. DOMAIN replicas' = Nodes /\ \A k \in Nodes : DOMAIN replicas'[k] = DOMAIN replicas[k]
  BY <1>1 DEF UpdateReplica
<1> QED
  BY <1>2, ReplicasStay DEF UpdateReplica

(* A datagram is received into a replica that is there.                    *)
LEMMA ReplicaTurnIsSafe ==
    ASSUME IInv, NEW n \in Nodes, ReplicaTurn(n)
    PROVE  IInv'
<1>1. DOMAIN replicas = Nodes
  BY DEF IInv, Shapes
<1>2. DOMAIN replicas' = Nodes /\ \A k \in Nodes : DOMAIN replicas'[k] = DOMAIN replicas[k]
  BY <1>1 DEF ReplicaTurn
<1> QED
  BY <1>2, ReplicasStay DEF ReplicaTurn

(* The end of both deletes: one user less, and a receiver that goes on     *)
(* only under the lock of the call that stops it.                          *)
LEMMA LetGoIsSafe ==
    ASSUME IInv, NEW n \in Nodes, LetGo(n), users[n] > 0, Needs(n)' = users[n] - 1,
           master'[n].created <=> master'[n].thread # "none",
           UNCHANGED <<scenario, info, data, receiver>>,
           master' \in [Nodes -> MasterShape], DOMAIN replicas' = Nodes,
           \A k \in Nodes : IsFiniteSet(DOMAIN replicas'[k]),
           \A k \in Nodes \ {n} : master'[k] = master[k] /\ replicas'[k] = replicas[k]
    PROVE  IInv'
<1>1. users \in [Nodes -> Nat] /\ receiver \in [Nodes -> {"none", "running", "ended"}]
  BY DEF IInv, Shapes
<1>2. users' \in [Nodes -> Nat] /\ users'[n] = users[n] - 1
  BY <1>1 DEF LetGo
<1>3. /\ call' \in [Nodes -> CallShape] /\ lock' \in [Nodes -> BOOLEAN]
      /\ lock'[n] <=> call'[n].at \in {"joinMaster", "joinReceiver"}
      /\ call'[n].at # "joinMaster"
      /\ lock'[n] <=> users[n] = 1 /\ receiver[n] # "none"
  <2> DEFINE waiting == [at |-> "joinReceiver", peer |-> "nobody"]
  <2>1. waiting \in CallShape /\ Idle \in CallShape /\ Idle.at = "idle"
    BY DEF CallShape, Idle
  <2>2. PICK b \in BOOLEAN, c \in CallShape :
            /\ lock' = [lock EXCEPT ![n] = b] /\ call' = [call EXCEPT ![n] = c]
            /\ b <=> users[n] = 1 /\ receiver[n] # "none"
            /\ c.at = (IF b THEN "joinReceiver" ELSE "idle")
    <3>1. CASE users[n] = 1 /\ receiver[n] # "none"
      BY <2>1, <3>1 DEF LetGo
    <3>2. CASE ~(users[n] = 1 /\ receiver[n] # "none")
      BY <2>1, <3>2 DEF LetGo
    <3> QED
      BY <3>1, <3>2
  <2>3. lock'[n] = b /\ call'[n] = c
    BY <2>2 DEF IInv, Shapes
  <2> QED
    BY <2>2, <2>3 DEF IInv, Shapes
<1>4. Shapes'
  BY <1>2, <1>3 DEF IInv, Shapes, Players
<1>5. ASSUME NEW k \in Nodes \ {n} PROVE PlayerInv(k)'
  BY Untouched DEF IInv, Shapes, LetGo
<1>6. receiver'[n] = "running" /\ ~lock'[n] => users'[n] > 0
  BY <1>1, <1>2, <1>3
<1>7. PlayerInv(n)'
  BY <1>2, <1>3, <1>6 DEF PlayerInv, LockInv
<1> QED
  BY <1>4, <1>5, <1>7 DEF IInv

(* The master goes, and with it one user.                                  *)
LEMMA MasterJoinedIsSafe ==
    ASSUME IInv, NEW n \in Nodes, MasterJoined(n)
    PROVE  IInv'
<1>1. /\ master[n].created /\ users[n] = Needs(n) /\ DOMAIN replicas = Nodes
      /\ IsFiniteSet(DOMAIN replicas[n]) /\ LetGo(n)
  BY DEF IInv, Shapes, PlayerInv, LockInv, MasterJoined
<1>2. Cardinality(DOMAIN replicas[n]) \in Nat
  BY <1>1, FS_CardinalityType
<1>3. users[n] = Cardinality(DOMAIN replicas[n]) + 1
  BY <1>1 DEF Needs
<1>4. [NoMaster EXCEPT !.stop = TRUE] \in MasterShape
  BY DEF NoMaster, MasterShape
<1>5. /\ master' \in [Nodes -> MasterShape] /\ ~master'[n].created
      /\ master'[n].thread = "none" /\ \A k \in Nodes \ {n} : master'[k] = master[k]
  <2>1. /\ ~[NoMaster EXCEPT !.stop = TRUE].created
        /\ [NoMaster EXCEPT !.stop = TRUE].thread = "none"
    BY DEF NoMaster
  <2> QED
    BY <1>4, <2>1 DEF IInv, Shapes, MasterJoined
<1>6. Needs(n)' = users[n] - 1
  BY <1>2, <1>3, <1>5 DEF Needs, MasterJoined
<1>7. users[n] > 0
  BY <1>2, <1>3
<1>8. \A k \in Nodes : IsFiniteSet(DOMAIN replicas'[k])
  BY DEF IInv, Shapes, MasterJoined
<1> QED
  BY <1>1, <1>5, <1>6, <1>7, <1>8, LetGoIsSafe DEF MasterJoined

(* A replica goes, and with it one user.                                   *)
LEMMA DeleteReplicaIsSafe ==
    ASSUME IInv, NEW n \in Nodes, NEW m \in Nodes, DeleteReplica(n, m)
    PROVE  IInv'
<1> DEFINE Old == DOMAIN replicas[n]
<1>1. /\ m \in Old /\ users[n] = Needs(n) /\ DOMAIN replicas = Nodes
      /\ IsFiniteSet(Old) /\ LetGo(n) /\ master \in [Nodes -> MasterShape]
      /\ (master[n].created <=> master[n].thread # "none")
  BY DEF IInv, Shapes, PlayerInv, DeleteReplica
<1>2. DOMAIN replicas' = Nodes /\ replicas'[n] = Forgotten(n, m)
      /\ \A k \in Nodes \ {n} : replicas'[k] = replicas[k]
  BY <1>1 DEF DeleteReplica
<1>3. DOMAIN replicas'[n] = Old \ {m}
  BY <1>2 DEF Forgotten
<1>4. /\ IsFiniteSet(Old \ {m}) /\ Cardinality(Old) \in Nat /\ Cardinality(Old \ {m}) \in Nat
      /\ Cardinality(Old \ {m}) = Cardinality(Old) - 1
  BY <1>1, FS_RemoveElement, FS_CardinalityType
<1>5. master' = master
  BY DEF DeleteReplica
<1>6. Needs(n)' = users[n] - 1 /\ users[n] > 0
  BY <1>1, <1>3, <1>4, <1>5 DEF Needs
<1>7. \A k \in Nodes : IsFiniteSet(DOMAIN replicas'[k])
  BY <1>2, <1>3, <1>4 DEF IInv, Shapes
<1> QED
  BY <1>1, <1>2, <1>5, <1>6, <1>7, LetGoIsSafe DEF DeleteReplica

(* A player who is switched off has nothing left.                          *)
LEMMA PowerOffIsSafe ==
    ASSUME IInv, NEW n \in Nodes, PowerOff(n)
    PROVE  IInv'
<1>1. NoMaster \in MasterShape /\ Idle \in CallShape
  BY DEF NoMaster, MasterShape, Idle, CallShape
<1>2. DOMAIN replicas' = Nodes /\ replicas'[n] = <<>> /\ DOMAIN replicas'[n] = {}
  BY DEF IInv, Shapes, PowerOff
<1>3. \A k \in Nodes : IsFiniteSet(DOMAIN replicas'[k])
  BY <1>2, FS_EmptySet DEF IInv, Shapes, PowerOff
<1>4. Shapes'
  BY <1>1, <1>2, <1>3 DEF IInv, Shapes, PowerOff, Players
<1>5. ASSUME NEW k \in Nodes \ {n} PROVE PlayerInv(k)'
  BY Untouched DEF IInv, Shapes, PowerOff
<1>6. PlayerInv(n)'
  BY <1>2, FS_EmptySet
     DEF IInv, Shapes, PowerOff, PlayerInv, Needs, LockInv, NoMaster, Idle
<1> QED
  BY <1>4, <1>5, <1>6 DEF IInv

(* Every step keeps the invariant.                                         *)
LEMMA NextIsSafe == IInv /\ [Next]_vars => IInv'
<1> SUFFICES ASSUME IInv, [Next]_vars PROVE IInv'
  OBVIOUS
<1>1. CASE UNCHANGED vars
  BY <1>1 DEF vars, gameVars, IInv, Shapes, Players, PlayerInv, Needs, LockInv
<1>2. ASSUME NEW n \in Nodes, GameStep(n) PROVE IInv'
  BY <1>2, CreateMasterIsSafe, FirstDataIsSafe, AllDataIsSafe, MasterJoinedIsSafe,
     ReceiverJoinedIsSafe, UpdateMasterIsSafe, DeleteMasterIsSafe, PowerOffIsSafe,
     CreateReplicaIsSafe, PeerLeftIsSafe, UpdateReplicaIsSafe, DeleteReplicaIsSafe
  DEF GameStep
<1>3. ASSUME NEW n \in Nodes, ThreadStep(n) PROVE IInv'
  BY <1>3, MasterTurnIsSafe, MasterResumesIsSafe, ReplicaTurnIsSafe, ReplicaStopsIsSafe
  DEF ThreadStep
<1>4. ASSUME NEW n \in Nodes, Lose(n) PROVE IInv'
  BY <1>4, LoseIsSafe
<1> QED
  BY <1>1, <1>2, <1>3, <1>4 DEF Next

(* The inductive invariant implies the property.                           *)
LEMMA SafeMeansOpen == IInv => SocketWhileUsed
<1> SUFFICES ASSUME IInv, NEW n \in Nodes
             PROVE  /\ users[n] = Cardinality(DOMAIN replicas[n])
                                    + (IF master[n].created THEN 1 ELSE 0)
                    /\ master[n].thread \notin {"none", "ended"} => SocketOpen(n)
                    /\ receiver[n] = "running" /\ ~lock[n] => SocketOpen(n)
  BY DEF SocketWhileUsed
<1>1. PlayerInv(n) /\ Cardinality(DOMAIN replicas[n]) \in Nat /\ users[n] = Needs(n)
  BY FS_CardinalityType DEF IInv, Shapes, PlayerInv
<1>2. master[n].thread \notin {"none", "ended"} => users[n] > 0
  BY <1>1 DEF PlayerInv, Needs
<1> QED
  BY <1>1, <1>2 DEF PlayerInv, Needs, SocketOpen

(* Neither thread of a player ever uses a closed socket, and the socket is *)
(* closed once the master and all replicas are deleted, for any number of  *)
(* players and whatever the games call.                                    *)
THEOREM SocketStaysOpen == Spec => []SocketWhileUsed
<1>1. Spec => []IInv
  BY InitIsSafe, NextIsSafe, PTL DEF Spec
<1> QED
  BY <1>1, SafeMeansOpen, PTL

-----------------------------------------------------------------------------
(* When the game begins: what has been received, and what was counted.     *)
Packets == [from : Nodes, version : Nat \ {0}]
ReplicaShape == [version : Nat, updated : BOOLEAN, seen : Nat]

Contents ==
    /\ on \subseteq Nodes /\ inbox \in [Nodes -> Seq(Packets)]
    /\ allReceived \in [Nodes -> BOOLEAN] /\ numPeers \in [Nodes -> Int]
    /\ \A n \in Nodes : /\ IsFiniteSet(info[n]) /\ data[n] > 0
                        /\ master[n].created => master[n].version > 0
                        /\ replicas[n] \in [DOMAIN replicas[n] -> ReplicaShape]
    /\ \A n \in Nodes : \A m \in DOMAIN replicas[n] :
          replicas[n][m].updated => replicas[n][m].version > 0

Arrived(n) == {m \in DOMAIN replicas[n] : replicas[n][m].version > 0}

(* The master thread has found all blocks, and will let the game begin     *)
(* after its pause or has done so.                                         *)
Begins(n) == master[n].created /\ (allReceived[n] \/ master[n].thread = "done")

Synced == \A n \in Nodes : Begins(n) => Cardinality(Arrived(n)) >= numPeers[n]

StartInv == Contents /\ (OnTime => Synced)

(* Nothing has been received at first.                                     *)
LEMMA InitHasStart == Init => StartInv
<1> SUFFICES ASSUME Init PROVE StartInv
  OBVIOUS
<1>1. Players \subseteq Nodes /\ IsFiniteSet(Players)
  BY ScenarioAssumption DEF Init, Players
<1>2. Contents
  BY <1>1 DEF Init, Contents, NoMaster
<1>3. Synced
  BY DEF Init, Synced, Begins, NoMaster
<1> QED
  BY <1>2, <1>3 DEF StartInv

(* What has arrived stays, so who was in step stays so.                    *)
LEMMA SyncedStays ==
    ASSUME IInv', Contents, Synced,
           \A n \in Nodes : /\ Begins(n)' => Begins(n) /\ numPeers'[n] = numPeers[n]
                            /\ Begins(n)' => Arrived(n) \subseteq Arrived(n)'
    PROVE  Synced'
<1> SUFFICES ASSUME NEW n \in Nodes, Begins(n)'
             PROVE  Cardinality(Arrived(n)') >= numPeers'[n]
  BY DEF Synced
<1>1. IsFiniteSet(Arrived(n)')
  <2>1. IsFiniteSet(DOMAIN replicas'[n]) /\ Arrived(n)' \subseteq DOMAIN replicas'[n]
    BY DEF IInv, Shapes, Arrived
  <2> QED
    BY <2>1, FS_Subset
<1>2. Arrived(n) \in SUBSET (Arrived(n)')
  OBVIOUS
<1>3. /\ Cardinality(Arrived(n)) <= Cardinality(Arrived(n)')
      /\ IsFiniteSet(Arrived(n))
  BY <1>1, <1>2, FS_Subset
<1>4. Cardinality(Arrived(n)) \in Nat /\ Cardinality(Arrived(n)') \in Nat
  BY <1>1, <1>3, FS_CardinalityType
<1>5. Cardinality(Arrived(n)) >= numPeers[n] /\ numPeers[n] \in Int
  BY DEF Synced, Contents
<1> QED
  BY <1>3, <1>4, <1>5

(* Most steps touch neither what has been received nor who has begun.      *)
LEMMA NothingReceived ==
    ASSUME IInv', StartInv, UNCHANGED <<scenario, on, replicas, numPeers, inbox, allReceived>>,
           \A n \in Nodes : /\ IsFiniteSet(info'[n]) /\ data'[n] > 0
                            /\ master'[n].created => master'[n].version > 0
                            /\ Begins(n)' => Begins(n)
    PROVE  StartInv'
<1>1. Contents'
  BY DEF StartInv, Contents
<1>2. OnTime' <=> OnTime
  BY DEF OnTime, Uses
<1>3. ASSUME OnTime PROVE Synced'
  BY <1>3, SyncedStays DEF StartInv, Arrived
<1> QED
  BY <1>1, <1>2, <1>3 DEF StartInv

(* Broadcasts are of versions of a block that there is.                    *)
LEMMA BroadcastsFit ==
    ASSUME IInv, Contents, NEW n \in Nodes, master[n].created, NEW times \in Nat
    PROVE  \A m \in Nodes : Broadcast(n, times)[m] \in Seq(Packets)
<1> SUFFICES ASSUME NEW m \in Nodes
             PROVE  Broadcast(n, times)[m] \in Seq(Packets)
  OBVIOUS
<1>1. inbox[m] \in Seq(Packets)
  BY DEF Contents
<1>2. [from |-> n, version |-> master[n].version] \in Packets
  BY DEF IInv, Shapes, MasterShape, Contents, Packets
<1>3. [i \in 1..times |-> [from |-> n, version |-> master[n].version]] \in Seq(Packets)
  BY <1>2
<1>4. inbox[m] \o [i \in 1..times |-> [from |-> n, version |-> master[n].version]] \in Seq(Packets)
  BY <1>1, <1>3
<1> QED
  BY <1>1, <1>4 DEF Broadcast

(* Waits that end, new versions, and members who leave.                    *)
LEMMA WaitsKeepStart ==
    ASSUME IInv, IInv', StartInv, NEW n \in Nodes,
           \/ FirstData(n) \/ AllData(n) \/ ReceiverJoined(n) \/ UpdateMaster(n) \/ DeleteMaster(n)
           \/ MasterStops(n) \/ ReplicaStops(n) \/ \E m \in Nodes : PeerLeft(n, m)
    PROVE  StartInv'
<1>1. master \in [Nodes -> MasterShape] /\ data \in [Nodes -> Nat] /\ info \in [Nodes -> SUBSET Nodes]
  BY DEF IInv, Shapes
<1>2. ASSUME NEW k \in Nodes
      PROVE  /\ IsFiniteSet(info'[k]) /\ data'[k] > 0
             /\ master'[k].created => master'[k].version > 0
             /\ Begins(k)' => Begins(k)
  <2>1. /\ IsFiniteSet(info[k]) /\ data[k] > 0 /\ data[n] \in Nat
        /\ master[k].created => master[k].version > 0
        /\ master[k] \in MasterShape
    BY <1>1 DEF StartInv, Contents
  <2>2. CASE FirstData(n) \/ AllData(n) \/ ReceiverJoined(n) \/ ReplicaStops(n)
    BY <2>1, <2>2 DEF FirstData, AllData, ReceiverJoined, ReplicaStops, Begins
  <2>3. CASE UpdateMaster(n)
    BY <1>1, <2>1, <2>3 DEF UpdateMaster, Begins, MasterShape
  <2>4. CASE DeleteMaster(n)
    BY <1>1, <2>1, <2>4 DEF DeleteMaster, Begins, MasterShape
  <2>5. CASE MasterStops(n)
    BY <1>1, <2>1, <2>5 DEF MasterStops, Begins, MasterShape
  <2>6. CASE \E m \in Nodes : PeerLeft(n, m)
    <3>1. PICK m \in Nodes : PeerLeft(n, m)
      BY <2>6
    <3>2. info'[k] \subseteq info[k]
      BY <1>1, <3>1 DEF PeerLeft
    <3> QED
      BY <2>1, <3>1, <3>2, FS_Subset DEF PeerLeft, Begins
  <2> QED
    BY <2>2, <2>3, <2>4, <2>5, <2>6
<1>3. UNCHANGED <<scenario, on, replicas, numPeers, inbox, allReceived>>
  BY DEF FirstData, AllData, ReceiverJoined, UpdateMaster, DeleteMaster, MasterStops, ReplicaStops, PeerLeft
<1> QED
  BY <1>2, <1>3, NothingReceived

(* A new master waits for its peers anew.                                  *)
LEMMA CreateMasterKeepsStart ==
    ASSUME IInv, IInv', StartInv, NEW n \in Nodes, CreateMaster(n)
    PROVE  StartInv'
<1>1. /\ master' = [master EXCEPT ![n] = StartedMaster(n)]
      /\ master \in [Nodes -> MasterShape] /\ data[n] \in Nat
  BY DEF CreateMaster, IInv, Shapes
<1>2. master'[n].version > 0 /\ master'[n].thread = "loop"
  BY <1>1 DEF StartedMaster, StartInv, Contents
<1>3. Cardinality(info[n]) - 1 \in Int
  BY FS_CardinalityType DEF StartInv, Contents
<1>4. Contents'
  BY <1>1, <1>2, <1>3 DEF StartInv, Contents, CreateMaster
<1>5. OnTime' <=> OnTime
  BY DEF OnTime, Uses, CreateMaster
<1>6. ASSUME NEW k \in Nodes, Begins(k)'
      PROVE  Begins(k) /\ numPeers'[k] = numPeers[k] /\ Arrived(k) \subseteq Arrived(k)'
  <2>1. k # n
    BY <1>2, <1>6 DEF Begins, CreateMaster, StartInv, Contents
  <2> QED
    BY <1>1, <1>6, <2>1 DEF Begins, CreateMaster, StartInv, Contents, Arrived
<1> QED
  BY <1>4, <1>5, <1>6, SyncedStays DEF StartInv

(* The end of a master is not the beginning of a game.                     *)
LEMMA MasterJoinedKeepsStart ==
    ASSUME IInv, IInv', StartInv, NEW n \in Nodes, MasterJoined(n)
    PROVE  StartInv'
<1>1. /\ \A k \in Nodes \ {n} : master'[k] = master[k]
      /\ ~master'[n].created
  <2>1. ~[NoMaster EXCEPT !.stop = TRUE].created
    BY DEF NoMaster
  <2> QED
    BY <2>1 DEF MasterJoined, IInv, Shapes
<1>2. inbox' \in [Nodes -> Seq(Packets)]
  BY DEF MasterJoined, LetGo, StartInv, Contents
<1>3. UNCHANGED <<scenario, on, info, data, replicas, numPeers, allReceived>>
  BY DEF MasterJoined
<1>4. Contents'
  BY <1>1, <1>2, <1>3 DEF StartInv, Contents
<1>5. OnTime' <=> OnTime
  BY <1>3 DEF OnTime, Uses
<1>6. ASSUME NEW k \in Nodes, Begins(k)'
      PROVE  Begins(k) /\ Arrived(k) = Arrived(k)'
  BY <1>1, <1>3, <1>6 DEF Begins, Arrived
<1> QED
  BY <1>3, <1>4, <1>5, <1>6, SyncedStays DEF StartInv

(* A new replica is empty, and takes nothing from the others.              *)
LEMMA CreateReplicaKeepsStart ==
    ASSUME IInv, IInv', StartInv, NEW n \in Nodes, NEW m \in Nodes, CreateReplica(n, m)
    PROVE  StartInv'
<1>1. DOMAIN replicas = Nodes /\ m \notin DOMAIN replicas[n]
  BY DEF CreateReplica, IInv, Shapes
<1>2. /\ replicas'[n] = Remembered(n, m)
      /\ \A k \in Nodes \ {n} : replicas'[k] = replicas[k]
  BY <1>1 DEF CreateReplica
<1>3. /\ DOMAIN replicas'[n] = DOMAIN replicas[n] \cup {m}
      /\ replicas'[n][m] = NewReplica
      /\ \A k \in DOMAIN replicas[n] : replicas'[n][k] = replicas[n][k]
      /\ replicas'[n] = [k \in DOMAIN replicas'[n] |-> replicas'[n][k]]
  BY <1>1, <1>2 DEF Remembered
<1>4. NewReplica \in ReplicaShape /\ ~NewReplica.updated
  BY DEF NewReplica, ReplicaShape
<1>5. /\ \A k \in DOMAIN replicas[n] : /\ replicas[n][k] \in ReplicaShape
                                       /\ replicas[n][k].updated => replicas[n][k].version > 0
  BY DEF StartInv, Contents
<1>6. /\ \A k \in DOMAIN replicas'[n] : /\ replicas'[n][k] \in ReplicaShape
                                        /\ replicas'[n][k].updated => replicas'[n][k].version > 0
  BY <1>3, <1>4, <1>5
<1>7. replicas'[n] \in [DOMAIN replicas'[n] -> ReplicaShape]
  BY <1>3, <1>6
<1>8. Contents'
  BY <1>2, <1>6, <1>7 DEF StartInv, Contents, CreateReplica
<1>9. \A k \in Nodes : Arrived(k) \subseteq Arrived(k)'
  BY <1>2, <1>3 DEF Arrived
<1>10. \A k \in Nodes : Begins(k)' => Begins(k) /\ numPeers'[k] = numPeers[k]
  BY DEF Begins, CreateReplica
<1>11. OnTime' <=> OnTime
  BY DEF OnTime, Uses, CreateReplica
<1> QED
  BY <1>8, <1>9, <1>10, <1>11, SyncedStays DEF StartInv

(* A replica that is deleted is so in a game that deletes.                 *)
LEMMA DeleteReplicaKeepsStart ==
    ASSUME IInv, IInv', StartInv, NEW n \in Nodes, NEW m \in Nodes, Uses("Delete"), DeleteReplica(n, m)
    PROVE  StartInv'
<1>1. DOMAIN replicas = Nodes
  BY DEF IInv, Shapes
<1>2. /\ replicas'[n] = Forgotten(n, m)
      /\ \A k \in Nodes \ {n} : replicas'[k] = replicas[k]
  BY <1>1 DEF DeleteReplica
<1>3. inbox' \in [Nodes -> Seq(Packets)]
  BY DEF DeleteReplica, LetGo, StartInv, Contents
<1>4. replicas'[n] \in [DOMAIN replicas'[n] -> ReplicaShape]
  BY <1>2 DEF StartInv, Contents, Forgotten
<1>5. \A k \in DOMAIN replicas'[n] : replicas'[n][k].updated => replicas'[n][k].version > 0
  BY <1>2 DEF StartInv, Contents, Forgotten
<1>6. Contents'
  BY <1>2, <1>3, <1>4, <1>5 DEF StartInv, Contents, DeleteReplica
<1>7. ~OnTime'
  BY DEF OnTime, Uses, DeleteReplica
<1> QED
  BY <1>6, <1>7 DEF StartInv

(* A player who is switched off begins nothing.                            *)
LEMMA PowerOffKeepsStart ==
    ASSUME IInv, IInv', StartInv, NEW n \in Nodes, PowerOff(n)
    PROVE  StartInv'
<1>1. /\ \A k \in Nodes \ {n} : master'[k] = master[k] /\ replicas'[k] = replicas[k]
      /\ ~master'[n].created /\ replicas'[n] = <<>> /\ DOMAIN replicas'[n] = {}
  BY DEF PowerOff, IInv, Shapes, NoMaster
<1>2. inbox' \in [Nodes -> Seq(Packets)] /\ on' \subseteq Nodes
  BY DEF PowerOff, StartInv, Contents
<1>3. replicas'[n] \in [DOMAIN replicas'[n] -> ReplicaShape]
  BY <1>1
<1>4. Contents'
  BY <1>1, <1>2, <1>3 DEF StartInv, Contents, PowerOff
<1>5. ASSUME NEW k \in Nodes, Begins(k)'
      PROVE  Begins(k) /\ numPeers'[k] = numPeers[k] /\ Arrived(k) \subseteq Arrived(k)'
  BY <1>1, <1>5 DEF Begins, PowerOff, Arrived
<1>6. OnTime' <=> OnTime
  BY DEF OnTime, Uses, PowerOff
<1> QED
  BY <1>4, <1>5, <1>6, SyncedStays DEF StartInv

(* A replica is written into.                                              *)
LEMMA ReplicaWritten ==
    ASSUME IInv, Contents, NEW n \in Nodes, NEW m \in DOMAIN replicas[n], NEW r \in ReplicaShape,
           r.updated => r.version > 0, replicas[n][m].version > 0 => r.version > 0,
           replicas' = [replicas EXCEPT ![n] = [replicas[n] EXCEPT ![m] = r]]
    PROVE  \A k \in Nodes : /\ replicas'[k] \in [DOMAIN replicas'[k] -> ReplicaShape]
                            /\ \A j \in DOMAIN replicas'[k] :
                                  replicas'[k][j].updated => replicas'[k][j].version > 0
                            /\ Arrived(k) \subseteq Arrived(k)'
<1>1. DOMAIN replicas = Nodes /\ replicas[n] \in [DOMAIN replicas[n] -> ReplicaShape]
  BY DEF IInv, Shapes, Contents
<1>2. /\ \A k \in Nodes \ {n} : replicas'[k] = replicas[k]
      /\ replicas'[n] = [replicas[n] EXCEPT ![m] = r]
  BY <1>1
<1>3. /\ DOMAIN replicas'[n] = DOMAIN replicas[n]
      /\ replicas'[n] \in [DOMAIN replicas'[n] -> ReplicaShape]
      /\ \A k \in DOMAIN replicas[n] : replicas'[n][k] = IF k = m THEN r ELSE replicas[n][k]
  BY <1>1, <1>2
<1> QED
  BY <1>2, <1>3 DEF Contents, Arrived

(* Steps that only receive, or take from what was received.                *)
LEMMA WrittenKeepsStart ==
    ASSUME IInv', StartInv, inbox' \in [Nodes -> Seq(Packets)],
           UNCHANGED <<scenario, on, info, data, master, numPeers, allReceived>>,
           \A k \in Nodes : /\ replicas'[k] \in [DOMAIN replicas'[k] -> ReplicaShape]
                            /\ \A j \in DOMAIN replicas'[k] :
                                  replicas'[k][j].updated => replicas'[k][j].version > 0
                            /\ Arrived(k) \subseteq Arrived(k)'
    PROVE  StartInv'
<1>1. Contents'
  BY DEF StartInv, Contents
<1>2. (OnTime' <=> OnTime) /\ \A k \in Nodes : Begins(k)' <=> Begins(k)
  BY DEF OnTime, Uses, Begins
<1> QED
  BY <1>1, <1>2, SyncedStays DEF StartInv

(* The game takes what has arrived at a replica, which stays arrived.      *)
LEMMA UpdateReplicaKeepsStart ==
    ASSUME IInv, IInv', StartInv, NEW n \in Nodes, NEW m \in Nodes, UpdateReplica(n, m)
    PROVE  StartInv'
<1> DEFINE r == [replicas[n][m] EXCEPT !.updated = FALSE, !.seen = replicas[n][m].version]
<1>1. m \in DOMAIN replicas[n] /\ replicas[n][m] \in ReplicaShape
  BY DEF UpdateReplica, StartInv, Contents
<1>2. r \in ReplicaShape /\ ~r.updated /\ r.version = replicas[n][m].version
  BY <1>1 DEF ReplicaShape
<1>3. replicas' = [replicas EXCEPT ![n] = [replicas[n] EXCEPT ![m] = r]]
  BY <1>1 DEF UpdateReplica, ReplicaShape
<1> HIDE DEF r
<1>4. UNCHANGED <<scenario, on, info, data, master, inbox, numPeers, allReceived>>
  BY DEF UpdateReplica
<1>5. r.updated => r.version > 0
  BY <1>2
<1>6. inbox' \in [Nodes -> Seq(Packets)]
  BY <1>4 DEF StartInv, Contents
<1>7. \A k \in Nodes : /\ replicas'[k] \in [DOMAIN replicas'[k] -> ReplicaShape]
                       /\ \A j \in DOMAIN replicas'[k] :
                             replicas'[k][j].updated => replicas'[k][j].version > 0
                       /\ Arrived(k) \subseteq Arrived(k)'
  BY <1>1, <1>2, <1>3, <1>5, ReplicaWritten DEF StartInv
<1> QED
  BY <1>4, <1>6, <1>7, WrittenKeepsStart

(* A datagram that is received makes its replica one that has arrived.     *)
LEMMA ReplicaTurnKeepsStart ==
    ASSUME IInv, IInv', StartInv, NEW n \in Nodes, ReplicaTurn(n)
    PROVE  StartInv'
<1>1. inbox[n] \in Seq(Packets) /\ inbox[n] # <<>>
  BY DEF ReplicaTurn, StartInv, Contents
<1>2. PICK p \in Packets : p = Head(inbox[n]) /\ Tail(inbox[n]) \in Seq(Packets)
  BY <1>1, HeadTailProperties
<1>3. inbox' \in [Nodes -> Seq(Packets)]
  BY <1>2, SMTT(30) DEF ReplicaTurn, StartInv, Contents
<1>4. UNCHANGED <<scenario, on, info, data, master, numPeers, allReceived>>
  BY ZenonT(60) DEF ReplicaTurn
<1>5. CASE p.from \notin DOMAIN replicas[n]
  BY <1>2, <1>3, <1>4, <1>5, WrittenKeepsStart DEF ReplicaTurn, StartInv, Contents, Arrived
<1>6. CASE p.from \in DOMAIN replicas[n]
  <2> DEFINE r == [replicas[n][p.from] EXCEPT !.version = p.version, !.updated = TRUE]
  <2>1. replicas[n][p.from] \in ReplicaShape /\ p.version \in Nat /\ p.version > 0
    BY <1>6, SMTT(30) DEF StartInv, Contents, Packets
  <2>2. r \in ReplicaShape /\ r.version > 0
    BY <2>1, ZenonT(60) DEF ReplicaShape
  <2>3. replicas' = [replicas EXCEPT ![n] = [replicas[n] EXCEPT ![p.from] = r]]
    BY <1>2, <1>6, <2>1, ZenonT(60) DEF ReplicaTurn, ReplicaShape
  <2> HIDE DEF r
  <2> QED
    BY <1>3, <1>4, <1>6, <2>2, <2>3, WrittenKeepsStart, ReplicaWritten, ZenonT(60) DEF StartInv
<1> QED
  BY <1>5, <1>6

(* A datagram that is lost has not arrived.                                *)
LEMMA LoseKeepsStart ==
    ASSUME IInv, IInv', StartInv, NEW n \in Nodes, Lose(n)
    PROVE  StartInv'
<1>1. PICK i \in DOMAIN inbox[n] : inbox' = [inbox EXCEPT ![n] = RemoveAt(@, i)]
  BY DEF Lose
<1> DEFINE s == inbox[n]
<1>2. s \in Seq(Packets) /\ i \in 1..Len(s)
  BY DEF StartInv, Contents
<1>3. SubSeq(s, 1, i - 1) \in Seq(Packets) /\ SubSeq(s, i + 1, Len(s)) \in Seq(Packets)
  BY <1>2, SubSeqProperties
<1>4. RemoveAt(s, i) \in Seq(Packets)
  BY <1>3, ConcatProperties DEF RemoveAt
<1>5. inbox' \in [Nodes -> Seq(Packets)]
  BY <1>1, <1>4 DEF StartInv, Contents
<1>6. UNCHANGED <<scenario, on, info, data, master, replicas, numPeers, allReceived>>
  BY DEF Lose
<1>7. Contents'
  BY <1>5, <1>6 DEF StartInv, Contents
<1>8. (OnTime' <=> OnTime) /\ \A k \in Nodes : (Begins(k)' <=> Begins(k)) /\ Arrived(k)' = Arrived(k)
  BY <1>6 DEF OnTime, Uses, Begins, Arrived
<1> QED
  BY <1>6, <1>7, <1>8, SyncedStays DEF StartInv

(* A turn of the master thread sends what there is.                        *)
LEMMA TurnsKeepContents ==
    ASSUME IInv, StartInv, NEW n \in Nodes, MasterTurn(n) \/ MasterTimesOut(n)
    PROVE  /\ Contents' /\ master[n].created
           /\ \A k \in Nodes \ {n} : master'[k] = master[k]
<1>1. master \in [Nodes -> MasterShape] /\ info \in [Nodes -> SUBSET Nodes]
  BY DEF IInv, Shapes
<1>2. master[n].created
  BY DEF IInv, PlayerInv, MasterTurn, MasterTimesOut, MayTurn
<1>3. News(n) \in Nat /\ News(n) + 1 \in Nat
  BY DEF News
<1>4. \A times \in {News(n), News(n) + 1}, m \in Nodes : Broadcast(n, times)[m] \in Seq(Packets)
  BY <1>2, <1>3, BroadcastsFit DEF StartInv
<1>5. \A times \in Nat : Broadcast(n, times) = [m \in Nodes |-> Broadcast(n, times)[m]]
  BY DEF Broadcast
<1>6. inbox' \in [Nodes -> Seq(Packets)]
  <2>1. CASE MasterTurn(n)
    <3>1. PICK times \in {News(n), News(n) + 1} : inbox' = Broadcast(n, times)
      BY <2>1 DEF MasterTurn
    <3> QED
      BY <1>3, <1>4, <1>5, <3>1
  <2>2. CASE MasterTimesOut(n)
    BY <1>4, <2>2 DEF MasterTimesOut, StartInv, Contents
  <2> QED
    BY <2>1, <2>2
<1>7. Turned(n).version = master[n].version /\ Turned(n).created = master[n].created
  BY <1>1 DEF Turned, MasterShape
<1>8. \E r : /\ master' = [master EXCEPT ![n] = r] /\ r.version = master[n].version
             /\ r.created = master[n].created
  <2>1. CASE MasterTimesOut(n)
    BY <1>7, <2>1 DEF MasterTimesOut
  <2>2. CASE MasterTurn(n) /\ allReceived[n]
    BY <1>7, <2>2 DEF MasterTurn
  <2>3. CASE MasterTurn(n) /\ ~allReceived[n]
    <3>1. PICK t : master' = [master EXCEPT ![n] = [Turned(n) EXCEPT !.thread = t]]
      BY <2>3 DEF MasterTurn
    <3>2. /\ [Turned(n) EXCEPT !.thread = t].version = Turned(n).version
          /\ [Turned(n) EXCEPT !.thread = t].created = Turned(n).created
      BY <1>1 DEF Turned, MasterShape
    <3> QED
      BY <1>7, <3>1, <3>2
  <2> QED
    BY <2>1, <2>2, <2>3
<1>9. \A k \in Nodes : /\ master'[k].version = master[k].version
                       /\ master'[k].created = master[k].created
                       /\ k # n => master'[k] = master[k]
  BY <1>1, <1>8
<1>10. allReceived' \in [Nodes -> BOOLEAN]
  BY DEF MasterTurn, MasterTimesOut, StartInv, Contents
<1>11. UNCHANGED <<scenario, on, info, data, replicas, numPeers>>
  BY DEF MasterTurn, MasterTimesOut
<1>12. Contents'
  BY <1>6, <1>9, <1>10, <1>11 DEF StartInv, Contents
<1> QED
  BY <1>2, <1>9, <1>12

(* The thread goes to its end of waiting when as many blocks have arrived  *)
(* as there are peers.                                                     *)
LEMMA MasterTurnKeepsStart ==
    ASSUME IInv, IInv', StartInv, NEW n \in Nodes, MasterTurn(n)
    PROVE  StartInv'
<1>1. Contents' /\ master[n].created /\ \A k \in Nodes \ {n} : master'[k] = master[k]
  BY TurnsKeepContents
<1>2. UNCHANGED <<scenario, on, info, data, replicas, numPeers, allReceived>>
  BY DEF MasterTurn
<1>3. OnTime' <=> OnTime
  BY <1>2 DEF OnTime, Uses
<1>4. ASSUME Synced, NEW k \in Nodes, Begins(k)'
      PROVE  Cardinality(Arrived(k)) >= numPeers[k]
  <2>1. CASE Begins(k)
    BY <1>4, <2>1 DEF Synced
  <2>2. CASE ~Begins(k)
    <3>1. k = n /\ ~allReceived[n] /\ master'[n].thread = "done"
      BY <1>1, <1>2, <1>4, <2>2 DEF Begins
    <3>2. AllHere(n)
      <4>1. master' = [master EXCEPT ![n] =
                         [Turned(n) EXCEPT !.thread = IF AllHere(n) THEN "done" ELSE "again"]]
        BY <3>1 DEF MasterTurn
      <4>2. master \in [Nodes -> MasterShape]
        BY DEF IInv, Shapes
      <4>3. [Turned(n) EXCEPT !.thread = IF AllHere(n) THEN "done" ELSE "again"].thread
              = IF AllHere(n) THEN "done" ELSE "again"
        BY <4>2 DEF Turned, MasterShape
      <4> QED
        BY <3>1, <4>1, <4>2, <4>3
    <3>3. Received(n) <= Cardinality(Arrived(n)) /\ Received(n) \in Nat /\ Cardinality(Arrived(n)) \in Nat
      <4> DEFINE new == {m \in DOMAIN replicas[n] : replicas[n][m].updated}
      <4>1. IsFiniteSet(Arrived(n))
        BY FS_Subset DEF IInv, Shapes, Arrived
      <4>2. new \subseteq Arrived(n)
        BY DEF StartInv, Contents, Arrived
      <4>3. IsFiniteSet(new) /\ Cardinality(new) <= Cardinality(Arrived(n))
        BY <4>1, <4>2, FS_Subset
      <4> QED
        BY <4>1, <4>3, FS_CardinalityType DEF Received
    <3>4. numPeers[n] \in Int
      BY DEF StartInv, Contents
    <3> QED
      BY <3>1, <3>2, <3>3, <3>4 DEF AllHere
  <2> QED
    BY <2>1, <2>2
<1>5. ASSUME Synced PROVE Synced'
  BY <1>2, <1>4, <1>5 DEF Synced, Arrived
<1> QED
  BY <1>1, <1>3, <1>5 DEF StartInv

(* Late, the game begins whatever has arrived.                             *)
LEMMA MasterTimesOutKeepsStart ==
    ASSUME IInv, IInv', StartInv, NEW n \in Nodes, Uses("Late"), MasterTimesOut(n)
    PROVE  StartInv'
<1>1. Contents'
  BY TurnsKeepContents
<1>2. ~OnTime'
  BY DEF OnTime, Uses, MasterTimesOut
<1> QED
  BY <1>1, <1>2 DEF StartInv

(* After the pause the thread lets the game begin that it has found ready. *)
LEMMA MasterResumesKeepsStart ==
    ASSUME IInv, IInv', StartInv, NEW n \in Nodes, MasterResumes(n)
    PROVE  StartInv'
<1>1. master \in [Nodes -> MasterShape] /\ allReceived \in [Nodes -> BOOLEAN]
  BY DEF IInv, Shapes, StartInv, Contents
<1>2. ASSUME NEW k \in Nodes
      PROVE  /\ master'[k].created = master[k].created /\ master'[k].version = master[k].version
             /\ Begins(k)' => Begins(k)
  <2>1. CASE master[n].thread = "again"
    BY <1>1, <2>1 DEF MasterResumes, Begins, MasterShape
  <2>2. CASE master[n].thread = "done"
    BY <1>1, <2>2 DEF MasterResumes, Begins, MasterShape
  <2> QED
    BY <2>1, <2>2 DEF MasterResumes
<1>3. allReceived' \in [Nodes -> BOOLEAN]
  BY <1>1 DEF MasterResumes
<1>4. UNCHANGED <<scenario, on, info, data, replicas, inbox, numPeers>>
  BY DEF MasterResumes
<1>5. Contents'
  BY <1>2, <1>3, <1>4 DEF StartInv, Contents
<1>6. (OnTime' <=> OnTime) /\ \A k \in Nodes : Arrived(k)' = Arrived(k)
  BY <1>4 DEF OnTime, Uses, Arrived
<1> QED
  BY <1>2, <1>4, <1>5, <1>6, SyncedStays DEF StartInv

LEMMA NextKeepsStart == IInv /\ StartInv /\ [Next]_vars => StartInv'
<1> SUFFICES ASSUME IInv, StartInv, [Next]_vars PROVE StartInv'
  OBVIOUS
<1>1. IInv'
  BY NextIsSafe
<1>2. CASE UNCHANGED vars
  BY <1>2 DEF vars, gameVars, StartInv, Contents, Synced, Begins, Arrived, OnTime, Uses
<1>3. ASSUME NEW n \in Nodes, GameStep(n) PROVE StartInv'
  BY <1>1, <1>3, WaitsKeepStart, CreateMasterKeepsStart, MasterJoinedKeepsStart, PowerOffKeepsStart,
     CreateReplicaKeepsStart, UpdateReplicaKeepsStart, DeleteReplicaKeepsStart
  DEF GameStep
<1>4. ASSUME NEW n \in Nodes, ThreadStep(n) PROVE StartInv'
  BY <1>1, <1>4, MasterTurnKeepsStart, MasterTimesOutKeepsStart, MasterResumesKeepsStart, WaitsKeepStart,
     ReplicaTurnKeepsStart
  DEF ThreadStep
<1>5. ASSUME NEW n \in Nodes, Lose(n) PROVE StartInv'
  BY <1>1, <1>5, LoseKeepsStart
<1> QED
  BY <1>2, <1>3, <1>4, <1>5 DEF Next

(* When CreateReplica lets a game begin, it has the block of every peer,   *)
(* unless the ten seconds let it begin or the game has deleted a replica:  *)
(* for any number of players, however datagrams are lost and players are   *)
(* switched off.                                                           *)
THEOREM GameBeginsWithAllBlocks == Spec => []SyncedStart
<1>1. Init => IInv /\ StartInv
  BY InitIsSafe, InitHasStart
<1>2. IInv /\ StartInv /\ [Next]_vars => (IInv /\ StartInv)'
  BY NextIsSafe, NextKeepsStart
<1>3. StartInv => SyncedStart
  BY DEF StartInv, Contents, Synced, Begins, Arrived, SyncedStart
<1> QED
  BY <1>1, <1>2, <1>3, PTL DEF Spec

-----------------------------------------------------------------------------
(* Between two players: what is on the way from n to m.                    *)
Pair == OnTime /\ Cardinality(Players) = 2

Sent(n, m) == {i \in DOMAIN inbox[m] : inbox[m][i].from = n}
Newest(n, m) == {i \in Sent(n, m) : inbox[m][i].version = data[n]}
Heard(n, m) == Sent(n, m) # {} \/ (n \in DOMAIN replicas[m] /\ replicas[m][n].version > 0)
Delivered(n, m) == n \in DOMAIN replicas[m] /\ replicas[m][n].version = data[n]

(* Datagrams are received in the order of the versions they carry.         *)
InOrder(n, m) ==
    /\ \A i, j \in Sent(n, m) : i < j => inbox[m][i].version <= inbox[m][j].version
    /\ \A i \in Sent(n, m) : inbox[m][i].version <= data[n]
    /\ n \in DOMAIN replicas[m] =>
          /\ replicas[m][n].version <= data[n]
          /\ \A i \in Sent(n, m) : replicas[m][n].version <= inbox[m][i].version
          /\ replicas[m][n].updated \/ replicas[m][n].seen = replicas[m][n].version

(* The newest version has been received, or what is to be sent and what is *)
(* on the way are two of it, one of which may be lost.                     *)
Promised(n, m) ==
    \/ Delivered(n, m)
    \/ master[n].updated >= 2
    \/ master[n].updated = 1 /\ (Newest(n, m) # {} \/ trouble > 0)
    \/ \E i, j \in Newest(n, m) : i # j
    \/ Newest(n, m) # {} /\ trouble > 0

(* A player of a game that deletes nothing.                                *)
Lone(n) ==
    /\ call[n].at \notin {"joinMaster", "joinReceiver"}
    /\ DOMAIN replicas[n] \subseteq Players \ {n}
    /\ receiver[n] = "running" => DOMAIN replicas[n] # {}
    /\ master[n].created => master[n].version = data[n]
    /\ master[n].created /\ master[n].thread = "loop" /\ ~allReceived[n] => master[n].updated >= 1
    /\ master[n].thread = "again" => ~allReceived[n]

PairOf(n, m) ==
    /\ InOrder(n, m)
    /\ info[n] = Players
    /\ master[n].created => numPeers[n] = 1
    /\ Heard(n, m) => master[n].created
    /\ Begins(n) => Promised(n, m)

Pairs == \A n, m \in on : n # m => PairOf(n, m)

PairInv ==
    /\ scenario \in Scenarios /\ on \subseteq Players /\ trouble \in Nat
    /\ Pair => (\A n \in on : Lone(n)) /\ Pairs

FullInv == IInv /\ StartInv /\ PairInv

(* Two who are on are the two.                                             *)
LEMMA BothAreOn ==
    ASSUME Pair, NEW n \in Players, NEW m \in Players, n # m, Players \subseteq Nodes, scenario \in Scenarios
    PROVE  Players = {n, m}
<1>1. IsFiniteSet(Players)
  BY ScenarioAssumption DEF Players
<1>2. IsFiniteSet({n}) /\ Cardinality({n}) = 1
  BY FS_Singleton
<1>3. Cardinality({n} \cup {m}) = 2
  <2>1. Cardinality({n} \cup {m}) = IF m \in {n} THEN Cardinality({n}) ELSE Cardinality({n}) + 1
    BY <1>2, FS_AddElement, ZenonT(60)
  <2>2. m \notin {n}
    OBVIOUS
  <2> QED
    BY <1>2, <2>1, <2>2
<1>4. {n} \cup {m} \in SUBSET Players
  OBVIOUS
<1> QED
  BY <1>1, <1>3, <1>4, FS_Subset DEF Pair

(* What of a pair a step of another may leave as it is.                    *)
LEMMA PairStays ==
    ASSUME NEW n, NEW m, PairOf(n, m),
           UNCHANGED <<inbox[m], replicas[m], data[n], info[n], numPeers[n], trouble, scenario>>,
           master'[n].created = master[n].created, master'[n].updated = master[n].updated,
           Begins(n)' => Begins(n)
    PROVE  PairOf(n, m)'
BY DEF PairOf, InOrder, Sent, Newest, Heard, Promised, Delivered, Players

(* The other player's socket is open once his block has arrived.           *)
LEMMA PeerListens ==
    ASSUME FullInv, Pair, NEW n \in on, NEW m \in on, n # m,
           Begins(n) \/ (master[n].created /\ AllHere(n))
    PROVE  SocketOpen(m)
<1>1. /\ on \subseteq Players /\ Players \subseteq Nodes /\ Lone(n) /\ Lone(m)
      /\ PairOf(n, m) /\ PairOf(m, n) /\ scenario \in Scenarios
  BY DEF FullInv, IInv, Shapes, PairInv, Pairs
<1>2. DOMAIN replicas[n] \subseteq {m}
  BY <1>1, BothAreOn DEF Lone
<1>3. numPeers[n] = 1
  BY <1>1 DEF PairOf, Begins
<1>4. Arrived(n) # {}
  <2>1. CASE Begins(n)
    <3>1. Cardinality(Arrived(n)) >= 1
      BY <1>1, <1>3, <2>1 DEF FullInv, StartInv, Synced, Pair
    <3> QED
      BY <3>1, FS_EmptySet
  <2>2. CASE master[n].created /\ AllHere(n)
    <3>1. Received(n) >= 1
      BY <1>3, <2>2 DEF AllHere
    <3>2. {k \in DOMAIN replicas[n] : replicas[n][k].updated} # {}
      BY <3>1, FS_EmptySet DEF Received
    <3> QED
      BY <1>1, <3>2 DEF FullInv, StartInv, Contents, Arrived
  <2> QED
    BY <2>1, <2>2
<1>5. m \in DOMAIN replicas[n] /\ replicas[n][m].version > 0
  BY <1>2, <1>4 DEF Arrived
<1>6. master[m].created
  BY <1>1, <1>5 DEF PairOf, Heard
<1>7. users[m] = Needs(m) /\ Cardinality(DOMAIN replicas[m]) \in Nat
  BY <1>1, FS_CardinalityType DEF FullInv, IInv, Shapes, PlayerInv
<1> QED
  BY <1>6, <1>7 DEF Needs, SocketOpen

LEMMA InitHasPair == Init => PairInv
<1> SUFFICES ASSUME Init PROVE PairInv
  OBVIOUS
<1>1. Players \subseteq Nodes
  BY ScenarioAssumption DEF Init, Players
<1>2. ASSUME NEW n \in Nodes
      PROVE  /\ inbox[n] = <<>> /\ DOMAIN inbox[n] = {} /\ DOMAIN replicas[n] = {}
             /\ master[n] = NoMaster /\ call[n] = Idle /\ receiver[n] = "none"
             /\ info[n] = Players
  BY DEF Init
<1>3. \A n \in on : Lone(n)
  BY <1>1, <1>2 DEF Init, Lone, NoMaster, Idle
<1>4. ASSUME NEW n \in on, NEW m \in on PROVE PairOf(n, m)
  <2>1. n \in Nodes /\ m \in Nodes
    BY <1>1 DEF Init
  <2>2. Sent(n, m) = {}
    BY <1>2, <2>1 DEF Sent
  <2>3. ~master[n].created
    BY <1>2, <2>1 DEF NoMaster
  <2> QED
    BY <1>2, <2>1, <2>2, <2>3 DEF PairOf, InOrder, Heard, Begins
<1> QED
  BY <1>3, <1>4 DEF Init, PairInv, Pairs

(* What the steps of a player are proved to keep, when they leave scenario *)
(* and on as they are: the pairs are kept if the two of each are.          *)
LEMMA PairsSuffice ==
    ASSUME FullInv, UNCHANGED <<scenario, on>>, trouble' \in Nat,
           ASSUME Pair
           PROVE  /\ \A n \in on : Lone(n)'
                  /\ \A n, m \in on : n # m => PairOf(n, m)'
    PROVE  PairInv'
<1>1. Pair' <=> Pair
  BY DEF Pair, OnTime, Uses, Players
<1> QED
  BY <1>1 DEF FullInv, PairInv, Pairs, Players

LEMMA PairFacts ==
    ASSUME FullInv
    PROVE  /\ on \subseteq Nodes /\ on \subseteq Players /\ Players \subseteq Nodes
           /\ \A n, m \in on : Pair /\ n # m => Players = {n, m}
           /\ Pair => \A n \in on : Lone(n)
           /\ Pair => \A n, m \in on : n # m => PairOf(n, m)
           /\ trouble \in Nat
<1>1. on \subseteq Players /\ Players \subseteq Nodes /\ scenario \in Scenarios
  BY DEF FullInv, PairInv, IInv, Shapes
<1> QED
  BY <1>1, BothAreOn DEF FullInv, PairInv, Pairs

(* Every datagram under way carries a version.                             *)
LEMMA OnTheWay ==
    ASSUME FullInv, NEW m \in Nodes
    PROVE  /\ inbox[m] \in Seq(Packets)
           /\ \A i \in DOMAIN inbox[m] : inbox[m][i].version \in Nat
<1>1. inbox[m] \in Seq(Packets)
  BY DEF FullInv, StartInv, Contents
<1>2. \A i \in DOMAIN inbox[m] : inbox[m][i] \in Packets
  BY <1>1
<1>3. \A p \in Packets : p.version \in Nat
  BY DEF Packets
<1> QED
  BY <1>1, <1>2, <1>3

(* Waits that end change nothing between the two.                          *)
LEMMA WaitsKeepPairs ==
    ASSUME FullInv, NEW a \in Nodes,
           FirstData(a) \/ AllData(a) \/ MasterStops(a) \/ ReplicaStops(a)
    PROVE  PairInv'
<1>1. UNCHANGED <<scenario, on, info, data, replicas, inbox, numPeers, allReceived, trouble>>
  BY DEF FirstData, AllData, MasterStops, ReplicaStops
<1>2. /\ \A n \in Nodes : /\ call'[n].at = call[n].at \/ call'[n].at \in {"idle", "all"}
                          /\ receiver'[n] = "running" => receiver[n] = "running"
                          /\ master'[n].created = master[n].created
                          /\ master'[n].version = master[n].version
                          /\ master'[n].updated = master[n].updated
                          /\ master'[n].thread = master[n].thread \/ master'[n].thread = "ended"
  <2>1. /\ call \in [Nodes -> CallShape] /\ master \in [Nodes -> MasterShape]
        /\ receiver \in [Nodes -> {"none", "running", "ended"}]
    BY DEF FullInv, IInv, Shapes
  <2>2. CASE FirstData(a)
    BY <2>1, <2>2 DEF FirstData, CallShape, Idle
  <2>3. CASE AllData(a)
    BY <2>1, <2>3 DEF AllData, CallShape, Idle
  <2>4. CASE MasterStops(a)
    BY <2>1, <2>4 DEF MasterStops, MasterShape
  <2>5. CASE ReplicaStops(a)
    BY <2>1, <2>5 DEF ReplicaStops
  <2> QED
    BY <2>2, <2>3, <2>4, <2>5
<1>3. \A n \in Nodes : Begins(n)' => Begins(n)
  BY <1>1, <1>2 DEF Begins
<1>4. ASSUME Pair, NEW n \in on
      PROVE  Lone(n)'
  BY <1>1, <1>2, <1>4, PairFacts DEF Lone, Players
<1>5. ASSUME Pair, NEW n \in on, NEW m \in on, n # m
      PROVE  PairOf(n, m)'
  <2>1. PairOf(n, m) /\ n \in Nodes
    BY <1>5, PairFacts
  <2> QED
    BY <1>1, <1>2, <1>3, <2>1, PairStays
<1> QED
  BY <1>1, <1>4, <1>5, PairFacts, PairsSuffice, ZenonT(60)

(* A new master has its peer still to wait for.                            *)
LEMMA CreateMasterKeepsPairs ==
    ASSUME FullInv, NEW a \in Nodes, CreateMaster(a)
    PROVE  PairInv'
<1>1. UNCHANGED <<scenario, on, info, data, replicas, inbox, receiver, call, trouble>> /\ a \in on
  BY DEF CreateMaster, MayCall
<1>2. /\ master' = [master EXCEPT ![a] = StartedMaster(a)] /\ master \in [Nodes -> MasterShape]
      /\ numPeers' = [numPeers EXCEPT ![a] = Cardinality(info[a]) - 1] /\ numPeers \in [Nodes -> Int]
      /\ allReceived' = [allReceived EXCEPT ![a] = FALSE] /\ allReceived \in [Nodes -> BOOLEAN]
  BY DEF CreateMaster, FullInv, IInv, Shapes, StartInv, Contents
<1>3. /\ \A n \in Nodes \ {a} : /\ master'[n] = master[n] /\ numPeers'[n] = numPeers[n]
                                /\ allReceived'[n] = allReceived[n]
      /\ master'[a].created /\ master'[a].version = data[a] /\ master'[a].updated = 1
      /\ master'[a].thread = "loop" /\ ~allReceived'[a] /\ numPeers'[a] = Cardinality(info[a]) - 1
  BY <1>2 DEF StartedMaster
<1>4. ASSUME Pair, NEW n \in on
      PROVE  Lone(n)'
  BY <1>1, <1>3, <1>4, PairFacts DEF Lone, Players
<1>5. ASSUME Pair, NEW n \in on, NEW m \in on, n # m
      PROVE  PairOf(n, m)'
  <2>1. PairOf(n, m) /\ n \in Nodes
    BY <1>5, PairFacts
  <2>2. CASE n = a
    <3>1. numPeers'[a] = 1
      BY <1>3, <1>5, <2>1, <2>2 DEF PairOf, Pair
    <3>2. ~Begins(a)' /\ InOrder(n, m)'
      BY <1>1, <1>3, <2>1 DEF Begins, PairOf, InOrder, Sent
    <3> QED
      BY <1>1, <1>3, <2>1, <2>2, <3>1, <3>2 DEF PairOf, Players
  <2>3. CASE n # a
    <3>1. Begins(n)' => Begins(n)
      BY <1>1, <1>3, <2>1, <2>3 DEF Begins
    <3> QED
      BY <1>1, <1>3, <2>1, <2>3, <3>1, PairStays
  <2> QED
    BY <2>2, <2>3
<1> QED
  BY <1>1, <1>4, <1>5, PairFacts, PairsSuffice, ZenonT(60)

(* A replica that is created has received nothing.                         *)
LEMMA CreateReplicaKeepsPairs ==
    ASSUME FullInv, NEW a \in Nodes, NEW k \in Nodes, CreateReplica(a, k)
    PROVE  PairInv'
<1>1. /\ UNCHANGED <<scenario, on, info, data, master, inbox, numPeers, allReceived, trouble>>
      /\ a \in on /\ k \in Players \ {a} /\ k \notin DOMAIN replicas[a]
  BY DEF CreateReplica, MayCall
<1>2. /\ DOMAIN replicas = Nodes /\ receiver \in [Nodes -> {"none", "running", "ended"}]
      /\ call \in [Nodes -> CallShape]
  BY DEF FullInv, IInv, Shapes
<1>3. /\ replicas'[a] = Remembered(a, k)
      /\ \A n \in Nodes \ {a} : replicas'[n] = replicas[n] /\ receiver'[n] = receiver[n] /\ call'[n] = call[n]
      /\ call'[a].at = "first"
  BY <1>2 DEF CreateReplica
<1>4. /\ DOMAIN replicas'[a] = DOMAIN replicas[a] \cup {k}
      /\ replicas'[a][k] = NewReplica
  BY <1>3 DEF Remembered
<1>5. ASSUME Pair, NEW n \in on
      PROVE  Lone(n)'
  BY <1>1, <1>3, <1>4, <1>5, PairFacts DEF Lone, Players
<1>6. ASSUME Pair, NEW n \in on, NEW m \in on, n # m
      PROVE  PairOf(n, m)'
  <2>1. PairOf(n, m) /\ n \in Nodes /\ m \in Nodes /\ Players = {n, m}
    BY <1>6, PairFacts
  <2>2. Begins(n)' <=> Begins(n)
    BY <1>1 DEF Begins
  <2>3. CASE m # a
    BY <1>1, <1>3, <2>1, <2>2, <2>3, PairStays
  <2>4. CASE m = a
    <3>1. k = n
      BY <1>1, <2>1, <2>4
    <3>2. /\ Sent(n, m)' = Sent(n, m) /\ Newest(n, m)' = Newest(n, m)
          /\ \A i \in Sent(n, m) : inbox[m][i].version \in Nat
      BY <1>1, <2>1, OnTheWay DEF Sent, Newest
    <3>3. data[n] \in Nat
      BY <2>1 DEF FullInv, IInv, Shapes
    <3>4. InOrder(n, m)'
      BY <1>1, <1>4, <2>1, <2>4, <3>1, <3>2, <3>3 DEF InOrder, PairOf, NewReplica
    <3>5. Heard(n, m)' => Heard(n, m)
      BY <1>4, <2>4, <3>1, <3>2 DEF Heard, NewReplica
    <3>6. Promised(n, m) => Promised(n, m)'
      BY <1>1, <2>4, <3>1, <3>2 DEF Promised, Delivered
    <3> QED
      BY <1>1, <2>1, <2>2, <3>4, <3>5, <3>6 DEF PairOf, Players
  <2> QED
    BY <2>3, <2>4
<1> QED
  BY <1>1, <1>5, <1>6, PairFacts, PairsSuffice, ZenonT(60)

(* A new version is to be sent twice.                                      *)
LEMMA UpdateMasterKeepsPairs ==
    ASSUME FullInv, NEW a \in Nodes, UpdateMaster(a)
    PROVE  PairInv'
<1>1. UNCHANGED <<scenario, on, info, replicas, inbox, numPeers, allReceived, receiver, call, trouble>>
  BY DEF UpdateMaster
<1>2. master \in [Nodes -> MasterShape] /\ data \in [Nodes -> Nat]
  BY DEF FullInv, IInv, Shapes
<1>3. /\ \A n \in Nodes \ {a} : master'[n] = master[n] /\ data'[n] = data[n]
      /\ data'[a] = data[a] + 1 /\ data[a] \in Nat /\ data'[a] \in Nat
  BY <1>2 DEF UpdateMaster
<1>4. /\ master'[a].version = data'[a] /\ master'[a].updated = 2
      /\ master'[a].created = master[a].created /\ master'[a].thread = master[a].thread
  <2> DEFINE r == [master[a] EXCEPT !.version = data'[a], !.updated = 2]
  <2>1. master' = [master EXCEPT ![a] = r]
    BY <1>2, <1>3 DEF UpdateMaster, UpdatesToSend, MasterShape
  <2>2. /\ r.version = data'[a] /\ r.updated = 2
        /\ r.created = master[a].created /\ r.thread = master[a].thread
    BY <1>2 DEF MasterShape
  <2> HIDE DEF r
  <2> QED
    BY <1>2, <2>1, <2>2
<1>5. \A n \in Nodes : Begins(n)' => Begins(n)
  BY <1>1, <1>3, <1>4 DEF Begins
<1>6. ASSUME Pair, NEW n \in on
      PROVE  Lone(n)'
  <2>1. n \in Nodes /\ Lone(n)
    BY <1>6, PairFacts
  <2> QED
    BY <1>1, <1>3, <1>4, <2>1 DEF Lone, Players
<1>7. ASSUME Pair, NEW n \in on, NEW m \in on, n # m
      PROVE  PairOf(n, m)'
  <2>1. PairOf(n, m) /\ n \in Nodes /\ m \in Nodes
    BY <1>7, PairFacts
  <2>2. CASE n # a
    BY <1>1, <1>3, <1>5, <2>1, <2>2, PairStays
  <2>3. CASE n = a
    <3>1. Sent(n, m)' = Sent(n, m)
      BY <1>1 DEF Sent
    <3>2. \A i \in Sent(n, m) : inbox[m][i].version \in Nat
      BY <2>1, OnTheWay DEF Sent
    <3>3. n \in DOMAIN replicas[m] => replicas[m][n].version \in Nat
      BY <2>1 DEF FullInv, StartInv, Contents, ReplicaShape
    <3>4. InOrder(n, m)'
      BY <1>1, <1>3, <2>1, <2>3, <3>1, <3>2, <3>3 DEF PairOf, InOrder
    <3>5. Promised(n, m)' /\ (Heard(n, m)' => Heard(n, m))
      BY <1>1, <1>4, <2>3, <3>1 DEF Promised, Heard
    <3> QED
      BY <1>1, <1>4, <2>1, <2>3, <3>4, <3>5 DEF PairOf, Players
  <2> QED
    BY <2>2, <2>3
<1> QED
  BY <1>1, <1>6, <1>7, PairFacts, PairsSuffice, ZenonT(60)

(* What the game has taken it has seen.                                    *)
LEMMA UpdateReplicaKeepsPairs ==
    ASSUME FullInv, NEW a \in Nodes, NEW k \in Nodes, UpdateReplica(a, k)
    PROVE  PairInv'
<1>1. /\ UNCHANGED <<scenario, on, info, data, master, inbox, numPeers, allReceived, receiver, call, trouble>>
      /\ k \in DOMAIN replicas[a]
  BY DEF UpdateReplica
<1>2. DOMAIN replicas = Nodes /\ replicas[a] \in [DOMAIN replicas[a] -> ReplicaShape]
  BY DEF FullInv, IInv, Shapes, StartInv, Contents
<1>3. /\ \A n \in Nodes \ {a} : replicas'[n] = replicas[n]
      /\ DOMAIN replicas'[a] = DOMAIN replicas[a]
      /\ \A n \in DOMAIN replicas[a] \ {k} : replicas'[a][n] = replicas[a][n]
      /\ replicas'[a][k].version = replicas[a][k].version /\ replicas'[a][k].seen = replicas[a][k].version
  BY <1>1, <1>2 DEF UpdateReplica, ReplicaShape
<1>4. \A n \in Nodes : Begins(n)' <=> Begins(n)
  BY <1>1 DEF Begins
<1>5. ASSUME Pair, NEW n \in on
      PROVE  Lone(n)'
  <2>1. n \in Nodes /\ Lone(n)
    BY <1>5, PairFacts
  <2> QED
    BY <1>1, <1>3, <2>1 DEF Lone, Players
<1>6. ASSUME Pair, NEW n \in on, NEW m \in on, n # m
      PROVE  PairOf(n, m)'
  <2>1. PairOf(n, m) /\ n \in Nodes /\ m \in Nodes
    BY <1>6, PairFacts
  <2>2. /\ n \in DOMAIN replicas'[m] <=> n \in DOMAIN replicas[m]
        /\ n \in DOMAIN replicas[m] =>
              /\ replicas'[m][n].version = replicas[m][n].version
              /\ \/ replicas'[m][n].seen = replicas'[m][n].version
                 \/ replicas'[m][n] = replicas[m][n]
    BY <1>3, <2>1
  <2>3. Sent(n, m)' = Sent(n, m) /\ Newest(n, m)' = Newest(n, m)
    BY <1>1 DEF Sent, Newest
  <2>4. InOrder(n, m)'
    BY <1>1, <2>1, <2>2, <2>3 DEF PairOf, InOrder
  <2>5. (Promised(n, m)' <=> Promised(n, m)) /\ (Heard(n, m)' <=> Heard(n, m))
    BY <1>1, <2>2, <2>3 DEF Promised, Delivered, Heard
  <2> QED
    BY <1>1, <1>4, <2>1, <2>4, <2>5 DEF PairOf, Players
<1> QED
  BY <1>1, <1>5, <1>6, PairFacts, PairsSuffice, ZenonT(60)

(* With an "again" the thread is not done, with a "done" it has kept its   *)
(* promise.                                                                *)
LEMMA MasterResumesKeepsPairs ==
    ASSUME FullInv, NEW a \in Nodes, MasterResumes(a)
    PROVE  PairInv'
<1>1. UNCHANGED <<scenario, on, info, data, replicas, inbox, numPeers, receiver, call, trouble>> /\ a \in on
  BY DEF MasterResumes
<1>2. master \in [Nodes -> MasterShape] /\ allReceived \in [Nodes -> BOOLEAN]
  BY DEF FullInv, IInv, Shapes, StartInv, Contents
<1>3. /\ \A n \in Nodes \ {a} : master'[n] = master[n] /\ allReceived'[n] = allReceived[n]
      /\ master'[a].thread = "loop" /\ master'[a].created = master[a].created
      /\ master'[a].version = master[a].version
      /\ \/ master[a].thread = "again" /\ master'[a].updated = 1 /\ allReceived'[a] = allReceived[a]
         \/ master[a].thread = "done" /\ master'[a].updated = master[a].updated /\ allReceived'[a]
  <2>1. CASE master[a].thread = "again"
    BY <1>2, <2>1 DEF MasterResumes, MasterShape
  <2>2. CASE master[a].thread = "done"
    BY <1>2, <2>2 DEF MasterResumes, MasterShape
  <2> QED
    BY <2>1, <2>2 DEF MasterResumes
<1>4. ASSUME Pair, NEW n \in on
      PROVE  Lone(n)'
  <2>1. n \in Nodes /\ Lone(n)
    BY <1>4, PairFacts
  <2> QED
    BY <1>1, <1>3, <2>1 DEF Lone, Players
<1>5. ASSUME Pair, NEW n \in on, NEW m \in on, n # m
      PROVE  PairOf(n, m)'
  <2>1. PairOf(n, m) /\ n \in Nodes /\ m \in Nodes /\ Lone(n)
    BY <1>5, PairFacts
  <2>2. CASE n # a \/ master[a].thread = "done"
    <3>1. Begins(n)' => Begins(n)
      BY <1>3, <2>1, <2>2 DEF Begins
    <3> QED
      BY <1>1, <1>3, <2>1, <2>2, <3>1, PairStays
  <2>3. CASE n = a /\ master[a].thread = "again"
    <3>1. ~Begins(n)'
      BY <1>2, <1>3, <2>1, <2>3 DEF Begins, Lone
    <3>2. InOrder(n, m)' /\ (Heard(n, m)' <=> Heard(n, m))
      BY <1>1, <2>1 DEF PairOf, InOrder, Heard, Sent
    <3> QED
      BY <1>1, <1>3, <2>1, <2>3, <3>1, <3>2 DEF PairOf, Players
  <2> QED
    BY <1>3, <2>2, <2>3
<1> QED
  BY <1>1, <1>4, <1>5, PairFacts, PairsSuffice, ZenonT(60)

(* Who leaves is not one of the two, and who is switched off leaves none.  *)
LEMMA LeaversKeepPairs ==
    ASSUME FullInv, NEW a \in Nodes, PowerOff(a) \/ \E k \in Nodes : PeerLeft(a, k)
    PROVE  PairInv'
<1>1. scenario' = scenario /\ a \in on /\ on' \subseteq on
  BY DEF PowerOff, PeerLeft
<1>2. Pair' <=> Pair
  BY <1>1 DEF Pair, OnTime, Uses, Players
<1>3. trouble' \in Nat
  BY PairFacts DEF PowerOff, PeerLeft, Trouble
<1>4. ASSUME Pair, NEW n \in on'
      PROVE  Lone(n)'
  <2>1. n \in on /\ n \in Nodes /\ Lone(n)
    BY <1>1, <1>4, PairFacts
  <2>2. CASE \E k \in Nodes : PeerLeft(a, k)
    BY <2>1, <2>2 DEF Lone, PeerLeft, Players
  <2>3. CASE PowerOff(a)
    <3>1. n # a
      BY <1>4, <2>3 DEF PowerOff
    <3>2. /\ master'[n] = master[n] /\ replicas'[n] = replicas[n] /\ call'[n] = call[n]
          /\ receiver'[n] = receiver[n]
      BY <2>1, <2>3, <3>1 DEF PowerOff, FullInv, IInv, Shapes
    <3> QED
      BY <2>1, <2>3, <3>2 DEF Lone, PowerOff, Players
  <2> QED
    BY <2>2, <2>3
<1>5. ASSUME Pair, NEW n \in on', NEW m \in on', n # m
      PROVE  FALSE
  <2>1. Players = {n, m} /\ on \subseteq Players
    BY <1>1, <1>5, PairFacts
  <2>2. CASE PowerOff(a)
    BY <1>1, <1>5, <2>1, <2>2 DEF PowerOff
  <2>3. CASE \E k \in Nodes : PeerLeft(a, k)
    <3>1. PICK k \in Nodes : PeerLeft(a, k)
      BY <2>3
    <3>2. PICK o \in {n, m} : o # a
      BY <1>5
    <3>3. PairOf(a, o)
      BY <1>1, <1>5, <3>2, PairFacts
    <3>4. k \in Players
      BY <3>1, <3>3 DEF PairOf, PeerLeft
    <3> QED
      BY <1>1, <1>5, <2>1, <3>1, <3>4 DEF PeerLeft
  <2> QED
    BY <2>2, <2>3
<1>6. scenario' \in Scenarios /\ on' \subseteq Players'
  BY <1>1 DEF FullInv, PairInv, Players
<1> QED
  BY <1>2, <1>3, <1>4, <1>5, <1>6 DEF PairInv, Pairs

(* A datagram of m's socket is gone, its k-th; the others move up.         *)
Moved(i, k) == IF i < k THEN i ELSE i + 1

OneLess(m, k) ==
    /\ k \in DOMAIN inbox[m] /\ DOMAIN inbox'[m] = 1..(Len(inbox[m]) - 1)
    /\ \A i \in DOMAIN inbox'[m] : inbox'[m][i] = inbox[m][Moved(i, k)]

LEMMA RemovedIsOneLess ==
    ASSUME FullInv, NEW m \in Nodes, NEW k \in DOMAIN inbox[m],
           inbox'[m] = RemoveAt(inbox[m], k)
    PROVE  OneLess(m, k)
<1> DEFINE s == inbox[m]
           t == SubSeq(s, 1, k - 1)
           u == SubSeq(s, k + 1, Len(s))
<1>1. s \in Seq(Packets) /\ k \in 1..Len(s) /\ Len(s) \in Nat
  BY OnTheWay
<1> HIDE DEF s
<1>2. /\ t \in Seq(Packets) /\ Len(t) = k - 1
      /\ \A i \in 1..(k - 1) : t[i] = s[i]
  <2>1. \A i \in 1..(k - 1) : s[i] \in Packets
    BY <1>1
  <2>2. k - 1 \in Int /\ 1 \in Int
    BY <1>1
  <2>3. /\ SubSeq(s, 1, k - 1) \in Seq(Packets)
        /\ Len(SubSeq(s, 1, k - 1)) = IF 1 <= k - 1 THEN (k - 1) - 1 + 1 ELSE 0
        /\ \A i \in 1..((k - 1) - 1 + 1) : SubSeq(s, 1, k - 1)[i] = s[1 + i - 1]
    BY <2>1, <2>2, SubSeqProperties
  <2> QED
    BY <1>1, <2>3
<1>3. /\ u \in Seq(Packets) /\ Len(u) = Len(s) - k
      /\ \A i \in 1..(Len(s) - k) : u[i] = s[k + i]
  <2>1. \A i \in (k + 1)..Len(s) : s[i] \in Packets
    BY <1>1
  <2>2. k + 1 \in Int /\ Len(s) \in Int
    BY <1>1
  <2>3. /\ SubSeq(s, k + 1, Len(s)) \in Seq(Packets)
        /\ Len(SubSeq(s, k + 1, Len(s))) = IF k + 1 <= Len(s) THEN Len(s) - (k + 1) + 1 ELSE 0
        /\ \A i \in 1..(Len(s) - (k + 1) + 1) : SubSeq(s, k + 1, Len(s))[i] = s[k + 1 + i - 1]
    BY <2>1, <2>2, SubSeqProperties
  <2> QED
    BY <1>1, <2>3
<1> HIDE DEF t, u
<1>4. /\ t \o u \in Seq(Packets) /\ Len(t \o u) = Len(s) - 1
      /\ \A i \in 1..(Len(s) - 1) : (t \o u)[i] = IF i <= k - 1 THEN t[i] ELSE u[i - (k - 1)]
  <2>1. /\ t \o u \in Seq(Packets) /\ Len(t \o u) = Len(t) + Len(u)
        /\ \A i \in 1..(Len(t) + Len(u)) : (t \o u)[i] = IF i <= Len(t) THEN t[i] ELSE u[i - Len(t)]
    BY <1>2, <1>3, ConcatProperties
  <2>2. Len(t) = k - 1 /\ Len(u) = Len(s) - k /\ Len(t) + Len(u) = Len(s) - 1
    BY <1>1, <1>2, <1>3
  <2> QED
    BY <2>1, <2>2
<1>5. inbox'[m] = t \o u
  BY DEF RemoveAt, s, t, u
<1>6. ASSUME NEW i \in 1..(Len(s) - 1)
      PROVE  (t \o u)[i] = s[Moved(i, k)]
  <2>1. CASE i < k
    BY <1>1, <1>2, <1>4, <2>1 DEF Moved
  <2>2. CASE ~(i < k)
    <3>1. i - (k - 1) \in 1..(Len(s) - k) /\ k + (i - (k - 1)) = i + 1
      BY <1>1, <2>2
    <3> QED
      <4>1. (t \o u)[i] = u[i - (k - 1)]
        BY <1>1, <1>4, <2>2
      <4>2. u[i - (k - 1)] = s[k + (i - (k - 1))]
        BY <1>3, <3>1
      <4> QED
        BY <2>2, <3>1, <4>1, <4>2 DEF Moved
  <2> QED
    BY <2>1, <2>2
<1>7. DOMAIN (t \o u) = 1..(Len(s) - 1)
  BY <1>4
<1> QED
  BY <1>5, <1>6, <1>7 DEF OneLess, s

LEMMA TakenIsOneLess ==
    ASSUME FullInv, NEW m \in Nodes, inbox[m] # <<>>, inbox'[m] = Tail(inbox[m])
    PROVE  OneLess(m, 1)
<1>1. inbox[m] \in Seq(Packets)
  BY OnTheWay
<1>2. /\ Tail(inbox[m]) \in Seq(Packets) /\ Len(Tail(inbox[m])) = Len(inbox[m]) - 1
      /\ \A i \in 1..Len(Tail(inbox[m])) : Tail(inbox[m])[i] = inbox[m][i + 1]
  BY <1>1, HeadTailProperties
<1>3. DOMAIN inbox'[m] = 1..(Len(inbox[m]) - 1)
  BY <1>2
<1>4. 1 \in DOMAIN inbox[m]
  BY <1>1
<1>5. \A i \in 1..(Len(inbox[m]) - 1) : Moved(i, 1) = i + 1
  BY DEF Moved
<1> QED
  BY <1>2, <1>3, <1>4, <1>5 DEF OneLess

LEMMA OthersMoveUp ==
    ASSUME FullInv, NEW n \in Nodes, NEW m \in Nodes, NEW k, OneLess(m, k), data'[n] = data[n]
    PROVE  /\ \A i \in Sent(n, m)' : /\ Moved(i, k) \in Sent(n, m) /\ i \in Nat
                                     /\ inbox'[m][i].version = inbox[m][Moved(i, k)].version
           /\ \A i \in Newest(n, m) \ {k} : (IF i < k THEN i ELSE i - 1) \in Newest(n, m)'
           /\ k \in Nat /\ Newest(n, m) \subseteq Nat
<1>1. /\ Len(inbox[m]) \in Nat /\ DOMAIN inbox[m] = 1..Len(inbox[m])
  BY OnTheWay
<1>2. \A i \in 1..(Len(inbox[m]) - 1) : Moved(i, k) \in DOMAIN inbox[m]
  BY <1>1 DEF OneLess, Moved
<1>3. ASSUME NEW i \in Sent(n, m)'
      PROVE  /\ Moved(i, k) \in Sent(n, m) /\ i \in Nat
             /\ inbox'[m][i].version = inbox[m][Moved(i, k)].version
  <2>1. i \in DOMAIN inbox'[m] /\ inbox'[m][i].from = n
    BY DEF Sent
  <2>2. inbox'[m][i] = inbox[m][Moved(i, k)] /\ i \in 1..(Len(inbox[m]) - 1)
    BY <2>1 DEF OneLess
  <2> QED
    BY <1>1, <1>2, <2>1, <2>2 DEF Sent
<1>4. ASSUME NEW i \in Newest(n, m) \ {k}
      PROVE  (IF i < k THEN i ELSE i - 1) \in Newest(n, m)'
  <2> DEFINE j == IF i < k THEN i ELSE i - 1
  <2>1. i \in 1..Len(inbox[m]) /\ k \in 1..Len(inbox[m]) /\ i # k
    BY <1>1 DEF Newest, Sent, OneLess
  <2>2. j \in 1..(Len(inbox[m]) - 1) /\ Moved(j, k) = i
    BY <1>1, <2>1 DEF Moved
  <2> HIDE DEF j
  <2>3. j \in DOMAIN inbox'[m] /\ inbox'[m][j] = inbox[m][i]
    BY <2>2 DEF OneLess
  <2>4. j \in Newest(n, m)'
    BY <2>3 DEF Newest, Sent
  <2> QED
    BY <2>4 DEF j
<1>5. k \in Nat /\ Newest(n, m) \subseteq Nat
  BY <1>1 DEF Newest, Sent, OneLess
<1> QED
  BY <1>3, <1>4, <1>5

(* Unless it is the newest that goes there are as many of it as before;    *)
(* if it is, one of two is left.                                           *)
LEMMA NewestAreLeft ==
    ASSUME FullInv, NEW n \in Nodes, NEW m \in Nodes, NEW k, OneLess(m, k), data'[n] = data[n]
    PROVE  /\ (\E i, j \in Newest(n, m) : i # j) => Newest(n, m)' # {}
           /\ k \notin Newest(n, m) =>
                 /\ Newest(n, m) # {} => Newest(n, m)' # {}
                 /\ (\E i, j \in Newest(n, m) : i # j) => \E i, j \in Newest(n, m)' : i # j
<1> DEFINE Up(i) == IF i < k THEN i ELSE i - 1
<1>1. \A i \in Newest(n, m) \ {k} : Up(i) \in Newest(n, m)'
  BY OthersMoveUp
<1>2. \A i, j \in Newest(n, m) \ {k} : i # j => Up(i) # Up(j)
  BY OthersMoveUp
<1> HIDE DEF Up
<1>3. (\E i, j \in Newest(n, m) : i # j) => \E i \in Newest(n, m) : i # k
  OBVIOUS
<1> QED
  BY <1>1, <1>2, <1>3

(* Of two datagrams one may be lost.                                       *)
LEMMA LoseKeepsPairs ==
    ASSUME FullInv, NEW a \in Nodes, Lose(a), \A s \in Scenarios : s.trouble <= 1
    PROVE  PairInv'
<1>1. UNCHANGED <<scenario, on, info, data, master, replicas, numPeers, allReceived, receiver, call>>
  BY DEF Lose
<1>2. PICK k \in DOMAIN inbox[a] : inbox' = [inbox EXCEPT ![a] = RemoveAt(inbox[a], k)]
  BY DEF Lose
<1>3. /\ \A m \in Nodes \ {a} : inbox'[m] = inbox[m]
      /\ inbox'[a] = RemoveAt(inbox[a], k)
  BY <1>2 DEF FullInv, StartInv, Contents
<1>4. OneLess(a, k)
  BY <1>3, RemovedIsOneLess
<1>5. trouble = 0 /\ trouble' = 1
  <2>1. scenario \in Scenarios /\ trouble \in Nat
    BY DEF FullInv, PairInv
  <2>2. scenario.trouble \in Nat /\ scenario.trouble <= 1
    BY <2>1, ScenarioAssumption
  <2> QED
    BY <2>1, <2>2 DEF Lose, Trouble
<1>6. ASSUME Pair, NEW n \in on
      PROVE  Lone(n)'
  <2>1. Lone(n)
    BY <1>6, PairFacts
  <2> QED
    BY <1>1, <2>1 DEF Lone, Players
<1>7. ASSUME Pair, NEW n \in on, NEW m \in on, n # m
      PROVE  PairOf(n, m)'
  <2>1. PairOf(n, m) /\ n \in Nodes /\ m \in Nodes
    BY <1>7, PairFacts
  <2>2. Begins(n)' <=> Begins(n)
    BY <1>1 DEF Begins
  <2>3. CASE m # a
    <3>1. Sent(n, m)' = Sent(n, m) /\ Newest(n, m)' = Newest(n, m) /\ inbox'[m] = inbox[m]
      BY <1>1, <1>3, <2>1, <2>3 DEF Sent, Newest
    <3>2. InOrder(n, m)' /\ (Heard(n, m)' <=> Heard(n, m))
      BY <1>1, <2>1, <3>1 DEF PairOf, InOrder, Heard
    <3>3. Promised(n, m) => Promised(n, m)'
      BY <1>1, <1>5, <3>1 DEF Promised, Delivered
    <3> QED
      BY <1>1, <2>1, <2>2, <3>2, <3>3 DEF PairOf, Players
  <2>4. CASE m = a
    <3>1. OneLess(m, k)
      BY <1>4, <2>4
    <3>2. /\ \A i \in Sent(n, m)' : /\ Moved(i, k) \in Sent(n, m) /\ i \in Nat
                                    /\ inbox'[m][i].version = inbox[m][Moved(i, k)].version
          /\ k \in Nat
      BY <1>1, <2>1, <3>1, OthersMoveUp
    <3>3. \A i, j \in Sent(n, m)' : i < j => Moved(i, k) < Moved(j, k)
      BY <3>2 DEF Moved
    <3>4. InOrder(n, m)'
      BY <1>1, <2>1, <3>2, <3>3 DEF PairOf, InOrder
    <3>5. Heard(n, m)' => Heard(n, m)
      BY <1>1, <3>2 DEF Heard
    <3>6. Promised(n, m) => Promised(n, m)'
      <4>1. (\E i, j \in Newest(n, m) : i # j) => Newest(n, m)' # {}
        BY <1>1, <2>1, <3>1, NewestAreLeft, SMTT(30)
      <4> QED
        BY <1>1, <1>5, <4>1 DEF Promised, Delivered
    <3> QED
      BY <1>1, <2>1, <2>2, <3>4, <3>5, <3>6 DEF PairOf, Players
  <2> QED
    BY <2>3, <2>4
<1> QED
  BY <1>1, <1>5, <1>6, <1>7, PairsSuffice

(* The oldest datagram gets into the replica.                              *)
LEMMA ReplicaTurnKeepsPairs ==
    ASSUME FullInv, NEW a \in Nodes, ReplicaTurn(a)
    PROVE  PairInv'
<1>1. /\ UNCHANGED <<scenario, on, info, data, master, numPeers, allReceived, receiver, call, trouble>>
      /\ a \in on /\ receiver[a] = "running" /\ inbox[a] # <<>>
  BY DEF ReplicaTurn
<1>2. /\ \A m \in Nodes \ {a} : inbox'[m] = inbox[m]
      /\ inbox'[a] = Tail(inbox[a])
  BY DEF ReplicaTurn, FullInv, StartInv, Contents
<1>3. OneLess(a, 1)
  BY <1>1, <1>2, TakenIsOneLess
<1>4. PICK p : p = inbox[a][1] /\ p.version \in Nat
  BY <1>3, OnTheWay DEF OneLess
<1>5. p = Head(inbox[a])
  BY <1>1, <1>4, OnTheWay
<1>6. DOMAIN replicas = Nodes /\ replicas[a] \in [DOMAIN replicas[a] -> ReplicaShape]
  BY DEF FullInv, IInv, Shapes, StartInv, Contents
<1>7. /\ \A m \in Nodes \ {a} : replicas'[m] = replicas[m]
      /\ DOMAIN replicas'[a] = DOMAIN replicas[a]
      /\ \A n \in DOMAIN replicas[a] :
            IF n = p.from THEN replicas'[a][n].version = p.version /\ replicas'[a][n].updated
                          ELSE replicas'[a][n] = replicas[a][n]
  <2>1. CASE p.from \notin DOMAIN replicas[a]
    <3>1. replicas' = replicas
      BY <1>5, <2>1, ZenonT(60) DEF ReplicaTurn
    <3> QED
      BY <2>1, <3>1
  <2>2. CASE p.from \in DOMAIN replicas[a]
    <3> DEFINE f == p.from
               r == [[replicas[a][f] EXCEPT !.version = p.version] EXCEPT !.updated = TRUE]
    <3>1. replicas[a][f] \in ReplicaShape
      BY <1>6, <2>2
    <3>2. r.version = p.version /\ r.updated
      BY <3>1 DEF ReplicaShape
    <3>3. replicas' = [replicas EXCEPT ![a][p.from].version = p.version, ![a][p.from].updated = TRUE]
      BY <1>5, <2>2, ZenonT(60) DEF ReplicaTurn
    <3>4. replicas' = [replicas EXCEPT ![a] = [replicas[a] EXCEPT ![f] = r]]
      BY <1>6, <2>2, <3>1, <3>3 DEF ReplicaShape
    <3> HIDE DEF f, r
    <3>5. /\ \A m \in Nodes \ {a} : replicas'[m] = replicas[m]
          /\ replicas'[a] = [replicas[a] EXCEPT ![f] = r]
      BY <1>6, <3>4
    <3>6. \A n \in DOMAIN replicas[a] : replicas'[a][n] = IF n = f THEN r ELSE replicas[a][n]
      BY <1>6, <3>5
    <3> QED
      BY <1>6, <3>2, <3>5, <3>6 DEF f
  <2> QED
    BY <2>1, <2>2
<1>8. ASSUME Pair, NEW n \in on
      PROVE  Lone(n)'
  <2>1. n \in Nodes /\ Lone(n)
    BY <1>8, PairFacts
  <2>2. DOMAIN replicas'[n] = DOMAIN replicas[n]
    BY <1>7, <2>1
  <2> QED
    BY <1>1, <2>1, <2>2 DEF Lone, Players
<1>9. ASSUME Pair, NEW n \in on, NEW m \in on, n # m
      PROVE  PairOf(n, m)'
  <2>1. PairOf(n, m) /\ n \in Nodes /\ m \in Nodes
    BY <1>9, PairFacts
  <2>2. Begins(n)' <=> Begins(n)
    BY <1>1 DEF Begins
  <2>3. CASE m # a
    BY <1>1, <1>2, <1>7, <2>1, <2>2, <2>3, PairStays
  <2>4. CASE m = a
    <3>1. n \in DOMAIN replicas[m]
      <4>1. DOMAIN replicas[m] # {} /\ DOMAIN replicas[m] \subseteq Players \ {m} /\ Players = {n, m}
        BY <1>1, <1>9, <2>4, PairFacts DEF Lone
      <4> QED
        BY <4>1
    <3>2. OneLess(m, 1)
      BY <1>3, <2>4
    <3>3. /\ \A i \in Sent(n, m)' : /\ Moved(i, 1) \in Sent(n, m) /\ i \in Nat
                                    /\ inbox'[m][i].version = inbox[m][Moved(i, 1)].version
      BY <1>1, <2>1, <3>2, OthersMoveUp
    <3>4. \A i, j \in Sent(n, m)' : i < j => Moved(i, 1) < Moved(j, 1)
      BY <3>3 DEF Moved
    <3>5. \A i \in Sent(n, m)' : Moved(i, 1) > 1
      <4>1. \A i \in Sent(n, m)' : i >= 1
        BY <3>2, OnTheWay DEF Sent, OneLess
      <4> QED
        BY <3>3, <4>1 DEF Moved
    <3>6. p.from = n <=> 1 \in Sent(n, m)
      BY <1>4, <2>4, <3>2 DEF Sent, OneLess
    <3>7. data[n] \in Nat /\ replicas[m][n].version \in Nat
      BY <2>1, <3>1 DEF FullInv, IInv, Shapes, StartInv, Contents, ReplicaShape
    <3>8. DOMAIN replicas'[m] = DOMAIN replicas[m]
      BY <1>7, <2>4
    <3>9. CASE p.from = n
      <4>1. 1 \in Sent(n, m) /\ p = inbox[m][1]
        BY <1>4, <2>4, <3>6, <3>9
      <4>2. replicas'[m][n].version = p.version /\ replicas'[m][n].updated
        BY <1>7, <2>4, <3>1, <3>9
      <4>3. p.version <= data[n] /\ replicas[m][n].version <= p.version
        BY <2>1, <3>1, <4>1 DEF PairOf, InOrder
      <4>4. InOrder(n, m)'
        <5>1. \A i \in Sent(n, m)' : p.version <= inbox'[m][i].version
          BY <2>1, <3>3, <3>5, <4>1 DEF PairOf, InOrder
        <5>2. \A i, j \in Sent(n, m)' : i < j => inbox'[m][i].version <= inbox'[m][j].version
          BY <2>1, <3>3, <3>4 DEF PairOf, InOrder
        <5>3. \A i \in Sent(n, m)' : inbox'[m][i].version <= data[n]
          BY <2>1, <3>3 DEF PairOf, InOrder
        <5> QED
          BY <1>1, <4>2, <4>3, <5>1, <5>2, <5>3 DEF InOrder
      <4>5. Heard(n, m)
        BY <4>1 DEF Heard
      <4>6. Promised(n, m) => Promised(n, m)'
        <5>1. CASE p.version = data[n]
          BY <1>1, <3>1, <3>8, <4>2, <5>1 DEF Promised, Delivered
        <5>2. CASE p.version # data[n]
          <6>1. 1 \notin Newest(n, m)
            BY <4>1, <5>2 DEF Newest
          <6>2. ~Delivered(n, m)
            BY <1>4, <3>7, <4>3, <5>2 DEF Delivered
          <6>3. /\ Newest(n, m) # {} => Newest(n, m)' # {}
                /\ (\E i, j \in Newest(n, m) : i # j) => \E i, j \in Newest(n, m)' : i # j
            BY <1>1, <2>1, <3>2, <6>1, NewestAreLeft
          <6> QED
            BY <1>1, <6>2, <6>3 DEF Promised
        <5> QED
          BY <5>1, <5>2
      <4> QED
        BY <1>1, <2>1, <2>2, <4>4, <4>5, <4>6 DEF PairOf, Players
    <3>10. CASE p.from # n
      <4>1. replicas'[m][n] = replicas[m][n]
        BY <1>7, <2>4, <3>1, <3>10
      <4>2. InOrder(n, m)'
        <5>1. \A i, j \in Sent(n, m)' : i < j => inbox'[m][i].version <= inbox'[m][j].version
          BY <2>1, <3>3, <3>4 DEF PairOf, InOrder
        <5>2. \A i \in Sent(n, m)' : /\ inbox'[m][i].version <= data[n]
                                     /\ replicas[m][n].version <= inbox'[m][i].version
          BY <2>1, <3>1, <3>3 DEF PairOf, InOrder
        <5> QED
          BY <1>1, <2>1, <3>8, <4>1, <5>1, <5>2 DEF PairOf, InOrder
      <4>3. Heard(n, m)' => Heard(n, m)
        BY <3>3, <3>8, <4>1 DEF Heard
      <4>4. 1 \notin Newest(n, m)
        BY <3>6, <3>10 DEF Newest
      <4>5. /\ Newest(n, m) # {} => Newest(n, m)' # {}
            /\ (\E i, j \in Newest(n, m) : i # j) => \E i, j \in Newest(n, m)' : i # j
        BY <1>1, <2>1, <3>2, <4>4, NewestAreLeft
      <4>6. Promised(n, m) => Promised(n, m)'
        BY <1>1, <3>8, <4>1, <4>5 DEF Promised, Delivered
      <4> QED
        BY <1>1, <2>1, <2>2, <4>2, <4>3, <4>6 DEF PairOf, Players
    <3> QED
      BY <3>9, <3>10
  <2> QED
    BY <2>3, <2>4
<1> QED
  BY <1>1, <1>8, <1>9, PairFacts, PairsSuffice, ZenonT(60)

(* Broadcasts go behind what is in a socket.                               *)
LEMMA CopiesFollow ==
    ASSUME FullInv, NEW a \in Nodes, NEW m \in Nodes, a # m, SocketOpen(m), master[a].created,
           NEW times \in Nat, inbox'[m] = Broadcast(a, times)[m]
    PROVE  /\ DOMAIN inbox[m] = 1..Len(inbox[m]) /\ Len(inbox[m]) \in Nat
           /\ DOMAIN inbox'[m] = 1..(Len(inbox[m]) + times)
           /\ \A i \in DOMAIN inbox[m] : inbox'[m][i] = inbox[m][i]
           /\ \A i \in DOMAIN inbox'[m] \ DOMAIN inbox[m] :
                 inbox'[m][i].from = a /\ inbox'[m][i].version = master[a].version
<1> DEFINE p == [from |-> a, version |-> master[a].version]
           copies == [i \in 1..times |-> p]
<1>1. inbox[m] \in Seq(Packets)
  BY OnTheWay
<1>2. p \in Packets
  BY DEF FullInv, IInv, Shapes, MasterShape, StartInv, Contents, Packets
<1>3. p.from = a /\ p.version = master[a].version
  OBVIOUS
<1>4. inbox'[m] = inbox[m] \o copies
  BY DEF Broadcast
<1> HIDE DEF p
<1>5. copies \in Seq(Packets) /\ Len(copies) = times
  BY <1>2
<1>6. \A i \in 1..times : copies[i] = p
  OBVIOUS
<1> HIDE DEF copies
<1>7. /\ inbox'[m] \in Seq(Packets) /\ Len(inbox'[m]) = Len(inbox[m]) + times
      /\ \A i \in 1..(Len(inbox[m]) + times) :
            inbox'[m][i] = IF i <= Len(inbox[m]) THEN inbox[m][i] ELSE copies[i - Len(inbox[m])]
  <2>1. /\ inbox[m] \o copies \in Seq(Packets)
        /\ Len(inbox[m] \o copies) = Len(inbox[m]) + Len(copies)
        /\ \A i \in 1..(Len(inbox[m]) + Len(copies)) :
              (inbox[m] \o copies)[i] = IF i <= Len(inbox[m]) THEN inbox[m][i] ELSE copies[i - Len(inbox[m])]
    BY <1>1, <1>5, ConcatProperties, ZenonT(60)
  <2> QED
    BY <1>4, <1>5, <2>1
<1>8. /\ DOMAIN inbox[m] = 1..Len(inbox[m]) /\ Len(inbox[m]) \in Nat
      /\ DOMAIN inbox'[m] = 1..(Len(inbox[m]) + times)
  BY <1>1, <1>7
<1>9. \A i \in DOMAIN inbox[m] : inbox'[m][i] = inbox[m][i]
  BY <1>7, <1>8
<1>10. \A i \in DOMAIN inbox'[m] \ DOMAIN inbox[m] : inbox'[m][i] = p
  BY <1>6, <1>7, <1>8
<1> QED
  BY <1>3, <1>8, <1>9, <1>10

(* What a turn of the master thread does: it sends the newest version, and *)
(* before it lets the game begin twice.                                    *)
LEMMA TurnSends ==
    ASSUME FullInv, Pair, NEW a \in on, MasterTurn(a)
    PROVE  /\ master'[a].created /\ master'[a].version = master[a].version
           /\ master'[a].updated = Decremented(a)
           /\ master'[a].thread = "loop" => allReceived[a]
           /\ master'[a].thread = "again" => ~allReceived[a]
           /\ Begins(a)' => allReceived[a] \/ AllHere(a)
           /\ \E times \in Nat : /\ inbox' = Broadcast(a, times)
                                 /\ master[a].updated > 0 => times >= 1
                                 /\ Begins(a)' /\ ~allReceived[a] => times = 2
<1>1. /\ master \in [Nodes -> MasterShape] /\ a \in Nodes /\ Lone(a) /\ allReceived' = allReceived
      /\ master[a].created /\ master[a].thread = "loop"
  BY PairFacts DEF FullInv, IInv, Shapes, PlayerInv, MasterTurn, MayTurn
<1>2. master[a] \in MasterShape
  BY <1>1
<1>3. /\ Turned(a) \in MasterShape /\ Turned(a).created /\ Turned(a).version = master[a].version
      /\ Turned(a).updated = Decremented(a) /\ Turned(a).thread = "loop"
  <2>1. info[a] \in SUBSET Nodes /\ Decremented(a) \in Nat
    BY <1>1, <1>2 DEF FullInv, IInv, Shapes, Decremented, MasterShape
  <2>2. ~Changed(a) => Decremented(a) = master[a].updated
    BY <1>2 DEF Changed, Decremented, MasterShape
  <2> QED
    BY <1>1, <1>2, <2>1, <2>2 DEF Turned, MasterShape
<1>4. News(a) \in Nat /\ News(a) + 1 \in Nat /\ (master[a].updated > 0 => News(a) = 1)
  BY DEF News, Changed
<1>5. CASE allReceived[a]
  <2>1. master'[a] = Turned(a) /\ inbox' = Broadcast(a, News(a))
    BY <1>1, <1>5 DEF MasterTurn
  <2> QED
    BY <1>3, <1>4, <1>5, <2>1
<1>6. CASE ~allReceived[a] /\ AllHere(a)
  <2>1. master'[a] = [Turned(a) EXCEPT !.thread = "done"] /\ inbox' = Broadcast(a, News(a) + 1)
    BY <1>1, <1>6 DEF MasterTurn
  <2>2. master[a].updated > 0
    BY <1>1, <1>2, <1>6 DEF Lone, MasterShape
  <2>3. /\ master'[a].created /\ master'[a].version = master[a].version
        /\ master'[a].updated = Decremented(a) /\ master'[a].thread = "done"
    BY <1>3, <2>1 DEF MasterShape
  <2> QED
    BY <1>4, <1>6, <2>1, <2>2, <2>3
<1>7. CASE ~allReceived[a] /\ ~AllHere(a)
  <2>1. master'[a] = [Turned(a) EXCEPT !.thread = "again"] /\ inbox' = Broadcast(a, News(a))
    BY <1>1, <1>7 DEF MasterTurn
  <2>2. /\ master'[a].created /\ master'[a].version = master[a].version
        /\ master'[a].updated = Decremented(a) /\ master'[a].thread = "again"
    BY <1>3, <2>1 DEF MasterShape
  <2>3. ~Begins(a)'
    BY <1>1, <1>7, <2>2 DEF Begins
  <2> QED
    BY <1>4, <1>7, <2>1, <2>2, <2>3
<1> QED
  BY <1>5, <1>6, <1>7

(* A turn of the master thread keeps its promise.                          *)
LEMMA TurnKeepsPromise ==
    ASSUME FullInv, Pair, NEW a \in on, NEW m \in on, a # m, MasterTurn(a)
    PROVE  PairOf(a, m)'
<1>1. /\ UNCHANGED <<scenario, info, data, replicas, users, numPeers, allReceived, trouble>>
      /\ a \in Nodes /\ m \in Nodes
  BY PairFacts DEF MasterTurn
<1>2. PairOf(a, m) /\ master[a].created /\ master[a].version = data[a] /\ trouble \in Nat
  BY PairFacts DEF FullInv, IInv, PlayerInv, MasterTurn, MayTurn, Lone
<1>3. PICK times \in Nat : /\ inbox' = Broadcast(a, times)
                           /\ master[a].updated > 0 => times >= 1
                           /\ Begins(a)' /\ ~allReceived[a] => times = 2
  BY TurnSends
<1>4. /\ master'[a].created /\ master'[a].updated = Decremented(a)
      /\ Begins(a)' => allReceived[a] \/ AllHere(a)
  BY TurnSends
<1>5. master[a].updated \in Nat /\ data[a] \in Nat
  BY <1>1 DEF FullInv, IInv, Shapes, MasterShape
<1>6. CASE ~SocketOpen(m)
  <2>1. inbox'[m] = inbox[m]
    BY <1>1, <1>3, <1>6 DEF Broadcast
  <2>2. ~Begins(a)'
    BY <1>2, <1>4, <1>6, PeerListens DEF Begins
  <2>3. InOrder(a, m)'
    BY <1>1, <1>2, <2>1 DEF PairOf, InOrder, Sent
  <2> QED
    BY <1>1, <1>2, <1>4, <2>2, <2>3 DEF PairOf, Players
<1>7. CASE SocketOpen(m)
  <2>1. /\ DOMAIN inbox[m] = 1..Len(inbox[m]) /\ Len(inbox[m]) \in Nat
        /\ DOMAIN inbox'[m] = 1..(Len(inbox[m]) + times)
        /\ \A i \in DOMAIN inbox[m] : inbox'[m][i] = inbox[m][i]
        /\ \A i \in DOMAIN inbox'[m] \ DOMAIN inbox[m] :
              inbox'[m][i].from = a /\ inbox'[m][i].version = data[a]
    <3>1. inbox'[m] = Broadcast(a, times)[m]
      BY <1>3
    <3> QED
      BY <1>1, <1>2, <1>7, <3>1, CopiesFollow
  <2>2. /\ Sent(a, m) \subseteq Sent(a, m)' /\ Newest(a, m) \subseteq Newest(a, m)'
        /\ \A k \in 1..times : /\ Len(inbox[m]) + k \in Newest(a, m)'
                               /\ Len(inbox[m]) + k \notin Newest(a, m)
    <3>1. DOMAIN inbox[m] \subseteq DOMAIN inbox'[m]
      BY <2>1
    <3>2. \A k \in 1..times : Len(inbox[m]) + k \in DOMAIN inbox'[m] \ DOMAIN inbox[m]
      BY <2>1
    <3> QED
      BY <1>1, <2>1, <3>1, <3>2 DEF Sent, Newest
  <2>3. \A i \in Sent(a, m)' : \/ i \in Sent(a, m) /\ inbox'[m][i] = inbox[m][i]
                               \/ i \notin DOMAIN inbox[m] /\ inbox'[m][i].version = data[a]
    BY <2>1 DEF Sent
  <2>4. InOrder(a, m)'
    <3>1. \A i \in Sent(a, m)' : inbox'[m][i].version <= data[a]
      BY <1>2, <1>5, <2>3 DEF PairOf, InOrder
    <3>2. \A i, j \in Sent(a, m)' : i < j => inbox'[m][i].version <= inbox'[m][j].version
      <4> SUFFICES ASSUME NEW i \in Sent(a, m)', NEW j \in Sent(a, m)', i < j
                   PROVE  inbox'[m][i].version <= inbox'[m][j].version
        OBVIOUS
      <4>1. CASE j \notin DOMAIN inbox[m]
        BY <2>3, <3>1, <4>1 DEF Sent
      <4>2. CASE j \in DOMAIN inbox[m]
        <5>1. i \in DOMAIN inbox[m]
          BY <2>1, <4>2 DEF Sent
        <5> QED
          BY <1>2, <2>3, <4>2, <5>1 DEF PairOf, InOrder
      <4> QED
        BY <4>1, <4>2
    <3>3. a \in DOMAIN replicas[m] => \A i \in Sent(a, m)' : replicas[m][a].version <= inbox'[m][i].version
      BY <1>2, <2>3 DEF PairOf, InOrder
    <3> QED
      BY <1>1, <1>2, <3>1, <3>2, <3>3 DEF PairOf, InOrder
  <2>5. ASSUME Begins(a)' PROVE Promised(a, m)'
    <3>1. CASE ~allReceived[a]
      <4>1. 1 \in 1..times /\ 2 \in 1..times
        BY <1>3, <2>5, <3>1
      <4>2. Len(inbox[m]) + 1 # Len(inbox[m]) + 2
        BY <2>1
      <4>3. \E i, j \in Newest(a, m)' : i # j
        BY <2>2, <4>1, <4>2
      <4> QED
        BY <4>3 DEF Promised
    <3>2. CASE allReceived[a]
      <4>1. Promised(a, m)
        BY <1>2, <3>2 DEF PairOf, Begins
      <4>2. CASE Delivered(a, m)
        BY <1>1, <4>2 DEF Promised, Delivered
      <4>3. CASE master[a].updated >= 1
        <5>1. 1 \in 1..times
          BY <1>3, <1>5, <4>3
        <5>2. Len(inbox[m]) + 1 \in Newest(a, m)' /\ Len(inbox[m]) + 1 \notin Newest(a, m)
          BY <2>2, <5>1
        <5>3. master'[a].updated = master[a].updated - 1
          BY <1>4, <1>5, <4>3 DEF Decremented
        <5>4. CASE master[a].updated >= 2
          BY <1>5, <5>2, <5>3, <5>4 DEF Promised
        <5>5. CASE Newest(a, m) # {}
          <6>1. \E i, j \in Newest(a, m)' : i # j
            BY <2>2, <5>2, <5>5
          <6> QED
            BY <6>1 DEF Promised
        <5>6. CASE trouble > 0
          BY <1>1, <5>2, <5>6 DEF Promised
        <5>7. CASE \E i, j \in Newest(a, m) : i # j
          BY <5>5, <5>7
        <5> QED
          BY <4>1, <4>2, <5>4, <5>5, <5>6, <5>7 DEF Promised
      <4>4. CASE \/ \E i, j \in Newest(a, m) : i # j
                 \/ Newest(a, m) # {} /\ trouble > 0
        BY <1>1, <2>2, <4>4 DEF Promised
      <4> QED
        BY <1>5, <4>1, <4>2, <4>3, <4>4 DEF Promised
    <3> QED
      BY <3>1, <3>2
  <2> QED
    BY <1>1, <1>2, <1>4, <2>4, <2>5 DEF PairOf, Players
<1> QED
  BY <1>6, <1>7

LEMMA MasterTurnKeepsPairs ==
    ASSUME FullInv, NEW a \in Nodes, MasterTurn(a)
    PROVE  PairInv'
<1>1. /\ UNCHANGED <<scenario, on, info, data, replicas, numPeers, allReceived, receiver, call, trouble>>
      /\ a \in on
  BY DEF MasterTurn, MayTurn
<1>2. /\ \A k \in Nodes \ {a} : master'[k] = master[k]
      /\ inbox'[a] = inbox[a] /\ master[a].created
  <2>1. (\A k \in Nodes \ {a} : master'[k] = master[k]) /\ master[a].created
    BY TurnsKeepContents DEF FullInv
  <2>2. \E times : inbox' = Broadcast(a, times)
    BY DEF MasterTurn
  <2> QED
    BY <2>1, <2>2 DEF Broadcast
<1>3. ASSUME Pair, NEW n \in on
      PROVE  Lone(n)'
  <2>1. n \in Nodes /\ Lone(n)
    BY <1>3, PairFacts
  <2>2. CASE n = a
    <3>1. /\ master'[n].created /\ master'[n].version = master[n].version
          /\ master'[n].thread = "loop" => allReceived[n]
          /\ master'[n].thread = "again" => ~allReceived[n]
      BY <1>3, <2>2, TurnSends
    <3> QED
      BY <1>1, <1>2, <2>1, <2>2, <3>1 DEF Lone, Players
  <2>3. CASE n # a
    BY <1>1, <1>2, <2>1, <2>3 DEF Lone, Players
  <2> QED
    BY <2>2, <2>3
<1>4. ASSUME Pair, NEW n \in on, NEW m \in on, n # m
      PROVE  PairOf(n, m)'
  <2>1. PairOf(n, m) /\ n \in Nodes /\ m \in Nodes
    BY <1>4, PairFacts
  <2>2. CASE n = a
    BY <1>4, <2>2, TurnKeepsPromise
  <2>3. CASE n # a
    <3>1. m = a
      <4>1. Players = {n, m} /\ on \subseteq Players
        BY <1>4, PairFacts
      <4> QED
        BY <1>1, <2>3, <4>1
    <3>2. master'[n] = master[n] /\ inbox'[m] = inbox[m]
      BY <1>2, <2>1, <2>3, <3>1
    <3>3. Begins(n)' => Begins(n)
      BY <1>1, <3>2 DEF Begins
    <3> QED
      BY <1>1, <2>1, <3>2, <3>3, PairStays
  <2> QED
    BY <2>2, <2>3
<1> QED
  BY <1>1, <1>3, <1>4, PairFacts, PairsSuffice, ZenonT(60)

(* In a game that deletes nothing no call waits for a thread.              *)
LEMMA NobodyIsJoined ==
    ASSUME FullInv, NEW a \in Nodes, MasterJoined(a) \/ ReceiverJoined(a)
    PROVE  PairInv'
<1>1. UNCHANGED <<scenario, on, trouble>> /\ a \in on /\ call[a].at \in {"joinMaster", "joinReceiver"}
  BY DEF MasterJoined, ReceiverJoined
<1>2. ~Pair
  BY <1>1, PairFacts DEF Lone
<1> QED
  BY <1>1, <1>2, PairFacts, PairsSuffice

(* Nothing is claimed of games that delete or come late.                   *)
LEMMA OtherGamesKeepPairs ==
    ASSUME FullInv, NEW a \in Nodes,
           \/ Uses("Delete") /\ (DeleteMaster(a) \/ \E k \in Nodes : DeleteReplica(a, k))
           \/ Uses("Late") /\ MasterTimesOut(a)
    PROVE  PairInv'
<1>1. UNCHANGED <<scenario, on, trouble>>
  BY DEF DeleteMaster, DeleteReplica, MasterTimesOut
<1>2. ~Pair
  BY DEF Pair, OnTime
<1> QED
  BY <1>1, <1>2, PairFacts, PairsSuffice

LEMMA NextKeepsPairs ==
    ASSUME FullInv, [Next]_vars, \A s \in Scenarios : s.trouble <= 1
    PROVE  FullInv'
<1>1. IInv' /\ StartInv'
  BY NextIsSafe, NextKeepsStart DEF FullInv
<1>2. CASE UNCHANGED vars
  <2>1. UNCHANGED <<scenario, on, info, data, master, replicas, inbox, numPeers, allReceived,
                    receiver, call, trouble>>
    BY <1>2 DEF vars, gameVars
  <2>2. PairInv'
    BY <2>1 DEF FullInv, PairInv, Pair, OnTime, Uses, Players, Lone, Pairs, PairOf, InOrder, Sent, Heard,
                Begins, Promised, Newest, Delivered
  <2> QED
    BY <1>1, <2>2 DEF FullInv
<1>3. ASSUME NEW a \in Nodes, GameStep(a) PROVE PairInv'
  <2>1. CASE CreateMaster(a)
    BY <2>1, CreateMasterKeepsPairs
  <2>2. CASE FirstData(a) \/ AllData(a)
    BY <2>2, WaitsKeepPairs
  <2>3. CASE MasterJoined(a) \/ ReceiverJoined(a)
    BY <2>3, NobodyIsJoined
  <2>4. CASE UpdateMaster(a)
    BY <2>4, UpdateMasterKeepsPairs
  <2>5. CASE Uses("Delete") /\ (DeleteMaster(a) \/ \E k \in Nodes : DeleteReplica(a, k))
    BY <2>5, OtherGamesKeepPairs
  <2>6. CASE PowerOff(a) \/ \E k \in Nodes : PeerLeft(a, k)
    BY <2>6, LeaversKeepPairs
  <2>7. CASE \E k \in Nodes : CreateReplica(a, k)
    BY <2>7, CreateReplicaKeepsPairs
  <2>8. CASE \E k \in Nodes : UpdateReplica(a, k)
    BY <2>8, UpdateReplicaKeepsPairs
  <2> QED
    BY <1>3, <2>1, <2>2, <2>3, <2>4, <2>5, <2>6, <2>7, <2>8 DEF GameStep
<1>4. ASSUME NEW a \in Nodes, ThreadStep(a) PROVE PairInv'
  <2>1. CASE Uses("Late") /\ MasterTimesOut(a)
    BY <2>1, OtherGamesKeepPairs
  <2>2. CASE MasterTurn(a)
    BY <2>2, MasterTurnKeepsPairs
  <2>3. CASE MasterResumes(a)
    BY <2>3, MasterResumesKeepsPairs
  <2>4. CASE MasterStops(a) \/ ReplicaStops(a)
    BY <2>4, WaitsKeepPairs
  <2>5. CASE ReplicaTurn(a)
    BY <2>5, ReplicaTurnKeepsPairs
  <2> QED
    BY <1>4, <2>1, <2>2, <2>3, <2>4, <2>5 DEF ThreadStep
<1>5. ASSUME NEW a \in Nodes, Lose(a) PROVE PairInv'
  BY <1>5, LoseKeepsPairs
<1> QED
  BY <1>1, <1>2, <1>3, <1>4, <1>5 DEF Next, FullInv

LEMMA PairsAreServed == FullInv => LatestArrivesInPairs
<1> SUFFICES ASSUME FullInv, Pair, NEW n \in on, NEW m \in on, Quiet(n, m)
             PROVE  /\ replicas[m][n].version = master[n].version
                    /\ replicas[m][n].updated \/ replicas[m][n].seen = master[n].version
  BY DEF LatestArrivesInPairs, LatestArrives, Pair
<1>1. n \in DOMAIN replicas[m] /\ n # m /\ n \in Nodes
  BY PairFacts DEF Quiet, Lone
<1>2. PairOf(n, m) /\ Lone(n) /\ Begins(n)
  BY <1>1, PairFacts DEF Quiet, Begins
<1>3. Newest(n, m) = {}
  BY DEF Quiet, Newest, Sent
<1>4. master[n].updated = 0
  BY <1>1 DEF Quiet, Changed, FullInv, IInv, Shapes, MasterShape
<1>5. Delivered(n, m)
  BY <1>2, <1>3, <1>4 DEF PairOf, Promised
<1>6. master[n].version = data[n]
  BY <1>2 DEF Lone, Begins
<1> QED
  BY <1>1, <1>2, <1>5, <1>6 DEF Delivered, PairOf, InOrder

(* Between two players the newest version of a block always gets to the    *)
(* other: when nothing more is to be sent or on its way, he has received   *)
(* it, and his game has taken it or finds it marked.  The master thread    *)
(* sends every update twice, and that is enough if at most one datagram is *)
(* lost, for any number of updates and any backlog of the sockets.         *)
THEOREM NewestReachesThePeer ==
    ASSUME \A s \in Scenarios : s.trouble <= 1
    PROVE  Spec => []LatestArrivesInPairs
<1>1. Init => FullInv
  BY InitIsSafe, InitHasStart, InitHasPair DEF FullInv
<1>2. FullInv /\ [Next]_vars => FullInv'
  BY NextKeepsPairs
<1>3. FullInv => LatestArrivesInPairs
  BY PairsAreServed
<1> QED
  BY <1>1, <1>2, <1>3, PTL DEF Spec

=============================================================================
