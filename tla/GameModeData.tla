---------------------------- MODULE GameModeData ----------------------------
(***************************************************************************)
(* The data exchange of game mode (pspnet_adhoc, calls/gamemode): every    *)
(* PSP shares a block of data, its master, with all others, which keep a   *)
(* replica of it each.  One thread per PSP broadcasts the master, one      *)
(* receives into the replicas, and the game calls the library in a third.  *)
(*                                                                         *)
(* _gamemode_lock is held for the whole of a call and of a turn of a       *)
(* thread.  A call that deletes keeps it while it waits for a thread to    *)
(* end, so the variable lock says that a call holds it between two steps.  *)
(* A block is represented by its version; 0 is a buffer nothing has been   *)
(* received into.  Allocation failures, which undo all, are left out.      *)
(***************************************************************************)
EXTENDS Integers, FiniteSets, SequencesExt

CONSTANTS Nodes,      \* MAC addresses of the PSPs
          Scenarios,  \* who plays, what the games do, how many troubles there are
          MaxVersion  \* bound: how often a game updates its master

ASSUME ScenarioAssumption ==
    \A s \in Scenarios :
        /\ s.players \subseteq Nodes /\ IsFiniteSet(s.players)
        /\ s.calls \subseteq {"Update", "Delete", "PowerOff", "Late", "ReplicaFirst"}
        /\ s.trouble \in Nat       \* bound: datagrams lost and PSPs switched off
        /\ s.backlog \in Nat \ {0} \* bound: datagrams in a socket before others send again

ASSUME BoundAssumption == MaxVersion \in Nat \ {0}

VARIABLES
    scenario,
    on,          \* the PSPs that are switched on
    info,        \* info[n]: the members in n's game mode information
    data,        \* data[n]: version of the game's own block
    master,      \* _gamemode and what belongs to its thread
    replicas,    \* _gamemode_replicas, as a function on the senders
    users,       \* _gamemode_socket_users
    inbox,       \* datagrams on the way to _gamemode_socket or in it, oldest first
    numPeers,    \* _gamemode_num_peers
    allReceived, \* _gamemode_all_received
    receiver,    \* the replica thread: "none", "running" or "ended"
    lock,        \* TRUE: a call that waits for a thread holds _gamemode_lock
    call,        \* what the game's thread is doing
    trouble      \* datagrams lost and PSPs switched off so far

gameVars == <<info, data, master, replicas, users, inbox, numPeers, allReceived, receiver,
              lock, call>>
vars == <<scenario, on, gameVars, trouble>>

Players == scenario.players
Uses(what) == what \in scenario.calls
Trouble == trouble < scenario.trouble /\ trouble' = trouble + 1

(* thread is where the master thread is: between two turns, in the pause   *)
(* before it sets data_updated (again) or _gamemode_all_received (done).   *)
(* stop is _gamemode_stop_thread, which stays set when the thread ends.    *)
NoMaster == [created |-> FALSE, version |-> 0, updated |-> 0, lastInfo |-> {},
             thread |-> "none", stop |-> FALSE]
NewReplica == [version |-> 0, updated |-> FALSE, seen |-> 0]
Idle == [at |-> "idle", peer |-> "nobody"]

SocketOpen(n) == users[n] > 0

Init ==
    /\ scenario \in Scenarios
    /\ on = Players
    /\ info = [n \in Nodes |-> Players]
    /\ data = [n \in Nodes |-> 1]
    /\ master = [n \in Nodes |-> NoMaster]
    /\ replicas = [n \in Nodes |-> <<>>]
    /\ users = [n \in Nodes |-> 0]
    /\ inbox = [n \in Nodes |-> <<>>]
    /\ numPeers = [n \in Nodes |-> 0]
    /\ allReceived = [n \in Nodes |-> FALSE]
    /\ receiver = [n \in Nodes |-> "none"]
    /\ lock = [n \in Nodes |-> FALSE]
    /\ call = [n \in Nodes |-> Idle]
    /\ trouble = 0

-----------------------------------------------------------------------------
(* The calls of the game.                                                  *)

MayCall(n) == n \in on /\ call[n] = Idle /\ ~lock[n]

(* Mutant of StartedMaster: the stop flag of the last thread stays set.    *)
StartedUnderStop(n) ==
    [created |-> TRUE, version |-> data[n], updated |-> 1, lastInfo |-> {},
     thread |-> "loop", stop |-> master[n].stop]

StartedMaster(n) ==
    [created |-> TRUE, version |-> data[n], updated |-> 1, lastInfo |-> {},
     thread |-> "loop", stop |-> FALSE]

CreateMaster(n) ==
    /\ MayCall(n) /\ ~master[n].created
    /\ master' = [master EXCEPT ![n] = StartedMaster(n)]
    /\ users' = [users EXCEPT ![n] = @ + 1]
    /\ numPeers' = [numPeers EXCEPT ![n] = Cardinality(info[n]) - 1]
    /\ allReceived' = [allReceived EXCEPT ![n] = FALSE]
    /\ UNCHANGED <<scenario, on, info, data, replicas, inbox, receiver, lock, call, trouble>>

Remembered(n, m) ==
    [k \in DOMAIN replicas[n] \cup {m} |-> IF k = m THEN NewReplica ELSE replicas[n][k]]

CreateReplica(n, m) ==
    /\ MayCall(n) /\ m \in Players \ {n} /\ m \notin DOMAIN replicas[n]
    /\ master[n].created \/ Uses("ReplicaFirst")
    /\ replicas' = [replicas EXCEPT ![n] = Remembered(n, m)]
    /\ users' = [users EXCEPT ![n] = @ + 1]
    /\ receiver' = [receiver EXCEPT ![n] = "running"]
    /\ call' = [call EXCEPT ![n] = [at |-> "first", peer |-> m]]
    /\ UNCHANGED <<scenario, on, info, data, master, inbox, numPeers, allReceived, lock, trouble>>

(* CreateReplica goes on without the lock, once its data is here or a      *)
(* quarter of a second has passed.                                         *)
FirstData(n) ==
    /\ n \in on /\ call[n].at = "first"
    /\ call' = [call EXCEPT ![n] = IF users[n] - 1 = numPeers[n] THEN [@ EXCEPT !.at = "all"]
                                                                  ELSE Idle]
    /\ UNCHANGED <<scenario, on, info, data, master, replicas, users, inbox, numPeers,
                   allReceived, receiver, lock, trouble>>

AllData(n) ==
    /\ n \in on /\ call[n].at = "all" /\ allReceived[n]
    /\ call' = [call EXCEPT ![n] = Idle]
    /\ UNCHANGED <<scenario, on, info, data, master, replicas, users, inbox, numPeers,
                   allReceived, receiver, lock, trouble>>

(* Mutant of UpdatesToSend: an update is sent once. *)
UpdatesToSendOnce == 1

UpdatesToSend == 2

(* The game has changed its block. *)
UpdateMaster(n) ==
    /\ MayCall(n) /\ master[n].created /\ data[n] < MaxVersion
    /\ data' = [data EXCEPT ![n] = @ + 1]
    /\ master' = [master EXCEPT ![n].version = data[n] + 1, ![n].updated = UpdatesToSend]
    /\ UNCHANGED <<scenario, on, info, replicas, users, inbox, numPeers, allReceived, receiver,
                   lock, call, trouble>>

UpdateReplica(n, m) ==
    /\ MayCall(n) /\ m \in DOMAIN replicas[n] /\ replicas[n][m].updated
    /\ replicas' = [replicas EXCEPT ![n][m].updated = FALSE, 
                                      ![n][m].seen = replicas[n][m].version]
    /\ UNCHANGED <<scenario, on, info, data, master, users, inbox, numPeers, allReceived,
                   receiver, lock, call, trouble>>

(* The last user of the socket stops the replica thread, then closes the   *)
(* socket.                                                                 *)
LetGo(n) ==
    /\ users' = [users EXCEPT ![n] = @ - 1]
    /\ IF users[n] = 1 /\ receiver[n] # "none"
       THEN /\ lock' = [lock EXCEPT ![n] = TRUE]
            /\ call' = [call EXCEPT ![n] = [at |-> "joinReceiver", peer |-> "nobody"]]
       ELSE /\ lock' = [lock EXCEPT ![n] = FALSE]
            /\ call' = [call EXCEPT ![n] = Idle]
    /\ inbox' = [inbox EXCEPT ![n] = IF users[n] = 1 THEN <<>> ELSE @]

DeleteMaster(n) ==
    /\ MayCall(n) /\ master[n].created
    /\ master' = [master EXCEPT ![n].stop = TRUE]
    /\ lock' = [lock EXCEPT ![n] = TRUE]
    /\ call' = [call EXCEPT ![n] = [at |-> "joinMaster", peer |-> "nobody"]]
    /\ UNCHANGED <<scenario, on, info, data, replicas, users, inbox, numPeers, allReceived,
                   receiver, trouble>>

(* The master thread has ended.                                            *)
MasterJoined(n) ==
    /\ n \in on /\ call[n].at = "joinMaster" /\ master[n].thread = "ended"
    /\ master' = [master EXCEPT ![n] = [NoMaster EXCEPT !.stop = TRUE]]
    /\ LetGo(n)
    /\ UNCHANGED <<scenario, on, info, data, replicas, numPeers, allReceived, receiver, trouble>>

(* Mutant of Forgotten: the replica's place is not cleared.                *)
ForgottenNot(n, m) == replicas[n]

Forgotten(n, m) == [k \in DOMAIN replicas[n] \ {m} |-> replicas[n][k]]

DeleteReplica(n, m) ==
    /\ MayCall(n) /\ m \in DOMAIN replicas[n]
    /\ replicas' = [replicas EXCEPT ![n] = Forgotten(n, m)]
    /\ LetGo(n)
    /\ UNCHANGED <<scenario, on, info, data, master, numPeers, allReceived, receiver, trouble>>

ReceiverJoined(n) ==
    /\ n \in on /\ call[n].at = "joinReceiver" /\ receiver[n] = "ended"
    /\ receiver' = [receiver EXCEPT ![n] = "none"]
    /\ lock' = [lock EXCEPT ![n] = FALSE]
    /\ call' = [call EXCEPT ![n] = Idle]
    /\ UNCHANGED <<scenario, on, info, data, master, replicas, users, inbox, numPeers,
                   allReceived, trouble>>

-----------------------------------------------------------------------------
(* The threads.                                                            *)

(* What times broadcasts of n's block leave in the sockets of the others.  *)
Broadcast(n, times) ==
    [m \in Nodes |->
        IF m = n \/ ~SocketOpen(m) THEN inbox[m]
        ELSE inbox[m] \o [i \in 1..times |-> [from |-> n, version |-> master[n].version]]]

Received(n) == Cardinality({m \in DOMAIN replicas[n] : replicas[n][m].updated})

(* Mutant of AllHere: the own block counts as one that has arrived.        *)
AllHereButOne(n) == Received(n) + 1 >= numPeers[n]

AllHere(n) == Received(n) >= numPeers[n]

Changed(n) == master[n].updated > 0 \/ master[n].lastInfo # info[n]

Decremented(n) == IF master[n].updated > 0 THEN master[n].updated - 1 ELSE 0

(* A turn of the master thread, with a broadcast when there is news.       *)
MayTurn(n) == n \in on /\ master[n].thread = "loop" /\ ~master[n].stop /\ ~lock[n]

News(n) == IF Changed(n) THEN 1 ELSE 0

Turned(n) ==
    IF Changed(n) THEN [master[n] EXCEPT !.updated = Decremented(n), !.lastInfo = info[n]]
                  ELSE master[n]

(* Until the blocks of all peers are here it goes on sending; then it      *)
(* sends once more and, after a pause, lets CreateReplica return.          *)
MasterTurn(n) ==
    /\ MayTurn(n)
    /\ Changed(n) \/ ~allReceived[n]
    /\ \A m \in Players : Len(inbox[m]) < scenario.backlog
    /\ IF allReceived[n]
       THEN /\ master' = [master EXCEPT ![n] = Turned(n)]
            /\ inbox' = Broadcast(n, News(n))
       ELSE /\ master' = [master EXCEPT ![n] =
                    [Turned(n) EXCEPT !.thread = IF AllHere(n) THEN "done" ELSE "again"]]
            /\ inbox' = Broadcast(n, IF AllHere(n) THEN News(n) + 1 ELSE News(n))
    /\ UNCHANGED <<scenario, on, info, data, replicas, users, numPeers, allReceived, receiver,
                   lock, call, trouble>>

(* After ten seconds it lets CreateReplica return in any case.  What a     *)
(* full socket cannot take is lost.                                        *)
MasterTimesOut(n) ==
    /\ MayTurn(n) /\ ~allReceived[n]
    /\ master' = [master EXCEPT ![n] = Turned(n)]
    /\ inbox' = [m \in Nodes |-> IF Len(inbox[m]) < scenario.backlog THEN Broadcast(n, News(n))[m]
                                                           ELSE inbox[m]]
    /\ allReceived' = [allReceived EXCEPT ![n] = TRUE]
    /\ UNCHANGED <<scenario, on, info, data, replicas, users, numPeers, receiver, lock, call,
                   trouble>>

(* After the pause, without the lock. *)
MasterResumes(n) ==
    /\ n \in on /\ master[n].thread \in {"again", "done"}
    /\ IF master[n].thread = "again"
       THEN /\ master' = [master EXCEPT ![n].thread = "loop", ![n].updated = 1]
            /\ UNCHANGED allReceived
       ELSE /\ master' = [master EXCEPT ![n].thread = "loop"]
            /\ allReceived' = [allReceived EXCEPT ![n] = TRUE]
    /\ UNCHANGED <<scenario, on, info, data, replicas, users, inbox, numPeers, receiver, lock,
                   call, trouble>>

MasterStops(n) ==
    /\ n \in on /\ master[n].thread = "loop" /\ master[n].stop
    /\ master' = [master EXCEPT ![n].thread = "ended"]
    /\ UNCHANGED <<scenario, on, info, data, replicas, users, inbox, numPeers, allReceived,
                   receiver, lock, call, trouble>>

(* The replica thread takes a datagram, and drops it when it has no        *)
(* replica of the sender.                                                  *)
ReplicaTurn(n) ==
    /\ n \in on /\ receiver[n] = "running" /\ ~lock[n] /\ inbox[n] # <<>>
    /\ LET p == Head(inbox[n])
       IN  replicas' = IF p.from \in DOMAIN replicas[n]
                       THEN [replicas EXCEPT ![n][p.from].version = p.version,
                                             ![n][p.from].updated = TRUE]
                       ELSE replicas
    /\ inbox' = [inbox EXCEPT ![n] = Tail(@)]
    /\ UNCHANGED <<scenario, on, info, data, master, users, numPeers, allReceived, receiver,
                   lock, call, trouble>>

(* The replica thread ends when the call that waits for it has told it to. *)
ReplicaStops(n) ==
    /\ n \in on /\ receiver[n] = "running" /\ call[n].at = "joinReceiver"
    /\ receiver' = [receiver EXCEPT ![n] = "ended"]
    /\ UNCHANGED <<scenario, on, info, data, master, replicas, users, inbox, numPeers,
                   allReceived, lock, call, trouble>>

-----------------------------------------------------------------------------
(* What goes wrong around them.                                            *)

Lose(n) ==
    /\ inbox[n] # <<>> /\ Trouble
    /\ \E i \in DOMAIN inbox[n] : inbox' = [inbox EXCEPT ![n] = RemoveAt(@, i)]
    /\ UNCHANGED <<scenario, on, info, data, master, replicas, users, numPeers, allReceived,
                   receiver, lock, call>>

PowerOff(n) ==
    /\ n \in on /\ Trouble
    /\ on' = on \ {n}
    /\ master' = [master EXCEPT ![n] = NoMaster]
    /\ replicas' = [replicas EXCEPT ![n] = <<>>]
    /\ users' = [users EXCEPT ![n] = 0]
    /\ inbox' = [inbox EXCEPT ![n] = <<>>]
    /\ receiver' = [receiver EXCEPT ![n] = "none"]
    /\ lock' = [lock EXCEPT ![n] = FALSE]
    /\ call' = [call EXCEPT ![n] = Idle]
    /\ UNCHANGED <<scenario, info, data, numPeers, allReceived>>

(* adhocctl tells n that m has left the group. *)
PeerLeft(n, m) ==
    /\ n \in on /\ m \in info[n] \ on
    /\ info' = [info EXCEPT ![n] = @ \ {m}]
    /\ UNCHANGED <<scenario, on, data, master, replicas, users, inbox, numPeers, allReceived,
                   receiver, lock, call, trouble>>

-----------------------------------------------------------------------------
GameStep(n) ==
    \/ CreateMaster(n) \/ FirstData(n) \/ AllData(n) \/ MasterJoined(n) \/ ReceiverJoined(n)
    \/ Uses("Update") /\ UpdateMaster(n)
    \/ Uses("Delete") /\ DeleteMaster(n)
    \/ Uses("PowerOff") /\ PowerOff(n)
    \/ \E m \in Nodes :
          \/ CreateReplica(n, m) \/ PeerLeft(n, m)
          \/ Uses("Update") /\ UpdateReplica(n, m)
          \/ Uses("Delete") /\ DeleteReplica(n, m)

ThreadStep(n) ==
    \/ Uses("Late") /\ MasterTimesOut(n)
    \/ MasterTurn(n) \/ MasterResumes(n) \/ MasterStops(n)
    \/ ReplicaTurn(n) \/ ReplicaStops(n)

Next == \E n \in Nodes : GameStep(n) \/ ThreadStep(n) \/ Lose(n)

Spec == Init /\ [][Next]_vars

(* The threads keep running, and a thread in a call does.  The ten seconds *)
(* pass.                                                                   *)
FairSpec ==
    /\ Spec
    /\ \A n \in Nodes :
          /\ SF_vars(Uses("Late") /\ MasterTimesOut(n)) /\ WF_vars(MasterTurn(n))
          /\ WF_vars(MasterResumes(n)) /\ WF_vars(MasterStops(n))
          /\ WF_vars(ReplicaTurn(n)) /\ WF_vars(ReplicaStops(n))
          /\ WF_vars(FirstData(n) \/ AllData(n) \/ MasterJoined(n) \/ ReceiverJoined(n))

-----------------------------------------------------------------------------
MasterRecord == [created : BOOLEAN, version : 0..MaxVersion, updated : 0..2,
                 lastInfo : SUBSET Nodes, stop : BOOLEAN,
                 thread : {"none", "loop", "again", "done", "ended"}]
ReplicaRecord == [version : 0..MaxVersion, updated : BOOLEAN, seen : 0..MaxVersion]

TypeOK ==
    /\ scenario \in Scenarios /\ on \subseteq Players /\ info \in [Nodes -> SUBSET Nodes]
    /\ data \in [Nodes -> 1..MaxVersion] /\ master \in [Nodes -> MasterRecord]
    /\ \A n \in Nodes : /\ DOMAIN replicas[n] \subseteq Nodes
                        /\ \A m \in DOMAIN replicas[n] : replicas[n][m] \in ReplicaRecord
    /\ users \in [Nodes -> Nat] /\ numPeers \in [Nodes -> Int]
    /\ inbox \in [Nodes -> Seq([from : Nodes, version : 1..MaxVersion])]
    /\ allReceived \in [Nodes -> BOOLEAN] /\ lock \in [Nodes -> BOOLEAN]
    /\ receiver \in [Nodes -> {"none", "running", "ended"}]
    /\ call \in [Nodes -> [at : {"idle", "first", "all", "joinMaster", "joinReceiver"},
                           peer : Nodes \cup {"nobody"}]]
    /\ trouble \in 0..scenario.trouble

(* The socket is open exactly while the master or a replica needs it, and  *)
(* no thread outlives it: neither thread ever uses a closed socket.        *)
SocketWhileUsed ==
    \A n \in Nodes :
        /\ users[n] = Cardinality(DOMAIN replicas[n]) + (IF master[n].created THEN 1 ELSE 0)
        /\ master[n].thread \notin {"none", "ended"} => SocketOpen(n)
        /\ receiver[n] = "running" /\ ~lock[n] => SocketOpen(n)

OnTime == ~Uses("Late") /\ ~Uses("Delete")

(* When CreateReplica lets the game begin, all peers' blocks have arrived, *)
(* unless it was the ten seconds that let it begin.                        *)
SyncedStart ==
    OnTime => \A n \in on : master[n].created /\ allReceived[n] =>
        Cardinality({m \in DOMAIN replicas[n] : replicas[n][m].version > 0}) >= numPeers[n]

(* Nothing of n's block is left to be sent or to be received at m.         *)
Quiet(n, m) ==
    /\ master[n].created /\ master[n].thread = "loop" /\ allReceived[n] /\ ~Changed(n)
    /\ n \in DOMAIN replicas[m]
    /\ \A i \in DOMAIN inbox[m] : inbox[m][i].from # n

(* The last state of a block gets to every replica: when nothing is left   *)
(* to be sent or received, the other side has what the game last wrote,    *)
(* and its game has taken it or finds the mark that it is there.           *)
LatestArrives ==
    OnTime => \A n, m \in on : Quiet(n, m) =>
        /\ replicas[m][n].version = master[n].version
        /\ replicas[m][n].updated \/ replicas[m][n].seen = master[n].version

(* The same between two players, which survives the loss of a datagram.    *)
LatestArrivesInPairs == Cardinality(Players) = 2 => LatestArrives

(* Every call returns: CreateReplica from its waits for data, the deletes  *)
(* from their waits for a thread.                                          *)
CallsReturn == \A n \in Nodes : call[n] # Idle ~> call[n] = Idle
=============================================================================
