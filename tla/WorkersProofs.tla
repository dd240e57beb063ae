---------------------------- MODULE WorkersProofs ----------------------------
(***************************************************************************)
(* For any number of threads and workers: the pool keeps its workers, and  *)
(* every caller gets the result of his own call.                           *)
(*                                                                         *)
(* A worker passes from hand to hand without a lock: the caller who has    *)
(* marked it busy fills it in, its thread works on it, the caller reads    *)
(* the result.  The inductive invariant says at every place of a caller    *)
(* what state his worker is in; that of a worker that nobody holds; and    *)
(* how far the workers have ended while the pool is being stopped.         *)
(***************************************************************************)
EXTENDS Workers, TLAPS

USE DEF WorkerIds

(* A worker that has nothing to do. *)
Resting(w) == worker[w] = "waiting" /\ work[w] = 0 /\ done[w] = 0

(* The call is on the worker's side: asked for, in work, done, answered.   *)
Serving(t, w) ==
    /\ job[w].by = t
    /\ \/ worker[w] = "waiting" /\ work[w] = 1 /\ done[w] = 0
       \/ worker[w] = "working" /\ work[w] = 0 /\ done[w] = 0
       \/ worker[w] = "signal" /\ work[w] = 0 /\ done[w] = 0 /\ ret[w] = t
       \/ worker[w] = "waiting" /\ work[w] = 0 /\ done[w] = 1 /\ ret[w] = t

(* What the holder t of worker w knows of it. *)
Stage(t, w) ==
    /\ caller[t].at = "fill" => Resting(w)
    /\ caller[t].at = "start" => Resting(w) /\ job[w].by = t
    /\ caller[t].at = "wait" => Serving(t, w)
    /\ caller[t].at = "collect" => Resting(w) /\ ret[w] = t
    /\ caller[t].at = "release" => Resting(w) /\ caller[t].result = t

Busy(t) == caller[t].at \notin {"idle", "look"}

HoldersInv == \A t \in Threads : Busy(t) =>
                  caller[t].worker \in WorkerIds /\ Stage(t, caller[t].worker)

FreeInv == stopping = 0 => \A w \in WorkerIds : ~busy[w] => Resting(w)

(* The pool is stopped worker by worker. *)
StopInv ==
    /\ stopping <= created + 1
    /\ stopping > 0 =>
          /\ ~ready
          /\ \A t \in Threads : caller[t].at = "idle"
          /\ \A w \in WorkerIds :
                /\ done[w] = 0
                /\ worker[w] \in {"waiting", "ended"}
                /\ w > stopping => worker[w] = "waiting"
                /\ work[w] = IF w = stopping /\ w <= created /\ worker[w] = "waiting"
                             THEN 1 ELSE 0

IInv == PoolTypeOK /\ PoolKept /\ HoldersInv /\ FreeInv /\ StopInv

-----------------------------------------------------------------------------
(* At first no worker exists and nobody calls.                             *)
LEMMA InitIsSafe == Init => IInv
<1> SUFFICES ASSUME Init PROVE IInv
  OBVIOUS
<1>1. PoolTypeOK
  <2>1. caller \in [Threads -> CallerRecord]
    BY WorkersAssumption DEF Init, CallerRecord, IdleCaller, CallerAt, Kinds
  <2>2. job \in [WorkerIds -> [kind : Kinds, by : Threads \cup {None}]]
    BY DEF Init, NoJob, Kinds
  <2>3. /\ created \in 0..NumWorkers /\ stopping \in 0..(NumWorkers + 1)
        /\ work \in [WorkerIds -> 0..1] /\ done \in [WorkerIds -> 0..1]
    BY WorkersAssumption DEF Init
  <2>4. /\ ready \in BOOLEAN /\ busy \in [WorkerIds -> BOOLEAN] /\ sent \in BOOLEAN
        /\ ret \in [WorkerIds -> Threads \cup {None}]
        /\ worker \in [WorkerIds -> {"waiting", "working", "signal", "ended"}]
        /\ halted \subseteq InputThreads
    BY DEF Init
  <2> QED
    BY <2>1, <2>2, <2>3, <2>4 DEF PoolTypeOK
<1>2. PoolKept /\ HoldersInv
  BY DEF Init, PoolKept, Holds, HoldersInv, Busy, IdleCaller, CallerAt
<1>3. FreeInv /\ StopInv
  BY DEF Init, FreeInv, Resting, StopInv
<1> QED
  BY <1>1, <1>2, <1>3 DEF IInv

(* A caller who moves on is still a caller. *)
LEMMA MoveIsTyped ==
    ASSUME caller \in [Threads -> CallerRecord], NEW t \in Threads,
           NEW place \in {"idle", "look", "fill", "start", "wait", "collect", "release"},
           NEW w \in 0..NumWorkers, NEW result \in Threads \cup {None}
    PROVE  /\ [caller EXCEPT ![t].at = place] \in [Threads -> CallerRecord]
           /\ [caller EXCEPT ![t].at = place, ![t].worker = w] \in [Threads -> CallerRecord]
           /\ [caller EXCEPT ![t].at = place, ![t].result = result]
                  \in [Threads -> CallerRecord]
BY DEF CallerRecord

(* A call begins, and touches no worker.                                   *)
LEMMA CallIsSafe ==
    ASSUME IInv, NEW t \in Threads, NEW kind \in Kinds, Call(t, kind)
    PROVE  IInv'
<1> USE DEF IInv, Call, IdleCaller, CallerAt, poolVars, taskVars
<1>1. PoolTypeOK'
  <2>1. caller' \in [Threads -> CallerRecord]
    BY WorkersAssumption DEF PoolTypeOK, CallerRecord, Kinds
  <2> QED
    BY <2>1 DEF PoolTypeOK
<1>2. PoolKept'
  BY DEF PoolKept, Holds
<1>3. HoldersInv'
  BY DEF PoolKept, Holds, HoldersInv, Busy, Stage, Serving, Resting
<1>4. FreeInv'
  BY DEF HoldersInv, Busy, Stage, Resting, FreeInv
<1>5. StopInv'
  BY DEF Resting, FreeInv, StopInv
<1> QED
  BY <1>1, <1>2, <1>3, <1>4, <1>5

(* A caller takes a worker that nobody holds, and which rests.             *)
LEMMA LookIsSafe ==
    ASSUME IInv, NEW t \in Threads, Look(t)
    PROVE  IInv'
<1> USE DEF IInv, Look, Taken, poolVars, taskVars
<1>1. PoolTypeOK'
  <2>1. busy' \in [WorkerIds -> BOOLEAN]
    BY DEF PoolTypeOK
  <2>2. PICK w \in 1..created : caller' = [caller EXCEPT ![t].at = "fill", ![t].worker = w]
    OBVIOUS
  <2>3. w \in 0..NumWorkers
    BY WorkersAssumption DEF PoolTypeOK
  <2>4. caller' \in [Threads -> CallerRecord]
    BY <2>2, <2>3, MoveIsTyped DEF PoolTypeOK
  <2> QED
    BY <2>1, <2>4 DEF PoolTypeOK
<1>2. PoolKept'
  BY DEF PoolTypeOK, PoolKept, Holds
<1>3. HoldersInv'
  BY DEF PoolTypeOK, CallerRecord, PoolKept, Holds, HoldersInv, Busy, Stage, Serving, Resting,
         FreeInv, StopInv
<1>4. FreeInv'
  BY DEF PoolTypeOK, CallerRecord, HoldersInv, Busy, Stage, Resting, FreeInv, StopInv
<1>5. StopInv'
  BY DEF Resting, FreeInv, StopInv
<1> QED
  BY <1>1, <1>2, <1>3, <1>4, <1>5

(* The holder fills in the work.                                           *)
LEMMA FillIsSafe ==
    ASSUME IInv, NEW t \in Threads, Fill(t)
    PROVE  IInv'
<1> USE DEF IInv, Fill, Goes, poolVars, taskVars
<1>1. PoolTypeOK'
  <2>1. job' \in [WorkerIds -> [kind : Kinds, by : Threads \cup {None}]]
    BY DEF PoolTypeOK, CallerRecord, HoldersInv, Busy
  <2>2. caller' \in [Threads -> CallerRecord]
    BY MoveIsTyped DEF PoolTypeOK
  <2> QED
    BY <2>1, <2>2 DEF PoolTypeOK
<1>2. PoolKept'
  BY DEF PoolKept, Holds
<1>3. HoldersInv'
  BY DEF PoolTypeOK, PoolKept, Holds, HoldersInv, Busy, Stage, Serving, Resting
<1>4. FreeInv'
  BY DEF PoolTypeOK, PoolKept, Holds, HoldersInv, Busy, Stage, Resting, FreeInv
<1>5. StopInv'
  BY DEF Resting, FreeInv, StopInv
<1> QED
  BY <1>1, <1>2, <1>3, <1>4, <1>5

(* The holder signals the worker, whose semaphore is empty.                *)
LEMMA StartIsSafe ==
    ASSUME IInv, NEW t \in Threads, Start(t)
    PROVE  IInv'
<1> USE DEF IInv, Start, Goes, poolVars, taskVars
<1>1. PoolTypeOK'
  <2>1. work' \in [WorkerIds -> 0..1]
    BY DEF PoolTypeOK, HoldersInv, Busy, Stage, Resting
  <2>2. caller' \in [Threads -> CallerRecord]
    BY MoveIsTyped DEF PoolTypeOK
  <2> QED
    BY <2>1, <2>2 DEF PoolTypeOK
<1>2. PoolKept'
  BY DEF PoolKept, Holds
<1>3. HoldersInv'
  BY DEF PoolTypeOK, PoolKept, Holds, HoldersInv, Busy, Stage, Serving, Resting
<1>4. FreeInv'
  BY DEF PoolTypeOK, PoolKept, Holds, HoldersInv, Busy, Stage, Resting, FreeInv
<1>5. StopInv'
  BY DEF PoolKept, Holds, Resting, FreeInv, StopInv
<1> QED
  BY <1>1, <1>2, <1>3, <1>4, <1>5

(* The holder sees the answer.                                             *)
LEMMA AnswerIsSafe ==
    ASSUME IInv, NEW t \in Threads, Answer(t)
    PROVE  IInv'
<1> USE DEF IInv, Answer, Answered, Goes, poolVars, taskVars
<1>1. PoolTypeOK'
  <2>1. done' \in [WorkerIds -> 0..1]
    BY DEF PoolTypeOK, HoldersInv, Busy
  <2>2. caller' \in [Threads -> CallerRecord]
    BY MoveIsTyped DEF PoolTypeOK
  <2> QED
    BY <2>1, <2>2 DEF PoolTypeOK
<1>2. PoolKept'
  BY DEF PoolKept, Holds
<1>3. HoldersInv'
  BY DEF PoolTypeOK, PoolKept, Holds, HoldersInv, Busy, Stage, Serving, Resting
<1>4. FreeInv'
  BY DEF PoolTypeOK, HoldersInv, Busy, Stage, Resting, FreeInv
<1>5. StopInv'
  BY DEF Resting, FreeInv, StopInv
<1> QED
  BY <1>1, <1>2, <1>3, <1>4, <1>5

(* The holder reads the result.                                            *)
LEMMA CollectIsSafe ==
    ASSUME IInv, NEW t \in Threads, Collect(t)
    PROVE  IInv'
<1> USE DEF IInv, Collect, poolVars, taskVars
<1>1. PoolTypeOK'
  <2>1. caller[t].worker \in WorkerIds
    BY DEF HoldersInv, Busy
  <2>2. ret[caller[t].worker] \in Threads \cup {None}
    BY <2>1 DEF PoolTypeOK
  <2>3. caller' \in [Threads -> CallerRecord]
    BY <2>2, MoveIsTyped DEF PoolTypeOK
  <2> QED
    BY <2>1, <2>2, <2>3 DEF PoolTypeOK
<1>2. PoolKept'
  BY DEF PoolTypeOK, PoolKept, Holds
<1>3. HoldersInv'
  BY DEF PoolTypeOK, PoolKept, Holds, HoldersInv, Busy, Stage, Serving, Resting
<1>4. FreeInv'
  BY DEF PoolTypeOK, HoldersInv, Busy, Stage, Resting, FreeInv
<1>5. StopInv'
  BY DEF Resting, FreeInv, StopInv
<1> QED
  BY <1>1, <1>2, <1>3, <1>4, <1>5

(* The holder gives the worker back, which rests.                          *)
LEMMA ReleaseIsSafe ==
    ASSUME IInv, NEW t \in Threads, Release(t)
    PROVE  IInv'
<1> USE DEF IInv, Release, Released, Goes, poolVars, taskVars
<1>1. PoolTypeOK'
  <2>1. busy' \in [WorkerIds -> BOOLEAN]
    BY DEF PoolTypeOK
  <2>2. caller' \in [Threads -> CallerRecord]
    BY MoveIsTyped DEF PoolTypeOK
  <2> QED
    BY <2>1, <2>2 DEF PoolTypeOK
<1>2. PoolKept'
  BY DEF PoolTypeOK, PoolKept, Holds
<1>3. HoldersInv'
  BY DEF PoolTypeOK, PoolKept, Holds, HoldersInv, Busy, Stage, Serving, Resting
<1>4. FreeInv'
  BY DEF HoldersInv, Busy, Stage, Resting, FreeInv
<1>5. StopInv'
  BY DEF HoldersInv, Busy, Stage, Resting, FreeInv, StopInv
<1> QED
  BY <1>1, <1>2, <1>3, <1>4, <1>5

(* The thread of a worker takes its signal: to work for the holder, who    *)
(* waits, or to end.                                                       *)
LEMMA WakeIsSafe ==
    ASSUME IInv, NEW v \in WorkerIds, Wake(v)
    PROVE  IInv'
<1> USE DEF IInv, Wake, poolVars, taskVars
<1>1. PoolTypeOK'
  <2>1. work' \in [WorkerIds -> 0..1]
    BY DEF PoolTypeOK
  <2>2. worker' \in [WorkerIds -> {"waiting", "working", "signal", "ended"}]
    BY DEF PoolTypeOK
  <2> QED
    BY <2>1, <2>2 DEF PoolTypeOK
<1>2. PoolKept'
  BY DEF PoolKept, Holds
<1>3. HoldersInv'
  BY DEF PoolTypeOK, PoolKept, Holds, HoldersInv, Busy, Stage, Serving, Resting, StopInv
<1>4. FreeInv'
  BY DEF PoolTypeOK, HoldersInv, Busy, Stage, Resting, FreeInv, StopInv
<1>5. StopInv'
  BY DEF PoolTypeOK, Resting, FreeInv, StopInv
<1> QED
  BY <1>1, <1>2, <1>3, <1>4, <1>5

(* The thread of a worker does the work.                                   *)
LEMMA PerformIsSafe ==
    ASSUME IInv, NEW v \in WorkerIds, Perform(v)
    PROVE  IInv'
<1> USE DEF IInv, Perform, poolVars, taskVars
<1>1. PoolTypeOK'
  <2>1. ret' \in [WorkerIds -> Threads \cup {None}]
    BY DEF PoolTypeOK
  <2>2. worker' \in [WorkerIds -> {"waiting", "working", "signal", "ended"}]
    BY DEF PoolTypeOK
  <2>3. sent' \in BOOLEAN
    BY DEF PoolTypeOK, Kinds
  <2> QED
    BY <2>1, <2>2, <2>3 DEF PoolTypeOK
<1>2. PoolKept'
  BY DEF PoolKept, Holds
<1>3. HoldersInv'
  BY DEF PoolTypeOK, PoolKept, Holds, HoldersInv, Busy, Stage, Serving, Resting
<1>4. FreeInv'
  BY DEF PoolTypeOK, HoldersInv, Busy, Stage, Resting, FreeInv
<1>5. StopInv'
  BY DEF Resting, FreeInv, StopInv
<1> QED
  BY <1>1, <1>2, <1>3, <1>4, <1>5

(* The thread of a worker signals the holder, whose semaphore is empty.    *)
LEMMA SignalIsSafe ==
    ASSUME IInv, NEW v \in WorkerIds, Signal(v)
    PROVE  IInv'
<1> USE DEF IInv, Signal, Signalled, poolVars, taskVars
<1>1. PoolTypeOK'
  <2>1. busy[v]
    BY DEF PoolTypeOK, FreeInv, StopInv, Resting
  <2>2. PICK t \in Threads : Busy(t) /\ caller[t].worker = v
    BY <2>1 DEF PoolKept, Holds, Busy
  <2>3. done[v] = 0
    BY <2>2 DEF PoolTypeOK, CallerRecord, HoldersInv, Busy, Stage, Serving, Resting
  <2>4. done' \in [WorkerIds -> 0..1]
    BY <2>3 DEF PoolTypeOK
  <2>5. worker' \in [WorkerIds -> {"waiting", "working", "signal", "ended"}]
    BY DEF PoolTypeOK
  <2> QED
    BY <2>4, <2>5 DEF PoolTypeOK
<1>2. PoolKept'
  BY DEF PoolKept, Holds
<1>3. HoldersInv'
  BY DEF PoolTypeOK, PoolKept, Holds, HoldersInv, Busy, Stage, Serving, Resting
<1>4. FreeInv'
  BY DEF PoolTypeOK, HoldersInv, Busy, Stage, Resting, FreeInv
<1>5. StopInv'
  BY DEF Resting, FreeInv, StopInv
<1> QED
  BY <1>1, <1>2, <1>3, <1>4, <1>5

(* The workers are created, all of them resting.                           *)
LEMMA InitWorkersIsSafe ==
    ASSUME IInv, InitWorkers
    PROVE  IInv'
<1> USE DEF IInv, InitWorkers, poolVars, taskVars
<1>1. PoolTypeOK'
  <2>1. created' \in 0..NumWorkers
    BY WorkersAssumption
  <2> QED
    BY <2>1 DEF PoolTypeOK
<1>2. PoolKept'
  BY DEF PoolKept, Holds
<1>3. HoldersInv'
  BY DEF PoolKept, Holds, HoldersInv, Busy, Stage, Serving, Resting
<1>4. FreeInv'
  BY DEF HoldersInv, Busy, Stage, Resting, FreeInv
<1>5. StopInv'
  <2>1. PICK c \in Nat : created' = c
    BY <1>1, WorkersAssumption DEF PoolTypeOK
  <2>2. 0 <= c + 1 /\ ~(0 > 0)
    BY <2>1
  <2>3. stopping' = 0
    OBVIOUS
  <2> QED
    BY <2>1, <2>2, <2>3, Zenon DEF StopInv
<1> QED
  BY <1>1, <1>2, <1>3, <1>4, <1>5

(* All workers rest, as nobody holds one.                                  *)
LEMMA StopWorkersIsSafe ==
    ASSUME IInv, StopWorkers
    PROVE  IInv'
<1> USE DEF IInv, StopWorkers, poolVars, taskVars
<1>1. PoolTypeOK'
  <2>1. stopping' \in 0..(NumWorkers + 1)
    BY WorkersAssumption
  <2>2. work' \in [WorkerIds -> 0..1]
    BY DEF PoolKept, Holds, Resting, FreeInv
  <2> QED
    BY <2>1, <2>2 DEF PoolTypeOK
<1>2. PoolKept'
  BY DEF PoolKept, Holds
<1>3. HoldersInv'
  BY DEF PoolKept, Holds, HoldersInv, Busy
<1>4. FreeInv'
  BY DEF HoldersInv, Busy, FreeInv
<1>5. StopInv'
  BY DEF PoolTypeOK, PoolKept, Holds, Resting, FreeInv, StopInv
<1> QED
  BY <1>1, <1>2, <1>3, <1>4, <1>5

(* The worker that has ended took its signal; the next one rests.          *)
LEMMA StopNextIsSafe ==
    ASSUME IInv, StopNext
    PROVE  IInv'
<1> USE DEF IInv, StopNext, poolVars, taskVars
<1>1. PoolTypeOK'
  <2>1. stopping' \in 0..(NumWorkers + 1)
    BY WorkersAssumption DEF PoolTypeOK
  <2>2. work' \in [WorkerIds -> 0..1]
    BY DEF PoolTypeOK, StopInv
  <2> QED
    BY <2>1, <2>2 DEF PoolTypeOK
<1>2. PoolKept'
  BY DEF PoolKept, Holds
<1>3. HoldersInv'
  BY DEF PoolKept, Holds, HoldersInv, Busy, StopInv
<1>4. FreeInv'
  BY DEF HoldersInv, Busy, FreeInv, StopInv
<1>5. StopInv'
  BY DEF PoolTypeOK, FreeInv, StopInv
<1> QED
  BY <1>1, <1>2, <1>3, <1>4, <1>5

(* Whether an input thread of the matching library runs is nothing to the  *)
(* pool.                                                                   *)
LEMMA HaltIsSafe ==
    ASSUME IInv, NEW t \in Threads, InputHalts(t) \/ InputStarts(t)
    PROVE  IInv'
<1>1. UNCHANGED <<created, ready, stopping, busy, job, ret, work, done, worker, caller, sent>>
  BY DEF InputHalts, InputStarts, poolVars, taskVars
<1>2. halted' \subseteq InputThreads
  BY DEF IInv, PoolTypeOK, InputHalts, InputStarts
<1> QED
  BY <1>1, <1>2 DEF IInv, PoolTypeOK, PoolKept, Holds, HoldersInv, Busy, Stage, Serving, Resting,
                    FreeInv, StopInv

(* A step that changes nothing.                                            *)
LEMMA StutterIsSafe ==
    ASSUME IInv, UNCHANGED vars
    PROVE  IInv'
BY DEF vars, IInv, PoolTypeOK, PoolKept, Holds, HoldersInv, Busy, Stage, Serving, Resting, FreeInv,
       StopInv

(* Every step keeps the invariant.                                         *)
LEMMA NextIsSafe == IInv /\ [Next]_vars => IInv'
<1> SUFFICES ASSUME IInv, [Next]_vars PROVE IInv'
  OBVIOUS
<1>1. CASE InitWorkers \/ StopWorkers \/ StopNext
  BY <1>1, InitWorkersIsSafe, StopWorkersIsSafe, StopNextIsSafe
<1>2. ASSUME NEW t \in Threads, NEW kind \in Kinds, Call(t, kind) PROVE IInv'
  BY <1>2, CallIsSafe
<1>3. ASSUME NEW t \in Threads, Look(t) \/ CallGoesOn(t) PROVE IInv'
  BY <1>3, LookIsSafe, FillIsSafe, StartIsSafe, AnswerIsSafe, CollectIsSafe, ReleaseIsSafe
     DEF CallGoesOn
<1>4. ASSUME NEW t \in Threads, InputHalts(t) \/ InputStarts(t) PROVE IInv'
  BY <1>4, HaltIsSafe
<1>5. ASSUME NEW w \in WorkerIds, WorkerStep(w) PROVE IInv'
  BY <1>5, WakeIsSafe, PerformIsSafe, SignalIsSafe DEF WorkerStep
<1>6. CASE UNCHANGED vars
  BY <1>6, StutterIsSafe
<1> QED
  BY <1>1, <1>2, <1>3, <1>4, <1>5, <1>6 DEF Next

-----------------------------------------------------------------------------
(* IInv is an inductive invariant of the worker pool.                      *)
THEOREM PoolInvariant == Spec => []IInv
<1>1. Init => IInv
  BY InitIsSafe
<1>2. IInv /\ [Next]_vars => IInv'
  BY NextIsSafe
<1> QED
  BY <1>1, <1>2, PTL DEF Spec

(* Type correctness; in particular every semaphore has room for each       *)
(* signal that it is sent (work_sema and done_sema have a maximum of one). *)
THEOREM PoolTypes == Spec => []PoolTypeOK
<1>1. IInv => PoolTypeOK
  BY DEF IInv
<1> QED
  BY <1>1, PoolInvariant, PTL

(* A busy worker has exactly one holder, and a worker that is held is busy *)
(* (the flag busy of workers.c, under workers_mutex).                      *)
THEOREM NoWorkerLost == Spec => []PoolKept
<1>1. IInv => PoolKept
  BY DEF IInv
<1> QED
  BY <1>1, PoolInvariant, PTL

(* Every call of the library returns the result of its own work, however   *)
(* the calls of the threads interleave (work_using_worker).                *)
THEOREM EveryoneOwnResult == Spec => []OwnResult
<1>1. IInv => OwnResult
  BY DEF IInv, HoldersInv, Busy, Stage, OwnResult
<1> QED
  BY <1>1, PoolInvariant, PTL
=============================================================================
