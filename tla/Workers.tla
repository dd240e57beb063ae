------------------------------- MODULE Workers -------------------------------
(***************************************************************************)
(* The worker pool of pspnet_adhoc (library/workers.c).  A call of a game  *)
(* into the library is performed on the larger stack of a worker thread:   *)
(* the caller takes a worker that is not busy, fills in the work, signals  *)
(* the worker and waits for the answer.  A worker has two semaphores,      *)
(* work_sema and done_sema, which hold one signal; the flag busy is        *)
(* protected by workers_mutex.                                             *)
(*                                                                         *)
(* What a call does is abstracted to whether it waits: a "short" one does  *)
(* not; a "receive" waits until somebody does a "send" (or a delete, which *)
(* aborts it); a "term" waits until the input threads of the matching      *)
(* library have stopped, which are callers themselves.                     *)
(***************************************************************************)
EXTENDS Integers

CONSTANTS Threads,     \* threads that call the library
          InputThreads, \* those of the matching library
          NumWorkers,  \* size of the array workers
          PoolSizes,   \* bound: how many workers init_workers may bring up
          Scenarios,   \* what each thread may call
          None

ASSUME WorkersAssumption ==
    /\ NumWorkers \in Nat /\ PoolSizes \subseteq 0..NumWorkers
    /\ None \notin Threads /\ InputThreads \subseteq Threads

VARIABLES
    does,     \* the scenario
    created,  \* workers_created
    ready,    \* ready
    stopping, \* workers_should_stop, and which worker stop_workers is at
    busy,     \* workers[w].busy
    job,      \* workers[w].type, args: what to do and for whom
    ret,      \* workers[w].ret: whose work the result is of
    work,     \* signals in work_sema
    done,     \* signals in done_sema
    worker,   \* what the thread of worker w is doing
    caller,   \* what thread t is doing
    sent,     \* something has been sent and not received
    halted    \* the input threads that have stopped

poolVars == <<created, ready, stopping>>
taskVars == <<busy, job, ret, work, done, worker>>
vars == <<does, created, ready, stopping, busy, job, ret, work, done, worker, caller, sent, halted>>

WorkerIds == 1..NumWorkers
Kinds == {"short", "receive", "send", "term"}
NoJob == [kind |-> "short", by |-> None]
CallerAt(place, kind) == [at |-> place, kind |-> kind, worker |-> 0, result |-> None]
IdleCaller == CallerAt("idle", "short")

Init ==
    /\ does \in Scenarios
    /\ created = 0 /\ ready = FALSE /\ stopping = 0
    /\ busy = [w \in WorkerIds |-> FALSE]
    /\ job = [w \in WorkerIds |-> NoJob]
    /\ ret = [w \in WorkerIds |-> None]
    /\ work = [w \in WorkerIds |-> 0]
    /\ done = [w \in WorkerIds |-> 0]
    /\ worker = [w \in WorkerIds |-> "waiting"]
    /\ caller = [t \in Threads |-> IdleCaller]
    /\ sent = FALSE
    /\ halted = {}

(* Threads cannot be created for lack of memory: the pool is smaller.      *)
InitWorkers ==
    /\ ~ready /\ stopping = 0
    /\ created' \in PoolSizes
    /\ ready' = TRUE
    /\ UNCHANGED <<does, stopping, taskVars, caller, sent, halted>>

Goes(t, place) == caller' = [caller EXCEPT ![t].at = place]

-----------------------------------------------------------------------------
(* The calls.  An input thread looks before each whether it has been told  *)
(* to stop; a module that is being stopped is not called.                  *)

Terminating == \E w \in WorkerIds : worker[w] = "working" /\ job[w].kind = "term"

Call(t, kind) ==
    /\ caller[t].at = "idle" /\ stopping = 0
    /\ kind \in does[t]
    /\ t \in InputThreads => t \notin halted /\ ~Terminating
    /\ caller' = [caller EXCEPT ![t] = CallerAt("look", kind)]
    /\ UNCHANGED <<does, poolVars, taskVars, sent, halted>>

(* Mutant of Taken: the worker is not marked as busy.                      *)
TakenNot(w) == busy

Taken(w) == [busy EXCEPT ![w] = TRUE]

(* The first worker that is not busy; if there is none, the caller looks   *)
(* again after a millisecond.                                              *)
Look(t) ==
    /\ caller[t].at = "look" /\ ready
    /\ \E w \in 1..created :
          /\ ~busy[w] /\ \A v \in 1..(w - 1) : busy[v]
          /\ busy' = Taken(w)
          /\ caller' = [caller EXCEPT ![t].at = "fill", ![t].worker = w]
    /\ UNCHANGED <<does, poolVars, job, ret, work, done, worker, sent, halted>>

Fill(t) ==
    /\ caller[t].at = "fill"
    /\ job' = [job EXCEPT ![caller[t].worker] = [kind |-> caller[t].kind, by |-> t]]
    /\ Goes(t, "start")
    /\ UNCHANGED <<does, poolVars, busy, ret, work, done, worker, sent, halted>>

Start(t) ==
    /\ caller[t].at = "start"
    /\ work' = [work EXCEPT ![caller[t].worker] = @ + 1]
    /\ Goes(t, "wait")
    /\ UNCHANGED <<does, poolVars, busy, job, ret, done, worker, sent, halted>>

(* Mutant of Answered: the worker is released before the result is read.   *)
AnsweredAndReleased(w) == [busy EXCEPT ![w] = FALSE]

Answered(w) == busy

Answer(t) ==
    LET w == caller[t].worker
    IN  /\ caller[t].at = "wait" /\ done[w] > 0
        /\ done' = [done EXCEPT ![w] = @ - 1]
        /\ busy' = Answered(w)
        /\ Goes(t, "collect")
        /\ UNCHANGED <<does, poolVars, job, ret, work, worker, sent, halted>>

Collect(t) ==
    /\ caller[t].at = "collect"
    /\ caller' = [caller EXCEPT ![t].at = "release", ![t].result = ret[caller[t].worker]]
    /\ UNCHANGED <<does, poolVars, taskVars, sent, halted>>

(* Mutant of Released: the worker stays busy.                              *)
ReleasedNot(w) == busy

Released(w) == [busy EXCEPT ![w] = FALSE]

Release(t) ==
    /\ caller[t].at = "release"
    /\ busy' = Released(caller[t].worker)
    /\ Goes(t, "idle")
    /\ UNCHANGED <<does, poolVars, job, ret, work, done, worker, sent, halted>>

-----------------------------------------------------------------------------
(* The workers. *)

Wake(w) ==
    /\ w <= created /\ worker[w] = "waiting" /\ work[w] > 0
    /\ work' = [work EXCEPT ![w] = @ - 1]
    /\ worker' = [worker EXCEPT ![w] = IF stopping > 0 THEN "ended" ELSE "working"]
    /\ UNCHANGED <<does, poolVars, busy, job, ret, done, caller, sent, halted>>

Perform(w) ==
    /\ worker[w] = "working"
    /\ CASE job[w].kind = "short"   -> UNCHANGED sent
         [] job[w].kind = "receive" -> sent /\ sent' = FALSE
         [] job[w].kind = "send"    -> sent' = TRUE
         [] job[w].kind = "term"    -> InputThreads \subseteq halted /\ UNCHANGED sent
    /\ ret' = [ret EXCEPT ![w] = job[w].by]
    /\ worker' = [worker EXCEPT ![w] = "signal"]
    /\ UNCHANGED <<does, poolVars, busy, job, work, done, caller, halted>>

(* Mutant of Signalled: nobody is told that the library is terminated.     *)
SignalledNotTerm(w) == IF job[w].kind = "term" THEN done ELSE [done EXCEPT ![w] = @ + 1]

Signalled(w) == [done EXCEPT ![w] = @ + 1]

Signal(w) ==
    /\ worker[w] = "signal"
    /\ done' = Signalled(w)
    /\ worker' = [worker EXCEPT ![w] = "waiting"]
    /\ UNCHANGED <<does, poolVars, busy, job, ret, work, caller, sent, halted>>

-----------------------------------------------------------------------------
(* The module is stopped when nobody calls it.                             *)
StopWorkers ==
    /\ ready /\ stopping = 0
    /\ \A t \in Threads : caller[t].at = "idle"
    /\ ready' = FALSE /\ stopping' = 1
    /\ work' = [w \in WorkerIds |-> IF w = 1 /\ created > 0 THEN work[w] + 1 ELSE work[w]]
    /\ UNCHANGED <<does, created, busy, job, ret, done, worker, caller, sent, halted>>

StopNext ==
    /\ stopping \in 1..created /\ worker[stopping] = "ended"
    /\ stopping' = stopping + 1
    /\ work' = [w \in WorkerIds |->
                    IF w = stopping + 1 /\ w <= created THEN work[w] + 1 ELSE work[w]]
    /\ UNCHANGED <<does, created, ready, busy, job, ret, done, worker, caller, sent, halted>>

(* Matching: the input threads stop when they are told, and are started    *)
(* again by the game.                                                      *)
InputHalts(t) ==
    /\ t \in InputThreads \ halted /\ caller[t].at = "idle" /\ Terminating
    /\ halted' = halted \cup {t}
    /\ UNCHANGED <<does, poolVars, taskVars, caller, sent>>

InputStarts(t) ==
    /\ t \in halted
    /\ \A u \in Threads : caller[u].kind = "term" => caller[u].at = "idle"
    /\ halted' = halted \ {t}
    /\ UNCHANGED <<does, poolVars, taskVars, caller, sent>>

-----------------------------------------------------------------------------
CallGoesOn(t) == Fill(t) \/ Start(t) \/ Answer(t) \/ Collect(t) \/ Release(t)

WorkerStep(w) == Wake(w) \/ Perform(w) \/ Signal(w)

Next ==
    \/ InitWorkers \/ StopWorkers \/ StopNext
    \/ \E t \in Threads : \/ \E kind \in Kinds : Call(t, kind)
                          \/ Look(t) \/ CallGoesOn(t) \/ InputHalts(t) \/ InputStarts(t)
    \/ \E w \in WorkerIds : WorkerStep(w)

Spec == Init /\ [][Next]_vars

(* All threads run; one that looks for a worker again and again finds one  *)
(* if there is one again and again.                                        *)
Fairness ==
    /\ WF_vars(InitWorkers) /\ WF_vars(StopNext)
    /\ \A t \in Threads : WF_vars(CallGoesOn(t)) /\ SF_vars(Look(t)) /\ WF_vars(InputHalts(t))
    /\ \A w \in WorkerIds : WF_vars(WorkerStep(w))

FairSpec == Spec /\ Fairness

-----------------------------------------------------------------------------
CallerRecord == [at : {"idle", "look", "fill", "start", "wait", "collect", "release"},
                 kind : Kinds, worker : 0..NumWorkers, result : Threads \cup {None}]

(* No semaphore ever gets a signal that it has no room for.                *)
PoolTypeOK ==
    /\ created \in 0..NumWorkers /\ ready \in BOOLEAN /\ stopping \in 0..(NumWorkers + 1)
    /\ busy \in [WorkerIds -> BOOLEAN]
    /\ job \in [WorkerIds -> [kind : Kinds, by : Threads \cup {None}]]
    /\ ret \in [WorkerIds -> Threads \cup {None}]
    /\ work \in [WorkerIds -> 0..1] /\ done \in [WorkerIds -> 0..1]
    /\ worker \in [WorkerIds -> {"waiting", "working", "signal", "ended"}]
    /\ caller \in [Threads -> CallerRecord]
    /\ sent \in BOOLEAN /\ halted \subseteq InputThreads

Holds(t, w) == caller[t].worker = w /\ caller[t].at \notin {"idle", "look"}

(* A caller gets the result of his own call.                               *)
OwnResult == \A t \in Threads : caller[t].at = "release" => caller[t].result = t

(* No worker is lost or shared: those that are busy, and they only, are    *)
(* held by a caller, and each by one.                                      *)
PoolKept ==
    \A w \in WorkerIds :
        /\ busy[w] <=> \E t \in Threads : Holds(t, w)
        /\ \A t, u \in Threads : Holds(t, w) /\ Holds(u, w) => t = u

(* Every call returns, except for a receive, which waits for others; and   *)
(* the pool can be stopped.  With as many receives as there are workers    *)
(* this is not so.                                                         *)
PoolCallsReturn ==
    /\ \A t \in Threads :
          caller[t].at # "idle" /\ caller[t].kind # "receive" ~> caller[t].at = "idle"
    /\ stopping > 0 ~> stopping > created
=============================================================================
