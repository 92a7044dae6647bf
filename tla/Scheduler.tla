----------------------------- MODULE Scheduler -----------------------------
(***************************************************************************)
(* The TimeTrial scheduler of class RemoteClock (shared RemoteClock.scala). *)
(*                                                                         *)
(* A chain is one life of the loop                                         *)
(*                                                                         *)
(*   scheduleNextTrial(delay) -> TimerTask -> a burst of time trials       *)
(*     -> onComplete -> scheduleNextTrial(waitTimes.max)                   *)
(*                                                                         *)
(* The constructor begins one; start() begins another.  Nothing names a    *)
(* chain in the code, and stop() reaches none of them: it only clears the  *)
(* field live, which each chain reads when it schedules its task and again *)
(* when the task runs.  The caller's threads, the Timer's thread and the   *)
(* executor's interleave; every read or write of a shared field is a step. *)
(*                                                                         *)
(* What a trial measures is left to LogTrial's choice of a wait; time is   *)
(* left to the fairness of the timers.                                     *)
(***************************************************************************)
EXTENDS Integers, FiniteSets

CONSTANTS
  Caller,     \* threads that call start() and stop()
  BurstSize,  \* 3: inBurstsOf
  MaxWait,    \* maxWait
  MaxChains,  \* bound on the chains that exist at once
  ExecutorRuns  \* whether the executor runs all that it is given: the event
                \* loop does, the JVM's pool as long as requests end

ASSUME SchedulerAssumption ==
  /\ BurstSize \in Nat \ {0}
  /\ MaxWait \in Nat \ {0}
  /\ MaxChains \in Nat \ {0}
  /\ IsFiniteSet(Caller)
  /\ ExecutorRuns \in BOOLEAN

VARIABLES
  live,       \* the field of the same name
  ready,      \* promisedDT.isCompleted
  estimated,  \* successCount > 0: DeltaT has been set from a time trial
  pc,         \* pc[c]: where chain c is; "none" for a chain that is not
  delay,      \* delay[c]: the wait chain c schedules its next burst with
  trial,      \* trial[c][k]: what became of the k-th trial of c's burst
  wait,       \* wait[c][k]: the wait that trial suggested
  caller,     \* caller[u]: where thread u is in start()
  thrown,     \* history: whether timeTrial() has thrown
  callback,   \* the function passed to ready(): "waiting", then "ran"
  hasty       \* history: whether start() was called before the last loop was over

vars == <<live, ready, estimated, pc, delay, trial, wait, caller, thrown, callback, hasty>>

Chain == 1 .. MaxChains

Burst == 1 .. BurstSize

Chains == {c \in Chain : pc[c] # "none"}

TypeOK ==
  /\ live \in BOOLEAN
  /\ ready \in BOOLEAN
  /\ estimated \in BOOLEAN
  /\ pc \in [Chain -> {"none", "schedule", "arm", "armed", "burst"}]
  /\ delay \in [Chain -> 0 .. MaxWait]
  /\ trial \in [Chain -> [Burst -> {"none", "pending", "answered", "failed",
                                    "logged", "recovered"}]]
  /\ wait \in [Chain -> [Burst -> 0 .. MaxWait]]
  /\ caller \in [Caller -> {"idle", "resuming"}]
  /\ thrown \in BOOLEAN
  /\ callback \in {"waiting", "ran"}
  /\ hasty \in BOOLEAN

NoTrials == [k \in Burst |-> "none"]
NoWaits == [k \in Burst |-> 0]

\* The constructor has run up to its last statement, scheduleNextTrial(0L).
Init ==
  /\ live = TRUE
  /\ ready = FALSE
  /\ estimated = FALSE
  /\ pc = [c \in Chain |-> IF c = 1 THEN "schedule" ELSE "none"]
  /\ delay = [c \in Chain |-> 0]
  /\ trial = [c \in Chain |-> NoTrials]
  /\ wait = [c \in Chain |-> NoWaits]
  /\ caller = [u \in Caller |-> "idle"]
  /\ thrown = FALSE
  /\ callback = "waiting"
  /\ hasty = FALSE

-----------------------------------------------------------------------------
(* The public methods.                                                     *)

\* stop(): clears live if it is set; otherwise it only warns.
Stop ==
  /\ live
  /\ live' = FALSE
  /\ UNCHANGED <<ready, estimated, pc, delay, trial, wait, caller, thrown, callback, hasty>>

\* Nothing is left of an earlier loop and no thread is about to begin one.
\* Nobody asks for this: start() reads live alone.
AtRest == Chains = {} /\ \A u \in Caller : caller[u] = "idle"

\* start() finds live cleared; when it finds live set it only warns.
Start(u) ==
  /\ caller[u] = "idle"
  /\ ~ live
  /\ Cardinality(Chains) + Cardinality({v \in Caller : caller[v] = "resuming"}) < MaxChains
  /\ caller' = [caller EXCEPT ![u] = "resuming"]
  /\ hasty' = (hasty \/ ~ AtRest)
  /\ UNCHANGED <<live, ready, estimated, pc, delay, trial, wait, thrown, callback>>

\* ... sets it, and calls scheduleNextTrial(0L).
Resume(u) ==
  /\ caller[u] = "resuming"
  /\ live' = TRUE
  /\ \E c \in Chain \ Chains : pc' = [pc EXCEPT ![c] = "schedule"]
  /\ caller' = [caller EXCEPT ![u] = "idle"]
  /\ UNCHANGED <<ready, estimated, delay, trial, wait, thrown, callback, hasty>>

-----------------------------------------------------------------------------
(* scheduleNextTrial and its TimerTask.                                    *)

\* Nothing is left that would go on with the chain.
End(c) ==
  /\ pc' = [pc EXCEPT ![c] = "none"]
  /\ delay' = [delay EXCEPT ![c] = 0]

\* if (this.live): a chain that finds live cleared ends here.
CheckLive(c) ==
  /\ pc[c] = "schedule"
  /\ IF live THEN pc' = [pc EXCEPT ![c] = "arm"] /\ UNCHANGED delay ELSE End(c)
  /\ UNCHANGED <<live, ready, estimated, trial, wait, caller, thrown, callback, hasty>>

\* timeTrialScheduler.schedule(...)
Arm(c) ==
  /\ pc[c] = "arm"
  /\ pc' = [pc EXCEPT ![c] = "armed"]
  /\ UNCHANGED <<live, ready, estimated, delay, trial, wait, caller, thrown, callback, hasty>>

\* The task runs and launches the burst,
Fire(c) ==
  /\ pc[c] = "armed"
  /\ live
  /\ pc' = [pc EXCEPT ![c] = "burst"]
  /\ trial' = [trial EXCEPT ![c] = [k \in Burst |-> "pending"]]
  /\ UNCHANGED <<live, ready, estimated, delay, wait, caller, thrown, callback, hasty>>

\* ... or finds that the clock was stopped,
FireStopped(c) ==
  /\ pc[c] = "armed"
  /\ ~ live
  /\ End(c)
  /\ UNCHANGED <<live, ready, estimated, trial, wait, caller, thrown, callback, hasty>>

\* ... or timeTrial() throws out of run(): the JSONP connection does so
\* whenever it cannot append its script element.  No future is left to
\* complete, so nothing calls scheduleNextTrial again.  In JavaScript every
\* task is a timeout of its own, and the others go on.  On the JVM the
\* exception would end the Timer's thread, but timeTrial() does not throw
\* there: all that URL does may fail within its Future only.
FireThrows(c) ==
  /\ pc[c] = "armed"
  /\ live
  /\ End(c)
  /\ thrown' = TRUE
  /\ UNCHANGED <<live, ready, estimated, trial, wait, caller, callback, hasty>>

-----------------------------------------------------------------------------
(* One trial of a burst.                                                   *)

Become(c, k, status) ==
  /\ trial' = [trial EXCEPT ![c][k] = status]
  /\ UNCHANGED <<live, pc, delay, caller, thrown, callback, hasty>>

\* The connection completes the promise, with a TimeTrial or with an error.
Answer(c, k) ==
  /\ trial[c][k] = "pending"
  /\ \E status \in {"answered", "failed"} : Become(c, k, status)
  /\ UNCHANGED <<ready, estimated, wait>>

\* Mutation: only the first trial of a burst gets a TimeoutMonitor.
ExpireFirst(c, k) ==
  /\ k = 1
  /\ trial[c][k] = "pending"
  /\ Become(c, k, "failed")
  /\ UNCHANGED <<ready, estimated, wait>>

\* The TimeoutMonitor of the PendingTimeTrial fails the promise.
Expire(c, k) ==
  /\ trial[c][k] = "pending"
  /\ Become(c, k, "failed")
  /\ UNCHANGED <<ready, estimated, wait>>

\* Mutation: the promise is kept until there is an estimate.
InitLogLate(c, k) ==
  /\ trial[c][k] = "answered"
  /\ ~ ready
  /\ estimated
  /\ ready' = TRUE
  /\ Become(c, k, "answered")
  /\ UNCHANGED <<estimated, wait>>

\* The first use of the lazy val logTimeTrial completes promisedDT, and
\* only then is the trial logged.
InitLog(c, k) ==
  /\ trial[c][k] = "answered"
  /\ ~ ready
  /\ ready' = TRUE
  /\ Become(c, k, "answered")
  /\ UNCHANGED <<estimated, wait>>

\* logTimeTrial accepts the trial.  A lag of 0 suggests maxWait, the first
\* success with a lag suggests 0, a later one anything up to maxWait.
LogTrial(c, k) ==
  /\ trial[c][k] = "answered"
  /\ ready
  /\ \E w \in IF estimated THEN 0 .. MaxWait ELSE {0, MaxWait} :
       wait' = [wait EXCEPT ![c][k] = w]
  /\ estimated' = TRUE
  /\ Become(c, k, "logged")
  /\ UNCHANGED ready

\* logTimeTrial rejects the trial, its lag being negative or beyond the
\* timeout: no estimate, and 0 is suggested.
RejectTrial(c, k) ==
  /\ trial[c][k] = "answered"
  /\ ready
  /\ wait' = [wait EXCEPT ![c][k] = 0]
  /\ Become(c, k, "logged")
  /\ UNCHANGED <<ready, estimated>>

\* Mutation: the failed trial is tried again at once, beside the burst.
RecoverRetries(c, k) ==
  /\ trial[c][k] = "failed"
  /\ wait' = [wait EXCEPT ![c][k] = MaxWait]
  /\ trial' = [trial EXCEPT ![c][k] = "recovered"]
  /\ \/ \E d \in Chain \ Chains : pc' = [pc EXCEPT ![d] = "schedule"]
     \/ Chains = Chain /\ UNCHANGED pc
  /\ UNCHANGED <<live, ready, estimated, delay, caller, thrown, callback, hasty>>

\* The future failed: recover suggests maxWait.
Recover(c, k) ==
  /\ trial[c][k] = "failed"
  /\ wait' = [wait EXCEPT ![c][k] = MaxWait]
  /\ Become(c, k, "recovered")
  /\ UNCHANGED <<ready, estimated>>

Finished(c) == \A k \in Burst : trial[c][k] \in {"logged", "recovered"}

Reschedule(c, next, d) ==
  /\ pc' = [pc EXCEPT ![c] = next]
  /\ delay' = [delay EXCEPT ![c] = d]
  /\ trial' = [trial EXCEPT ![c] = NoTrials]
  /\ wait' = [wait EXCEPT ![c] = NoWaits]
  /\ UNCHANGED <<live, ready, estimated, caller, thrown, callback, hasty>>

Waits(c) == {wait[c][k] : k \in Burst}

\* waitTimes.max
LongestWait(c, d) == d \in Waits(c) /\ \A w \in Waits(c) : w =< d

\* Mutation: the wait of the first trial is taken.
CompleteWithHead(c) ==
  /\ pc[c] = "burst"
  /\ Finished(c)
  /\ Reschedule(c, "schedule", wait[c][1])

\* Mutation: the new wait is added to the last one.
CompleteWithBackoff(c) ==
  /\ pc[c] = "burst"
  /\ Finished(c)
  /\ \E d \in 0 .. MaxWait :
       LongestWait(c, d) /\ Reschedule(c, "schedule", delay[c] + d)

\* Mutation: a failed trial fails the traversal, and the chain ends.
CompleteUnlessFailed(c) ==
  /\ pc[c] = "burst"
  /\ Finished(c)
  /\ \E d \in 0 .. MaxWait :
       /\ LongestWait(c, d)
       /\ Reschedule(c, IF \E k \in Burst : trial[c][k] = "recovered"
                        THEN "none" ELSE "schedule", d)

\* All the futures of the burst have completed: onComplete { Success(..) }.
Complete(c) ==
  /\ pc[c] = "burst"
  /\ Finished(c)
  /\ \E d \in 0 .. MaxWait : LongestWait(c, d) /\ Reschedule(c, "schedule", d)

\* promisedDT's completion has the executor run the function given to
\* ready(); calling ready() later runs it later, which this step may do too.
RunCallback ==
  /\ callback = "waiting"
  /\ ready
  /\ callback' = "ran"
  /\ UNCHANGED <<live, ready, estimated, pc, delay, trial, wait, caller, thrown, hasty>>

-----------------------------------------------------------------------------

\* What the Timer's thread, the monitors and a thread that has come to
\* scheduleNextTrial do,
TimerStep(c) ==
  \/ CheckLive(c) \/ Arm(c)
  \/ Fire(c) \/ FireStopped(c) \/ FireThrows(c)
  \/ \E k \in Burst : Expire(c, k)

\* ... and what is given to the executor: the map and recover of a trial's
\* future, and the onComplete of the burst.
RecordStep(c, k) ==
  InitLog(c, k) \/ LogTrial(c, k) \/ RejectTrial(c, k) \/ Recover(c, k)

ExecutorStep(c) == (\E k \in Burst : RecordStep(c, k)) \/ Complete(c)

ChainStep(c) == TimerStep(c) \/ ExecutorStep(c)

Next ==
  \/ Stop
  \/ \E u \in Caller : Start(u) \/ Resume(u)
  \/ \E c \in Chain : ChainStep(c)
  \/ \E c \in Chain, k \in Burst : Answer(c, k)
  \/ RunCallback

(***************************************************************************)
(* The Timer's thread and the TimeoutMonitors keep running what they were  *)
(* given, and a thread in start() goes on.  The executor does so only if   *)
(* ExecutorRuns: requests that are never answered may hold every worker of *)
(* the JVM's pool (UrlConnection).  Nobody has to call start() or stop().  *)
(***************************************************************************)
Fairness ==
  /\ \A c \in Chain : WF_vars(TimerStep(c))
  /\ \A u \in Caller : WF_vars(Resume(u))
  /\ ExecutorRuns => /\ \A c \in Chain : WF_vars(ExecutorStep(c))
                     /\ WF_vars(RunCallback)

Spec == Init /\ [][Next]_vars /\ Fairness

-----------------------------------------------------------------------------
(* What the owner of the clock sees of the chains.                         *)

Phase ==
  IF hasty THEN "several"
  ELSE IF \E c \in Chain : pc[c] = "burst" THEN "sampling"
  ELSE IF Chains # {} THEN "waiting"
  ELSE "resting"

Clock == INSTANCE Sampler WITH phase <- Phase, BurstsEnd <- ExecutorRuns

-----------------------------------------------------------------------------
(* Properties.                                                             *)

(***************************************************************************)
(* What start() says of a live clock: "it is already running"              *)
(* (RemoteClock.scala:81).  Without a chain the clock never measures again *)
(* and start() refuses to begin one.                                       *)
(***************************************************************************)
LiveMeansRunning == live => Chains # {}

(***************************************************************************)
(* Nothing but a timeTrial() that throws takes the chain from a live       *)
(* clock: no failed trial, and no race of start() and stop() with the      *)
(* tasks that read live.                                                   *)
(***************************************************************************)
OnlyThrowsEndTheLoop == thrown \/ LiveMeansRunning

(***************************************************************************)
(* A burst in which a trial failed is followed by the longest wait:        *)
(* "if a trial fails, wait the maximum amount of time"                     *)
(* (RemoteClock.scala:182), whatever the other trials of it suggest.       *)
(***************************************************************************)
FailureBacksOff ==
  [][\A c \in Chain :
       /\ pc[c] = "burst" /\ pc'[c] = "schedule"
       /\ \E k \in Burst : trial[c][k] = "recovered"
       => delay'[c] = MaxWait]_vars

(***************************************************************************)
(* A clock that stays stopped comes to rest: every task, burst and chain,  *)
(* also those left by earlier starts, is eventually gone, if the executor  *)
(* records the trials of the last bursts.                                  *)
(***************************************************************************)
StopDrains == ExecutorRuns => (<>[](~ live) => <>[](Chains = {}))

(***************************************************************************)
(* A clock that stays live keeps launching bursts for ever, unless         *)
(* timeTrial() throws, if the executor runs what it is given: in           *)
(* JavaScript even when no server ever answers, on the JVM as long as      *)
(* every request ends, late or in an error.                                *)
(***************************************************************************)
LiveKeepsSampling ==
  ExecutorRuns =>
    (<>[](live /\ ~ thrown) =>
       []<>(\E c \in Chain, k \in Burst : trial[c][k] = "pending"))

(***************************************************************************)
(* Once a trial has been answered, the function given to ready() is run,   *)
(* if the executor runs what it is given.                                  *)
(***************************************************************************)
AnswerAnnounced ==
  ExecutorRuns =>
    ((\E c \in Chain, k \in Burst : trial[c][k] = "answered") ~> callback = "ran")

(***************************************************************************)
(* What RemoteClock.scala:77 says of start(): it starts the scheduler only *)
(* if it is not already running, so that two never measure at once.        *)
(***************************************************************************)
AtMostOneBurst == Cardinality({c \in Chain : pc[c] = "burst"}) =< 1

(***************************************************************************)
(* What RemoteClock.scala:53 says of ready(): its callback is invoked once *)
(* an estimate of the server's time is available.                          *)
(***************************************************************************)
CallbackHasEstimate == [][callback' # callback => estimated]_vars

(***************************************************************************)
(* A program that calls start() only when the last loop is over, and from  *)
(* one thread at a time, has what start() is documented to give: no two    *)
(* bursts at once, however stop() interleaves with the tasks.              *)
(***************************************************************************)
PatientMeansOneBurst == hasty \/ AtMostOneBurst

(***************************************************************************)
(* For such a program the scheduler implements Sampler: no burst lost or   *)
(* cut short, and if the executor runs what it is given, a live clock that *)
(* goes on and a stopped one that comes to rest.                           *)
(***************************************************************************)
SamplerImplemented == Clock!Spec

=============================================================================
