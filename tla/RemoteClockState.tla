-------------------------- MODULE RemoteClockState --------------------------
(***************************************************************************)
(* The estimate of the server's clock that a RemoteClock keeps, and the    *)
(* time trials it learns from (shared RemoteClock.scala, TimeTrial.scala   *)
(* and the timeTrial() of the four connections).                           *)
(*                                                                         *)
(* A time trial is carried by several threads.  timeTrial() sends the      *)
(* request first and reads start when it then builds the PendingTimeTrial: *)
(* the request may reach the server before start is read.  The answer      *)
(* completes the promise; the executor later reads the end time, outside   *)
(* the lock, and logs the trial inside it.  Several trials are under way   *)
(* at once and end in any order.                                           *)
(*                                                                         *)
(* Both clocks are an offset from one time that advances by itself; they   *)
(* are read in whole milliseconds that begin at the same instant.          *)
(***************************************************************************)
EXTENDS LagModel, FiniteSets

CONSTANTS
  Trial,        \* PendingTimeTrials under way at once
  LocalOffset,  \* what the local clock may be set to, less the time
  ServerOffset, \* what the server's clock may be set to, less the time
  MayBeSet,     \* whether the clocks are ever set
  MaxTime,      \* bound of the time
  MaxTrials     \* bound on the number of trials sent

ASSUME StateAssumption ==
  /\ LocalOffset \in SUBSET Int /\ LocalOffset # {}
  /\ ServerOffset \in SUBSET Nat /\ ServerOffset # {}
  /\ MayBeSet \in BOOLEAN
  /\ MaxTime \in Nat /\ MaxTime < HalfInt    \* no trial takes 24 days
  /\ MaxTrials \in Nat
  \* Both clocks show a time well after 1970.
  /\ \A o \in ServerOffset : o >= Timeout

VARIABLES
  time,       \* the true time
  local,      \* System.currentTimeMillis() - time
  server,     \* the server's System.currentTimeMillis() - time
  phase,      \* phase[t]: how far the answer of trial t has come
  started,    \* started[t]: whether its start has been read
  start,      \* start[t]: PendingTimeTrial.start
  stamp,      \* stamp[t]: the serverTimeStamp of the answer
  end,        \* end[t]: the time the executor read
  sound,      \* history: start was read first and no clock set since
  sent,       \* history: how many trials were sent
  estimator,  \* the RemoteClockState
  wait,       \* what logTimeTrial returned last
  steady      \* history: no clock was set, and every trial logged was sound

trialVars == <<phase, started, start, stamp, end, sound>>
vars == <<time, local, server, trialVars, sent, estimator, wait, steady>>

LocalClock == time + local
ServerClock == time + server

\* The difference that DeltaT estimates.
TrueDelta == server - local

Error == estimator.deltaT - TrueDelta

TypeOK ==
  /\ time \in 0 .. MaxTime
  /\ local \in LocalOffset
  /\ server \in ServerOffset
  /\ phase \in [Trial -> {"idle", "sent", "stamped", "answered", "ended", "failed"}]
  /\ started \in [Trial -> BOOLEAN]
  /\ start \in [Trial -> Int]
  /\ stamp \in [Trial -> Int]
  /\ end \in [Trial -> Int]
  /\ sound \in [Trial -> BOOLEAN]
  /\ sent \in 0 .. MaxTrials
  /\ estimator \in Estimator
  /\ wait \in 0 .. MaxWait
  /\ steady \in BOOLEAN

Init ==
  /\ time = 0
  /\ local \in LocalOffset
  /\ server \in ServerOffset
  /\ phase = [t \in Trial |-> "idle"]
  /\ started = [t \in Trial |-> FALSE]
  /\ start = [t \in Trial |-> 0]
  /\ stamp = [t \in Trial |-> 0]
  /\ end = [t \in Trial |-> 0]
  /\ sound = [t \in Trial |-> FALSE]
  /\ sent = 0
  /\ estimator = NewEstimator
  /\ wait = 0
  /\ steady = TRUE

-----------------------------------------------------------------------------
(* The clocks.                                                             *)

Tick ==
  /\ time < MaxTime
  /\ time' = time + 1
  /\ UNCHANGED <<local, server, trialVars, sent, estimator, wait, steady>>

\* A user or NTP sets a clock.
SetClock ==
  /\ MayBeSet
  /\ \/ local' \in LocalOffset \ {local} /\ UNCHANGED server
     \/ server' \in ServerOffset \ {server} /\ UNCHANGED local
  /\ sound' = [t \in Trial |-> FALSE]
  /\ steady' = FALSE
  /\ UNCHANGED <<time, phase, started, start, stamp, end, sent, estimator, wait>>

-----------------------------------------------------------------------------
(* A time trial.                                                           *)

\* timeTrial() sends the request.
Send(t) ==
  /\ phase[t] = "idle"
  /\ sent < MaxTrials
  /\ sent' = sent + 1
  /\ phase' = [phase EXCEPT ![t] = "sent"]
  /\ UNCHANGED <<time, local, server, started, start, stamp, end, sound,
                 estimator, wait, steady>>

\* PendingTimeTrial(promise, timeoutMS): start is a default argument.
ReadStart(t) ==
  /\ phase[t] \in {"sent", "stamped", "answered", "failed"}
  /\ ~ started[t]
  /\ started' = [started EXCEPT ![t] = TRUE]
  /\ start' = [start EXCEPT ![t] = LocalClock]
  /\ sound' = [sound EXCEPT ![t] = (phase[t] = "sent")]
  /\ UNCHANGED <<time, local, server, phase, stamp, end, sent, estimator, wait, steady>>

\* The server creates a TimeTrial().
Stamp(t) ==
  /\ phase[t] = "sent"
  /\ phase' = [phase EXCEPT ![t] = "stamped"]
  /\ stamp' = [stamp EXCEPT ![t] = ServerClock]
  /\ UNCHANGED <<time, local, server, started, start, end, sound, sent,
                 estimator, wait, steady>>

\* The answer completes the promise.
Answer(t) ==
  /\ phase[t] = "stamped"
  /\ phase' = [phase EXCEPT ![t] = "answered"]
  /\ UNCHANGED <<time, local, server, started, start, stamp, end, sound, sent,
                 estimator, wait, steady>>

\* An error of the connection or, once start is read, the TimeoutMonitor
\* fails the promise first.
Fail(t) ==
  /\ phase[t] \in {"sent", "stamped"}
  /\ phase' = [phase EXCEPT ![t] = "failed"]
  /\ UNCHANGED <<time, local, server, started, start, stamp, end, sound, sent,
                 estimator, wait, steady>>

\* val end: Long = System.currentTimeMillis()
ReadEnd(t) ==
  /\ phase[t] = "answered"
  /\ started[t]
  /\ phase' = [phase EXCEPT ![t] = "ended"]
  /\ end' = [end EXCEPT ![t] = LocalClock]
  /\ UNCHANGED <<time, local, server, started, start, stamp, sound, sent,
                 estimator, wait, steady>>

\* The trial is over; nothing refers to it any more.
Forget(t) ==
  /\ phase' = [phase EXCEPT ![t] = "idle"]
  /\ started' = [started EXCEPT ![t] = FALSE]
  /\ start' = [start EXCEPT ![t] = 0]
  /\ stamp' = [stamp EXCEPT ![t] = 0]
  /\ end' = [end EXCEPT ![t] = 0]
  /\ sound' = [sound EXCEPT ![t] = FALSE]

\* logTimeTrial(ptt, end), under the RemoteClock's lock.
Log(t) ==
  /\ phase[t] = "ended"
  /\ estimator' = LogTimeTrial(estimator, start[t], end[t], stamp[t])
  /\ wait' = SuggestedWait(estimator, start[t], end[t], stamp[t])
  /\ steady' = (steady /\ sound[t])
  /\ Forget(t)
  /\ UNCHANGED <<time, local, server, sent>>

\* recover: the failure is counted.
Recover(t) ==
  /\ phase[t] = "failed"
  /\ started[t]
  /\ estimator' = ReportFailure(estimator)
  /\ wait' = MaxWait
  /\ Forget(t)
  /\ UNCHANGED <<time, local, server, sent, steady>>

Next ==
  \/ Tick
  \/ SetClock
  \/ \E t \in Trial :
       \/ Send(t) \/ ReadStart(t) \/ Stamp(t) \/ Answer(t) \/ Fail(t)
       \/ ReadEnd(t) \/ Log(t) \/ Recover(t)

Spec == Init /\ [][Next]_vars

-----------------------------------------------------------------------------
(* Properties.                                                             *)

\* Trial t is logged and accepted in this step.
Accepted(t) ==
  /\ phase[t] = "ended" /\ phase'[t] = "idle"
  /\ estimator'.successes = estimator.successes + 1

(***************************************************************************)
(* Recovery.  Whatever clocks were set and whatever was learnt before, one *)
(* sound trial with lag l brings the estimate within l below and 2l above  *)
(* the true difference: bad samples and clock changes do not outlive it.   *)
(***************************************************************************)
OneSoundTrialSuffices ==
  [][\A t \in Trial :
       Accepted(t) /\ sound[t] =>
         /\ -(end[t] - start[t]) =< Error'
         /\ Error' =< 2 * (end[t] - start[t])]_vars

(***************************************************************************)
(* Accuracy.  While the clocks are left alone and starts are read in time, *)
(* the estimate is never behind the server, and ahead of it by at most     *)
(* twice the least lag seen, however many trials and in whatever order     *)
(* they are logged.                                                        *)
(***************************************************************************)
AccurateWhileSteady ==
  steady /\ estimator.successes > 0 =>
    0 =< Error /\ Error =< 2 * estimator.L.min

(***************************************************************************)
(* Every trial sent is counted once, as a success or as a failure, when it *)
(* is no longer under way (successTrials and failedTrials).                *)
(***************************************************************************)
EveryTrialCounted ==
  estimator.successes + estimator.failures
    + Cardinality({t \in Trial : phase[t] # "idle"}) = sent

(***************************************************************************)
(* The mean of the request lags is NaN while there is no sample, which     *)
(* makes 0 of the predicted stamp and of the wait (RemoteClock.scala:125). *)
(* When the first trial moves the estimate from 0 the mean is a number     *)
(* from then on: neither a reset nor a sample computed from the old stream *)
(* brings NaN back, in whatever order trials are logged.                   *)
(***************************************************************************)
MeanStays ==
  [][HasMean(estimator) \/ (estimator.successes = 0 /\ estimator'.deltaT # 0)
       => HasMean(estimator')]_vars

(***************************************************************************)
(* What RemoteClock.scala:220-222 says of a new estimate: it is            *)
(* ts - (S + Lq), for a request lag Lq that is a part of the lag L.        *)
(***************************************************************************)
DeltaTAsDocumented ==
  [][\A t \in Trial :
       Accepted(t) /\ estimator'.deltaT # estimator.deltaT =>
         \E Lq \in 0 .. Lag(start[t], end[t]) :
           estimator'.deltaT = stamp[t] - (start[t] + Lq)]_vars

=============================================================================
