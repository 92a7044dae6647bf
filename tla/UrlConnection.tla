--------------------------- MODULE UrlConnection ---------------------------
(***************************************************************************)
(* Time trials over the JVM's URL connection, and the executor they share  *)
(* with everything else (native URL.scala, TimeTrial.scala, package.scala  *)
(* and RemoteClock.scala).                                                 *)
(*                                                                         *)
(* A request is a Future on the global ExecutionContext: it holds one of   *)
(* the pool's workers while it blocks in getInputStream, which is given no *)
(* timeout.  The TimeoutMonitor, on a thread of its own, fails the promise *)
(* in the meantime but does not interrupt the request.  What follows the   *)
(* promise (logTimeTrial or recover) runs on the same pool and so needs a  *)
(* worker as well.  The next burst is launched when every trial of this    *)
(* one has been recorded.                                                  *)
(*                                                                         *)
(* The answer is read by one read() in the format BINARY, which may return *)
(* before all bytes have come, and up to the end of the line in the text   *)
(* formats.                                                                *)
(***************************************************************************)
EXTENDS TimeTrialFormats, FiniteSets

CONSTANTS
  Trial,          \* the trials the pool may be holding at once
  Stamp,          \* stamps that the server may make
  Format,         \* formats a connection may be given
  BurstSize,      \* 3: inBurstsOf
  Workers,        \* parallelism of the global ExecutionContext
  ServerAnswers   \* whether every request is answered or refused in the end

\* Assumed where this module is instantiated.
UrlAssumption ==
  /\ IsFiniteSet(Trial)
  /\ Stamp \subseteq Longs
  /\ BurstSize \in Nat \ {0} /\ BurstSize =< Cardinality(Trial)
  /\ Workers \in Nat \ {0}
  /\ ServerAnswers \in BOOLEAN

VARIABLES
  format,    \* the connection's format
  request,   \* request[t]: the Future that reads the server's answer
  promise,   \* promise[t]: promisedTimeTrial
  misread,   \* history: the trials that succeeded with another stamp than
             \* the server's
  record     \* record[t]: the callback of the promise, that logs the trial

vars == <<format, request, promise, misread, record>>

TypeOK ==
  /\ format \in Format
  /\ misread \in SUBSET Trial
  /\ request \in [Trial -> {"none", "queued", "blocked", "done"}]
  /\ promise \in [Trial -> {"none", "pending", "success", "failure"}]
  /\ record \in [Trial -> {"none", "waiting", "queued", "done"}]

Init ==
  /\ format \in Format
  /\ misread = {}
  /\ request = [t \in Trial |-> "none"]
  /\ promise = [t \in Trial |-> "none"]
  /\ record = [t \in Trial |-> "none"]

Busy == {t \in Trial : request[t] = "blocked"}

FreeWorker == Cardinality(Busy) < Workers

\* The trials of the current burst that are not recorded yet.
Unrecorded == {t \in Trial : record[t] \in {"waiting", "queued"}}

\* The names of trials that are over, with the request they sent.
Spare == {t \in Trial : request[t] \in {"none", "done"} /\ t \notin Unrecorded}

\* The TimerTask of scheduleNextTrial: timeTrial() for a whole burst.
LaunchBurst ==
  /\ Unrecorded = {}
  /\ \E B \in SUBSET Spare :
       /\ Cardinality(B) = BurstSize
       /\ request' = [t \in Trial |-> IF t \in B THEN "queued" ELSE request[t]]
       /\ promise' = [t \in Trial |-> IF t \in B THEN "pending" ELSE promise[t]]
       /\ record' = [t \in Trial |-> IF t \in B THEN "waiting" ELSE "none"]
       /\ misread' = misread \ B
  /\ UNCHANGED format

\* A worker takes the Future and opens the connection.
OpenConnection(t) ==
  /\ request[t] = "queued"
  /\ FreeWorker
  /\ request' = [request EXCEPT ![t] = "blocked"]
  /\ UNCHANGED <<format, promise, misread, record>>

\* completeWith is tryComplete: it loses to an earlier completion.  The
\* completion hands the callback of the promise to the pool.
TryComplete(t, result) ==
  IF promise[t] = "pending"
  THEN /\ promise' = [promise EXCEPT ![t] = result]
       /\ record' = [record EXCEPT ![t] = "queued"]
  ELSE UNCHANGED <<promise, record>>

\* Mutation: the completion overwrites an earlier one.
ReturnOverwrites(t) ==
  /\ request[t] = "blocked"
  /\ request' = [request EXCEPT ![t] = "done"]
  /\ \E result \in {"success", "failure"} :
       /\ promise' = [promise EXCEPT ![t] = result]
       /\ record' = [record EXCEPT ![t] = "queued"]
  /\ UNCHANGED <<format, misread>>

\* The request is answered, and the first n bytes of a stamp are read; or it
\* throws.
Return(t) ==
  /\ request[t] = "blocked"
  /\ request' = [request EXCEPT ![t] = "done"]
  /\ \/ \E stamp \in Stamp, n \in 1 .. Bytes :
          LET read == fromInputStream(format, Written(format, stamp), n) IN
            /\ TryComplete(t, IF read = {} THEN "failure" ELSE "success")
            /\ misread' = IF promise[t] # "pending" \/ read \subseteq {stamp}
                          THEN misread ELSE misread \cup {t}
     \/ TryComplete(t, "failure") /\ UNCHANGED misread
  /\ UNCHANGED format

\* The TimeoutMonitor's tryFailure.
Expire(t) ==
  /\ promise[t] = "pending"
  /\ TryComplete(t, "failure")
  /\ UNCHANGED <<format, request, misread>>

\* Mutation: there is no recover.
RecordSuccess(t) ==
  /\ record[t] = "queued"
  /\ promise[t] = "success"
  /\ FreeWorker
  /\ record' = [record EXCEPT ![t] = "done"]
  /\ UNCHANGED <<format, request, promise, misread>>

\* A worker runs the callback: logTimeTrial, or recover.
Record(t) ==
  /\ record[t] = "queued"
  /\ FreeWorker
  /\ record' = [record EXCEPT ![t] = "done"]
  /\ UNCHANGED <<format, request, promise, misread>>

Next ==
  \/ LaunchBurst
  \/ \E t \in Trial : OpenConnection(t) \/ Return(t) \/ Expire(t) \/ Record(t)

\* A worker takes what t has queued.
Dispatch(t) == OpenConnection(t) \/ Record(t)

(***************************************************************************)
(* The scheduler's Timer and the monitors keep running; a free worker      *)
(* takes what is queued (the pool serves its submissions in turn, so none  *)
(* is passed over for ever: strong fairness).  Only the server's           *)
(* cooperation, and that of the network, is not granted.                   *)
(***************************************************************************)
Fairness ==
  /\ WF_vars(LaunchBurst)
  /\ \A t \in Trial :
       /\ WF_vars(Expire(t))
       /\ SF_vars(Dispatch(t))
       /\ ServerAnswers => WF_vars(Return(t))

Spec == Init /\ [][Next]_vars /\ Fairness

-----------------------------------------------------------------------------
(* Properties.                                                             *)

(***************************************************************************)
(* Every trial launched is logged or counted as failed in the end, so that *)
(* the next burst can be scheduled: the timeout is "how long to wait [..]  *)
(* before giving up" (jvm native/connection/Default.scala:18).             *)
(***************************************************************************)
EveryTrialRecorded ==
  \A t \in Trial : promise[t] = "pending" ~> record[t] = "done"

(***************************************************************************)
(* A trial keeps the outcome its promise was completed with first and is   *)
(* recorded once: an answer after the timeout changes neither.             *)
(***************************************************************************)
FirstOutcomeStands ==
  [][\A t \in Trial :
       promise[t] \in {"success", "failure"} /\ promise'[t] # "pending" =>
         /\ promise'[t] = promise[t]
         /\ record'[t] = "queued" => record[t] = "queued"]_vars

=============================================================================
