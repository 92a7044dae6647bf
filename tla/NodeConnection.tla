--------------------------- MODULE NodeConnection ---------------------------
(***************************************************************************)
(* Time trials over the NodeJS connection (js NodeJS.scala, TimeTrial).    *)
(*                                                                         *)
(* The body of the answer comes in pieces, and each is a data event.  The  *)
(* first one completes the promise with what can be read of it; any later  *)
(* one finds it completed, promise.success throws, and the catch clause's  *)
(* tryFailure does nothing.  The status is not looked at.  The request has *)
(* no error listener: a connection that is refused or lost before the      *)
(* answer is an uncaught error event, and ends the process.                *)
(***************************************************************************)
EXTENDS TimeTrialFormats

CONSTANTS
  Trial,    \* PendingTimeTrials of the process
  Stamp,    \* stamps that the server may make
  Format    \* formats a connection may be given

\* Assumed where this module is instantiated.
NodeAssumption == Stamp \subseteq Longs

VARIABLES
  format,    \* the connection's format
  promise,   \* promise[t]: promisedTimeTrial
  misread,   \* history: the trials that succeeded with another stamp than
             \* the server's
  running,   \* whether the process is alive
  request,   \* request[t]: the ClientRequest
  stamped,   \* stamped[t]: the stamp the server has made, 0 before
  coming     \* coming[t]: what is still to come of the body

vars == <<format, promise, misread, running, request, stamped, coming>>

TypeOK ==
  /\ format \in Format
  /\ promise \in [Trial -> {"none", "pending", "success", "failure"}]
  /\ misread \in SUBSET Trial
  /\ running \in BOOLEAN
  /\ request \in [Trial -> {"none", "sent", "responding"}]
  /\ stamped \in [Trial -> Stamp \cup {0}]
  /\ coming \in [Trial -> Seq(0 .. Radix - 1)]

Init ==
  /\ format \in Format
  /\ promise = [t \in Trial |-> "none"]
  /\ misread = {}
  /\ running = TRUE
  /\ request = [t \in Trial |-> "none"]
  /\ stamped = [t \in Trial |-> 0]
  /\ coming = [t \in Trial |-> <<>>]

TimeTrial(t) ==
  /\ running
  /\ promise[t] = "none"
  /\ promise' = [promise EXCEPT ![t] = "pending"]
  /\ request' = [request EXCEPT ![t] = "sent"]
  /\ UNCHANGED <<format, misread, running, stamped, coming>>

\* The response callback runs, for a stamp or for the page of an error.
Respond(t) ==
  /\ running
  /\ request[t] = "sent"
  /\ request' = [request EXCEPT ![t] = "responding"]
  /\ \E stamp \in Stamp : \E body \in {Written(format, stamp), Page} :
       /\ stamped' = [stamped EXCEPT ![t] = stamp]
       /\ coming' = [coming EXCEPT ![t] = body]
  /\ UNCHANGED <<format, promise, misread, running>>

\* Once the body has come, its stamp is of no more use.
Receive(t, k) ==
  /\ coming' = [coming EXCEPT ![t] = SubSeq(@, k + 1, Len(@))]
  /\ stamped' = [stamped EXCEPT ![t] = IF k = Len(coming[t]) THEN 0 ELSE @]

\* The data event of the first k bytes: promise.success of what they read
\* as, or tryFailure when reading throws.
Data(t) ==
  /\ running
  /\ promise[t] = "pending"
  /\ \E k \in 1 .. Len(coming[t]) :
       LET read == fromUint8Array(format, SubSeq(coming[t], 1, k)) IN
         /\ Receive(t, k)
         /\ promise' = [promise EXCEPT ![t] = IF read = {} THEN "failure" ELSE "success"]
         /\ misread' = IF read \subseteq {stamped[t]} THEN misread ELSE misread \cup {t}
  /\ UNCHANGED <<format, running, request>>

\* A data event after the first, or after the TimeoutMonitor: success throws,
\* and tryFailure does nothing.
DataLate(t) ==
  /\ running
  /\ promise[t] \in {"success", "failure"}
  /\ \E k \in 1 .. Len(coming[t]) : Receive(t, k)
  /\ UNCHANGED <<format, promise, misread, running, request>>

\* The request emits an error event, which nobody listens to.
Refuse(t) ==
  /\ running
  /\ request[t] = "sent"
  /\ running' = FALSE
  /\ UNCHANGED <<format, promise, misread, request, stamped, coming>>

\* The TimeoutMonitor's tryFailure.
Expire(t) ==
  /\ running
  /\ promise[t] = "pending"
  /\ promise' = [promise EXCEPT ![t] = "failure"]
  /\ UNCHANGED <<format, misread, running, request, stamped, coming>>

Next ==
  \E t \in Trial :
    \/ TimeTrial(t) \/ Respond(t) \/ Data(t) \/ DataLate(t) \/ Refuse(t) \/ Expire(t)

\* The monitors' timers fire as long as the process lives.
Spec == Init /\ [][Next]_vars /\ \A t \in Trial : WF_vars(Expire(t))

=============================================================================
