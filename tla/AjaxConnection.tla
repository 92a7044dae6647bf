--------------------------- MODULE AjaxConnection ---------------------------
(***************************************************************************)
(* Time trials over the AJAX connection (js AJAX.scala, TimeTrial.scala).  *)
(*                                                                         *)
(* timeTrial() sends an XMLHttpRequest and builds the PendingTimeTrial     *)
(* before the page can run anything else.  onload is the request's only    *)
(* handler: a request that fails or times out leaves the trial to the      *)
(* TimeoutMonitor, and so does an answer that cannot be read, whose        *)
(* exception ends in the event handler.  onload may also come after the    *)
(* monitor; then promise.success throws.                                   *)
(***************************************************************************)
EXTENDS TimeTrialFormats

CONSTANTS
  Trial,    \* PendingTimeTrials of the page
  Stamp,    \* stamps that the server may make
  Format    \* formats a connection may be given

\* Assumed where this module is instantiated.
AjaxAssumption == Stamp \subseteq Longs

VARIABLES
  format,    \* the connection's format
  promise,   \* promise[t]: promisedTimeTrial
  misread,   \* history: the trials that succeeded with another stamp than
             \* the server's
  xhr        \* xhr[t]: the XMLHttpRequest

vars == <<format, promise, misread, xhr>>

TypeOK ==
  /\ format \in Format
  /\ promise \in [Trial -> {"none", "pending", "success", "failure"}]
  /\ misread \in SUBSET Trial
  /\ xhr \in [Trial -> {"none", "sent", "done"}]

Init ==
  /\ format \in Format
  /\ promise = [t \in Trial |-> "none"]
  /\ misread = {}
  /\ xhr = [t \in Trial |-> "none"]

TimeTrial(t) ==
  /\ promise[t] = "none"
  /\ promise' = [promise EXCEPT ![t] = "pending"]
  /\ xhr' = [xhr EXCEPT ![t] = "sent"]
  /\ UNCHANGED <<format, misread>>

\* What onload makes of a body.
Read(body) ==
  IF format = "BINARY" THEN fromArrayBuffer(body)
  ELSE fromInputStream(format, body, 0)

\* onload with status 200: promise.success of the stamp read.
OnLoad(t) ==
  /\ xhr[t] = "sent"
  /\ xhr' = [xhr EXCEPT ![t] = "done"]
  /\ promise[t] = "pending"
  /\ \E stamp \in Stamp : \E read \in Read(Written(format, stamp)) :
       /\ promise' = [promise EXCEPT ![t] = "success"]
       /\ misread' = IF read = stamp THEN misread ELSE misread \cup {t}
  /\ UNCHANGED format

\* onload with status 200, and reading the body throws.
OnLoadUnreadable(t) ==
  /\ xhr[t] = "sent"
  /\ xhr' = [xhr EXCEPT ![t] = "done"]
  /\ \E stamp \in Stamp : Read(Written(format, stamp)) = {}
  /\ UNCHANGED <<format, promise, misread>>

\* onload with another status: promise.failure.
OnLoadStatus(t) ==
  /\ xhr[t] = "sent"
  /\ xhr' = [xhr EXCEPT ![t] = "done"]
  /\ promise[t] = "pending"
  /\ promise' = [promise EXCEPT ![t] = "failure"]
  /\ UNCHANGED <<format, misread>>

\* Mutation: the answer that comes late completes the promise again.
OnLoadLateOverwrites(t) ==
  /\ xhr[t] = "sent"
  /\ xhr' = [xhr EXCEPT ![t] = "done"]
  /\ promise[t] \in {"success", "failure"}
  /\ promise' = [promise EXCEPT ![t] = "success"]
  /\ UNCHANGED <<format, misread>>

\* onload after the TimeoutMonitor, with any status: success and failure
\* throw on a completed promise.
OnLoadLate(t) ==
  /\ xhr[t] = "sent"
  /\ xhr' = [xhr EXCEPT ![t] = "done"]
  /\ promise[t] \in {"success", "failure"}
  /\ UNCHANGED <<format, promise, misread>>

\* The request fails or reaches xhr.timeout: nobody listens.
XhrFails(t) ==
  /\ xhr[t] = "sent"
  /\ xhr' = [xhr EXCEPT ![t] = "done"]
  /\ UNCHANGED <<format, promise, misread>>

\* The TimeoutMonitor's tryFailure.
Expire(t) ==
  /\ promise[t] = "pending"
  /\ promise' = [promise EXCEPT ![t] = "failure"]
  /\ UNCHANGED <<format, misread, xhr>>

Next ==
  \E t \in Trial :
    \/ TimeTrial(t) \/ OnLoad(t) \/ OnLoadUnreadable(t) \/ OnLoadStatus(t)
    \/ OnLoadLate(t) \/ XhrFails(t) \/ Expire(t)

\* The monitors' timers fire.
Spec == Init /\ [][Next]_vars /\ \A t \in Trial : WF_vars(Expire(t))

=============================================================================
