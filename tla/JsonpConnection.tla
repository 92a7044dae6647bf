-------------------------- MODULE JsonpConnection --------------------------
(***************************************************************************)
(* Time trials over the JSONP connection, and the map of pending trials it *)
(* keeps (js JSONP.scala, TimeTrial.scala).                                *)
(*                                                                         *)
(* timeTrial() appends a script element whose URL carries an identifier,   *)
(* and registers the PendingTimeTrial under that identifier.  The script   *)
(* that the server sends back calls logTimeTrial(identifier, stamp), which *)
(* completes the promise found under the identifier.  The completion, by   *)
(* that call or by the TimeoutMonitor, leads to a callback that removes    *)
(* the entry.  A JavaScript realm runs one task at a time, and runs the    *)
(* callbacks of completed promises before the next task.                   *)
(*                                                                         *)
(* The identifiers are those of Mono+Omni(): within one tick of 256 ms     *)
(* they repeat after CountSpan draws, and the page draws some too.  The    *)
(* clock may be set back, so that a tick comes again, and identifiers do   *)
(* repeat: the properties say which trials are told apart all the same.    *)
(* Ticks are those of dawnOfTime, so they may be negative.                 *)
(***************************************************************************)
EXTENDS Integers

CONSTANTS
  Trial,       \* PendingTimeTrials of the page
  CountSpan,   \* 2^8: identifiers told apart within one tick
  MinTick,     \* bounds of the ticks
  MaxTick,
  MaxDraws     \* bound on the page's own draws

\* Assumed where this module is instantiated.
JsonpAssumption ==
  /\ CountSpan \in Nat \ {0}
  /\ MinTick \in Int /\ MaxTick \in Int /\ MinTick =< MaxTick
  /\ MaxDraws \in Nat

VARIABLES
  tick,      \* the time field of the identifiers drawn now
  counter,   \* Omni's counter
  drawn,     \* draws made by the page
  promise,   \* promise[t]: promisedTimeTrial
  moi,       \* moi[t]: the identifier of trial t
  ticket,    \* history: the counter that t's identifier was drawn from
  answer,    \* answer[t]: the trial whose script completed t's promise
  script,    \* script[t]: whether the answer to t is still to come
  callback,  \* callback[t]: the andThen of t's promise
  registry   \* pendingTimeTrials, a set of <<identifier, trial>>

vars ==
  <<tick, counter, drawn, promise, moi, ticket, answer, script, callback, registry>>

Identifier == (MinTick .. MaxTick) \X (0 .. CountSpan - 1)

NoIdentifier == <<MinTick, 0>>

TypeOK ==
  /\ tick \in MinTick .. MaxTick
  /\ counter \in Nat
  /\ drawn \in 0 .. MaxDraws
  /\ promise \in [Trial -> {"none", "pending", "success", "failure"}]
  /\ moi \in [Trial -> Identifier]
  /\ ticket \in [Trial -> Nat]
  /\ answer \in [Trial -> SUBSET Trial]
  /\ script \in [Trial -> BOOLEAN]
  /\ callback \in [Trial -> {"none", "due", "done"}]
  /\ registry \in SUBSET (Identifier \X Trial)

Init ==
  /\ tick = MinTick
  /\ counter = 0
  /\ drawn = 0
  /\ promise = [t \in Trial |-> "none"]
  /\ moi = [t \in Trial |-> NoIdentifier]
  /\ ticket = [t \in Trial |-> 0]
  /\ answer = [t \in Trial |-> {}]
  /\ script = [t \in Trial |-> FALSE]
  /\ callback = [t \in Trial |-> "none"]
  /\ registry = {}

\* The callbacks that are due run before the next task.
NewTask == \A t \in Trial : callback[t] # "due"

\* The server's route JSONP / LongNumber matches digits only: a negative
\* identifier is answered with a text that is no script.
Routed(id) == id[1] >= 0

Registered(id) == {t \in Trial : <<id, t>> \in registry}

-----------------------------------------------------------------------------
(* The rest of the page.                                                   *)

Tick ==
  /\ tick < MaxTick
  /\ tick' = tick + 1
  /\ UNCHANGED <<counter, drawn, promise, moi, ticket, answer, script, callback, registry>>

\* The user or NTP sets the page's clock back.
StepBack ==
  /\ \E earlier \in MinTick .. tick - 1 : tick' = earlier
  /\ UNCHANGED <<counter, drawn, promise, moi, ticket, answer, script, callback, registry>>

\* Mono+Omni() is called for something else.
Draw ==
  /\ NewTask
  /\ drawn < MaxDraws
  /\ drawn' = drawn + 1
  /\ counter' = counter + 1
  /\ UNCHANGED <<tick, promise, moi, ticket, answer, script, callback, registry>>

-----------------------------------------------------------------------------
(* JSONP.                                                                  *)

\* Mutation: the count is not masked.
NextIdUnmasked == <<tick, counter>>

\* Mono+Omni()
NextId == <<tick, counter % CountSpan>>

\* timeTrial(): the map keeps an entry that is there (getOrElseUpdate).
TimeTrial(t) ==
  /\ NewTask
  /\ promise[t] = "none"
  /\ moi' = [moi EXCEPT ![t] = NextId]
  /\ ticket' = [ticket EXCEPT ![t] = counter]
  /\ registry' = IF Registered(NextId) = {} THEN registry \cup {<<NextId, t>>} ELSE registry
  /\ counter' = counter + 1
  /\ promise' = [promise EXCEPT ![t] = "pending"]
  /\ script' = [script EXCEPT ![t] = TRUE]
  /\ UNCHANGED <<tick, drawn, answer, callback>>

Complete(t, result) ==
  /\ promise' = [promise EXCEPT ![t] = result]
  /\ callback' = [callback EXCEPT ![t] = "due"]

\* Mutation: the answer completes any trial that is pending.
RespondAny(t) ==
  /\ NewTask
  /\ script[t] /\ Routed(moi[t])
  /\ script' = [script EXCEPT ![t] = FALSE]
  /\ \E u \in {v \in Trial : promise[v] = "pending"} :
       /\ Complete(u, "success")
       /\ answer' = [answer EXCEPT ![u] = @ \cup {t}]
  /\ UNCHANGED <<tick, counter, drawn, moi, ticket, registry>>

\* The script of t's answer calls logTimeTrial with t's identifier and the
\* promise registered under it is completed (RegistryExact: it is pending).
Respond(t) ==
  /\ NewTask
  /\ script[t] /\ Routed(moi[t])
  /\ script' = [script EXCEPT ![t] = FALSE]
  /\ \E u \in Registered(moi[t]) :
       /\ promise[u] = "pending"
       /\ Complete(u, "success")
       /\ answer' = [answer EXCEPT ![u] = @ \cup {t}]
  /\ UNCHANGED <<tick, counter, drawn, moi, ticket, registry>>

\* Nothing is registered under it: UnknownPendingTimeTrialId is thrown.
RespondUnknown(t) ==
  /\ NewTask
  /\ script[t] /\ Routed(moi[t])
  /\ Registered(moi[t]) = {}
  /\ script' = [script EXCEPT ![t] = FALSE]
  /\ UNCHANGED <<tick, counter, drawn, promise, moi, ticket, answer, callback, registry>>

\* The TimeoutMonitor's tryFailure.
Expire(t) ==
  /\ NewTask
  /\ promise[t] = "pending"
  /\ Complete(t, "failure")
  /\ UNCHANGED <<tick, counter, drawn, moi, ticket, answer, script, registry>>

\* Mutation: only a trial that timed out is removed.
RemoveTimedOut(t) ==
  /\ callback[t] = "due"
  /\ callback' = [callback EXCEPT ![t] = "done"]
  /\ registry' = IF promise[t] = "failure"
                 THEN {e \in registry : e[1] # moi[t]} ELSE registry
  /\ UNCHANGED <<tick, counter, drawn, promise, moi, ticket, answer, script>>

\* Mutation: the whole map is cleared.
RemoveAll(t) ==
  /\ callback[t] = "due"
  /\ callback' = [callback EXCEPT ![t] = "done"]
  /\ registry' = {}
  /\ UNCHANGED <<tick, counter, drawn, promise, moi, ticket, answer, script>>

\* andThen { case _ => timeout(pendingTimeTrial) }: the entry under t's
\* identifier is removed, whichever trial it holds.
Remove(t) ==
  /\ callback[t] = "due"
  /\ callback' = [callback EXCEPT ![t] = "done"]
  /\ registry' = {e \in registry : e[1] # moi[t]}
  /\ UNCHANGED <<tick, counter, drawn, promise, moi, ticket, answer, script>>

Next ==
  \/ Tick \/ StepBack \/ Draw
  \/ \E t \in Trial :
       \/ TimeTrial(t) \/ Respond(t) \/ RespondUnknown(t) \/ Expire(t) \/ Remove(t)

\* The monitors' timers fire and due callbacks run; servers need not answer.
Fairness ==
  \A t \in Trial : WF_vars(Expire(t)) /\ WF_vars(Remove(t))

Spec == Init /\ [][Next]_vars /\ Fairness

-----------------------------------------------------------------------------
(* Properties.                                                             *)

(***************************************************************************)
(* The code tells two trials apart by their identifiers: when the clock    *)
(* stood at different ticks, or fewer identifiers than the count field     *)
(* numbers lie between their draws.  Where neither holds, after 256 draws  *)
(* within 256 ms or 256 draws and a clock set back, it may not.            *)
(***************************************************************************)
ToldApart(t, u) ==
  \/ moi[t][1] # moi[u][1]
  \/ ticket[t] - ticket[u] \in -(CountSpan - 1) .. CountSpan - 1

(***************************************************************************)
(* An answer completes no trial but the one it was asked for: the          *)
(* identifier is "the MOI of the PendingTimeTrial associated with this     *)
(* TimeTrial" (JSONP.scala:40).  A stamp credited to another trial is      *)
(* paired with the wrong start and yields a wrong lag and a wrong DeltaT.  *)
(* Only the late script of a trial that is not told apart does so.         *)
(***************************************************************************)
OwnAnswerOnly ==
  \A t \in Trial : \A u \in answer[t] : u = t \/ ~ ToldApart(t, u)

(***************************************************************************)
(* Between tasks no trial is in the map but a pending one, identifiers     *)
(* that repeat included: no answer finds a promise that was completed      *)
(* before and throws.  A pending trial that is told apart from every other *)
(* is there, whatever the map does for those that are not: an answer that  *)
(* comes in time finds it (JSONP.scala:28-35, 55).                         *)
(***************************************************************************)
RegistryExact ==
  NewTask =>
    \A t \in Trial :
      /\ t \in Registered(moi[t]) => promise[t] = "pending"
      /\ /\ promise[t] = "pending"
         /\ \A u \in Trial \ {t} : promise[u] # "none" => ToldApart(t, u)
         => t \in Registered(moi[t])

(***************************************************************************)
(* The map of pending trials does not leak: an entry goes once its trial   *)
(* is answered or has timed out.                                           *)
(***************************************************************************)
RegistryDrains ==
  \A t \in Trial :
    (\E id \in Identifier : <<id, t>> \in registry) ~>
      (\A id \in Identifier : <<id, t>> \notin registry)

=============================================================================
