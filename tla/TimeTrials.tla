----------------------------- MODULE TimeTrials -----------------------------
(***************************************************************************)
(* What timeTrial() promises its caller, whatever connection carries it    *)
(* (shared TimeServerConnection.scala, TimeTrial.scala): a trial begins    *)
(* pending, has one outcome, and has it in the end, also when the server   *)
(* stays silent, unless the process ends.  A trial that is over may be     *)
(* forgotten and its name used for another one.                            *)
(***************************************************************************)
CONSTANT Trial

VARIABLES
  outcome,   \* outcome[t]: what has become of trial t
  running    \* whether the process is alive

vars == <<outcome, running>>

Settled == {"success", "failure"}

TypeOK ==
  /\ outcome \in [Trial -> {"none", "pending"} \cup Settled]
  /\ running \in BOOLEAN

Init ==
  /\ outcome = [t \in Trial |-> "none"]
  /\ running = TRUE

\* timeTrial() is called for each trial of a burst.
Begin(burst) ==
  /\ running
  /\ \A t \in burst : outcome[t] # "pending"
  /\ outcome' = [t \in Trial |-> IF t \in burst THEN "pending" ELSE outcome[t]]
  /\ UNCHANGED running

\* The promise is completed by the answer, an error or the TimeoutMonitor.
Settle(t) ==
  /\ running
  /\ outcome[t] = "pending"
  /\ \E result \in Settled : outcome' = [outcome EXCEPT ![t] = result]
  /\ UNCHANGED running

End ==
  /\ running
  /\ running' = FALSE
  /\ UNCHANGED outcome

Next ==
  \/ \E burst \in SUBSET Trial : Begin(burst)
  \/ \E t \in Trial : Settle(t)
  \/ End

Safety == Init /\ [][Next]_vars

Spec == Safety /\ \A t \in Trial : WF_vars(Settle(t))

=============================================================================
