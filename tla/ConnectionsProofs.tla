-------------------------- MODULE ConnectionsProofs --------------------------
(***************************************************************************)
(* Theorems about Connections: whichever connection was chosen implements  *)
(* the promise of TimeTrials, a trial keeps its first outcome, and JSONP's *)
(* map of pending trials hands an answer to its own trial, or to one that  *)
(* is not told apart from it, for every number of trials, all formats and  *)
(* every pool of workers.                                                  *)
(***************************************************************************)
EXTENDS Connections, TLAPS

Outcome == {"none", "pending", "success", "failure"}

(***************************************************************************)
(* The invariant: only NodeJS ends the process, and on the JVM the         *)
(* callback of a pending promise waits for it, so that no trial under way  *)
(* is named Spare and begun again.                                         *)
(***************************************************************************)
IInv ==
  /\ connection \in {"URL", "AJAX", "JSONP", "NodeJS"}
  /\ promise \in [Trial -> Outcome]
  /\ running \in BOOLEAN
  /\ connection # "NodeJS" => running
  /\ record \in [Trial -> {"none", "waiting", "queued", "done"}]
  /\ connection = "URL" =>
       \A t \in Trial : promise[t] = "pending" => record[t] = "waiting"

LEMMA InvInit == Init => IInv
<1> SUFFICES ASSUME Init PROVE IInv
  OBVIOUS
<1>1. connection \in {"URL", "AJAX", "JSONP", "NodeJS"}
  <2>1. PICK platform \in {"JVM", "JS"}, window \in BOOLEAN, sameHost \in BOOLEAN :
          connection = Chosen(platform, window, sameHost)
    BY DEF Init
  <2> QED
    BY <2>1, Zenon DEF Chosen
<1>2. /\ promise = [t \in Trial |-> "none"]
      /\ record = [t \in Trial |-> "none"]
      /\ running = TRUE
  BY DEF Init, Url!Init, Node!Init
<1> QED
  BY <1>1, <1>2 DEF IInv, Outcome

\* Settling, or leaving alone, the outcome of a trial.
Settles(t) ==
  /\ promise[t] = "pending"
  /\ \E result \in {"success", "failure"} : promise' = [promise EXCEPT ![t] = result]

\* What a step of each connection may do to the promises and the process.
LEMMA UrlSteps ==
  ASSUME IInv, UrlOnly /\ Url!Next
  PROVE  /\ running' = running /\ connection' = connection
         /\ record' \in [Trial -> {"none", "waiting", "queued", "done"}]
         /\ \/ /\ \E B \in SUBSET Trial :
                    /\ \A t \in B : promise[t] # "pending"
                    /\ promise' = [t \in Trial |-> IF t \in B THEN "pending" ELSE promise[t]]
                    /\ record' = [t \in Trial |-> IF t \in B THEN "waiting" ELSE "none"]
               /\ \A t \in Trial : promise[t] # "pending"
            \/ \E t \in Trial : Settles(t) /\ record' = [record EXCEPT ![t] = "queued"]
            \/ promise' = promise /\ record' = record
            \/ /\ promise' = promise
               /\ \E t \in Trial : record[t] = "queued"
                                   /\ record' = [record EXCEPT ![t] = "done"]
<1>0. connection = "URL" /\ running' = running /\ connection' = connection
  BY DEF UrlOnly
<1>1. CASE Url!LaunchBurst
  <2>1. PICK B \in SUBSET Url!Spare :
          /\ promise' = [t \in Trial |-> IF t \in B THEN "pending" ELSE promise[t]]
          /\ record' = [t \in Trial |-> IF t \in B THEN "waiting" ELSE "none"]
    BY <1>1 DEF Url!LaunchBurst
  <2>2. \A t \in Trial : record[t] \notin {"waiting", "queued"}
    BY <1>1 DEF Url!LaunchBurst, Url!Unrecorded
  <2>3. \A t \in Trial : promise[t] # "pending"
    BY <1>0, <2>2 DEF IInv
  <2>4. B \in SUBSET Trial
    BY DEF Url!Spare
  <2>5. record' \in [Trial -> {"none", "waiting", "queued", "done"}]
    BY <2>1
  <2> QED
    BY <1>0, <2>1, <2>3, <2>4, <2>5
<1>2. ASSUME NEW t \in Trial, Url!OpenConnection(t)
      PROVE  promise' = promise /\ record' = record
  BY <1>2 DEF Url!OpenConnection
<1>3. ASSUME NEW t \in Trial, NEW result \in {"success", "failure"},
             Url!TryComplete(t, result)
      PROVE  \/ Settles(t) /\ record' = [record EXCEPT ![t] = "queued"]
             \/ promise' = promise /\ record' = record
  BY <1>3 DEF Url!TryComplete, Settles
<1>4. ASSUME NEW t \in Trial, Url!Return(t) \/ Url!Expire(t)
      PROVE  \/ Settles(t) /\ record' = [record EXCEPT ![t] = "queued"]
             \/ promise' = promise /\ record' = record
  <2>1. \E result \in {"success", "failure"} : Url!TryComplete(t, result)
    BY <1>4 DEF Url!Return, Url!Expire
  <2> QED
    BY <1>3, <2>1
<1>5. ASSUME NEW t \in Trial, Url!Record(t)
      PROVE  /\ promise' = promise
             /\ record[t] = "queued" /\ record' = [record EXCEPT ![t] = "done"]
  BY <1>5 DEF Url!Record
<1>6. record \in [Trial -> {"none", "waiting", "queued", "done"}]
  BY DEF IInv
<1>7. \/ Url!LaunchBurst
      \/ \E t \in Trial :
           Url!OpenConnection(t) \/ Url!Return(t) \/ Url!Expire(t) \/ Url!Record(t)
  BY DEF Url!Next
<1>8. ASSUME NEW t \in Trial,
             Url!OpenConnection(t) \/ Url!Return(t) \/ Url!Expire(t) \/ Url!Record(t)
      PROVE  /\ record' \in [Trial -> {"none", "waiting", "queued", "done"}]
             /\ \/ Settles(t) /\ record' = [record EXCEPT ![t] = "queued"]
                \/ promise' = promise /\ record' = record
                \/ /\ promise' = promise
                   /\ record[t] = "queued" /\ record' = [record EXCEPT ![t] = "done"]
  BY <1>2, <1>4, <1>5, <1>6, <1>8
<1> QED
  BY <1>0, <1>1, <1>7, <1>8

LEMMA AjaxSteps ==
  ASSUME IInv, AjaxOnly /\ Ajax!Next
  PROVE  /\ running' = running /\ connection' = connection /\ record' = record
         /\ running = TRUE /\ connection # "URL"
         /\ \E t \in Trial :
              \/ promise[t] = "none" /\ promise' = [promise EXCEPT ![t] = "pending"]
              \/ Settles(t)
              \/ promise' = promise
<1>1. connection = "AJAX" /\ running' = running /\ connection' = connection
      /\ record' = record /\ running = TRUE
  BY DEF AjaxOnly, IInv, urlVars
<1>2. PICK t \in Trial :
        \/ Ajax!TimeTrial(t) \/ Ajax!OnLoad(t) \/ Ajax!OnLoadUnreadable(t)
        \/ Ajax!OnLoadStatus(t) \/ Ajax!OnLoadLate(t) \/ Ajax!XhrFails(t)
        \/ Ajax!Expire(t)
  BY DEF Ajax!Next
<1>3. \/ promise[t] = "none" /\ promise' = [promise EXCEPT ![t] = "pending"]
      \/ Settles(t)
      \/ promise' = promise
  BY <1>2 DEF Ajax!TimeTrial, Ajax!OnLoad, Ajax!OnLoadUnreadable,
     Ajax!OnLoadStatus, Ajax!OnLoadLate, Ajax!XhrFails, Ajax!Expire, Settles
<1> QED
  BY <1>1, <1>3

LEMMA JsonpSteps ==
  ASSUME IInv, JsonpOnly /\ Jsonp!Next
  PROVE  /\ running' = running /\ connection' = connection /\ record' = record
         /\ running = TRUE /\ connection # "URL"
         /\ \/ \E t \in Trial :
                 \/ promise[t] = "none" /\ promise' = [promise EXCEPT ![t] = "pending"]
                 \/ Settles(t)
            \/ promise' = promise
<1>1. connection = "JSONP" /\ running' = running /\ connection' = connection
      /\ record' = record /\ running = TRUE
  BY DEF JsonpOnly, IInv, urlVars
<1>2. CASE Jsonp!Tick \/ Jsonp!StepBack \/ Jsonp!Draw
  BY <1>1, <1>2 DEF Jsonp!Tick, Jsonp!StepBack, Jsonp!Draw
<1>3. ASSUME NEW t \in Trial, Jsonp!Respond(t)
      PROVE  \E u \in Trial : Settles(u)
  <2>1. PICK u \in Jsonp!Registered(moi[t]) :
          promise[u] = "pending" /\ Jsonp!Complete(u, "success")
    BY <1>3 DEF Jsonp!Respond
  <2>2. u \in Trial
    BY DEF Jsonp!Registered
  <2> QED
    BY <2>1, <2>2 DEF Jsonp!Complete, Settles
<1>4. ASSUME NEW t \in Trial,
             \/ Jsonp!TimeTrial(t) \/ Jsonp!RespondUnknown(t)
             \/ Jsonp!Expire(t) \/ Jsonp!Remove(t)
      PROVE  \/ promise[t] = "none" /\ promise' = [promise EXCEPT ![t] = "pending"]
             \/ Settles(t)
             \/ promise' = promise
  BY <1>4 DEF Jsonp!TimeTrial, Jsonp!RespondUnknown, Jsonp!Expire, Jsonp!Remove,
     Jsonp!Complete, Settles
<1>5. \/ Jsonp!Tick \/ Jsonp!StepBack \/ Jsonp!Draw
      \/ \E t \in Trial :
           \/ Jsonp!TimeTrial(t) \/ Jsonp!Respond(t) \/ Jsonp!RespondUnknown(t)
           \/ Jsonp!Expire(t) \/ Jsonp!Remove(t)
  BY DEF Jsonp!Next
<1> QED
  BY <1>1, <1>2, <1>3, <1>4, <1>5

LEMMA NodeSteps ==
  ASSUME IInv, NodeOnly /\ Node!Next
  PROVE  /\ connection' = connection /\ record' = record
         /\ running = TRUE /\ connection = "NodeJS"
         /\ \/ /\ running' = running
               /\ \E t \in Trial :
                    \/ promise[t] = "none" /\ promise' = [promise EXCEPT ![t] = "pending"]
                    \/ Settles(t)
                    \/ promise' = promise
            \/ running' = FALSE /\ promise' = promise
<1>1. connection = "NodeJS" /\ connection' = connection /\ record' = record
  BY DEF NodeOnly, urlVars
<1>2. PICK t \in Trial :
        \/ Node!TimeTrial(t) \/ Node!Respond(t) \/ Node!Data(t)
        \/ Node!DataLate(t) \/ Node!Refuse(t) \/ Node!Expire(t)
  BY DEF Node!Next
<1>3. running = TRUE
  BY <1>2 DEF IInv, Node!TimeTrial, Node!Respond, Node!Data, Node!DataLate,
     Node!Refuse, Node!Expire
<1>4. \/ /\ running' = running
         /\ \/ promise[t] = "none" /\ promise' = [promise EXCEPT ![t] = "pending"]
            \/ Settles(t)
            \/ promise' = promise
      \/ running' = FALSE /\ promise' = promise
  BY <1>2 DEF Node!TimeTrial, Node!Respond, Node!Data, Node!DataLate,
     Node!Refuse, Node!Expire, Settles
<1> QED
  BY <1>1, <1>3, <1>4

LEMMA InvStep == IInv /\ [Next]_vars => IInv'
<1> SUFFICES ASSUME IInv, [Next]_vars PROVE IInv'
  OBVIOUS
<1>0. /\ promise \in [Trial -> Outcome]
      /\ record \in [Trial -> {"none", "waiting", "queued", "done"}]
  BY DEF IInv
<1>1. CASE UrlOnly /\ Url!Next
  <2>0. /\ connection = "URL" /\ running' = running /\ connection' = connection
        /\ record' \in [Trial -> {"none", "waiting", "queued", "done"}]
        /\ \A t \in Trial : promise[t] = "pending" => record[t] = "waiting"
    BY <1>1, UrlSteps DEF UrlOnly, IInv
  <2>1. CASE \E B \in SUBSET Trial :
               /\ promise' = [t \in Trial |-> IF t \in B THEN "pending" ELSE promise[t]]
               /\ record' = [t \in Trial |-> IF t \in B THEN "waiting" ELSE "none"]
               /\ \A t \in Trial : promise[t] # "pending"
    BY <1>0, <2>0, <2>1 DEF IInv, Outcome
  <2>2. CASE \E t \in Trial : Settles(t) /\ record' = [record EXCEPT ![t] = "queued"]
    BY <1>0, <2>0, <2>2 DEF IInv, Outcome, Settles
  <2>3. CASE promise' = promise /\ record' = record
    BY <1>0, <2>0, <2>3 DEF IInv, Outcome
  <2>4. CASE /\ promise' = promise
             /\ \E t \in Trial : record[t] = "queued"
                                 /\ record' = [record EXCEPT ![t] = "done"]
    BY <1>0, <2>0, <2>4 DEF IInv, Outcome
  <2> QED
    BY <1>1, <2>1, <2>2, <2>3, <2>4, UrlSteps
<1>2. ASSUME running' = running \/ connection = "NodeJS", running' \in BOOLEAN,
             connection' = connection, connection # "URL", record' = record,
             \/ \E t \in Trial :
                  \/ promise[t] = "none" /\ promise' = [promise EXCEPT ![t] = "pending"]
                  \/ Settles(t)
             \/ promise' = promise
      PROVE  IInv'
  <2>1. promise' \in [Trial -> Outcome]
    BY <1>0, <1>2 DEF Outcome, Settles
  <2> QED
    BY <1>2, <2>1 DEF IInv
<1>3. CASE AjaxOnly /\ Ajax!Next
  BY <1>2, <1>3, AjaxSteps DEF IInv
<1>4. CASE JsonpOnly /\ Jsonp!Next
  BY <1>2, <1>4, JsonpSteps DEF IInv
<1>5. CASE NodeOnly /\ Node!Next
  <2>1. running' \in BOOLEAN
    BY <1>5, NodeSteps DEF IInv
  <2> QED
    BY <1>2, <1>5, <2>1, NodeSteps
<1>6. CASE UNCHANGED vars
  BY <1>6 DEF vars, urlVars, IInv
<1> QED
  BY <1>1, <1>3, <1>4, <1>5, <1>6 DEF Next

LEMMA Invariant == Spec => []IInv
<1> QED
  BY InvInit, InvStep, PTL DEF Spec

-----------------------------------------------------------------------------
(* The refinement.                                                         *)

\* A step that begins, settles or leaves alone one trial is one of TimeTrials.
LEMMA OneTrialMaps ==
  ASSUME promise \in [Trial -> Outcome], running = TRUE, running' = running,
         NEW t \in Trial,
         \/ promise[t] = "none" /\ promise' = [promise EXCEPT ![t] = "pending"]
         \/ Settles(t)
         \/ promise' = promise
  PROVE  [Trials!Next]_<<promise, running>>
<1>1. CASE promise[t] = "none" /\ promise' = [promise EXCEPT ![t] = "pending"]
  <2>1. promise' = [u \in Trial |-> IF u \in {t} THEN "pending" ELSE promise[u]]
    BY <1>1
  <2>2. Trials!Begin({t})
    BY <1>1, <2>1 DEF Trials!Begin
  <2> QED
    BY <2>2 DEF Trials!Next
<1>2. CASE Settles(t)
  BY <1>2 DEF Settles, Trials!Settle, Trials!Settled, Trials!Next
<1> QED
  BY <1>1, <1>2

(***************************************************************************)
(* Each connection keeps what TimeServerConnection.timeTrial promises: a   *)
(* trial begins pending and its outcome is settled once, for good, as long *)
(* as the process is alive (URL, AJAX, JSONP and NodeJS.scala, timeTrial). *)
(***************************************************************************)
THEOREM ImplementsTimeTrials == Spec => Trials!Safety
<1>1. Init => Trials!Init
  BY DEF Init, Url!Init, Node!Init, Trials!Init
<1>2. ASSUME IInv, [Next]_vars PROVE [Trials!Next]_<<promise, running>>
  <2>0. promise \in [Trial -> Outcome]
    BY <1>2 DEF IInv
  <2>1. CASE UrlOnly /\ Url!Next
    <3>0. running = TRUE /\ running' = running
      BY <1>2, <2>1, UrlSteps DEF IInv, UrlOnly
    <3>1. CASE \E B \in SUBSET Trial :
                 /\ \A t \in B : promise[t] # "pending"
                 /\ promise' = [t \in Trial |-> IF t \in B THEN "pending" ELSE promise[t]]
      BY <3>0, <3>1 DEF Trials!Next, Trials!Begin
    <3>2. CASE \E t \in Trial : Settles(t)
      BY <2>0, <3>0, <3>2, OneTrialMaps
    <3>3. CASE promise' = promise
      BY <3>0, <3>3
    <3> QED
      BY <1>2, <2>1, <3>1, <3>2, <3>3, UrlSteps
  <2>2. CASE AjaxOnly /\ Ajax!Next
    BY <1>2, <2>0, <2>2, AjaxSteps, OneTrialMaps
  <2>3. CASE JsonpOnly /\ Jsonp!Next
    BY <1>2, <2>0, <2>3, JsonpSteps, OneTrialMaps
  <2>4. CASE NodeOnly /\ Node!Next
    <3>1. CASE running' = FALSE /\ promise' = promise
      BY <1>2, <2>4, <3>1, NodeSteps DEF Trials!Next, Trials!End
    <3> QED
      BY <1>2, <2>0, <2>4, <3>1, NodeSteps, OneTrialMaps
  <2>5. CASE UNCHANGED vars
    BY <2>5 DEF vars
  <2> QED
    BY <1>2, <2>1, <2>2, <2>3, <2>4, <2>5 DEF Next
<1>3. IInv /\ [Next]_vars => [Trials!Next]_(Trials!vars)
  BY <1>2 DEF Trials!vars
<1> QED
  BY <1>1, <1>3, Invariant, PTL DEF Spec, Trials!Safety

(***************************************************************************)
(* An answer after the timeout, or a timeout after the answer, changes     *)
(* neither the outcome of a trial nor records it a second time             *)
(* (Promise.tryComplete, URL.scala:35), on any connection.                 *)
(***************************************************************************)
THEOREM OutcomeFinal == Spec => FirstOutcomeStands
<1> DEFINE Stands(t) ==
      promise[t] \in {"success", "failure"} /\ promise'[t] # "pending" =>
        /\ promise'[t] = promise[t]
        /\ record'[t] = "queued" => record[t] = "queued"
<1>1. ASSUME IInv, [Next]_vars, NEW t \in Trial PROVE Stands(t)
  <2>0. /\ promise \in [Trial -> Outcome]
        /\ record \in [Trial -> {"none", "waiting", "queued", "done"}]
    BY <1>1 DEF IInv
  <2>1. ASSUME NEW u \in Trial, Settles(u),
               record' = record \/ record' = [record EXCEPT ![u] = "queued"]
        PROVE  Stands(t)
    BY <2>0, <2>1 DEF Settles
  <2>2. CASE UrlOnly /\ Url!Next
    BY <1>1, <2>0, <2>1, <2>2, UrlSteps
  <2>3. CASE AjaxOnly /\ Ajax!Next
    BY <1>1, <2>0, <2>1, <2>3, AjaxSteps
  <2>4. CASE JsonpOnly /\ Jsonp!Next
    BY <1>1, <2>0, <2>1, <2>4, JsonpSteps
  <2>5. CASE NodeOnly /\ Node!Next
    BY <1>1, <2>0, <2>1, <2>5, NodeSteps
  <2>6. CASE UNCHANGED vars
    BY <2>6 DEF vars, urlVars
  <2> QED
    BY <1>1, <2>2, <2>3, <2>4, <2>5, <2>6 DEF Next
<1>2. IInv /\ [Next]_vars => [\A t \in Trial : Stands(t)]_(Url!vars)
  BY <1>1
<1> QED
  BY <1>2, Invariant, PTL DEF Spec, FirstOutcomeStands, Url!FirstOutcomeStands

-----------------------------------------------------------------------------
(***************************************************************************)
(* What JsonpProofs shows of the JSONP connection, for the program that    *)
(* may have chosen it.  The invariant of JsonpProofs is cited, not proved  *)
(* again: its instance J has the same constants and variables as the       *)
(* instance Jsonp of Connections, so that the actions of the two are the   *)
(* same formulas.                                                          *)
(***************************************************************************)
J == INSTANCE JsonpProofs

LEMMA Assumed == J!JsonpAssumption
  BY ConnectionsAssumption DEF Jsonp!JsonpAssumption, J!JsonpAssumption

LEMMA SameInit == Jsonp!Init => J!Init
  BY DEF Jsonp!Init, J!Init, Jsonp!NoIdentifier, J!NoIdentifier

LEMMA SameNext == Jsonp!Next => J!Next
<1>1. Jsonp!Tick => J!Tick
  BY DEF Jsonp!Tick, J!Tick
<1>2. Jsonp!StepBack => J!StepBack
  BY DEF Jsonp!StepBack, J!StepBack
<1>3. Jsonp!Draw => J!Draw
  BY DEF Jsonp!Draw, J!Draw, Jsonp!NewTask, J!NewTask
<1>4. ASSUME NEW t \in Trial, Jsonp!TimeTrial(t) PROVE J!TimeTrial(t)
  BY <1>4 DEF Jsonp!TimeTrial, J!TimeTrial, Jsonp!NewTask, J!NewTask,
              Jsonp!NextId, J!NextId, Jsonp!Registered, J!Registered
<1>5. ASSUME NEW t \in Trial, Jsonp!Respond(t) PROVE J!Respond(t)
  BY <1>5 DEF Jsonp!Respond, J!Respond, Jsonp!NewTask, J!NewTask, Jsonp!Routed, J!Routed,
              Jsonp!Registered, J!Registered, Jsonp!Complete, J!Complete
<1>6. ASSUME NEW t \in Trial, Jsonp!RespondUnknown(t) PROVE J!RespondUnknown(t)
  BY <1>6 DEF Jsonp!RespondUnknown, J!RespondUnknown, Jsonp!NewTask, J!NewTask,
              Jsonp!Routed, J!Routed, Jsonp!Registered, J!Registered
<1>7. ASSUME NEW t \in Trial, Jsonp!Expire(t) PROVE J!Expire(t)
  BY <1>7 DEF Jsonp!Expire, J!Expire, Jsonp!NewTask, J!NewTask, Jsonp!Complete, J!Complete
<1>8. ASSUME NEW t \in Trial, Jsonp!Remove(t) PROVE J!Remove(t)
  BY <1>8 DEF Jsonp!Remove, J!Remove
<1> QED
  BY <1>1, <1>2, <1>3, <1>4, <1>5, <1>6, <1>7, <1>8 DEF Jsonp!Next, J!Next

\* The invariant of JSONP where it was chosen; elsewhere no script ever runs.
JsonpInv ==
  /\ connection = "JSONP" => J!IInv
  /\ connection # "JSONP" => answer = [t \in Trial |-> {}]

LEMMA JsonpInvInit == Init => JsonpInv
<1>1. J!Init => J!IInv
  BY Assumed, J!InvInit
<1>2. Init => J!Init
  BY SameInit DEF Init
<1>3. Init => answer = [t \in Trial |-> {}]
  BY DEF Init, Jsonp!Init
<1> QED
  BY <1>1, <1>2, <1>3 DEF JsonpInv

LEMMA JsonpInvStep == JsonpInv /\ [Next]_vars => JsonpInv'
<1> SUFFICES ASSUME JsonpInv, [Next]_vars PROVE JsonpInv'
  OBVIOUS
<1>1. ASSUME UNCHANGED <<connection, answer>>, connection # "JSONP" PROVE JsonpInv'
  BY <1>1 DEF JsonpInv
<1>2. CASE UrlOnly /\ Url!Next
  BY <1>1, <1>2 DEF UrlOnly, jsonpVars
<1>3. CASE AjaxOnly /\ Ajax!Next
  BY <1>1, <1>3 DEF AjaxOnly, jsonpVars
<1>4. CASE NodeOnly /\ Node!Next
  BY <1>1, <1>4 DEF NodeOnly, jsonpVars
<1>5. CASE JsonpOnly /\ Jsonp!Next
  <2>1. J!Next /\ connection = "JSONP" /\ connection' = connection
    BY <1>5, SameNext DEF JsonpOnly
  <2>2. J!IInv'
    BY <2>1, Assumed, J!InvStep DEF JsonpInv
  <2> QED
    BY <2>1, <2>2 DEF JsonpInv
<1>6. CASE UNCHANGED vars
  <2>1. UNCHANGED J!vars /\ UNCHANGED <<connection, answer>>
    BY <1>6 DEF vars, jsonpVars, J!vars
  <2>2. J!IInv => J!IInv'
    BY <2>1, Assumed, J!InvStep
  <2> QED
    BY <2>1, <2>2, <1>1 DEF JsonpInv
<1> QED
  BY <1>2, <1>3, <1>4, <1>5, <1>6 DEF Next

LEMMA JsonpInvariant == Spec => []JsonpInv
  BY JsonpInvInit, JsonpInvStep, PTL DEF Spec

(***************************************************************************)
(* No answer completes a trial that is told apart from the one it was      *)
(* asked for (JSONP.logTimeTrial), in a program that may have chosen any   *)
(* connection and whose clock may be set back.                             *)
(***************************************************************************)
THEOREM AnswersOwn == Spec => []OwnAnswerOnly
<1>1. ASSUME JsonpInv, connection = "JSONP" PROVE OwnAnswerOnly
  <2>1. J!OwnAnswerOnly
    BY <1>1, Assumed, J!InvAnswers DEF JsonpInv
  <2> QED
    BY <2>1 DEF J!OwnAnswerOnly, J!ToldApart, OwnAnswerOnly, Jsonp!OwnAnswerOnly,
                Jsonp!ToldApart
<1>2. ASSUME JsonpInv, connection # "JSONP" PROVE OwnAnswerOnly
  BY <1>2 DEF JsonpInv, OwnAnswerOnly, Jsonp!OwnAnswerOnly
<1>3. JsonpInv => OwnAnswerOnly
  BY <1>1, <1>2
<1> QED
  BY <1>3, JsonpInvariant, PTL

(***************************************************************************)
(* Between tasks the map of pending trials holds pending trials only, and  *)
(* each that is told apart from the others (JSONP.logTimeTrial,            *)
(* JSONP.timeout), where JSONP was chosen.                                 *)
(***************************************************************************)
THEOREM RegistryCorrect == Spec => []RegistryExact
<1>1. ASSUME JsonpInv, connection = "JSONP" PROVE Jsonp!RegistryExact
  <2>1. J!RegistryExact
    BY <1>1, Assumed, J!InvRegistry DEF JsonpInv
  <2> QED
    BY <2>1 DEF J!RegistryExact, J!NewTask, J!Registered, J!ToldApart,
                Jsonp!RegistryExact, Jsonp!NewTask, Jsonp!Registered, Jsonp!ToldApart
<1>2. JsonpInv => RegistryExact
  BY <1>1 DEF RegistryExact
<1> QED
  BY <1>2, JsonpInvariant, PTL

=============================================================================
