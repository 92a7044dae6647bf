----------------------------- MODULE JsonpProofs -----------------------------
(***************************************************************************)
(* Theorems about JsonpConnection: an answer completes no trial that is    *)
(* told apart from its own, and the map holds pending trials only, and     *)
(* each that is told apart, for every number of trials, of draws and of    *)
(* ticks, and however the clock is set back.                               *)
(***************************************************************************)
EXTENDS JsonpConnection, TLAPS

Started == {t \in Trial : promise[t] # "none"}

\* No other trial has t's identifier.
Alone(t) == \A u \in Started \ {t} : moi[u] # moi[t]

(***************************************************************************)
(* The invariant.  The count field of an identifier is the rest of the     *)
(* counter it was drawn from, and no two trials drew the same counter: so  *)
(* identifiers that repeat were drawn CountSpan or more apart.  The map    *)
(* holds a trial under its own identifier, and only while it is pending or *)
(* its callback is due; a trial that is alone is held as long.  A script   *)
(* completes a trial with its own identifier only.                         *)
(***************************************************************************)
PageType ==
  /\ tick \in Int /\ counter \in Nat
  /\ promise \in [Trial -> {"none", "pending", "success", "failure"}]
  /\ moi \in [Trial -> Int \X Int]
  /\ ticket \in [Trial -> Nat]
  /\ answer \in [Trial -> SUBSET Trial]
  /\ script \in [Trial -> BOOLEAN]
  /\ callback \in [Trial -> {"none", "due", "done"}]

Identified ==
  /\ \A t \in Started : ticket[t] < counter /\ moi[t][2] = ticket[t] % CountSpan
  /\ \A t, u \in Started : ticket[t] = ticket[u] => t = u

Answered ==
  \A t \in Trial : \A u \in answer[t] : {t, u} \subseteq Started /\ moi[t] = moi[u]

Waits(t) == promise[t] = "pending" \/ callback[t] = "due"

Kept ==
  /\ \A e \in registry : \E t \in Started : e = <<moi[t], t>>
  /\ \A t \in Trial : script[t] \/ callback[t] # "none" => t \in Started
  /\ \A t \in Trial : <<moi[t], t>> \in registry => Waits(t)
  /\ \A t \in Trial : Waits(t) /\ Alone(t) => <<moi[t], t>> \in registry
  /\ \A t \in Trial : promise[t] = "pending" => callback[t] = "none"

IInv == PageType /\ Identified /\ Answered /\ Kept

\* Two draws less than CountSpan apart differ.
LEMMA DrawsDiffer ==
  ASSUME NEW n \in Nat \ {0}, NEW c \in Int, NEW j \in 1 .. n - 1
  PROVE  c % n # (c - j) % n
<1> DEFINE a == c \div n
           b == (c - j) \div n
           r == c % n
<1> SUFFICES ASSUME r = (c - j) % n PROVE FALSE
  OBVIOUS
<1>1. a \in Int /\ b \in Int /\ r \in Int /\ c = n * a + r /\ c - j = n * b + r
  OBVIOUS
<1> HIDE DEF a, b, r
<1>2. n * (a - b) = n * a - n * b /\ n * a \in Int /\ n * b \in Int
  BY <1>1
<1>3. j = n * (a - b)
  BY <1>1, <1>2
<1> DEFINE d == a - b
<1>4. d \in Int /\ j = n * d
  BY <1>1, <1>3
<1> HIDE DEF d
<1>5. CASE d =< 0
  <2>1. n * d =< 0
    BY <1>4, <1>5
  <2> QED
    BY <1>4, <2>1
<1>6. CASE d >= 1
  <2>1. n * d >= n
    BY <1>4, <1>6
  <2> QED
    BY <1>4, <2>1
<1> QED
  BY <1>4, <1>5, <1>6

\* Trials with one identifier are not told apart.
LEMMA SharedNotToldApart ==
  ASSUME JsonpAssumption, IInv, NEW t \in Started, NEW u \in Started, t # u,
         moi[t] = moi[u]
  PROVE  ~ ToldApart(t, u)
<1>1. /\ CountSpan \in Nat \ {0} /\ ticket[t] \in Nat /\ ticket[u] \in Nat
      /\ ticket[t] # ticket[u]
      /\ ticket[t] % CountSpan = ticket[u] % CountSpan
  BY DEF JsonpAssumption, IInv, PageType, Identified, Started
<1> DEFINE d == ticket[t] - ticket[u]
<1> SUFFICES ASSUME d \in -(CountSpan - 1) .. CountSpan - 1 PROVE FALSE
  BY DEF ToldApart
<1>2. CASE d > 0
  <2>1. d \in 1 .. CountSpan - 1 /\ ticket[t] \in Int /\ ticket[t] - d = ticket[u]
    BY <1>1, <1>2
  <2> QED
    BY <1>1, <2>1, DrawsDiffer
<1>3. CASE d < 0
  <2>1. -d \in 1 .. CountSpan - 1 /\ ticket[u] \in Int /\ ticket[u] - (-d) = ticket[t]
    BY <1>1, <1>3
  <2> QED
    BY <1>1, <2>1, DrawsDiffer
<1> QED
  BY <1>1, <1>2, <1>3

LEMMA InvInit == JsonpAssumption /\ Init => IInv
<1> SUFFICES ASSUME JsonpAssumption, Init PROVE IInv
  OBVIOUS
<1>1. PageType
  <2>1. MinTick \in Int
    BY DEF JsonpAssumption
  <2> QED
    BY <2>1 DEF Init, PageType, NoIdentifier
<1>2. Started = {}
  BY DEF Init, Started
<1>3. Identified /\ Answered
  BY <1>2 DEF Init, Identified, Answered
<1>4. Kept
  BY DEF Init, Kept, Waits
<1> QED
  BY <1>1, <1>3, <1>4 DEF IInv

\* A step that begins no trial leaves the identifiers as they were drawn.
LEMMA IdentifiedKept ==
  ASSUME IInv, Started' = Started, UNCHANGED <<moi, ticket>>,
         counter' \in {counter, counter + 1}
  PROVE  Identified' /\ \A t \in Trial : Alone(t)' = Alone(t)
<1>1. \A t \in Started : ticket[t] < counter'
  BY DEF IInv, PageType, Identified, Started
<1> QED
  BY <1>1 DEF IInv, Identified, Alone

\* The page's clock moves, or the page draws an identifier.
LEMMA PageStep ==
  ASSUME JsonpAssumption, IInv, Tick \/ StepBack \/ Draw
  PROVE  IInv'
<1>1. /\ UNCHANGED <<promise, moi, ticket, answer, script, callback, registry>>
      /\ counter' \in {counter, counter + 1}
  BY DEF Tick, StepBack, Draw
<1>2. tick' \in Int
  BY DEF Tick, StepBack, Draw, IInv, PageType, JsonpAssumption
<1>3. Started' = Started
  BY <1>1 DEF Started
<1>4. PageType'
  BY <1>1, <1>2 DEF IInv, PageType
<1>5. Identified' /\ \A t \in Trial : Alone(t)' = Alone(t)
  BY <1>1, <1>3, IdentifiedKept
<1>6. Answered'
  BY <1>1, <1>3 DEF IInv, Answered
<1>7. Kept'
  BY <1>1, <1>3, <1>5 DEF IInv, Kept, Waits
<1> QED
  BY <1>4, <1>5, <1>6, <1>7 DEF IInv

LEMMA TimeTrialStep ==
  ASSUME JsonpAssumption, IInv, NEW t \in Trial, TimeTrial(t)
  PROVE  IInv'
<1>1. /\ promise[t] = "none" /\ callback[t] = "none" /\ t \notin Started
      /\ \A e \in registry : e[2] # t
  BY DEF TimeTrial, IInv, Kept, PageType, Started
<1>2. /\ moi' = [moi EXCEPT ![t] = NextId]
      /\ ticket' = [ticket EXCEPT ![t] = counter]
      /\ promise' = [promise EXCEPT ![t] = "pending"]
      /\ registry' = IF Registered(NextId) = {} THEN registry \cup {<<NextId, t>>}
                                                ELSE registry
      /\ script' = [script EXCEPT ![t] = TRUE]
      /\ counter' = counter + 1
      /\ UNCHANGED <<tick, answer, callback>>
  BY DEF TimeTrial
<1>3. NextId \in Int \X Int /\ NextId[2] = counter % CountSpan
  <2>1. tick \in Int /\ counter \in Nat /\ CountSpan \in Nat \ {0}
    BY DEF IInv, PageType, JsonpAssumption
  <2> QED
    BY <2>1 DEF NextId
<1>4. PageType'
  BY <1>2, <1>3 DEF IInv, PageType
<1>5. Started' = Started \cup {t}
  BY <1>1, <1>2 DEF Started, IInv, PageType
<1>6. moi'[t] = NextId /\ ticket'[t] = counter
  BY <1>2 DEF IInv, PageType
<1>7. ASSUME NEW u \in Trial \ {t}
      PROVE  /\ moi'[u] = moi[u] /\ ticket'[u] = ticket[u] /\ promise'[u] = promise[u]
             /\ <<moi[u], u>> \in registry' <=> <<moi[u], u>> \in registry
  BY <1>2, <1>7 DEF IInv, PageType
<1>8. Identified'
  <2>1. \A u \in Started' : ticket'[u] < counter' /\ moi'[u][2] = ticket'[u] % CountSpan
    BY <1>1, <1>2, <1>3, <1>5, <1>6, <1>7 DEF IInv, PageType, Identified, Started
  <2>2. \A u \in Started : u # t /\ ticket'[u] < counter
    BY <1>1, <1>7 DEF IInv, Identified, Started
  <2>3. \A u \in Started : ticket'[u] # counter
    BY <2>2, <1>4 DEF IInv, PageType, Started
  <2>4. \A u, v \in Started' : ticket'[u] = ticket'[v] => u = v
    BY <1>5, <1>6, <1>7, <2>2, <2>3 DEF IInv, Identified, Started
  <2> QED
    BY <2>1, <2>4 DEF Identified
<1>9. Answered'
  BY <1>1, <1>2, <1>5, <1>7 DEF IInv, Answered, Started
<1>10. \A e \in registry' : \E u \in Started' : e = <<moi'[u], u>>
  BY <1>1, <1>2, <1>5, <1>6, <1>7 DEF IInv, Kept, Started
<1>11. \A u \in Trial : script'[u] \/ callback'[u] # "none" => u \in Started'
  BY <1>2, <1>5 DEF IInv, Kept, PageType
<1>12. Waits(t)' /\ callback'[t] = "none"
  BY <1>1, <1>2 DEF Waits, IInv, PageType
<1>13. Alone(t)' => <<moi'[t], t>> \in registry'
  <2> SUFFICES ASSUME Alone(t)' PROVE Registered(NextId) = {}
    BY <1>2, <1>6
  <2>1. \A u \in Started : moi[u] # NextId
    BY <1>1, <1>5, <1>6, <1>7 DEF Alone, Started
  <2> QED
    BY <2>1 DEF Registered, IInv, Kept
<1>14. ASSUME NEW u \in Trial \ {t}
       PROVE  /\ <<moi'[u], u>> \in registry' => Waits(u)'
              /\ Waits(u)' /\ Alone(u)' => <<moi'[u], u>> \in registry'
              /\ promise'[u] = "pending" => callback'[u] = "none"
  <2>1. Waits(u)' = Waits(u) /\ callback'[u] = callback[u]
    BY <1>2, <1>7 DEF Waits
  <2>2. Alone(u)' => Alone(u)
    BY <1>1, <1>5, <1>7 DEF Alone, Started
  <2> QED
    BY <1>7, <2>1, <2>2 DEF IInv, Kept
<1> QED
  <2>1. ASSUME NEW u \in Trial
        PROVE  /\ <<moi'[u], u>> \in registry' => Waits(u)'
               /\ Waits(u)' /\ Alone(u)' => <<moi'[u], u>> \in registry'
               /\ promise'[u] = "pending" => callback'[u] = "none"
    BY <1>12, <1>13, <1>14
  <2>2. Kept'
    BY <1>10, <1>11, <2>1 DEF Kept
  <2> QED
    BY <1>4, <1>8, <1>9, <2>2 DEF IInv

\* A trial that is completed stays registered until its callback runs.
LEMMA CompleteStep ==
  ASSUME JsonpAssumption, IInv, NEW t \in Trial, promise[t] = "pending",
         NEW result \in {"success", "failure"}, Complete(t, result),
         script' \in [Trial -> BOOLEAN],
         \A u \in Trial : script'[u] => script[u],
         answer' \in [Trial -> SUBSET Trial], Answered',
         UNCHANGED <<tick, counter, moi, ticket, registry>>
  PROVE  IInv'
<1>1. /\ promise' = [promise EXCEPT ![t] = result]
      /\ callback' = [callback EXCEPT ![t] = "due"]
  BY DEF Complete
<1>2. Started' = Started /\ t \in Started
  BY <1>1 DEF Started, IInv, PageType
<1>3. PageType'
  BY <1>1 DEF IInv, PageType
<1>4. Identified' /\ \A u \in Trial : Alone(u)' = Alone(u)
  BY <1>2, IdentifiedKept
<1>5. \A u \in Trial : script'[u] \/ callback'[u] # "none" => u \in Started'
  BY <1>1, <1>2 DEF IInv, Kept, PageType
<1>6. ASSUME NEW u \in Trial
      PROVE  Waits(u)' = Waits(u) /\ (promise'[u] = "pending" => callback'[u] = "none")
  BY <1>1 DEF IInv, Kept, PageType, Waits
<1>7. Kept'
  BY <1>2, <1>4, <1>5, <1>6 DEF IInv, Kept
<1> QED
  BY <1>3, <1>4, <1>7 DEF IInv

LEMMA RespondStep ==
  ASSUME JsonpAssumption, IInv, NEW t \in Trial, Respond(t)
  PROVE  IInv'
<1>1. PICK u \in Registered(moi[t]) :
        /\ promise[u] = "pending"
        /\ Complete(u, "success")
        /\ answer' = [answer EXCEPT ![u] = @ \cup {t}]
  BY DEF Respond
<1>2. u \in Trial /\ {t, u} \subseteq Started /\ moi[u] = moi[t]
  BY DEF Registered, Respond, IInv, Kept
<1>3. /\ script' = [script EXCEPT ![t] = FALSE]
      /\ UNCHANGED <<tick, counter, moi, ticket, registry>>
  BY DEF Respond
<1>4. /\ script' \in [Trial -> BOOLEAN]
      /\ \A v \in Trial : script'[v] => script[v]
  BY <1>3 DEF IInv, PageType
<1>5. answer' \in [Trial -> SUBSET Trial]
  BY <1>1, <1>2 DEF IInv, PageType
<1>6. Started' = Started
  BY <1>1, <1>2 DEF Complete, Started, IInv, PageType
<1>7. Answered'
  BY <1>1, <1>2, <1>3, <1>6 DEF IInv, PageType, Answered
<1> QED
  BY <1>1, <1>2, <1>3, <1>4, <1>5, <1>7, CompleteStep

LEMMA ExpireStep ==
  ASSUME JsonpAssumption, IInv, NEW t \in Trial, Expire(t)
  PROVE  IInv'
<1>1. /\ promise[t] = "pending" /\ Complete(t, "failure")
      /\ UNCHANGED <<tick, counter, moi, ticket, answer, script, registry>>
  BY DEF Expire
<1>2. /\ script' \in [Trial -> BOOLEAN] /\ answer' \in [Trial -> SUBSET Trial]
      /\ \A v \in Trial : script'[v] => script[v]
  BY <1>1 DEF IInv, PageType
<1>3. Started' = Started
  BY <1>1 DEF Complete, Started, IInv, PageType
<1>4. Answered'
  BY <1>1, <1>3 DEF IInv, Answered
<1> QED
  BY <1>1, <1>2, <1>4, CompleteStep

LEMMA RespondUnknownStep ==
  ASSUME JsonpAssumption, IInv, NEW t \in Trial, RespondUnknown(t)
  PROVE  IInv'
<1>1. /\ script' = [script EXCEPT ![t] = FALSE]
      /\ UNCHANGED <<tick, counter, promise, moi, ticket, answer, callback, registry>>
  BY DEF RespondUnknown
<1>2. Started' = Started
  BY <1>1 DEF Started
<1>3. Identified' /\ \A u \in Trial : Alone(u)' = Alone(u)
  BY <1>1, <1>2, IdentifiedKept
<1>4. PageType' /\ Answered'
  BY <1>1, <1>2 DEF IInv, PageType, Answered
<1>5. Kept'
  BY <1>1, <1>2, <1>3 DEF IInv, Kept, PageType, Waits
<1> QED
  BY <1>3, <1>4, <1>5 DEF IInv

\* The entry that goes is t's, or that of a trial which is not alone.
LEMMA RemoveStep ==
  ASSUME JsonpAssumption, IInv, NEW t \in Trial, Remove(t)
  PROVE  IInv'
<1>1. /\ callback[t] = "due"
      /\ callback' = [callback EXCEPT ![t] = "done"]
      /\ registry' = {e \in registry : e[1] # moi[t]}
      /\ UNCHANGED <<tick, counter, promise, moi, ticket, answer, script>>
  BY DEF Remove
<1>2. Started' = Started /\ t \in Started
  BY <1>1 DEF Started, IInv, Kept
<1>3. Identified' /\ \A u \in Trial : Alone(u)' = Alone(u)
  BY <1>1, <1>2, IdentifiedKept
<1>4. PageType' /\ Answered'
  BY <1>1, <1>2 DEF IInv, PageType, Answered
<1>5. \A u \in Trial : script'[u] \/ callback'[u] # "none" => u \in Started'
  BY <1>1, <1>2 DEF IInv, Kept, PageType
<1>6. ASSUME NEW u \in Trial
      PROVE  /\ <<moi[u], u>> \in registry' => Waits(u)'
             /\ Waits(u)' /\ Alone(u) => <<moi[u], u>> \in registry'
             /\ promise[u] = "pending" => callback'[u] = "none"
  <2>1. CASE u = t
    <3>1. <<moi[u], u>> \notin registry' /\ ~ Waits(u)' /\ promise[u] # "pending"
      BY <1>1, <2>1 DEF IInv, Kept, PageType, Waits
    <3> QED
      BY <3>1
  <2>2. CASE u # t
    <3>1. Waits(u)' = Waits(u) /\ callback'[u] = callback[u]
      BY <1>1, <2>2 DEF IInv, PageType, Waits
    <3>2. Alone(u) => moi[u] # moi[t]
      BY <1>2, <2>2 DEF Alone
    <3> QED
      BY <1>1, <3>1, <3>2 DEF IInv, Kept
  <2> QED
    BY <2>1, <2>2
<1>7. Kept'
  BY <1>1, <1>2, <1>3, <1>5, <1>6 DEF IInv, Kept
<1> QED
  BY <1>3, <1>4, <1>7 DEF IInv

LEMMA InvStep == JsonpAssumption /\ IInv /\ [Next]_vars => IInv'
<1> SUFFICES ASSUME JsonpAssumption, IInv, [Next]_vars PROVE IInv'
  OBVIOUS
<1>1. CASE UNCHANGED vars
  <2>1. /\ UNCHANGED <<tick, counter, promise, moi, ticket>>
        /\ UNCHANGED <<answer, script, callback, registry>>
    BY <1>1 DEF vars
  <2>2. Started' = Started
    BY <2>1 DEF Started
  <2> QED
    BY <2>1, <2>2 DEF IInv, PageType, Identified, Answered, Kept, Waits, Alone
<1> QED
  BY <1>1, PageStep, TimeTrialStep, RespondStep, RespondUnknownStep, ExpireStep,
     RemoveStep DEF Next

LEMMA Invariant == ASSUME JsonpAssumption PROVE Spec => []IInv
<1>1. Init => IInv
  BY InvInit
<1>2. IInv /\ [Next]_vars => IInv'
  BY InvStep
<1> QED
  BY <1>1, <1>2, PTL DEF Spec

\* What the invariant says of the answers.
LEMMA InvAnswers == JsonpAssumption /\ IInv => OwnAnswerOnly
<1> SUFFICES ASSUME JsonpAssumption, IInv, NEW t \in Trial, NEW u \in answer[t], u # t
             PROVE  ~ ToldApart(t, u)
  BY DEF OwnAnswerOnly
<1>1. t \in Started /\ u \in Started /\ moi[t] = moi[u]
  BY DEF IInv, Answered
<1> QED
  BY <1>1, SharedNotToldApart

\* What the invariant says of the map.
LEMMA InvRegistry == JsonpAssumption /\ IInv => RegistryExact
<1> SUFFICES ASSUME JsonpAssumption, IInv, NewTask, NEW t \in Trial
             PROVE  /\ t \in Registered(moi[t]) => promise[t] = "pending"
                    /\ /\ promise[t] = "pending"
                       /\ \A u \in Trial \ {t} : promise[u] # "none" => ToldApart(t, u)
                       => t \in Registered(moi[t])
  BY DEF RegistryExact
<1>1. t \in Registered(moi[t]) <=> <<moi[t], t>> \in registry
  BY DEF Registered
<1>2. callback[t] # "due"
  BY DEF NewTask
<1>3. ASSUME promise[t] = "pending",
             \A u \in Trial \ {t} : promise[u] # "none" => ToldApart(t, u)
      PROVE  Alone(t)
  <2>1. t \in Started
    BY <1>3 DEF Started
  <2>2. SUFFICES ASSUME NEW u \in Started \ {t}, moi[u] = moi[t] PROVE FALSE
    BY DEF Alone
  <2>3. ToldApart(t, u)
    BY <1>3 DEF Started
  <2> QED
    BY <2>1, <2>2, <2>3, SharedNotToldApart
<1> QED
  BY <1>1, <1>2, <1>3 DEF IInv, Kept, Waits

(***************************************************************************)
(* No answer completes a trial that is told apart from the one it was      *)
(* asked for, at another tick or fewer than CountSpan draws away, though   *)
(* identifiers repeat and the clock is set back at any time                *)
(* (JSONP.timeTrial and JSONP.logTimeTrial).                               *)
(***************************************************************************)
THEOREM AnswersOwn == ASSUME JsonpAssumption PROVE Spec => []OwnAnswerOnly
<1>1. IInv => OwnAnswerOnly
  BY InvAnswers
<1> QED
  BY <1>1, Invariant, PTL

(***************************************************************************)
(* Between tasks no completed trial is in the map, identifiers that repeat *)
(* included, and a pending trial that is told apart from all the others is *)
(* there, whatever was removed under theirs (JSONP.apply, logTimeTrial and *)
(* timeout).                                                               *)
(***************************************************************************)
THEOREM RegistryCorrect == ASSUME JsonpAssumption PROVE Spec => []RegistryExact
<1>1. IInv => RegistryExact
  BY InvRegistry
<1> QED
  BY <1>1, Invariant, PTL

=============================================================================
