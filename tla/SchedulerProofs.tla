-------------------------- MODULE SchedulerProofs --------------------------
(***************************************************************************)
(* What the TimeTrial scheduler guarantees for every number of callers,    *)
(* of chains and of trials in a burst, and for every longest wait.         *)
(***************************************************************************)
EXTENDS Scheduler, FiniteSetTheorems, TLAPS

\* What becomes of one trial of a burst, but for its answer.
TrialStep(c, k) == Expire(c, k) \/ RecordStep(c, k)

-----------------------------------------------------------------------------
(* Type correctness.                                                       *)

\* What one trial of a burst changes.
LEMMA TrialTypes ==
  ASSUME TypeOK, NEW c \in Chain, NEW k \in Burst,
         TrialStep(c, k) \/ Answer(c, k)
  PROVE  TypeOK'
<1> USE SchedulerAssumption DEF TypeOK
<1>1. CASE Answer(c, k)
  BY <1>1 DEF Answer, Become
<1>2. CASE Expire(c, k)
  BY <1>2 DEF Expire, Become
<1>3. CASE InitLog(c, k)
  BY <1>3 DEF InitLog, Become
<1>4. CASE LogTrial(c, k)
  <2>0. 0 \in 0 .. MaxWait /\ MaxWait \in 0 .. MaxWait
    OBVIOUS
  <2>1. PICK w \in 0 .. MaxWait : wait' = [wait EXCEPT ![c][k] = w]
    <3>1. CASE estimated
      BY <1>4, <3>1 DEF LogTrial
    <3>2. CASE ~ estimated
      BY <1>4, <2>0, <3>2 DEF LogTrial
    <3> QED
      BY <3>1, <3>2
  <2>2. wait' \in [Chain -> [Burst -> 0 .. MaxWait]]
    BY <2>1
  <2> QED
    BY <1>4, <2>2 DEF LogTrial, Become
<1>5. CASE RejectTrial(c, k)
  BY <1>5 DEF RejectTrial, Become
<1>6. CASE Recover(c, k)
  BY <1>6 DEF Recover, Become
<1> QED
  BY <1>1, <1>2, <1>3, <1>4, <1>5, <1>6 DEF TrialStep, RecordStep

\* The types hold initially and no step breaks them.
LEMMA TypeKept == (Init => TypeOK) /\ (TypeOK /\ [Next]_vars => TypeOK')
<1>1. Init => TypeOK
  <2> SUFFICES ASSUME Init
               PROVE  TypeOK
    OBVIOUS
  <2>1. 0 \in 0 .. MaxWait
    BY SchedulerAssumption
  <2>2. /\ delay \in [Chain -> 0 .. MaxWait]
        /\ wait \in [Chain -> [Burst -> 0 .. MaxWait]]
    BY <2>1 DEF Init, NoWaits
  <2>3. trial \in [Chain -> [Burst -> {"none", "pending", "answered", "failed",
                                       "logged", "recovered"}]]
    BY DEF Init, NoTrials
  <2> QED
    BY <2>2, <2>3 DEF Init, TypeOK
<1>2. TypeOK /\ [Next]_vars => TypeOK'
  <2> SUFFICES ASSUME TypeOK, [Next]_vars
               PROVE  TypeOK'
    OBVIOUS
  <2> USE SchedulerAssumption DEF TypeOK
  <2>1. CASE Stop
    BY <2>1 DEF Stop
  <2>2. ASSUME NEW u \in Caller, Start(u)
        PROVE  TypeOK'
    BY <2>2 DEF Start
  <2>3. ASSUME NEW u \in Caller, Resume(u)
        PROVE  TypeOK'
    BY <2>3 DEF Resume
  <2>4. ASSUME NEW c \in Chain, CheckLive(c)
        PROVE  TypeOK'
    <3>1. CASE live
      BY <2>4, <3>1 DEF CheckLive
    <3>2. CASE ~ live
      BY <2>4, <3>2, 0 \in 0 .. MaxWait DEF CheckLive, End
    <3> QED
      BY <3>1, <3>2
  <2>5. ASSUME NEW c \in Chain, Arm(c)
        PROVE  TypeOK'
    BY <2>5 DEF Arm
  <2>6. ASSUME NEW c \in Chain, Fire(c)
        PROVE  TypeOK'
    BY <2>6 DEF Fire
  <2>7. ASSUME NEW c \in Chain, FireStopped(c)
        PROVE  TypeOK'
    BY <2>7 DEF FireStopped, End
  <2>8. ASSUME NEW c \in Chain, FireThrows(c)
        PROVE  TypeOK'
    BY <2>8 DEF FireThrows, End
  <2>9. ASSUME NEW c \in Chain, NEW k \in Burst, TrialStep(c, k) \/ Answer(c, k)
        PROVE  TypeOK'
    BY <2>9, TrialTypes
  <2>10. ASSUME NEW c \in Chain, Complete(c)
         PROVE  TypeOK'
    <3>1. PICK d \in 0 .. MaxWait : delay' = [delay EXCEPT ![c] = d]
      BY <2>10 DEF Complete, Reschedule
    <3>2. NoTrials \in [Burst -> {"none"}] /\ NoWaits \in [Burst -> 0 .. MaxWait]
      <4>1. 0 \in 0 .. MaxWait
        OBVIOUS
      <4> QED
        BY <4>1 DEF NoTrials, NoWaits
    <3>3. /\ trial' = [trial EXCEPT ![c] = NoTrials]
          /\ wait' = [wait EXCEPT ![c] = NoWaits]
          /\ pc' = [pc EXCEPT ![c] = "schedule"]
          /\ UNCHANGED <<live, ready, estimated, caller, thrown, callback, hasty>>
      BY <2>10 DEF Complete, Reschedule
    <3>4. delay' \in [Chain -> 0 .. MaxWait]
      BY <3>1
    <3>5. wait' \in [Chain -> [Burst -> 0 .. MaxWait]]
      BY <3>2, <3>3
    <3>6. trial' \in [Chain -> [Burst -> {"none", "pending", "answered", "failed",
                                          "logged", "recovered"}]]
      <4>1. NoTrials \in [Burst -> {"none", "pending", "answered", "failed",
                                    "logged", "recovered"}]
        BY DEF NoTrials
      <4> QED
        BY <3>3, <4>1
    <3> QED
      BY <3>3, <3>4, <3>5, <3>6
  <2>11. CASE RunCallback
    BY <2>11 DEF RunCallback
  <2>12. CASE UNCHANGED vars
    BY <2>12 DEF vars
  <2> QED
    BY <2>1, <2>2, <2>3, <2>4, <2>5, <2>6, <2>7, <2>8, <2>9, <2>10, <2>11, <2>12
       DEF Next, ChainStep, TimerStep, ExecutorStep, TrialStep
<1> QED
  BY <1>1, <1>2

(***************************************************************************)
(* In every execution each chain is in one of the places of the loop, and  *)
(* no wait exceeds maxWait.                                                *)
(***************************************************************************)
THEOREM TypeCorrect == Spec => []TypeOK
  BY TypeKept, PTL DEF Spec

-----------------------------------------------------------------------------
(* The loop goes on.                                                       *)

(***************************************************************************)
(* No interleaving of start(), stop() and the tasks that read live, and no *)
(* outcome of a trial, takes the chain from a live clock: only a           *)
(* timeTrial() that throws does (RemoteClock.scala:171).                   *)
(***************************************************************************)
THEOREM LoopGoesOn == Spec => []OnlyThrowsEndTheLoop
<1>1. Init => OnlyThrowsEndTheLoop
  <2>1. 1 \in Chain
    BY SchedulerAssumption DEF Chain
  <2> QED
    BY <2>1 DEF Init, OnlyThrowsEndTheLoop, LiveMeansRunning, Chains
<1>2. OnlyThrowsEndTheLoop /\ TypeOK /\ [Next]_vars => OnlyThrowsEndTheLoop'
  <2> SUFFICES ASSUME OnlyThrowsEndTheLoop, TypeOK, [Next]_vars
               PROVE  OnlyThrowsEndTheLoop'
    OBVIOUS
  <2> USE DEF OnlyThrowsEndTheLoop, LiveMeansRunning, Chains
  <2>0. pc \in [Chain -> {"none", "schedule", "arm", "armed", "burst"}]
    BY DEF TypeOK
  <2>1. CASE Stop
    BY <2>1 DEF Stop
  <2>2. ASSUME NEW u \in Caller, Start(u)
        PROVE  OnlyThrowsEndTheLoop'
    BY <2>2 DEF Start
  <2>3. ASSUME NEW u \in Caller, Resume(u)
        PROVE  OnlyThrowsEndTheLoop'
    BY <2>0, <2>3 DEF Resume
  <2>4. ASSUME NEW c \in Chain, CheckLive(c)
        PROVE  OnlyThrowsEndTheLoop'
    BY <2>0, <2>4 DEF CheckLive, End
  <2>5. ASSUME NEW c \in Chain, Arm(c)
        PROVE  OnlyThrowsEndTheLoop'
    BY <2>0, <2>5 DEF Arm
  <2>6. ASSUME NEW c \in Chain, Fire(c)
        PROVE  OnlyThrowsEndTheLoop'
    BY <2>0, <2>6 DEF Fire
  <2>7. ASSUME NEW c \in Chain, FireStopped(c)
        PROVE  OnlyThrowsEndTheLoop'
    BY <2>7 DEF FireStopped
  <2>8. ASSUME NEW c \in Chain, FireThrows(c)
        PROVE  OnlyThrowsEndTheLoop'
    BY <2>8 DEF FireThrows
  <2>9. ASSUME NEW c \in Chain, NEW k \in Burst, TrialStep(c, k) \/ Answer(c, k)
        PROVE  OnlyThrowsEndTheLoop'
    BY <2>9 DEF TrialStep, RecordStep, Answer, Expire, InitLog, LogTrial, RejectTrial,
                Recover, Become
  <2>10. ASSUME NEW c \in Chain, Complete(c)
         PROVE  OnlyThrowsEndTheLoop'
    <3>1. pc'[c] = "schedule"
      BY <2>0, <2>10 DEF Complete, Reschedule
    <3> QED
      BY <3>1
  <2>11. CASE RunCallback
    BY <2>11 DEF RunCallback
  <2>12. CASE UNCHANGED vars
    BY <2>12 DEF vars
  <2> QED
    BY <2>1, <2>2, <2>3, <2>4, <2>5, <2>6, <2>7, <2>8, <2>9, <2>10, <2>11, <2>12
       DEF Next, ChainStep, TimerStep, ExecutorStep, TrialStep
<1> QED
  BY <1>1, <1>2, TypeCorrect, PTL DEF Spec

-----------------------------------------------------------------------------
(* A failure backs off.                                                    *)

\* A recovered trial has suggested the longest wait and nothing changes it
\* before the burst is complete.
RecoveredWaitsLongest ==
  \A c \in Chain, k \in Burst : trial[c][k] = "recovered" => wait[c][k] = MaxWait

LEMMA RecoveredInvariant == Spec => []RecoveredWaitsLongest
<1>1. Init => RecoveredWaitsLongest
  BY DEF Init, RecoveredWaitsLongest, NoTrials
<1>2. RecoveredWaitsLongest /\ TypeOK /\ [Next]_vars => RecoveredWaitsLongest'
  <2> SUFFICES ASSUME RecoveredWaitsLongest, TypeOK, [Next]_vars
               PROVE  RecoveredWaitsLongest'
    OBVIOUS
  <2> USE DEF RecoveredWaitsLongest
  <2>0. /\ trial \in [Chain -> [Burst -> {"none", "pending", "answered", "failed",
                                          "logged", "recovered"}]]
        /\ wait \in [Chain -> [Burst -> 0 .. MaxWait]]
    BY DEF TypeOK
  <2>1. CASE UNCHANGED <<trial, wait>>
    BY <2>1
  <2>2. CASE Stop \/ RunCallback \/ UNCHANGED vars
    BY <2>1, <2>2 DEF Stop, RunCallback, vars
  <2>3. ASSUME NEW u \in Caller, Start(u) \/ Resume(u)
        PROVE  RecoveredWaitsLongest'
    BY <2>1, <2>3 DEF Start, Resume
  <2>4. ASSUME NEW c \in Chain,
               CheckLive(c) \/ Arm(c) \/ FireStopped(c) \/ FireThrows(c)
        PROVE  RecoveredWaitsLongest'
    BY <2>1, <2>4 DEF CheckLive, Arm, FireStopped, FireThrows
  <2>5. ASSUME NEW c \in Chain, Fire(c)
        PROVE  RecoveredWaitsLongest'
    BY <2>0, <2>5 DEF Fire
  <2>6. ASSUME NEW c \in Chain, NEW k \in Burst,
               Answer(c, k) \/ Expire(c, k) \/ InitLog(c, k)
        PROVE  RecoveredWaitsLongest'
    BY <2>0, <2>6 DEF Answer, Expire, InitLog, Become
  <2>7. ASSUME NEW c \in Chain, NEW k \in Burst, LogTrial(c, k) \/ RejectTrial(c, k)
        PROVE  RecoveredWaitsLongest'
    <3>1. trial' = [trial EXCEPT ![c][k] = "logged"]
      BY <2>7 DEF LogTrial, RejectTrial, Become
    <3>2. PICK w : wait' = [wait EXCEPT ![c][k] = w]
      BY <2>7 DEF LogTrial, RejectTrial
    <3> QED
      BY <2>0, <3>1, <3>2
  <2>8. ASSUME NEW c \in Chain, NEW k \in Burst, Recover(c, k)
        PROVE  RecoveredWaitsLongest'
    BY <2>0, <2>8 DEF Recover, Become
  <2>9. ASSUME NEW c \in Chain, Complete(c)
        PROVE  RecoveredWaitsLongest'
    BY <2>0, <2>9 DEF Complete, Reschedule, NoTrials
  <2> QED
    BY <2>2, <2>3, <2>4, <2>5, <2>6, <2>7, <2>8, <2>9
       DEF Next, ChainStep, TimerStep, ExecutorStep, TrialStep, RecordStep
<1> QED
  BY <1>1, <1>2, TypeCorrect, PTL DEF Spec

(***************************************************************************)
(* A burst in which a trial failed is followed by the longest wait         *)
(* (RemoteClock.scala:182-185), whatever its other trials suggest.         *)
(***************************************************************************)
THEOREM FailuresBackOff == Spec => FailureBacksOff
<1> DEFINE Step(c) ==
      /\ pc[c] = "burst" /\ pc'[c] = "schedule"
      /\ \E k \in Burst : trial[c][k] = "recovered"
<1>1. TypeOK /\ RecoveredWaitsLongest /\ [Next]_vars =>
        [\A c \in Chain : Step(c) => delay'[c] = MaxWait]_vars
  <2> SUFFICES ASSUME TypeOK, RecoveredWaitsLongest, Next,
                      NEW c \in Chain, Step(c)
               PROVE  delay'[c] = MaxWait
    OBVIOUS
  <2>0. /\ pc \in [Chain -> {"none", "schedule", "arm", "armed", "burst"}]
        /\ delay \in [Chain -> 0 .. MaxWait]
        /\ MaxWait \in Nat
    BY SchedulerAssumption DEF TypeOK
  <2>1. Complete(c)
    <3>1. ~ Stop /\ ~ RunCallback
      BY DEF Stop, RunCallback
    <3>2. \A u \in Caller : ~ Start(u) /\ ~ Resume(u)
      BY <2>0 DEF Start, Resume, Chains
    <3>3. \A e \in Chain : ~ CheckLive(e) /\ ~ Arm(e) /\ ~ Fire(e)
                             /\ ~ FireStopped(e) /\ ~ FireThrows(e)
      BY <2>0 DEF CheckLive, Arm, Fire, FireStopped, FireThrows, End
    <3>4. \A e \in Chain, k \in Burst : ~ TrialStep(e, k) /\ ~ Answer(e, k)
      BY DEF TrialStep, RecordStep, Answer, Expire, InitLog, LogTrial, RejectTrial,
             Recover, Become
    <3>5. PICK e \in Chain : Complete(e)
      BY <3>1, <3>2, <3>3, <3>4 DEF Next, ChainStep, TimerStep, ExecutorStep, TrialStep
    <3>6. e = c
      BY <2>0, <3>5 DEF Complete, Reschedule
    <3> QED
      BY <3>5, <3>6
  <2>2. PICK d \in 0 .. MaxWait :
          LongestWait(c, d) /\ delay' = [delay EXCEPT ![c] = d]
    BY <2>1 DEF Complete, Reschedule
  <2>3. PICK k \in Burst : wait[c][k] = MaxWait
    BY DEF RecoveredWaitsLongest
  <2>4. MaxWait =< d
    BY <2>2, <2>3 DEF LongestWait, Waits
  <2>5. d = MaxWait
    BY <2>0, <2>2, <2>4
  <2> QED
    BY <2>0, <2>2, <2>5
<1> QED
  BY <1>1, TypeCorrect, RecoveredInvariant, PTL DEF Spec, FailureBacksOff

-----------------------------------------------------------------------------
(* One loop, for a program that starts the clock only when it rests.       *)

\* There is one chain at most, and none while a thread is about to begin one.
OneLoop ==
  /\ ~ hasty
  /\ \A c, d \in Chains : c = d
  /\ \A u \in Caller : caller[u] = "resuming" =>
       /\ Chains = {}
       /\ ~ live
       /\ \A v \in Caller : caller[v] = "resuming" => v = u

LEMMA OneLoopKept ==
  ASSUME TypeOK, OneLoop, Next, ~ hasty'
  PROVE  OneLoop'
<1>0. /\ pc \in [Chain -> {"none", "schedule", "arm", "armed", "burst"}]
      /\ caller \in [Caller -> {"idle", "resuming"}]
  BY DEF TypeOK
<1>1. CASE Stop
  BY <1>1 DEF Stop, OneLoop, Chains
<1>2. ASSUME NEW u \in Caller, Start(u)
      PROVE  OneLoop'
  <2>1. Chains = {} /\ \A v \in Caller : caller[v] = "idle"
    BY <1>2 DEF Start, AtRest
  <2> QED
    BY <1>0, <1>2, <2>1 DEF Start, OneLoop, Chains
<1>3. ASSUME NEW u \in Caller, Resume(u)
      PROVE  OneLoop'
  <2>1. Chains = {}
    BY <1>3 DEF Resume, OneLoop
  <2>2. PICK c \in Chain : pc' = [pc EXCEPT ![c] = "schedule"]
    BY <1>3 DEF Resume
  <2>3. \A d \in Chain : pc'[d] # "none" => d = c
    BY <1>0, <2>1, <2>2 DEF Chains
  <2>4. \A v \in Caller : caller'[v] = "idle"
    BY <1>0, <1>3 DEF Resume, OneLoop
  <2> QED
    BY <2>3, <2>4 DEF OneLoop, Chains
<1>4. ASSUME Chains' \subseteq Chains, UNCHANGED <<live, caller>>
      PROVE  OneLoop'
  BY <1>4 DEF OneLoop
<1>5. ASSUME NEW c \in Chain, ChainStep(c)
      PROVE  OneLoop'
  <2>1. Chains' \subseteq Chains
    <3>1. pc[c] # "none" \/ pc' = pc
      BY <1>5 DEF ChainStep, TimerStep, ExecutorStep, CheckLive, Arm, Fire,
                  FireStopped, FireThrows, TrialStep, RecordStep, Expire, InitLog,
                  LogTrial, RejectTrial, Recover, Become, Complete
    <3>2. \A d \in Chain : d # c => pc'[d] = pc[d]
      BY <1>0, <1>5 DEF ChainStep, TimerStep, ExecutorStep, CheckLive, Arm, Fire,
                        FireStopped, FireThrows, End, TrialStep, RecordStep, Expire,
                        InitLog, LogTrial, RejectTrial, Recover, Become, Complete,
                        Reschedule
    <3> QED
      BY <3>1, <3>2 DEF Chains
  <2>2. UNCHANGED <<live, caller>>
    BY <1>5 DEF ChainStep, TimerStep, ExecutorStep, CheckLive, Arm, Fire, FireStopped,
                FireThrows, TrialStep, RecordStep, Expire, InitLog, LogTrial,
                RejectTrial, Recover, Become, Complete, Reschedule
  <2> QED
    BY <1>4, <2>1, <2>2
<1>6. ASSUME NEW c \in Chain, NEW k \in Burst, Answer(c, k)
      PROVE  OneLoop'
  BY <1>4, <1>6 DEF Answer, Become, Chains
<1>7. CASE RunCallback
  BY <1>4, <1>7 DEF RunCallback, Chains
<1> QED
  BY <1>1, <1>2, <1>3, <1>5, <1>6, <1>7 DEF Next

\* Once hasty, always hasty.
LEMMA HastyStays ==
  ASSUME hasty, [Next]_vars
  PROVE  hasty'
<1>1. CASE UNCHANGED vars
  BY <1>1 DEF vars
<1>2. ASSUME NEW u \in Caller, Start(u) \/ Resume(u)
      PROVE  hasty'
  BY <1>2 DEF Start, Resume
<1>3. ASSUME NEW c \in Chain, ChainStep(c)
      PROVE  hasty'
  BY <1>3 DEF ChainStep, TimerStep, ExecutorStep, CheckLive, Arm, Fire, FireStopped,
              FireThrows, TrialStep, RecordStep, Expire, InitLog, LogTrial,
              RejectTrial, Recover, Become, Complete, Reschedule
<1>4. CASE Stop \/ RunCallback \/ \E c \in Chain, k \in Burst : Answer(c, k)
  BY <1>4 DEF Stop, RunCallback, Answer, Become
<1> QED
  BY <1>1, <1>2, <1>3, <1>4 DEF Next

PatientMeansOneLoop == hasty \/ OneLoop

LEMMA OneLoopInvariant == Spec => []PatientMeansOneLoop
<1>1. Init => PatientMeansOneLoop
  BY DEF Init, OneLoop, Chains, PatientMeansOneLoop
<1>2. TypeOK /\ PatientMeansOneLoop /\ [Next]_vars => PatientMeansOneLoop'
  <2>1. OneLoop /\ UNCHANGED vars => OneLoop'
    BY DEF OneLoop, Chains, vars
  <2> QED
    BY <2>1, OneLoopKept, HastyStays DEF PatientMeansOneLoop
<1> QED
  BY <1>1, <1>2, TypeCorrect, PTL DEF Spec

(***************************************************************************)
(* Two bursts never run at once, however stop() interleaves with the tasks *)
(* (RemoteClock.scala:77), if start() is called only when the last loop is *)
(* over and by one thread at a time.                                       *)
(***************************************************************************)
THEOREM OneBurst == Spec => []PatientMeansOneBurst
<1>1. OneLoop => AtMostOneBurst
  <2> SUFFICES ASSUME OneLoop
               PROVE  AtMostOneBurst
    OBVIOUS
  <2> DEFINE bursting == {c \in Chain : pc[c] = "burst"}
  <2>1. CASE bursting = {}
    BY <2>1, FS_EmptySet DEF AtMostOneBurst
  <2>2. CASE bursting # {}
    <3>1. PICK c : bursting = {c}
      BY <2>2 DEF OneLoop, Chains
    <3> QED
      BY <3>1, FS_Singleton DEF AtMostOneBurst
  <2> QED
    BY <2>1, <2>2
<1>2. PatientMeansOneLoop => PatientMeansOneBurst
  BY <1>1 DEF PatientMeansOneLoop, PatientMeansOneBurst
<1> QED
  BY <1>2, OneLoopInvariant, PTL

\* With one loop, the chain that moves is the clock's phase.
LEMMA PhaseOf ==
  ASSUME TypeOK, OneLoop, NEW c \in Chain, pc[c] # "none"
  PROVE  Phase = IF pc[c] = "burst" THEN "sampling" ELSE "waiting"
<1>1. \A d \in Chain : pc[d] # "none" => d = c
  BY DEF OneLoop, Chains
<1>2. c \in Chains
  BY DEF Chains
<1>3. (\E d \in Chain : pc[d] = "burst") <=> pc[c] = "burst"
  BY <1>1
<1> QED
  BY <1>2, <1>3 DEF Phase, OneLoop

LEMMA PhaseNone ==
  ASSUME Chains = {}, ~ hasty
  PROVE  Phase = "resting"
BY DEF Phase, Chains

\* A step of the loop is a step of its phase.
LEMMA ChainStepMaps ==
  ASSUME TypeOK, OneLoop, TypeOK', OneLoop', NEW c \in Chain, ChainStep(c)
  PROVE  [Clock!Next]_(Clock!vars)
<1>0. pc \in [Chain -> {"none", "schedule", "arm", "armed", "burst"}]
  BY DEF TypeOK
<1>a. ASSUME pc[c] # "none"
      PROVE  Phase = IF pc[c] = "burst" THEN "sampling" ELSE "waiting"
  BY <1>a, PhaseOf
<1>b. ASSUME pc'[c] # "none"
      PROVE  Phase' = IF pc'[c] = "burst" THEN "sampling" ELSE "waiting"
  <2>1. \A d \in Chain : pc'[d] # "none" => d = c
    BY <1>b DEF OneLoop, Chains
  <2>2. (Chains # {})'
    BY <1>b DEF Chains
  <2>3. (\E d \in Chain : pc'[d] = "burst") <=> pc'[c] = "burst"
    BY <2>1
  <2> QED
    BY <2>2, <2>3 DEF Phase, OneLoop
<1>c. ASSUME pc' = [pc EXCEPT ![c] = "none"], pc[c] # "none"
      PROVE  Phase' = "resting"
  <2>1. \A d \in Chain : pc'[d] = "none"
    BY <1>0, <1>c DEF OneLoop, Chains
  <2> QED
    BY <2>1 DEF Phase, Chains, OneLoop
<1>1. CASE CheckLive(c)
  <2>1. CASE live
    BY <1>0, <1>1, <1>a, <1>b, <2>1 DEF CheckLive, Clock!vars
  <2>2. CASE ~ live
    BY <1>0, <1>1, <1>a, <1>c, <2>2 DEF CheckLive, End, Clock!Next, Clock!Rest
  <2> QED
    BY <2>1, <2>2
<1>2. CASE Arm(c)
  BY <1>0, <1>2, <1>a, <1>b DEF Arm, Clock!vars
<1>3. CASE Fire(c)
  BY <1>0, <1>3, <1>a, <1>b DEF Fire, Clock!Next, Clock!Sample
<1>4. CASE FireStopped(c)
  BY <1>0, <1>4, <1>a, <1>c DEF FireStopped, End, Clock!Next, Clock!Rest
<1>5. CASE FireThrows(c)
  BY <1>0, <1>5, <1>a, <1>c DEF FireThrows, End, Clock!Next, Clock!Break
<1>6. ASSUME NEW k \in Burst, TrialStep(c, k)
      PROVE  UNCHANGED Clock!vars
  BY <1>6 DEF TrialStep, RecordStep, Expire, InitLog, LogTrial, RejectTrial, Recover,
              Become, Clock!vars, Phase, Chains
<1>7. CASE Complete(c)
  BY <1>0, <1>7, <1>a, <1>b DEF Complete, Reschedule, Clock!Next, Clock!Finish
<1> QED
  BY <1>1, <1>2, <1>3, <1>4, <1>5, <1>6, <1>7
     DEF ChainStep, TimerStep, ExecutorStep, TrialStep

(***************************************************************************)
(* For a program that starts the clock only when it rests, each step of    *)
(* the scheduler is one that Sampler allows: the loop waits and samples in *)
(* turn, ends only where the clock is stopped or timeTrial() throws, and   *)
(* no burst is cut short (scheduleNextTrial, RemoteClock.scala:163).       *)
(***************************************************************************)
THEOREM ImplementsSampler == Spec => Clock!Safety
<1>1. Init => Clock!Init
  <2> SUFFICES ASSUME Init PROVE Clock!Init
    OBVIOUS
  <2>1. 1 \in Chain
    BY SchedulerAssumption DEF Chain
  <2>2. Chains # {} /\ \A c \in Chain : pc[c] # "burst"
    BY <2>1 DEF Init, Chains
  <2> QED
    BY <2>2 DEF Init, Clock!Init, Phase
<1>2. ASSUME TypeOK, TypeOK', OneLoop, OneLoop', [Next]_vars
      PROVE  [Clock!Next]_(Clock!vars)
  <2>1. CASE Stop
    BY <1>2, <2>1 DEF Stop, Clock!Next, Clock!Stop, Phase, Chains
  <2>2. ASSUME NEW u \in Caller, Start(u)
        PROVE  UNCHANGED Clock!vars
    BY <1>2, <2>2 DEF Start, OneLoop, Clock!vars, Phase, Chains
  <2>3. ASSUME NEW u \in Caller, Resume(u)
        PROVE  Clock!Start
    <3>1. ~ live /\ Phase = "resting"
      BY <1>2, <2>3, PhaseNone DEF Resume, OneLoop
    <3>2. PICK c \in Chain : pc' = [pc EXCEPT ![c] = "schedule"]
      BY <2>3 DEF Resume
    <3>3. pc'[c] = "schedule" /\ \A d \in Chain : d # c => pc'[d] = pc[d]
      BY <1>2, <3>2 DEF TypeOK
    <3>4. \A d \in Chain : pc[d] = "none"
      BY <1>2, <2>3 DEF Resume, OneLoop, Chains
    <3>5. Phase' = "waiting"
      BY <1>2, <3>3, <3>4 DEF Phase, Chains, OneLoop
    <3> QED
      BY <2>3, <3>1, <3>5 DEF Resume, Clock!Start
  <2>4. ASSUME NEW c \in Chain, ChainStep(c)
        PROVE  [Clock!Next]_(Clock!vars)
    BY <1>2, <2>4, ChainStepMaps
  <2>5. ASSUME NEW c \in Chain, NEW k \in Burst, Answer(c, k)
        PROVE  UNCHANGED Clock!vars
    BY <2>5 DEF Answer, Become, Clock!vars, Phase, Chains
  <2>6. CASE RunCallback \/ UNCHANGED vars
    BY <2>6 DEF RunCallback, vars, Clock!vars, Phase, Chains
  <2> QED
    BY <1>2, <2>1, <2>2, <2>3, <2>4, <2>5, <2>6 DEF Next, Clock!Next
<1>3. ASSUME ~ hasty, hasty', Next
      PROVE  Clock!Hurry
  <2>1. PICK u \in Caller : Start(u)
    <3>1. ~ Stop /\ ~ RunCallback /\ \A u \in Caller : ~ Resume(u)
      BY <1>3 DEF Stop, RunCallback, Resume
    <3>2. \A c \in Chain : ~ ChainStep(c) /\ \A k \in Burst : ~ Answer(c, k)
      BY <1>3 DEF ChainStep, TimerStep, ExecutorStep, CheckLive, Arm, Fire,
                  FireStopped, FireThrows, TrialStep, RecordStep, Expire, InitLog,
                  LogTrial, RejectTrial, Recover, Answer, Become, Complete, Reschedule
    <3> QED
      BY <1>3, <3>1, <3>2 DEF Next
  <2> QED
    BY <1>3, <2>1 DEF Start, Phase, Clock!Hurry
<1>4. ASSUME hasty, hasty', TypeOK'
      PROVE  Clock!Anything
  BY <1>4 DEF TypeOK, Phase, Clock!Anything
<1>5. /\ TypeOK /\ TypeOK' /\ PatientMeansOneLoop /\ PatientMeansOneLoop'
      /\ [Next]_vars
      => [Clock!Next]_(Clock!vars)
  <2> SUFFICES ASSUME TypeOK, TypeOK', PatientMeansOneLoop, PatientMeansOneLoop',
                      [Next]_vars
               PROVE  [Clock!Next]_(Clock!vars)
    OBVIOUS
  <2>1. CASE hasty
    BY <1>4, <2>1, HastyStays DEF Clock!Next
  <2>2. CASE ~ hasty /\ hasty'
    <3>1. Next
      BY <2>2 DEF vars
    <3> QED
      BY <1>3, <2>2, <3>1 DEF Clock!Next
  <2>3. CASE ~ hasty /\ ~ hasty'
    BY <1>2, <2>3 DEF PatientMeansOneLoop
  <2> QED
    BY <2>1, <2>2, <2>3
<1> QED
  BY <1>1, <1>5, TypeCorrect, OneLoopInvariant, PTL DEF Spec, Clock!Safety

=============================================================================
