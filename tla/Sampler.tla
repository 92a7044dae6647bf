------------------------------ MODULE Sampler ------------------------------
(***************************************************************************)
(* What a RemoteClock promises the program that owns it (start(), stop()   *)
(* and the loop of scheduleNextTrial in shared RemoteClock.scala): one     *)
(* loop, which waits and samples in turn for as long as the clock is live, *)
(* finishes the burst it is in when the clock is stopped, and then rests   *)
(* until it is started.  Of a clock that is started before it rests        *)
(* nothing is promised.                                                    *)
(***************************************************************************)

CONSTANT
  BurstsEnd  \* whether the trials of a burst are all recorded some time

VARIABLES
  live,    \* whether the clock is to measure
  phase    \* where the loop is: "resting", "waiting" or "sampling",
           \* or "several" when there may be more than one

vars == <<live, phase>>

\* The constructor starts the clock.
Init ==
  /\ live = TRUE
  /\ phase = "waiting"

Stop ==
  /\ live
  /\ live' = FALSE
  /\ UNCHANGED phase

\* A loop is begun by a clock that rests.
Start ==
  /\ ~ live
  /\ phase = "resting"
  /\ live' = TRUE
  /\ phase' = "waiting"

Sample ==
  /\ phase = "waiting"
  /\ live
  /\ phase' = "sampling"
  /\ UNCHANGED live

\* Every trial of the burst has been recorded, whatever became of it.
Finish ==
  /\ phase = "sampling"
  /\ phase' = "waiting"
  /\ UNCHANGED live

Rest ==
  /\ phase = "waiting"
  /\ ~ live
  /\ phase' = "resting"
  /\ UNCHANGED live

\* timeTrial() throws where a burst should begin: the clock stays live.
Break ==
  /\ phase = "waiting"
  /\ live
  /\ phase' = "resting"
  /\ UNCHANGED live

\* The clock is started before it rests, or twice at once.
Hurry ==
  /\ ~ live
  /\ phase # "several"
  /\ phase' = "several"
  /\ UNCHANGED live

Anything ==
  /\ phase = "several"
  /\ live' \in BOOLEAN
  /\ UNCHANGED phase

Next == Stop \/ Start \/ Sample \/ Finish \/ Rest \/ Break \/ Hurry \/ Anything

Safety == Init /\ [][Next]_vars

Spec ==
  /\ Safety
  /\ WF_vars(Sample \/ Rest \/ Break)
  /\ BurstsEnd => WF_vars(Finish)

=============================================================================
