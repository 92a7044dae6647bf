------------------------------ MODULE LagModel ------------------------------
(***************************************************************************)
(* What RemoteClock.logTimeTrial computes from one time trial (shared      *)
(* RemoteClock.scala): the new estimate of DeltaT, the new model of the    *)
(* request lag, and the wait suggested before the next trial.              *)
(*                                                                         *)
(* An estimator is what a RemoteClockState keeps:                          *)
(*   deltaT     the AtomicLong DT                                          *)
(*   L          the lags seen, a stream.Poisson: their number, sum, min    *)
(*   lq         E_NormalizedLq, a stream.Gaussian: the number of its       *)
(*              samples and their sum, an exact fraction num / den         *)
(*   successes  successTrials                                              *)
(*   failures   failedTrials                                               *)
(*                                                                         *)
(* Doubles are exact fractions here; den = 0 is NaN, which the mean of an  *)
(* empty stream is and which a sample of NaN makes of the sum.  toLong     *)
(* truncates and takes NaN to 0, as on the JVM and in Scala.js.            *)
(***************************************************************************)
EXTENDS Integers, FiniteSetsExt

CONSTANTS
  HalfInt,    \* 2^31: half the values of the Int that holds a lag
  Timeout,    \* timeoutMilliseconds of the trials
  MaxWait,    \* maxWait
  WaitScale   \* 1000.0 in the formula of the wait

ASSUME LagModelAssumption ==
  /\ HalfInt \in Nat \ {0}
  /\ Timeout \in Nat \ {0} /\ Timeout < HalfInt
  /\ MaxWait \in Nat \ {0}
  /\ WaitScale \in Nat \ {0}

-----------------------------------------------------------------------------
(* Numbers.                                                                *)

\* (E - S).toInt
ToInt(x) == ((x + HalfInt) % (2 * HalfInt)) - HalfInt

\* (num / den).toLong
ToLong(num, den) ==
  IF den = 0 THEN 0
  ELSE IF num >= 0 THEN num \div den ELSE -((-num) \div den)

Abs(x) == IF x < 0 THEN -x ELSE x

\* The fraction num / den in lowest terms: equal sums are equal values.
Fraction(num, den) ==
  LET g == Max({d \in 1 .. den : num % d = 0 /\ den % d = 0})
  IN  IF den = 0 THEN [num |-> 0, den |-> 0]
      ELSE [num |-> num \div g, den |-> den \div g]

-----------------------------------------------------------------------------
(* The streams of the statistics library.                                  *)

NoLag == [n |-> 0, sum |-> 0, min |-> 0]

\* stream.Poisson.apply: a lag is observed.
AddLag(L, l) ==
  [n |-> L.n + 1, sum |-> L.sum + l,
   min |-> IF L.n = 0 \/ l < L.min THEN l ELSE L.min]

EmptyGaussian == [n |-> 0, num |-> 0, den |-> 1]

\* new Gaussian, given the sample 0.5
ResetGaussian == [n |-> 1, num |-> 1, den |-> 2]

\* stream.Gaussian.apply of the sample num / den
AddSample(lq, num, den) ==
  LET sum == Fraction(lq.num * den + num * lq.den, lq.den * den)
  IN  [n |-> lq.n + 1, num |-> sum.num, den |-> sum.den]

\* The mean of a stream.Gaussian is num / MeanDen: NaN when it is empty.
MeanDen(lq) == lq.den * lq.n

-----------------------------------------------------------------------------
(* RemoteClockState.                                                       *)

Estimator ==
  [deltaT : Int, L : [n : Nat, sum : Nat, min : 0 .. Timeout],
   lq : [n : Nat, num : Int, den : Nat], successes : Nat, failures : Nat]

NewEstimator ==
  [deltaT |-> 0, L |-> NoLag, lq |-> EmptyGaussian, successes |-> 0, failures |-> 0]

\* Whether the mean of the request lags is a number.
HasMean(e) == MeanDen(e.lq) # 0

\* Mutation: the new stream is given no first sample.
SetDeltaTUnsampled(e, dT) ==
  IF dT = e.deltaT THEN e
  ELSE [e EXCEPT !.deltaT = dT, !.lq = EmptyGaussian]

\* deltaT(dT): a new value resets the request lag model, an old one does not.
SetDeltaT(e, dT) ==
  IF dT = e.deltaT THEN e
  ELSE [e EXCEPT !.deltaT = dT, !.lq = ResetGaussian]

ReportFailure(e) == [e EXCEPT !.failures = @ + 1]

-----------------------------------------------------------------------------
(* logTimeTrial(pendingTimeTrial, E), for a trial begun at S and stamped   *)
(* ts by the server.                                                       *)

Lag(S, E) == ToInt(E - S)

Rejected(S, E) == Lag(S, E) < 0 \/ Lag(S, E) > Timeout

\* A lag of 0: the stamp is the local time.
PerfectTrial(e, S, ts) == SetDeltaT(e, ts - S)

\* The first success: half the lag is added to ts - S.
FirstTrial(e, S, ts, l) == SetDeltaT(e, ts - S + ToLong(l, 2))

\* E_ts, the stamp that the estimate and the lag model predict.
Predicted(e, S, l) ==
  ToLong((e.deltaT + S) * MeanDen(e.lq) + e.lq.num * l, MeanDen(e.lq))

\* lq * l, the request lag of a trial with prediction error p, times the
\* denominator MeanDen(e.lq).
RequestLag(e, l, p) == e.lq.num * l + p * MeanDen(e.lq)

\* A lag below the mean refines the lag model; the least lag so far moves
\* the estimate too.
LowLagTrial(e, S, ts, l) ==
  LET p == ts - Predicted(e, S, l)
      q == RequestLag(e, l, p)
      f == IF l =< e.L.min
           THEN SetDeltaT(e, ts - S + ToLong(q, MeanDen(e.lq)))
           ELSE e
  IN  [f EXCEPT !.lq = AddSample(@, q, MeanDen(e.lq) * l)]

\* Mutation: a stamp that is too early does not move the estimate.
LaterTrialNeverBackward(e, S, E, ts, l) ==
  IF ts > S + e.deltaT + l THEN SetDeltaT(e, ts - E)
  ELSE IF l * e.L.n < e.L.sum THEN LowLagTrial(e, S, ts, l)
  ELSE e

\* Mutation: a stamp that is too late does not move the estimate.
LaterTrialNeverForward(e, S, E, ts, l) ==
  IF ts =< S + e.deltaT THEN SetDeltaT(e, ts - S)
  ELSE IF l * e.L.n < e.L.sum THEN LowLagTrial(e, S, ts, l)
  ELSE e

\* A later success.
LaterTrial(e, S, E, ts, l) ==
  IF ts =< S + e.deltaT THEN SetDeltaT(e, ts - S)
  ELSE IF ts > S + e.deltaT + l THEN SetDeltaT(e, ts - E)
  ELSE IF l * e.L.n < e.L.sum THEN LowLagTrial(e, S, ts, l)
  ELSE e

\* Mutation: the wait is not cut off.
WaitUncut(e, p, n) ==
  IF e.L.sum = 0 \/ n = 0 THEN 0
  ELSE IF p = 0 THEN MaxWait
  ELSE (e.L.sum * n * WaitScale) \div (Abs(p) * e.L.n)

(***************************************************************************)
(* min((1 / |p / mean(L)| * n * 1000).toLong, maxWait), where n counts the *)
(* samples of the lag model as the trial has left it.  1 / 0 is Infinity,  *)
(* and what involves 0 / 0 or 0 * Infinity is NaN, whose toLong is 0.      *)
(***************************************************************************)
WaitFor(e, p, n) ==
  LET w == IF e.L.sum = 0 \/ n = 0 THEN 0
           ELSE IF p = 0 THEN MaxWait
           ELSE (e.L.sum * n * WaitScale) \div (Abs(p) * e.L.n)
  IN  IF w < MaxWait THEN w ELSE MaxWait

Accept(e, l) ==
  [e EXCEPT !.L = AddLag(@, l), !.successes = @ + 1]

\* The estimator after a trial that is not rejected.
Learn(e, S, E, ts) ==
  LET l == Lag(S, E) IN
  Accept(IF l = 0 THEN PerfectTrial(e, S, ts)
         ELSE IF e.successes < 1 THEN FirstTrial(e, S, ts, l)
         ELSE LaterTrial(e, S, E, ts, l), l)

\* Mutation: a rejected trial is not counted.
LogTimeTrialSilently(e, S, E, ts) ==
  IF Rejected(S, E) THEN e ELSE Learn(e, S, E, ts)

LogTimeTrial(e, S, E, ts) ==
  IF Rejected(S, E) THEN ReportFailure(e) ELSE Learn(e, S, E, ts)

\* The value that logTimeTrial returns.
SuggestedWait(e, S, E, ts) ==
  LET l == Lag(S, E) IN
  IF Rejected(S, E) THEN 0
  ELSE IF l = 0 THEN MaxWait
  ELSE IF e.successes < 1 THEN 0
  ELSE WaitFor(e, ts - Predicted(e, S, l), LaterTrial(e, S, E, ts, l).lq.n)

=============================================================================
