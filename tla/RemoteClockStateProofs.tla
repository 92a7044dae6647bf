----------------------- MODULE RemoteClockStateProofs -----------------------
(***************************************************************************)
(* Theorems about RemoteClockState: the accuracy of the estimate, its      *)
(* recovery, and the counts of the trials, for every number of trials,     *)
(* every timeout and wait, and all clocks.                                 *)
(***************************************************************************)
EXTENDS RemoteClockState, FiniteSetTheorems, WellFoundedInduction, TLAPS

-----------------------------------------------------------------------------
(* Numbers.                                                                *)

LEMMA DivMod ==
  ASSUME NEW a \in Int, NEW n \in Nat \ {0}
  PROVE  /\ a \div n \in Int
         /\ a % n \in 0 .. n - 1
         /\ a = n * (a \div n) + (a % n)
  OBVIOUS

\* A difference that fits in an Int is not changed by toInt.
LEMMA ToIntExact ==
  ASSUME NEW x \in 0 .. HalfInt - 1
  PROVE  ToInt(x) = x
<1>1. HalfInt \in Nat \ {0}
  BY LagModelAssumption
<1>2. x + HalfInt \in 0 .. 2 * HalfInt - 1 /\ 2 * HalfInt \in Nat \ {0}
  BY <1>1
<1>3. (x + HalfInt) % (2 * HalfInt) = x + HalfInt
  BY <1>1, <1>2
<1> QED
  BY <1>1, <1>3 DEF ToInt

LEMMA ToIntType ==
  ASSUME NEW x \in Int
  PROVE  ToInt(x) \in Int
<1>1. HalfInt \in Nat \ {0} /\ 2 * HalfInt \in Nat \ {0} /\ x + HalfInt \in Int
  BY LagModelAssumption
<1>2. (x + HalfInt) % (2 * HalfInt) \in Int
  BY <1>1, DivMod
<1> QED
  BY <1>1, <1>2 DEF ToInt

\* toLong drops less than one, towards 0.
LEMMA ToLongTruncates ==
  ASSUME NEW x \in Int, NEW d \in Nat \ {0}
  PROVE  /\ ToLong(x, d) \in Int
         /\ x >= 0 => d * ToLong(x, d) =< x /\ x < d * ToLong(x, d) + d
         /\ x < 0 => x =< d * ToLong(x, d) /\ d * ToLong(x, d) < x + d
<1>1. CASE x >= 0
  <2>1. PICK k \in Int : k = x \div d /\ d * k =< x /\ x < d * k + d
    BY DivMod
  <2>2. ToLong(x, d) = k
    BY <1>1, <2>1 DEF ToLong
  <2> QED
    BY <1>1, <2>1, <2>2
<1>2. CASE x < 0
  <2>1. -x \in Int
    OBVIOUS
  <2>2. PICK k \in Int : k = (-x) \div d /\ d * k =< -x /\ -x < d * k + d
    BY <2>1, DivMod
  <2>3. ToLong(x, d) = -k
    BY <1>2, <2>2 DEF ToLong
  <2>4. d * (-k) = -(d * k) /\ d * k \in Int
    OBVIOUS
  <2> QED
    BY <1>2, <2>2, <2>3, <2>4
<1> QED
  BY <1>1, <1>2

LEMMA ToLongType ==
  ASSUME NEW x \in Int, NEW d \in Nat
  PROVE  ToLong(x, d) \in Int
<1>1. CASE d = 0
  BY <1>1 DEF ToLong
<1>2. CASE d # 0
  BY <1>2, ToLongTruncates
<1> QED
  BY <1>1, <1>2

\* A set of numbers up to n has a largest one.
LEMMA MaxInSet ==
  ASSUME NEW n \in Nat, NEW S \in SUBSET (1 .. n), S # {}
  PROVE  Max(S) \in S
<1> DEFINE T == {n - x : x \in S}
           R == OpToRel(<, Nat)
<1>0. \A x \in S : x \in Nat /\ n - x \in Nat /\ n - x \in T
  OBVIOUS
<1>1. T \subseteq Nat /\ T # {}
  <2>1. T \subseteq Nat
    BY <1>0
  <2>2. PICK x \in S : TRUE
    OBVIOUS
  <2> QED
    BY <1>0, <2>1, <2>2
<1>2. \E y \in T : \A z \in T : ~ (<<z, y>> \in R)
  <2>1. IsWellFoundedOn(R, Nat)
    BY NatLessThanWellFounded
  <2> HIDE DEF T, R
  <2> QED
    BY <1>1, <2>1, WFMin
<1>3. PICK y \in T : \A z \in T : ~ (z < y)
  BY <1>1, <1>2 DEF OpToRel
<1>4. PICK x \in S : y = n - x
  OBVIOUS
<1>5. \A w \in S : x >= w
  <2> SUFFICES ASSUME NEW w \in S PROVE x >= w
    OBVIOUS
  <2>1. n - w \in T
    BY <1>0
  <2>2. ~ (n - w < y)
    BY <1>3, <2>1
  <2>3. w \in Nat /\ x \in Nat
    BY <1>0
  <2> HIDE DEF T
  <2> QED
    BY <1>4, <2>2, <2>3
<1> QED
  BY <1>5 DEF Max

LEMMA FractionType ==
  ASSUME NEW num \in Int, NEW den \in Nat
  PROVE  /\ Fraction(num, den).num \in Int
         /\ Fraction(num, den).den \in Nat
         /\ den # 0 => Fraction(num, den).den # 0
<1>1. CASE den = 0
  BY <1>1 DEF Fraction
<1>2. CASE den # 0
  <2> DEFINE S == {d \in 1 .. den : num % d = 0 /\ den % d = 0}
  <2>1. 1 \in S
    BY <1>2
  <2>2. S \in SUBSET (1 .. den) /\ S # {}
    BY <2>1
  <2>3. Max(S) \in S
    <3> HIDE DEF S
    <3> QED
      BY <2>2, MaxInSet
  <2>4. PICK g \in S : g = Max(S)
    BY <2>3
  <2>5. g \in 1 .. den
    OBVIOUS
  <2>6. Fraction(num, den) = [num |-> num \div g, den |-> den \div g]
    BY <1>2, <2>4, Zenon DEF Fraction
  <2>7. num \div g \in Int
    BY <2>5, DivMod
  <2>8. den \div g \in Nat \ {0}
    BY <1>2, <2>5
  <2> QED
    BY <2>6, <2>7, <2>8
<1> QED
  BY <1>1, <1>2

-----------------------------------------------------------------------------
(* The parts of an estimator.                                              *)

Lags == [n : Nat, sum : Nat, min : 0 .. Timeout]
Samples == [n : Nat, num : Int, den : Nat]

LEMMA EstimatorParts ==
  ASSUME NEW e \in Estimator
  PROVE  /\ e.deltaT \in Int /\ e.L \in Lags /\ e.lq \in Samples
         /\ e.successes \in Nat /\ e.failures \in Nat
         /\ e.L.n \in Nat /\ e.L.sum \in Nat /\ e.L.min \in 0 .. Timeout
         /\ e.lq.n \in Nat /\ e.lq.num \in Int /\ e.lq.den \in Nat
         /\ MeanDen(e.lq) \in Nat
<1>1. e.deltaT \in Int /\ e.L \in Lags /\ e.lq \in Samples
      /\ e.successes \in Nat /\ e.failures \in Nat
  BY DEF Estimator, Lags, Samples
<1>2. /\ e.L.n \in Nat /\ e.L.sum \in Nat /\ e.L.min \in 0 .. Timeout
      /\ e.lq.n \in Nat /\ e.lq.num \in Int /\ e.lq.den \in Nat
  BY <1>1 DEF Lags, Samples
<1>3. e.lq.den * e.lq.n \in Nat
  BY <1>2
<1> QED
  BY <1>1, <1>2, <1>3 DEF MeanDen

\* What setting the estimate changes, and what it leaves alone.
LEMMA SetDeltaTEffect ==
  ASSUME NEW e \in Estimator, NEW dT \in Int
  PROVE  /\ SetDeltaT(e, dT) \in Estimator
         /\ SetDeltaT(e, dT).deltaT = dT
         /\ SetDeltaT(e, dT).L = e.L
         /\ SetDeltaT(e, dT).successes = e.successes
         /\ SetDeltaT(e, dT).failures = e.failures
         /\ dT # e.deltaT => HasMean(SetDeltaT(e, dT))
         /\ HasMean(e) => HasMean(SetDeltaT(e, dT))
<1>1. CASE dT = e.deltaT
  BY <1>1 DEF SetDeltaT
<1>2. CASE dT # e.deltaT
  <2>1. SetDeltaT(e, dT) = [e EXCEPT !.deltaT = dT, !.lq = ResetGaussian]
    BY <1>2 DEF SetDeltaT
  <2>2. ResetGaussian \in Samples
    BY DEF ResetGaussian, Samples
  <2>3. /\ SetDeltaT(e, dT) \in Estimator
        /\ SetDeltaT(e, dT).deltaT = dT
        /\ SetDeltaT(e, dT).L = e.L
        /\ SetDeltaT(e, dT).successes = e.successes
        /\ SetDeltaT(e, dT).failures = e.failures
        /\ SetDeltaT(e, dT).lq = ResetGaussian
    BY <2>1, <2>2 DEF Estimator, Samples
  <2>4. HasMean(SetDeltaT(e, dT))
    BY <2>3 DEF HasMean, MeanDen, ResetGaussian
  <2> QED
    BY <2>3, <2>4
<1> QED
  BY <1>1, <1>2

LEMMA AddSampleEffect ==
  ASSUME NEW lq \in Samples, NEW num \in Int, NEW den \in Nat
  PROVE  /\ AddSample(lq, num, den) \in Samples
         /\ lq.den # 0 /\ den # 0 => MeanDen(AddSample(lq, num, den)) # 0
<1>1. lq.n \in Nat /\ lq.num \in Int /\ lq.den \in Nat
  BY DEF Samples
<1> DEFINE a == lq.num * den + num * lq.den
           b == lq.den * den
           f == Fraction(a, b)
<1>2. a \in Int /\ b \in Nat
  BY <1>1
<1>3. lq.den # 0 /\ den # 0 => b # 0
  BY <1>1
<1>4. f.num \in Int /\ f.den \in Nat /\ (b # 0 => f.den # 0)
  <2> HIDE DEF a, b
  <2> QED
    BY <1>2, FractionType
<1>5. AddSample(lq, num, den) = [n |-> lq.n + 1, num |-> f.num, den |-> f.den]
  BY DEF AddSample
<1>6. AddSample(lq, num, den) \in Samples
  <2> HIDE DEF f
  <2> QED
    BY <1>1, <1>4, <1>5 DEF Samples
<1>7. ASSUME f.den # 0 PROVE MeanDen(AddSample(lq, num, den)) # 0
  <2> HIDE DEF f
  <2>1. f.den * (lq.n + 1) # 0
    BY <1>1, <1>4, <1>7
  <2> QED
    BY <1>5, <2>1 DEF MeanDen
<1> QED
  BY <1>3, <1>4, <1>6, <1>7

-----------------------------------------------------------------------------
(* A trial with a low lag.                                                 *)

\* The request lag that a trial is credited with is a part of its lag, as
\* long as its stamp is one that the estimate allows.
LEMMA CreditedLag ==
  ASSUME NEW e \in Estimator, NEW S \in Int, NEW ts \in Int, NEW l \in Nat,
         S + e.deltaT < ts, ts =< S + e.deltaT + l
  PROVE  LET p == ts - Predicted(e, S, l)
             q == RequestLag(e, l, p)
         IN  /\ p \in Int
             /\ q \in Int
             /\ ToLong(q, MeanDen(e.lq)) \in 0 .. l
<1> DEFINE d == MeanDen(e.lq)
           n == e.lq.num * l
           x == (e.deltaT + S) * d + n
           k == ToLong(x, d)
           p == ts - k
           q == n + p * d
           b == ts - S - e.deltaT
<1>1. d \in Nat /\ n \in Int /\ e.deltaT \in Int
  BY EstimatorParts
<1>2. x \in Int
  BY <1>1
<1>3. k \in Int
  <2> HIDE DEF x, d
  <2> QED
    BY <1>1, <1>2, ToLongType
<1>4. p \in Int
  BY <1>3
<1>5. q \in Int
  <2> HIDE DEF p, d, n
  <2> QED
    BY <1>1, <1>4
<1>6. ts - Predicted(e, S, l) = p
  BY DEF Predicted
<1>7. RequestLag(e, l, p) = q
  BY DEF RequestLag
<1>8. b \in 1 .. l
  BY <1>1
<1>9. ToLong(q, d) \in 0 .. l
  <2>1. CASE d = 0
    BY <2>1 DEF ToLong
  <2>2. CASE d # 0
    \* q is b times d, up to a remainder smaller than d.
    <3>1. q = b * d + (x - d * k)
      <4> HIDE DEF d, n, k
      <4>1. p * d = ts * d - d * k
        BY <1>1, <1>3
      <4>2. b * d = ts * d - (e.deltaT + S) * d
        BY <1>1
      <4>3. ts * d \in Int /\ d * k \in Int /\ (e.deltaT + S) * d \in Int
        BY <1>1, <1>3
      <4> QED
        BY <4>1, <4>2, <4>3, <1>1
    <3>2. -d < x - d * k /\ x - d * k < d
      <4> HIDE DEF x, d
      <4>1. d * k \in Int
        BY <1>1, <1>3
      <4>2. /\ x >= 0 => d * k =< x /\ x < d * k + d
            /\ x < 0 => x =< d * k /\ d * k < x + d
        BY <1>1, <1>2, <2>2, ToLongTruncates
      <4> HIDE DEF k
      <4> QED
        BY <1>1, <1>2, <2>2, <4>1, <4>2
    <3> DEFINE r == x - d * k
    <3>3. r \in Int
      BY <1>1, <1>2, <1>3
    <3>4. b * d >= d
      <4>1. (b - 1) * d >= 0
        BY <1>1, <1>8
      <4> QED
        BY <1>1, <1>8, <4>1
    <3>5. q > 0 /\ q < b * d + d
      <4> HIDE DEF q, r, b, d
      <4>1. b * d \in Int /\ q = b * d + r
        BY <1>1, <1>8, <3>1 DEF r
      <4> QED
        BY <1>1, <3>2, <3>3, <3>4, <4>1 DEF r
    <3> DEFINE m == ToLong(q, d)
    <3>6. m \in Int /\ d * m =< q /\ q < d * m + d
      <4> HIDE DEF q, d, b
      <4> QED
        BY <1>1, <1>5, <2>2, <3>5, ToLongTruncates
    <3> HIDE DEF m, d, b, q
    <3>7. m >= 0
      <4> SUFFICES ASSUME m =< -1 PROVE FALSE
        BY <3>6
      <4>1. d * (m + 1) =< 0
        BY <1>1, <3>6
      <4> QED
        BY <1>1, <3>5, <3>6, <4>1, <1>5
    <3>8. m =< b
      <4> SUFFICES ASSUME m >= b + 1 PROVE FALSE
        BY <1>8, <3>6
      <4>1. d * (m - b - 1) >= 0
        BY <1>1, <1>8, <3>6
      <4>2. d * m >= b * d + d
        BY <1>1, <1>8, <3>6, <4>1
      <4> QED
        BY <1>1, <1>5, <1>8, <3>5, <3>6, <4>2
    <3> QED
      BY <1>8, <3>6, <3>7, <3>8 DEF m
  <2> QED
    BY <2>1, <2>2
<1> QED
  <2> HIDE DEF p, q, d
  <2> QED
    BY <1>4, <1>5, <1>6, <1>7, <1>9 DEF d

\* What a trial with a lag below the mean changes.
LEMMA LowLagEffect ==
  ASSUME NEW e \in Estimator, NEW S \in Int, NEW ts \in Int, NEW l \in Nat \ {0},
         S + e.deltaT < ts, ts =< S + e.deltaT + l
  PROVE  LET f == LowLagTrial(e, S, ts, l)
         IN  /\ f \in Estimator
             /\ f.L = e.L /\ f.successes = e.successes /\ f.failures = e.failures
             /\ l =< e.L.min => f.deltaT - (ts - S) \in 0 .. l
             /\ ~ (l =< e.L.min) => f.deltaT = e.deltaT
             /\ HasMean(e) => HasMean(f)
<1> DEFINE p == ts - Predicted(e, S, l)
           q == RequestLag(e, l, p)
           d == MeanDen(e.lq)
           dT == ts - S + ToLong(q, d)
           g == IF l =< e.L.min THEN SetDeltaT(e, dT) ELSE e
           f == LowLagTrial(e, S, ts, l)
           lq == AddSample(g.lq, q, d * l)
<1>1. q \in Int /\ ToLong(q, d) \in 0 .. l
  BY CreditedLag
<1>2. d \in Nat /\ e.L.min \in Int /\ (HasMean(e) <=> d # 0)
  BY EstimatorParts DEF HasMean
<1>3. dT \in Int /\ dT - (ts - S) \in 0 .. l
  <2> HIDE DEF q, d
  <2> QED
    BY <1>1
<1>4. /\ g \in Estimator
      /\ g.L = e.L /\ g.successes = e.successes /\ g.failures = e.failures
      /\ l =< e.L.min => g.deltaT = dT
      /\ ~ (l =< e.L.min) => g.deltaT = e.deltaT
      /\ HasMean(e) => HasMean(g)
  <2> HIDE DEF dT
  <2> QED
    BY <1>3, SetDeltaTEffect
<1>5. f = [g EXCEPT !.lq = lq]
  <2>1. f = [g EXCEPT !.lq = AddSample(@, q, d * l)]
    BY DEF LowLagTrial
  <2> HIDE DEF g, q, d, f
  <2> QED
    BY <2>1, <1>4 DEF Estimator
<1>6. g.lq \in Samples /\ d * l \in Nat /\ (d # 0 => d * l # 0)
  <2> HIDE DEF g, d
  <2> QED
    BY <1>2, <1>4, EstimatorParts
<1>7. lq \in Samples /\ (g.lq.den # 0 /\ d * l # 0 => MeanDen(lq) # 0)
  <2> HIDE DEF g, q
  <2> QED
    BY <1>1, <1>6, AddSampleEffect
<1>8. /\ f \in Estimator
      /\ f.deltaT = g.deltaT /\ f.lq = lq
      /\ f.L = g.L /\ f.successes = g.successes /\ f.failures = g.failures
  <2> HIDE DEF g, f, lq
  <2> QED
    BY <1>4, <1>5, <1>7 DEF Estimator, Samples
<1>9. HasMean(e) => HasMean(f)
  <2> SUFFICES ASSUME HasMean(e) PROVE HasMean(f)
    OBVIOUS
  <2>1. HasMean(g) /\ d # 0
    BY <1>2, <1>4
  <2>2. g.lq.den # 0
    <3> HIDE DEF g
    <3> QED
      BY <2>1, <1>6 DEF HasMean, MeanDen, Samples
  <2> HIDE DEF g, f, lq, d
  <2> QED
    BY <2>1, <2>2, <1>6, <1>7, <1>8 DEF HasMean
<1> HIDE DEF f, g, dT
<1> QED
  BY <1>3, <1>4, <1>8, <1>9 DEF f

\* What a later success changes, by the place of its stamp.
LaterOutcome(e, f, S, E, ts, l) ==
  /\ f \in Estimator
  /\ f.L = e.L /\ f.successes = e.successes /\ f.failures = e.failures
  /\ HasMean(e) => HasMean(f)
  /\ \/ ts =< S + e.deltaT /\ f.deltaT = ts - S
     \/ ts > S + e.deltaT + l /\ f.deltaT = ts - E
     \/ /\ S + e.deltaT < ts /\ ts =< S + e.deltaT + l
        /\ l =< e.L.min
        /\ f.deltaT - (ts - S) \in 0 .. l
     \/ /\ S + e.deltaT < ts /\ ts =< S + e.deltaT + l
        /\ l > e.L.min \/ l * e.L.n >= e.L.sum
        /\ f.deltaT = e.deltaT

LEMMA LaterTrialEffect ==
  ASSUME NEW e \in Estimator, NEW S \in Int, NEW E \in Int, NEW ts \in Int,
         NEW l \in Nat \ {0}
  PROVE  LaterOutcome(e, LaterTrial(e, S, E, ts, l), S, E, ts, l)
<1> DEFINE f == LaterTrial(e, S, E, ts, l)
<1>0. e.deltaT \in Int /\ e.L.min \in Int /\ e.L.n \in Nat /\ e.L.sum \in Nat
      /\ l * e.L.n \in Int
  BY EstimatorParts
<1>1. CASE ts =< S + e.deltaT
  <2>1. f = SetDeltaT(e, ts - S)
    BY <1>1 DEF LaterTrial
  <2>2. /\ f \in Estimator /\ f.deltaT = ts - S
        /\ f.L = e.L /\ f.successes = e.successes /\ f.failures = e.failures
        /\ HasMean(e) => HasMean(f)
    <3> HIDE DEF f
    <3>1. ts - S \in Int
      OBVIOUS
    <3> QED
      BY <2>1, <3>1, SetDeltaTEffect
  <2> HIDE DEF f
  <2> QED
    BY <1>1, <2>2, Zenon DEF f, LaterOutcome
<1>2. CASE ts > S + e.deltaT + l
  <2>1. f = SetDeltaT(e, ts - E)
    BY <1>0, <1>2 DEF LaterTrial
  <2>2. /\ f \in Estimator /\ f.deltaT = ts - E
        /\ f.L = e.L /\ f.successes = e.successes /\ f.failures = e.failures
        /\ HasMean(e) => HasMean(f)
    <3> HIDE DEF f
    <3>1. ts - E \in Int
      OBVIOUS
    <3> QED
      BY <2>1, <3>1, SetDeltaTEffect
  <2> HIDE DEF f
  <2> QED
    BY <1>2, <2>2, Zenon DEF f, LaterOutcome
<1>3. CASE S + e.deltaT < ts /\ ts =< S + e.deltaT + l
  <2>1. CASE l * e.L.n < e.L.sum
    <3>1. f = LowLagTrial(e, S, ts, l)
      BY <1>0, <1>3, <2>1 DEF LaterTrial
    <3>2. /\ f \in Estimator
          /\ f.L = e.L /\ f.successes = e.successes /\ f.failures = e.failures
          /\ l =< e.L.min => f.deltaT - (ts - S) \in 0 .. l
          /\ ~ (l =< e.L.min) => f.deltaT = e.deltaT
          /\ HasMean(e) => HasMean(f)
      <4> HIDE DEF f
      <4> QED
        BY <1>3, <3>1, LowLagEffect
    <3>3. ~ (l =< e.L.min) => l > e.L.min
      BY <1>0
    <3> HIDE DEF f
    <3> QED
      BY <1>3, <3>2, <3>3, Zenon DEF f, LaterOutcome
  <2>2. CASE ~ (l * e.L.n < e.L.sum)
    <3>1. f = e
      BY <1>0, <1>3, <2>2 DEF LaterTrial
    <3>2. l * e.L.n >= e.L.sum
      BY <1>0, <2>2
    <3> HIDE DEF f
    <3> QED
      BY <1>3, <3>1, <3>2, Zenon DEF f, LaterOutcome
  <2> QED
    BY <2>1, <2>2
<1>4. \/ ts =< S + e.deltaT \/ ts > S + e.deltaT + l
      \/ S + e.deltaT < ts /\ ts =< S + e.deltaT + l
  BY <1>0
<1> QED
  BY <1>1, <1>2, <1>3, <1>4

\* What observing a lag changes.
LEMMA AddLagEffect ==
  ASSUME NEW L \in Lags, NEW l \in 0 .. Timeout, L.n * L.min =< L.sum
  PROVE  /\ AddLag(L, l) \in Lags
         /\ AddLag(L, l).n = L.n + 1
         /\ AddLag(L, l).sum = L.sum + l
         /\ AddLag(L, l).min = IF L.n = 0 \/ l < L.min THEN l ELSE L.min
         /\ AddLag(L, l).n * AddLag(L, l).min =< AddLag(L, l).sum
<1> DEFINE M == AddLag(L, l)
           m == IF L.n = 0 \/ l < L.min THEN l ELSE L.min
<1>1. L.n \in Nat /\ L.sum \in Nat /\ L.min \in 0 .. Timeout /\ Timeout \in Nat
  BY LagModelAssumption DEF Lags
<1>2. m \in 0 .. Timeout /\ m =< l /\ (L.n # 0 => m =< L.min)
  BY <1>1
<1>3. M = [n |-> L.n + 1, sum |-> L.sum + l, min |-> m]
  BY DEF AddLag
<1>4. (L.n + 1) * m =< L.sum + l
  <2> HIDE DEF m
  <2>1. (L.n + 1) * m = L.n * m + m /\ L.n * m \in Int
    BY <1>1, <1>2
  <2>2. L.n * m =< L.n * L.min
    <3>1. CASE L.n = 0
      BY <1>1, <1>2, <3>1
    <3>2. CASE L.n # 0
      <4>1. L.n * (L.min - m) >= 0
        BY <1>1, <1>2, <3>2
      <4> QED
        BY <1>1, <1>2, <4>1
    <3> QED
      BY <3>1, <3>2
  <2> DEFINE a == L.n * m
             b == L.n * L.min
             c == (L.n + 1) * m
  <2>3. a \in Int /\ b \in Int /\ c = a + m /\ a =< b /\ b =< L.sum
    BY <1>1, <2>1, <2>2
  <2> HIDE DEF a, b, c
  <2>4. c =< L.sum + l
    BY <1>1, <1>2, <2>3
  <2> QED
    BY <2>4 DEF c
<1>5. M \in Lags
  <2> HIDE DEF m
  <2> QED
    BY <1>1, <1>2, <1>3 DEF Lags
<1> HIDE DEF M
<1> QED
  BY <1>3, <1>4, <1>5 DEF M

-----------------------------------------------------------------------------
(* An accepted trial.                                                      *)

\* The estimate before the lag is observed.
Located(e, S, E, ts, l) ==
  IF l = 0 THEN PerfectTrial(e, S, ts)
  ELSE IF e.successes < 1 THEN FirstTrial(e, S, ts, l)
  ELSE LaterTrial(e, S, E, ts, l)

\* Where the estimate dT of e ends after a trial with lag l.
Placed(e, S, E, ts, l, dT) ==
  \/ /\ l = 0 \/ e.successes = 0 \/ l =< e.L.min
     /\ dT - (ts - S) \in 0 .. l
  \/ ts =< S + e.deltaT /\ dT = ts - S
  \/ e.successes > 0 /\ ts > S + e.deltaT + l /\ dT = ts - E
  \/ /\ e.successes > 0
     /\ S + e.deltaT < ts /\ ts =< S + e.deltaT + l
     /\ l > e.L.min \/ l * e.L.n >= e.L.sum
     /\ dT = e.deltaT

LEMMA LocatedEffect ==
  ASSUME NEW e \in Estimator, NEW S \in Int, NEW E \in Int, NEW ts \in Int,
         NEW l \in Nat
  PROVE  LET f == Located(e, S, E, ts, l)
         IN  /\ f \in Estimator
             /\ f.L = e.L /\ f.successes = e.successes /\ f.failures = e.failures
             /\ HasMean(e) => HasMean(f)
             /\ e.successes = 0 /\ f.deltaT # e.deltaT => HasMean(f)
             /\ Placed(e, S, E, ts, l, f.deltaT)
<1> DEFINE f == Located(e, S, E, ts, l)
<1>0. e.successes \in Nat /\ e.deltaT \in Int
  BY EstimatorParts
<1>1. ASSUME NEW dT \in Int, f = SetDeltaT(e, dT), dT - (ts - S) \in 0 .. l,
             l = 0 \/ e.successes = 0
      PROVE  /\ f \in Estimator
             /\ f.L = e.L /\ f.successes = e.successes /\ f.failures = e.failures
             /\ HasMean(e) => HasMean(f)
             /\ e.successes = 0 /\ f.deltaT # e.deltaT => HasMean(f)
             /\ Placed(e, S, E, ts, l, f.deltaT)
  <2> HIDE DEF f
  <2>1. /\ f \in Estimator /\ f.deltaT = dT
        /\ f.L = e.L /\ f.successes = e.successes /\ f.failures = e.failures
        /\ dT # e.deltaT => HasMean(f)
        /\ HasMean(e) => HasMean(f)
    BY <1>1, SetDeltaTEffect
  <2>2. Placed(e, S, E, ts, l, f.deltaT)
    BY <1>1, <2>1, Zenon DEF Placed
  <2> QED
    BY <2>1, <2>2
<1>2. CASE l = 0
  <2>1. f = SetDeltaT(e, ts - S)
    BY <1>2 DEF Located, PerfectTrial
  <2>2. ts - S \in Int /\ (ts - S) - (ts - S) \in 0 .. l
    BY <1>2
  <2> HIDE DEF f
  <2> QED
    BY <1>1, <1>2, <2>1, <2>2 DEF f
<1>3. CASE l # 0 /\ e.successes = 0
  <2> DEFINE h == ToLong(l, 2)
  <2>1. f = SetDeltaT(e, ts - S + h)
    BY <1>3 DEF Located, FirstTrial
  <2>2. h \in 0 .. l
    BY DEF ToLong
  <2> HIDE DEF h
  <2>3. ts - S + h \in Int /\ (ts - S + h) - (ts - S) \in 0 .. l
    BY <2>2
  <2> HIDE DEF f
  <2> QED
    BY <1>1, <1>3, <2>1, <2>3 DEF f
<1>4. CASE l # 0 /\ e.successes # 0
  <2>1. f = LaterTrial(e, S, E, ts, l)
    BY <1>0, <1>4 DEF Located
  <2>2. l \in Nat \ {0} /\ e.successes > 0
    BY <1>0, <1>4
  <2>3. /\ f \in Estimator
        /\ f.L = e.L /\ f.successes = e.successes /\ f.failures = e.failures
        /\ HasMean(e) => HasMean(f)
        /\ \/ ts =< S + e.deltaT /\ f.deltaT = ts - S
           \/ ts > S + e.deltaT + l /\ f.deltaT = ts - E
           \/ /\ S + e.deltaT < ts /\ ts =< S + e.deltaT + l
              /\ l =< e.L.min
              /\ f.deltaT - (ts - S) \in 0 .. l
           \/ /\ S + e.deltaT < ts /\ ts =< S + e.deltaT + l
              /\ l > e.L.min \/ l * e.L.n >= e.L.sum
              /\ f.deltaT = e.deltaT
    <3>1. LaterOutcome(e, LaterTrial(e, S, E, ts, l), S, E, ts, l)
      BY <2>2, LaterTrialEffect
    <3>2. LaterOutcome(e, f, S, E, ts, l)
      BY <2>1, <3>1
    <3> HIDE DEF f
    <3> QED
      BY <3>2, Zenon DEF LaterOutcome
  <2>4. Placed(e, S, E, ts, l, f.deltaT)
    <3> HIDE DEF f
    <3> QED
      BY <2>2, <2>3, Zenon DEF Placed
  <2> HIDE DEF f
  <2> QED
    BY <1>4, <2>3, <2>4 DEF f
<1> QED
  BY <1>2, <1>3, <1>4, Zenon

LEMMA LearnEffect ==
  ASSUME NEW e \in Estimator, NEW S \in Int, NEW E \in Int, NEW ts \in Int,
         ~ Rejected(S, E), e.L.n * e.L.min =< e.L.sum
  PROVE  LET l == Lag(S, E)
             f == Learn(e, S, E, ts)
         IN  /\ l \in 0 .. Timeout
             /\ f \in Estimator
             /\ f.L = AddLag(e.L, l)
             /\ f.successes = e.successes + 1 /\ f.failures = e.failures
             /\ HasMean(e) => HasMean(f)
             /\ e.successes = 0 /\ f.deltaT # e.deltaT => HasMean(f)
             /\ Placed(e, S, E, ts, l, f.deltaT)
<1> DEFINE l == Lag(S, E)
           f == Learn(e, S, E, ts)
           g == Located(e, S, E, ts, l)
<1>1. l \in 0 .. Timeout /\ l \in Nat
  <2>1. E - S \in Int
    OBVIOUS
  <2>2. l \in Int
    BY <2>1, ToIntType DEF Lag
  <2>3. ~ (l < 0) /\ ~ (l > Timeout)
    BY DEF Rejected
  <2> HIDE DEF l
  <2> QED
    BY <2>2, <2>3, LagModelAssumption
<1>2. f = Accept(g, l)
  BY DEF Learn, Located
<1>3. /\ g \in Estimator
      /\ g.L = e.L /\ g.successes = e.successes /\ g.failures = e.failures
      /\ HasMean(e) => HasMean(g)
      /\ e.successes = 0 /\ g.deltaT # e.deltaT => HasMean(g)
      /\ Placed(e, S, E, ts, l, g.deltaT)
  <2> HIDE DEF l
  <2> QED
    BY <1>1, LocatedEffect, Zenon
<1>4. e.L \in Lags
  BY EstimatorParts
<1>5. AddLag(e.L, l) \in Lags
  <2> HIDE DEF l
  <2> QED
    BY <1>1, <1>4, AddLagEffect
<1>6. f = [g EXCEPT !.L = AddLag(g.L, l), !.successes = g.successes + 1]
  <2> HIDE DEF g, l, f
  <2> QED
    BY <1>2, <1>3 DEF Accept, Estimator
<1>7. /\ f \in Estimator
      /\ f.L = AddLag(e.L, l) /\ f.successes = e.successes + 1
      /\ f.failures = g.failures /\ f.deltaT = g.deltaT /\ f.lq = g.lq
  <2> DEFINE M == AddLag(e.L, l)
             k == e.successes + 1
  <2>1. k \in Nat
    BY EstimatorParts
  <2>2. f = [g EXCEPT !.L = M, !.successes = k] /\ M \in Lags
    BY <1>3, <1>5, <1>6
  <2> HIDE DEF g, l, f, M, k
  <2>3. /\ f \in Estimator
        /\ f.L = M /\ f.successes = k
        /\ f.failures = g.failures /\ f.deltaT = g.deltaT /\ f.lq = g.lq
    BY <1>3, <2>1, <2>2 DEF Estimator, Lags
  <2> QED
    BY <2>3 DEF M, k
<1> HIDE DEF f, g, l
<1> QED
  BY <1>1, <1>3, <1>7, Zenon DEF f, l, HasMean

\* What holds of the lags seen.
LagsAddUp(e) ==
  /\ e.L.n = e.successes
  /\ e.L.n = 0 => e.L.sum = 0
  /\ e.L.n * e.L.min =< e.L.sum
  /\ e.successes = 0 => e.deltaT = 0

LEMMA LogEffect ==
  ASSUME NEW e \in Estimator, NEW S \in Int, NEW E \in Int, NEW ts \in Int,
         LagsAddUp(e)
  PROVE  LET f == LogTimeTrial(e, S, E, ts)
         IN  /\ f \in Estimator
             /\ LagsAddUp(f)
             /\ f.successes + f.failures = e.successes + e.failures + 1
             /\ HasMean(e) => HasMean(f)
             /\ e.successes = 0 /\ f.deltaT # 0 => HasMean(f)
<1> DEFINE f == LogTimeTrial(e, S, E, ts)
<1>0. /\ e.successes \in Nat /\ e.failures \in Nat
      /\ e.L.n \in Nat /\ e.L.sum \in Nat /\ e.L \in Lags
  BY EstimatorParts
<1>1. CASE Rejected(S, E)
  <2>1. f = [e EXCEPT !.failures = e.failures + 1]
    BY <1>1 DEF LogTimeTrial, ReportFailure
  <2>2. /\ f \in Estimator /\ f.L = e.L /\ f.lq = e.lq /\ f.deltaT = e.deltaT
        /\ f.successes = e.successes /\ f.failures = e.failures + 1
    <3> HIDE DEF f
    <3> QED
      BY <1>0, <2>1 DEF Estimator
  <2>3. LagsAddUp(f)
    <3> HIDE DEF f
    <3> QED
      BY <2>2 DEF LagsAddUp
  <2>4. f.successes + f.failures = e.successes + e.failures + 1
    <3> HIDE DEF f
    <3> QED
      BY <1>0, <2>2
  <2>5. (HasMean(e) => HasMean(f)) /\ ~ (e.successes = 0 /\ f.deltaT # 0)
    <3> HIDE DEF f
    <3> QED
      BY <2>2 DEF HasMean, LagsAddUp
  <2> HIDE DEF f
  <2> QED
    BY <2>2, <2>3, <2>4, <2>5, Zenon DEF f
<1>2. CASE ~ Rejected(S, E)
  <2> DEFINE l == Lag(S, E)
  <2>1. f = Learn(e, S, E, ts)
    BY <1>2 DEF LogTimeTrial
  <2>2. e.L.n * e.L.min =< e.L.sum
    BY DEF LagsAddUp
  <2>3. /\ l \in 0 .. Timeout
        /\ f \in Estimator
        /\ f.L = AddLag(e.L, l)
        /\ f.successes = e.successes + 1 /\ f.failures = e.failures
        /\ HasMean(e) => HasMean(f)
        /\ e.successes = 0 /\ f.deltaT # e.deltaT => HasMean(f)
    <3>1. Learn(e, S, E, ts) = f
      BY <2>1
    <3> HIDE DEF f
    <3> QED
      BY <1>2, <2>2, <3>1, LearnEffect
  <2> HIDE DEF f, l
  <2>4. /\ f.L.n = e.L.n + 1
        /\ f.L.n * f.L.min =< f.L.sum
    BY <1>0, <2>2, <2>3, AddLagEffect
  <2>5. LagsAddUp(f)
    BY <1>0, <2>3, <2>4 DEF LagsAddUp
  <2>6. f.successes + f.failures = e.successes + e.failures + 1
    BY <1>0, <2>3
  <2>7. e.successes = 0 /\ f.deltaT # 0 => HasMean(f)
    BY <2>3 DEF LagsAddUp
  <2> QED
    BY <2>3, <2>5, <2>6, <2>7, Zenon DEF f
<1> QED
  BY <1>1, <1>2

\* The wait is a time to wait, at most maxWait.
LEMMA SuggestedWaitType ==
  ASSUME NEW e \in Estimator, NEW S \in Int, NEW E \in Int, NEW ts \in Int,
         LagsAddUp(e)
  PROVE  SuggestedWait(e, S, E, ts) \in 0 .. MaxWait
<1> DEFINE l == Lag(S, E)
           p == ts - Predicted(e, S, l)
           n == LaterTrial(e, S, E, ts, l).lq.n
<1>0. /\ e.L.n \in Nat /\ e.L.sum \in Nat /\ e.deltaT \in Int
      /\ e.lq.num \in Int /\ MeanDen(e.lq) \in Nat
      /\ MaxWait \in Nat \ {0} /\ WaitScale \in Nat \ {0}
  BY EstimatorParts, LagModelAssumption
<1>1. CASE Rejected(S, E) \/ l = 0 \/ e.successes < 1
  BY <1>0, <1>1 DEF SuggestedWait
<1>2. CASE ~ (Rejected(S, E) \/ l = 0 \/ e.successes < 1)
  <2>1. SuggestedWait(e, S, E, ts) = WaitFor(e, p, n)
    BY <1>2 DEF SuggestedWait
  <2>2. l \in Nat \ {0}
    <3>1. E - S \in Int
      OBVIOUS
    <3>2. l \in Int
      BY <3>1, ToIntType DEF Lag
    <3>3. ~ (l < 0) /\ l # 0
      BY <1>2 DEF Rejected
    <3> HIDE DEF l
    <3> QED
      BY <3>2, <3>3
  <2>3. p \in Int
    <3> DEFINE x == (e.deltaT + S) * MeanDen(e.lq) + e.lq.num * l
    <3>1. x \in Int
      <4> DEFINE d == MeanDen(e.lq)
      <4>1. d \in Int /\ (e.deltaT + S) \in Int
        BY <1>0
      <4> HIDE DEF l, d
      <4>2. (e.deltaT + S) * d \in Int /\ e.lq.num * l \in Int
        BY <1>0, <2>2, <4>1
      <4> QED
        BY <4>2 DEF d
    <3>2. Predicted(e, S, l) = ToLong(x, MeanDen(e.lq))
      BY DEF Predicted
    <3> HIDE DEF x, l
    <3>3. Predicted(e, S, l) \in Int
      BY <1>0, <3>1, <3>2, ToLongType
    <3> QED
      BY <3>3
  <2>4. n \in Nat
    <3> HIDE DEF l
    <3>1. LaterTrial(e, S, E, ts, l) \in Estimator
      BY <2>2, LaterTrialEffect DEF LaterOutcome
    <3> QED
      BY <3>1, EstimatorParts
  <2>5. WaitFor(e, p, n) \in 0 .. MaxWait
    <3> HIDE DEF p, n
    <3> DEFINE q == (e.L.sum * n * WaitScale) \div (Abs(p) * e.L.n)
               w == IF e.L.sum = 0 \/ n = 0 THEN 0
                    ELSE IF p = 0 THEN MaxWait
                    ELSE q
    <3>1. WaitFor(e, p, n) = IF w < MaxWait THEN w ELSE MaxWait
      BY DEF WaitFor
    <3>2. ASSUME e.L.sum # 0, p # 0 PROVE q \in Nat
      <4> DEFINE x == e.L.sum * n * WaitScale
                 y == Abs(p) * e.L.n
      <4>1. e.L.n # 0
        BY <3>2 DEF LagsAddUp
      <4>2. Abs(p) \in Nat \ {0}
        BY <2>3, <3>2 DEF Abs
      <4>3. y \in Nat \ {0}
        BY <1>0, <4>1, <4>2
      <4>4. x \in Nat
        <5>1. e.L.sum * n \in Nat
          BY <1>0, <2>4
        <5> QED
          BY <1>0, <5>1
      <4> HIDE DEF x, y
      <4>5. x \div y \in Nat
        BY <4>3, <4>4
      <4> QED
        BY <4>5 DEF x, y
    <3>3. w \in Nat
      <4> HIDE DEF q
      <4> QED
        BY <1>0, <3>2
    <3> HIDE DEF w
    <3> QED
      BY <1>0, <3>1, <3>3
  <2> QED
    BY <2>1, <2>5
<1> QED
  BY <1>1, <1>2

-----------------------------------------------------------------------------
(* The invariant: a sound trial was begun, stamped and ended in this order *)
(* by the two clocks as they are set now, and the lags add up.             *)

SoundTrial(t) ==
  sound[t] =>
    /\ started[t]
    /\ phase[t] # "idle"
    /\ 0 =< start[t] - local /\ start[t] - local =< time
    /\ phase[t] \in {"stamped", "answered", "ended"} =>
         start[t] - local =< stamp[t] - server /\ stamp[t] - server =< time
    /\ phase[t] = "ended" =>
         stamp[t] - server =< end[t] - local /\ end[t] - local =< time

IInv ==
  /\ TypeOK
  /\ LagsAddUp(estimator)
  /\ \A t \in Trial : SoundTrial(t)

LEMMA NewEstimatorType ==
  NewEstimator \in Estimator /\ LagsAddUp(NewEstimator)
<1>1. NoLag \in Lags /\ EmptyGaussian \in Samples /\ NoLag.n = 0 /\ NoLag.sum = 0
      /\ NoLag.n * NoLag.min =< NoLag.sum
  BY LagModelAssumption DEF NoLag, EmptyGaussian, Lags, Samples
<1> QED
  BY <1>1 DEF NewEstimator, Estimator, LagsAddUp, Lags, Samples

LEMMA ReportFailureEffect ==
  ASSUME NEW e \in Estimator, LagsAddUp(e)
  PROVE  /\ ReportFailure(e) \in Estimator
         /\ LagsAddUp(ReportFailure(e))
         /\ ReportFailure(e).successes = e.successes
         /\ ReportFailure(e).failures = e.failures + 1
         /\ ReportFailure(e).deltaT = e.deltaT
         /\ ReportFailure(e).L = e.L
         /\ HasMean(e) => HasMean(ReportFailure(e))
<1> DEFINE f == ReportFailure(e)
<1>1. f = [e EXCEPT !.failures = e.failures + 1]
  BY DEF ReportFailure
<1>2. e.failures \in Nat
  BY EstimatorParts
<1> HIDE DEF f
<1>3. /\ f \in Estimator /\ f.L = e.L /\ f.lq = e.lq /\ f.deltaT = e.deltaT
      /\ f.successes = e.successes /\ f.failures = e.failures + 1
  BY <1>1, <1>2 DEF Estimator
<1>4. LagsAddUp(f) /\ (HasMean(e) => HasMean(f))
  BY <1>3 DEF LagsAddUp, HasMean
<1> QED
  BY <1>3, <1>4 DEF f

\* One trial over: the others stay as they were.
LEMMA ForgetKeeps ==
  ASSUME IInv, NEW t \in Trial, Forget(t), UNCHANGED <<time, local, server>>
  PROVE  /\ phase' \in [Trial -> {"idle", "sent", "stamped", "answered", "ended", "failed"}]
         /\ started' \in [Trial -> BOOLEAN]
         /\ start' \in [Trial -> Int] /\ stamp' \in [Trial -> Int]
         /\ end' \in [Trial -> Int]
         /\ sound' \in [Trial -> BOOLEAN]
         /\ (\A u \in Trial : SoundTrial(u))'
<1>1. /\ phase' \in [Trial -> {"idle", "sent", "stamped", "answered", "ended", "failed"}]
      /\ started' \in [Trial -> BOOLEAN]
      /\ start' \in [Trial -> Int] /\ stamp' \in [Trial -> Int]
      /\ end' \in [Trial -> Int]
      /\ sound' \in [Trial -> BOOLEAN]
  BY DEF Forget, IInv, TypeOK
<1>2. ASSUME NEW u \in Trial PROVE SoundTrial(u)'
  <2>1. CASE u = t
    BY <2>1 DEF Forget, IInv, TypeOK, SoundTrial
  <2>2. CASE u # t
    <3>1. /\ phase'[u] = phase[u] /\ started'[u] = started[u] /\ start'[u] = start[u]
          /\ stamp'[u] = stamp[u] /\ end'[u] = end[u] /\ sound'[u] = sound[u]
      BY <2>2 DEF Forget, IInv, TypeOK
    <3> QED
      BY <3>1 DEF IInv, SoundTrial
  <2> QED
    BY <2>1, <2>2
<1> QED
  BY <1>1, <1>2

LEMMA InvInit == Init => IInv
<1> SUFFICES ASSUME Init PROVE IInv
  OBVIOUS
<1>1. TypeOK
  BY StateAssumption, NewEstimatorType, LagModelAssumption DEF Init, TypeOK
<1>2. LagsAddUp(estimator)
  BY NewEstimatorType DEF Init
<1>3. \A t \in Trial : SoundTrial(t)
  BY DEF Init, SoundTrial
<1> QED
  BY <1>1, <1>2, <1>3 DEF IInv

LEMMA InvStep == IInv /\ [Next]_vars => IInv'
<1> SUFFICES ASSUME IInv, [Next]_vars PROVE IInv'
  OBVIOUS
<1> USE DEF IInv
<1>0. /\ LocalOffset \subseteq Int /\ ServerOffset \subseteq Nat
      /\ MaxTime \in Nat /\ MaxTrials \in Nat /\ MaxWait \in Nat \ {0}
  BY StateAssumption, LagModelAssumption
<1>a. time \in Int /\ local \in Int /\ server \in Int
  BY <1>0 DEF TypeOK
<1>1. CASE Tick
  <2>1. TypeOK'
    BY <1>0, <1>1 DEF Tick, TypeOK, trialVars
  <2>2. LagsAddUp(estimator)'
    BY <1>1 DEF Tick, LagsAddUp
  <2>3. (\A t \in Trial : SoundTrial(t))'
    BY <1>1, <1>a DEF Tick, trialVars, SoundTrial, TypeOK
  <2> QED
    BY <2>1, <2>2, <2>3
<1>2. CASE SetClock
  <2>1. TypeOK'
    BY <1>0, <1>2 DEF SetClock, TypeOK
  <2>2. LagsAddUp(estimator)'
    BY <1>2 DEF SetClock, LagsAddUp
  <2>3. (\A t \in Trial : SoundTrial(t))'
    BY <1>2 DEF SetClock, SoundTrial
  <2> QED
    BY <2>1, <2>2, <2>3
<1>3. ASSUME NEW t \in Trial, Send(t) PROVE IInv'
  <2>1. TypeOK'
    BY <1>0, <1>3 DEF Send, TypeOK
  <2>2. LagsAddUp(estimator)'
    BY <1>3 DEF Send, LagsAddUp
  <2>3. (\A u \in Trial : SoundTrial(u))'
    BY <1>3 DEF Send, SoundTrial, TypeOK
  <2> QED
    BY <2>1, <2>2, <2>3
<1>4. ASSUME NEW t \in Trial, ReadStart(t) PROVE IInv'
  <2>1. TypeOK'
    BY <1>0, <1>a, <1>4 DEF ReadStart, TypeOK, LocalClock
  <2>2. LagsAddUp(estimator)'
    BY <1>4 DEF ReadStart, LagsAddUp
  <2>3. (\A u \in Trial : SoundTrial(u))'
    BY <1>a, <1>4 DEF ReadStart, SoundTrial, TypeOK, LocalClock
  <2> QED
    BY <2>1, <2>2, <2>3
<1>5. ASSUME NEW t \in Trial, Stamp(t) PROVE IInv'
  <2>1. TypeOK'
    BY <1>0, <1>a, <1>5 DEF Stamp, TypeOK, ServerClock
  <2>2. LagsAddUp(estimator)'
    BY <1>5 DEF Stamp, LagsAddUp
  <2>3. (\A u \in Trial : SoundTrial(u))'
    BY <1>a, <1>5 DEF Stamp, SoundTrial, TypeOK, ServerClock
  <2> QED
    BY <2>1, <2>2, <2>3
<1>6. ASSUME NEW t \in Trial, Answer(t) PROVE IInv'
  <2>1. TypeOK'
    BY <1>0, <1>6 DEF Answer, TypeOK
  <2>2. LagsAddUp(estimator)'
    BY <1>6 DEF Answer, LagsAddUp
  <2>3. (\A u \in Trial : SoundTrial(u))'
    BY <1>6 DEF Answer, SoundTrial, TypeOK
  <2> QED
    BY <2>1, <2>2, <2>3
<1>7. ASSUME NEW t \in Trial, Fail(t) PROVE IInv'
  <2>1. TypeOK'
    BY <1>0, <1>7 DEF Fail, TypeOK
  <2>2. LagsAddUp(estimator)'
    BY <1>7 DEF Fail, LagsAddUp
  <2>3. (\A u \in Trial : SoundTrial(u))'
    BY <1>7 DEF Fail, SoundTrial, TypeOK
  <2> QED
    BY <2>1, <2>2, <2>3
<1>8. ASSUME NEW t \in Trial, ReadEnd(t) PROVE IInv'
  <2>1. TypeOK'
    BY <1>0, <1>a, <1>8 DEF ReadEnd, TypeOK, LocalClock
  <2>2. LagsAddUp(estimator)'
    BY <1>8 DEF ReadEnd, LagsAddUp
  <2>3. (\A u \in Trial : SoundTrial(u))'
    BY <1>a, <1>8 DEF ReadEnd, SoundTrial, TypeOK, LocalClock
  <2> QED
    BY <2>1, <2>2, <2>3
<1>9. ASSUME NEW t \in Trial, Log(t) PROVE IInv'
  <2>1. /\ start[t] \in Int /\ end[t] \in Int /\ stamp[t] \in Int
        /\ estimator \in Estimator /\ sound[t] \in BOOLEAN
    BY DEF TypeOK
  <2>2. estimator' \in Estimator /\ LagsAddUp(estimator)' /\ wait' \in 0 .. MaxWait
    BY <1>9, <2>1, LogEffect, SuggestedWaitType DEF Log, LagsAddUp
  <2>3. steady' \in BOOLEAN
    BY <1>9, <2>1 DEF Log, TypeOK
  <2>4. Forget(t) /\ UNCHANGED <<time, local, server, sent>>
    BY <1>9 DEF Log
  <2>5. TypeOK' /\ (\A u \in Trial : SoundTrial(u))'
    BY <2>2, <2>3, <2>4, ForgetKeeps DEF TypeOK
  <2> QED
    BY <2>2, <2>5
<1>10. ASSUME NEW t \in Trial, Recover(t) PROVE IInv'
  <2>1. estimator \in Estimator
    BY DEF TypeOK
  <2>2. estimator' \in Estimator /\ LagsAddUp(estimator)' /\ wait' \in 0 .. MaxWait
    BY <1>0, <1>10, <2>1, ReportFailureEffect DEF Recover, LagsAddUp
  <2>3. Forget(t) /\ UNCHANGED <<time, local, server, sent, steady>>
    BY <1>10 DEF Recover
  <2>4. TypeOK' /\ (\A u \in Trial : SoundTrial(u))'
    BY <2>2, <2>3, ForgetKeeps DEF TypeOK
  <2> QED
    BY <2>2, <2>4
<1>11. CASE UNCHANGED vars
  <2>1. TypeOK'
    BY <1>11 DEF vars, trialVars, TypeOK
  <2>2. LagsAddUp(estimator)'
    BY <1>11 DEF vars, LagsAddUp
  <2>3. (\A u \in Trial : SoundTrial(u))'
    BY <1>11 DEF vars, trialVars, SoundTrial
  <2> QED
    BY <2>1, <2>2, <2>3
<1> QED
  BY <1>1, <1>2, <1>3, <1>4, <1>5, <1>6, <1>7, <1>8, <1>9, <1>10, <1>11 DEF Next

LEMMA Invariant == Spec => []IInv
<1> QED
  BY InvInit, InvStep, PTL DEF Spec

(***************************************************************************)
(* Every value stays in its range: the estimate and the sums of the        *)
(* statistics are integers, and the wait that logTimeTrial returns is      *)
(* never negative nor above maxWait (RemoteClock.scala:95-160).            *)
(***************************************************************************)
THEOREM TypeCorrect == Spec => []TypeOK
<1>1. IInv => TypeOK
  BY DEF IInv
<1> QED
  BY <1>1, Invariant, PTL

\* A step that is no trial's end leaves the estimator alone.
LEMMA EstimatorSteps ==
  ASSUME [Next]_vars
  PROVE  \/ estimator' = estimator
         \/ \E t \in Trial : Log(t) \/ Recover(t)
BY DEF Next, Tick, SetClock, Send, ReadStart, Stamp, Answer, Fail, ReadEnd, vars

(***************************************************************************)
(* Neither a reset of the lag model nor a sample computed from an old one  *)
(* makes NaN of its mean again (RemoteClock.scala:125-146), in whatever    *)
(* order the trials end.                                                   *)
(***************************************************************************)
THEOREM MeanKept == Spec => MeanStays
<1>1. ASSUME IInv, [Next]_vars
      PROVE  HasMean(estimator) \/ (estimator.successes = 0 /\ estimator'.deltaT # 0)
               => HasMean(estimator')
  <2>1. estimator \in Estimator /\ LagsAddUp(estimator)
    BY <1>1 DEF IInv, TypeOK
  <2>2. CASE estimator' = estimator
    BY <2>1, <2>2 DEF LagsAddUp
  <2>3. ASSUME NEW t \in Trial, Log(t)
        PROVE  HasMean(estimator) \/ (estimator.successes = 0 /\ estimator'.deltaT # 0)
                 => HasMean(estimator')
    <3>1. start[t] \in Int /\ end[t] \in Int /\ stamp[t] \in Int
      BY <1>1 DEF IInv, TypeOK
    <3> QED
      BY <2>1, <2>3, <3>1, LogEffect DEF Log
  <2>4. ASSUME NEW t \in Trial, Recover(t)
        PROVE  HasMean(estimator) \/ (estimator.successes = 0 /\ estimator'.deltaT # 0)
                 => HasMean(estimator')
    BY <2>1, <2>4, ReportFailureEffect DEF Recover, LagsAddUp
  <2> QED
    BY <1>1, <2>2, <2>3, <2>4, EstimatorSteps
<1>2. IInv /\ [Next]_vars
        => [HasMean(estimator) \/ (estimator.successes = 0 /\ estimator'.deltaT # 0)
              => HasMean(estimator')]_vars
  BY <1>1
<1> QED
  BY <1>2, Invariant, PTL DEF Spec, MeanStays

-----------------------------------------------------------------------------
(* Accuracy.                                                               *)

\* Where the error of the estimate ends after a sound trial: with a the
\* request lag of the trial, between 0 and its lag l.
LEMMA SoundLog ==
  ASSUME IInv, NEW t \in Trial, Log(t), sound[t], ~ Rejected(start[t], end[t])
  PROVE  \E a \in Int, l \in 0 .. Timeout :
           /\ l = end[t] - start[t]
           /\ 0 =< a /\ a =< l
           /\ estimator'.L = AddLag(estimator.L, l)
           /\ estimator'.successes = estimator.successes + 1
           /\ \/ /\ l = 0 \/ estimator.successes = 0 \/ l =< estimator.L.min
                 /\ a =< Error' /\ Error' =< a + l
              \/ a =< Error /\ Error' = a
              \/ estimator.successes > 0 /\ Error < a - l /\ Error' = a - l
              \/ /\ estimator.successes > 0
                 /\ Error < a /\ a - l =< Error
                 /\ l > estimator.L.min \/ l * estimator.L.n >= estimator.L.sum
                 /\ Error' = Error
<1> DEFINE S == start[t]
           E == end[t]
           ts == stamp[t]
           e == estimator
           f == LogTimeTrial(e, S, E, ts)
           l == E - S
           a == ts - S - TrueDelta
<1>1. /\ S \in Int /\ E \in Int /\ ts \in Int /\ e \in Estimator
      /\ time \in 0 .. MaxTime /\ local \in Int /\ server \in Int
      /\ e.L.n * e.L.min =< e.L.sum
  BY StateAssumption DEF IInv, TypeOK, LagsAddUp
<1>2. /\ 0 =< S - local /\ S - local =< ts - server
      /\ ts - server =< E - local /\ E - local =< time
  BY DEF Log, IInv, SoundTrial
<1>3. a \in Int /\ 0 =< a /\ a =< l /\ l \in 0 .. MaxTime /\ e.deltaT \in Int
  <2>1. e.deltaT \in Int /\ MaxTime \in Nat
    BY <1>1, EstimatorParts, StateAssumption
  <2> HIDE DEF S, E, ts, e
  <2> QED
    BY <1>1, <1>2, <2>1 DEF TrueDelta
<1>4. Lag(S, E) = l
  <2>1. l \in 0 .. HalfInt - 1
    BY <1>3, StateAssumption, LagModelAssumption
  <2> HIDE DEF l
  <2>2. ToInt(l) = l
    BY <2>1, ToIntExact
  <2> QED
    BY <2>2 DEF Lag, l
<1>5. estimator' = f /\ TrueDelta' = TrueDelta /\ TrueDelta \in Int
  BY <1>1 DEF Log, TrueDelta
<1>6. f = Learn(e, S, E, ts)
  BY DEF LogTimeTrial
<1>7. /\ l \in 0 .. Timeout
      /\ f \in Estimator
      /\ f.L = AddLag(e.L, l)
      /\ f.successes = e.successes + 1
      /\ Placed(e, S, E, ts, l, f.deltaT)
  <2>1. Learn(e, S, E, ts) = f
    BY <1>6
  <2> HIDE DEF f, l, S, E, ts, e
  <2> QED
    BY <1>1, <1>4, <2>1, LearnEffect DEF S, E
<1>8. Error = e.deltaT - TrueDelta /\ Error' = f.deltaT - TrueDelta /\ f.deltaT \in Int
  <2>1. f.deltaT \in Int
    <3> HIDE DEF f
    <3> QED
      BY <1>7, EstimatorParts
  <2> HIDE DEF f
  <2> QED
    BY <1>5, <2>1 DEF Error
<1>9. /\ estimator'.L = AddLag(e.L, l) /\ estimator'.successes = e.successes + 1
  <2> HIDE DEF f, l
  <2> QED
    BY <1>5, <1>7
<1>10. \/ /\ l = 0 \/ e.successes = 0 \/ l =< e.L.min
          /\ a =< Error' /\ Error' =< a + l
       \/ a =< Error /\ Error' = a
       \/ e.successes > 0 /\ Error < a - l /\ Error' = a - l
       \/ /\ e.successes > 0
          /\ Error < a /\ a - l =< Error
          /\ l > e.L.min \/ l * e.L.n >= e.L.sum
          /\ Error' = Error
  <2>1. ts \in Int /\ S \in Int /\ E \in Int /\ E = S + l /\ ts - S = a + TrueDelta
    BY <1>1, <1>5
  <2> HIDE DEF f, l, a, S, E, ts, e
  <2>2. CASE /\ l = 0 \/ e.successes = 0 \/ l =< e.L.min
             /\ f.deltaT - (ts - S) \in 0 .. l
    <3>1. a =< Error' /\ Error' =< a + l
      BY <1>3, <1>5, <1>8, <2>1, <2>2
    <3> QED
      BY <2>2, <3>1
  <2>3. CASE ts =< S + e.deltaT /\ f.deltaT = ts - S
    <3>1. a =< Error /\ Error' = a
      BY <1>3, <1>5, <1>8, <2>1, <2>3
    <3> QED
      BY <3>1
  <2>4. CASE e.successes > 0 /\ ts > S + e.deltaT + l /\ f.deltaT = ts - E
    <3>1. Error < a - l /\ Error' = a - l
      BY <1>3, <1>5, <1>8, <2>1, <2>4
    <3> QED
      BY <2>4, <3>1
  <2>5. CASE /\ e.successes > 0
             /\ S + e.deltaT < ts /\ ts =< S + e.deltaT + l
             /\ l > e.L.min \/ l * e.L.n >= e.L.sum
             /\ f.deltaT = e.deltaT
    <3>1. Error < a /\ a - l =< Error /\ Error' = Error
      BY <1>3, <1>5, <1>8, <2>1, <2>5
    <3> QED
      BY <2>5, <3>1
  <2> QED
    BY <1>7, <2>2, <2>3, <2>4, <2>5, Zenon DEF Placed
<1> QED
  <2> HIDE DEF a, l
  <2> QED
    BY <1>3, <1>7, <1>9, <1>10 DEF l

(***************************************************************************)
(* One sound trial brings the estimate near the true difference, whatever  *)
(* was learnt and whatever clocks were set before (logTimeTrial).          *)
(***************************************************************************)
THEOREM Recovery == Spec => OneSoundTrialSuffices
<1>1. ASSUME IInv, [Next]_vars, NEW t \in Trial, Accepted(t), sound[t]
      PROVE  /\ -(end[t] - start[t]) =< Error'
             /\ Error' =< 2 * (end[t] - start[t])
  <2>0. estimator \in Estimator /\ estimator.successes \in Nat
    BY <1>1, EstimatorParts DEF IInv, TypeOK
  <2>1. PICK u \in Trial : Log(u) \/ Recover(u)
    <3>1. estimator' # estimator
      BY <1>1, <2>0 DEF Accepted
    <3> QED
      BY <1>1, <3>1, EstimatorSteps
  <2>2. u = t
    BY <1>1, <2>1 DEF Log, Recover, Forget, Accepted, IInv, TypeOK
  <2>3. Log(t)
    <3>1. ~ Recover(t)
      BY <1>1 DEF Recover, Accepted
    <3> QED
      BY <2>1, <2>2, <3>1
  <2>4. ~ Rejected(start[t], end[t])
    <3> SUFFICES ASSUME Rejected(start[t], end[t]) PROVE FALSE
      OBVIOUS
    <3>1. estimator' = ReportFailure(estimator)
      BY <2>3 DEF Log, LogTimeTrial
    <3>2. estimator'.successes = estimator.successes
      BY <1>1, <2>0, <3>1, ReportFailureEffect DEF IInv
    <3> QED
      BY <1>1, <2>0, <3>2 DEF Accepted
  <2>5. PICK a \in Int, l \in 0 .. Timeout :
          /\ l = end[t] - start[t]
          /\ 0 =< a /\ a =< l
          /\ \/ a =< Error' /\ Error' =< a + l
             \/ Error' = a
             \/ Error' = a - l
             \/ Error < a /\ a - l =< Error /\ Error' = Error
    BY <1>1, <2>3, <2>4, SoundLog
  <2>6. l \in Nat /\ Error \in Int /\ Error' \in Int
    <3>1. IInv'
      BY <1>1, InvStep
    <3>2. Error \in Int
      BY <1>1, EstimatorParts, StateAssumption DEF IInv, TypeOK, Error, TrueDelta
    <3>3. estimator' \in Estimator /\ local' \in Int /\ server' \in Int
      BY <3>1, StateAssumption DEF IInv, TypeOK
    <3>4. Error' \in Int
      BY <3>3, EstimatorParts DEF Error, TrueDelta
    <3> QED
      BY <3>2, <3>4, LagModelAssumption
  <2> QED
    BY <2>5, <2>6
<1>2. IInv /\ [Next]_vars
        => [\A t \in Trial :
              Accepted(t) /\ sound[t] =>
                /\ -(end[t] - start[t]) =< Error'
                /\ Error' =< 2 * (end[t] - start[t])]_vars
  BY <1>1
<1> QED
  BY <1>2, Invariant, PTL DEF Spec, OneSoundTrialSuffices

(***************************************************************************)
(* While the clocks are left alone and every trial logged was sound, the   *)
(* estimate is never behind the server's clock and ahead of it by at most  *)
(* twice the least lag seen (logTimeTrial), however many trials there are. *)
(***************************************************************************)
THEOREM Accuracy == Spec => []AccurateWhileSteady
<1>1. Init => AccurateWhileSteady
  BY DEF Init, NewEstimator, AccurateWhileSteady
<1>2. ASSUME IInv, AccurateWhileSteady, [Next]_vars, steady', estimator'.successes > 0
      PROVE  0 =< Error' /\ Error' =< 2 * estimator'.L.min
  <2>0. /\ estimator \in Estimator /\ estimator.L \in Lags
        /\ estimator.successes \in Nat /\ estimator.L.n \in Nat
        /\ estimator.L.sum \in Nat /\ estimator.L.min \in Nat
        /\ Error \in Int
        /\ estimator.L.n = estimator.successes
        /\ estimator.L.n * estimator.L.min =< estimator.L.sum
    <3>1. estimator \in Estimator /\ local \in Int /\ server \in Int
      BY <1>2, StateAssumption DEF IInv, TypeOK
    <3>2. Error \in Int
      BY <3>1, EstimatorParts DEF Error, TrueDelta
    <3> QED
      BY <1>2, <3>1, <3>2, EstimatorParts, LagModelAssumption DEF IInv, LagsAddUp
  <2>1. ASSUME estimator'.deltaT = estimator.deltaT, estimator'.L = estimator.L,
               estimator'.successes = estimator.successes,
               UNCHANGED <<local, server>>, steady
        PROVE  0 =< Error' /\ Error' =< 2 * estimator'.L.min
    BY <1>2, <2>1 DEF AccurateWhileSteady, Error, TrueDelta
  <2>2. CASE estimator' = estimator /\ UNCHANGED <<local, server, steady>>
    BY <1>2, <2>1, <2>2
  <2>3. ASSUME NEW t \in Trial, Recover(t)
        PROVE  0 =< Error' /\ Error' =< 2 * estimator'.L.min
    <3>1. /\ estimator'.deltaT = estimator.deltaT /\ estimator'.L = estimator.L
          /\ estimator'.successes = estimator.successes
      BY <1>2, <2>0, <2>3, ReportFailureEffect DEF Recover, IInv
    <3> QED
      BY <1>2, <2>1, <2>3, <3>1 DEF Recover
  <2>4. ASSUME NEW t \in Trial, Log(t), Rejected(start[t], end[t])
        PROVE  0 =< Error' /\ Error' =< 2 * estimator'.L.min
    <3>1. estimator' = ReportFailure(estimator)
      BY <2>4 DEF Log, LogTimeTrial
    <3>2. /\ estimator'.deltaT = estimator.deltaT /\ estimator'.L = estimator.L
          /\ estimator'.successes = estimator.successes
      BY <1>2, <2>0, <3>1, ReportFailureEffect DEF IInv
    <3> QED
      BY <1>2, <2>1, <2>4, <3>2 DEF Log
  <2>5. ASSUME NEW t \in Trial, Log(t), ~ Rejected(start[t], end[t])
        PROVE  0 =< Error' /\ Error' =< 2 * estimator'.L.min
    <3>1. steady /\ sound[t]
      BY <1>2, <2>5 DEF Log
    <3>2. PICK a \in Int, l \in 0 .. Timeout :
            /\ 0 =< a /\ a =< l
            /\ estimator'.L = AddLag(estimator.L, l)
            /\ \/ /\ l = 0 \/ estimator.successes = 0 \/ l =< estimator.L.min
                  /\ a =< Error' /\ Error' =< a + l
               \/ a =< Error /\ Error' = a
               \/ estimator.successes > 0 /\ Error < a - l /\ Error' = a - l
               \/ /\ estimator.successes > 0
                  /\ Error < a /\ a - l =< Error
                  /\ l > estimator.L.min \/ l * estimator.L.n >= estimator.L.sum
                  /\ Error' = Error
      BY <1>2, <2>5, <3>1, SoundLog
    <3>3. estimator'.L.min = IF estimator.L.n = 0 \/ l < estimator.L.min
                             THEN l ELSE estimator.L.min
      BY <2>0, <3>2, AddLagEffect
    <3>4. estimator.successes > 0 => 0 =< Error /\ Error =< 2 * estimator.L.min
      BY <1>2, <3>1 DEF AccurateWhileSteady
    <3>5. l \in Nat /\ Error' \in Int
      <4>1. estimator' \in Estimator /\ local' \in Int /\ server' \in Int
        <5>1. IInv'
          BY <1>2, InvStep
        <5> QED
          BY <5>1, StateAssumption DEF IInv, TypeOK
      <4>2. Error' \in Int
        BY <4>1, EstimatorParts DEF Error, TrueDelta
      <4> QED
        BY <4>2, LagModelAssumption
    \* A lag of at least the mean is not below the least.
    <3>6. ASSUME estimator.successes > 0, l * estimator.L.n >= estimator.L.sum
          PROVE  l >= estimator.L.min
      <4> DEFINE n == estimator.L.n
                 m == estimator.L.min
      <4>1. n \in Nat /\ n > 0 /\ m \in Nat
        BY <2>0, <3>6
      <4>2. l * n >= n * m
        <5>1. l * n \in Int /\ n * m \in Int
          BY <3>5, <4>1
        <5> QED
          BY <2>0, <3>6, <5>1
      <4> HIDE DEF n, m
      <4>3. l >= m
        <5> SUFFICES ASSUME m >= l + 1 PROVE FALSE
          BY <3>5, <4>1
        <5>1. n * (m - l - 1) >= 0
          BY <3>5, <4>1
        <5>2. n * m = n * (m - l - 1) + l * n + n
          BY <3>5, <4>1
        <5>3. n * (m - l - 1) \in Int /\ l * n \in Int /\ n * m \in Int
          BY <3>5, <4>1
        <5> QED
          BY <4>1, <4>2, <5>1, <5>2, <5>3
      <4> QED
        BY <4>3 DEF m
    <3>7. CASE /\ l = 0 \/ estimator.successes = 0 \/ l =< estimator.L.min
               /\ a =< Error' /\ Error' =< a + l
      <4>1. estimator'.L.min = l
        BY <2>0, <3>3, <3>5, <3>7
      <4> QED
        BY <3>2, <3>5, <3>7, <4>1
    <3>8. CASE a =< Error /\ Error' = a
      BY <2>0, <3>2, <3>3, <3>4, <3>5, <3>8
    <3>9. CASE estimator.successes > 0 /\ Error < a - l /\ Error' = a - l
      BY <2>0, <3>2, <3>4, <3>5, <3>9
    <3>10. CASE /\ estimator.successes > 0
                /\ l > estimator.L.min \/ l * estimator.L.n >= estimator.L.sum
                /\ Error' = Error
      <4>1. l >= estimator.L.min
        BY <2>0, <3>5, <3>6, <3>10
      <4>2. estimator'.L.min = estimator.L.min
        BY <2>0, <3>3, <3>5, <3>10, <4>1
      <4> QED
        BY <3>4, <3>10, <4>2
    <3> QED
      BY <3>2, <3>7, <3>8, <3>9, <3>10
  <2>6. CASE UNCHANGED <<estimator, local, server, steady>>
    BY <2>2, <2>6
  <2>7. \/ UNCHANGED <<estimator, local, server, steady>>
        \/ \E t \in Trial : Log(t) \/ Recover(t)
    <3>1. ~ SetClock
      BY <1>2 DEF SetClock
    <3> QED
      BY <1>2, <3>1 DEF Next, Tick, Send, ReadStart, Stamp, Answer, Fail, ReadEnd, vars
  <2> QED
    BY <2>3, <2>4, <2>5, <2>6, <2>7
<1>3. IInv /\ AccurateWhileSteady /\ [Next]_vars => AccurateWhileSteady'
  BY <1>2 DEF AccurateWhileSteady
<1> QED
  BY <1>1, <1>3, Invariant, PTL DEF Spec

-----------------------------------------------------------------------------
(* The counts.                                                             *)

UnderWay == {t \in Trial : phase[t] # "idle"}

CountInv == IsFiniteSet(UnderWay) /\ EveryTrialCounted

(***************************************************************************)
(* successTrials and failedTrials count every trial that is over once,     *)
(* whatever its end (logTimeTrial, reportSuccess, reportFailure).          *)
(***************************************************************************)
THEOREM TrialsCounted == Spec => []EveryTrialCounted
<1>1. Init => CountInv
  <2> SUFFICES ASSUME Init PROVE CountInv
    OBVIOUS
  <2>1. UnderWay = {}
    BY DEF Init, UnderWay
  <2>2. IsFiniteSet(UnderWay) /\ Cardinality(UnderWay) = 0
    BY <2>1, FS_EmptySet
  <2> QED
    BY <2>2 DEF Init, CountInv, EveryTrialCounted, UnderWay, NewEstimator
<1>2. ASSUME IInv, CountInv, [Next]_vars PROVE CountInv'
  <2>0. /\ estimator \in Estimator
        /\ estimator.successes \in Nat /\ estimator.failures \in Nat
        /\ IsFiniteSet(UnderWay) /\ Cardinality(UnderWay) \in Nat
        /\ estimator.successes + estimator.failures + Cardinality(UnderWay) = sent
        /\ estimator' \in Estimator
        /\ estimator'.successes \in Nat /\ estimator'.failures \in Nat
    <3>1. estimator \in Estimator
      BY <1>2 DEF IInv, TypeOK
    <3>2. estimator' \in Estimator
      BY <1>2, InvStep DEF IInv, TypeOK
    <3> QED
      BY <1>2, <3>1, <3>2, EstimatorParts, FS_CardinalityType
         DEF CountInv, EveryTrialCounted, UnderWay
  <2>1. CASE UnderWay' = UnderWay /\ UNCHANGED <<estimator, sent>>
    BY <2>0, <2>1 DEF CountInv, EveryTrialCounted, UnderWay
  <2>2. ASSUME NEW t \in Trial, Send(t) PROVE CountInv'
    <3>1. UnderWay' = UnderWay \cup {t} /\ t \notin UnderWay
      BY <1>2, <2>2 DEF Send, UnderWay, IInv, TypeOK
    <3>2. IsFiniteSet(UnderWay') /\ Cardinality(UnderWay') = Cardinality(UnderWay) + 1
      BY <2>0, <3>1, FS_AddElement
    <3>3. sent' = sent + 1 /\ estimator' = estimator
      BY <2>2 DEF Send
    <3>4. estimator'.successes + estimator'.failures + Cardinality(UnderWay') = sent'
      BY <2>0, <3>2, <3>3
    <3> QED
      BY <3>2, <3>4 DEF CountInv, EveryTrialCounted, UnderWay
  <2>3. ASSUME NEW t \in Trial, phase[t] # "idle", Forget(t), sent' = sent,
               estimator'.successes + estimator'.failures
                 = estimator.successes + estimator.failures + 1
        PROVE  CountInv'
    <3>1. UnderWay' = UnderWay \ {t} /\ t \in UnderWay
      BY <1>2, <2>3 DEF Forget, UnderWay, IInv, TypeOK
    <3>2. IsFiniteSet(UnderWay') /\ Cardinality(UnderWay') = Cardinality(UnderWay) - 1
      BY <2>0, <3>1, FS_RemoveElement
    <3>3. estimator'.successes + estimator'.failures + Cardinality(UnderWay') = sent'
      <4>1. /\ sent = estimator.successes + estimator.failures + Cardinality(UnderWay)
            /\ sent' = sent
            /\ estimator'.successes + estimator'.failures
                 = estimator.successes + estimator.failures + 1
        BY <2>0, <2>3
      <4>2. Cardinality(UnderWay) \in Int /\ estimator.successes \in Int
            /\ estimator.failures \in Int
        BY <2>0
      <4> QED
        BY <3>2, <4>1, <4>2
    <3> QED
      BY <3>2, <3>3 DEF CountInv, EveryTrialCounted, UnderWay
  <2>4. ASSUME NEW t \in Trial, Log(t) PROVE CountInv'
    <3>1. /\ start[t] \in Int /\ end[t] \in Int /\ stamp[t] \in Int
          /\ LagsAddUp(estimator)
      BY <1>2 DEF IInv, TypeOK
    <3>2. estimator'.successes + estimator'.failures
            = estimator.successes + estimator.failures + 1
      BY <2>0, <2>4, <3>1, LogEffect DEF Log
    <3> QED
      BY <2>3, <2>4, <3>2 DEF Log
  <2>5. ASSUME NEW t \in Trial, Recover(t) PROVE CountInv'
    <3>1. /\ estimator'.successes = estimator.successes
          /\ estimator'.failures = estimator.failures + 1
      BY <1>2, <2>0, <2>5, ReportFailureEffect DEF Recover, IInv
    <3>2. estimator'.successes + estimator'.failures
            = estimator.successes + estimator.failures + 1
      BY <2>0, <3>1
    <3> QED
      BY <2>3, <2>5, <3>2 DEF Recover
  <2>6. \/ \E t \in Trial : Send(t) \/ Log(t) \/ Recover(t)
        \/ UnderWay' = UnderWay /\ UNCHANGED <<estimator, sent>>
    <3>1. ASSUME NEW t \in Trial, ReadStart(t) \/ Stamp(t) \/ Answer(t) \/ Fail(t) \/ ReadEnd(t)
          PROVE  UnderWay' = UnderWay /\ UNCHANGED <<estimator, sent>>
      BY <1>2, <3>1 DEF ReadStart, Stamp, Answer, Fail, ReadEnd, UnderWay, IInv, TypeOK
    <3>2. ASSUME Tick \/ SetClock \/ UNCHANGED vars
          PROVE  UnderWay' = UnderWay /\ UNCHANGED <<estimator, sent>>
      BY <3>2 DEF Tick, SetClock, vars, trialVars, UnderWay
    <3> QED
      BY <1>2, <3>1, <3>2 DEF Next
  <2> QED
    BY <2>1, <2>2, <2>4, <2>5, <2>6
<1>3. IInv /\ CountInv /\ [Next]_vars => CountInv'
  BY <1>2
<1>4. CountInv => EveryTrialCounted
  BY DEF CountInv
<1> QED
  BY <1>1, <1>3, <1>4, Invariant, PTL DEF Spec

=============================================================================
