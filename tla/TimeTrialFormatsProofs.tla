----------------------- MODULE TimeTrialFormatsProofs -----------------------
(***************************************************************************)
(* Theorems about TimeTrialFormats: what a time server writes is read back *)
(* as the stamp it stands for, for every Long, every width and every base, *)
(* and no part of an answer in JSON or XML is taken for the whole.         *)
(*                                                                         *)
(* The definitions recur over digits.  The induction that they call for    *)
(* rests on the least element of a set of numbers (WFMin), which takes a   *)
(* set and not an operator.                                                *)
(***************************************************************************)
EXTENDS TimeTrialFormats, SequenceTheorems, WellFoundedInduction, TLAPS

\* Every set of natural numbers has a least element.
LEMMA LeastNumber ==
  ASSUME NEW T, T \subseteq Nat, T # {}
  PROVE  \E n \in T : \A m \in T : n =< m
<1> DEFINE R == OpToRel(<, Nat)
<1>1. \E x \in T : \A y \in T : ~ (<<y, x>> \in R)
  BY NatLessThanWellFounded, WFMin
<1>2. \A x, y \in Nat : y < x => <<y, x>> \in R
  BY DEF OpToRel
<1> HIDE DEF R
<1>3. PICK x \in T : \A y \in T : <<y, x>> \notin R
  BY <1>1
<1>4. \A y \in T : ~ (y < x)
  BY <1>2, <1>3
<1> QED
  BY <1>3, <1>4

\* Induction: a set that holds 0 and every successor holds every number.
LEMMA Induction ==
  ASSUME NEW S, 0 \in S, \A n \in Nat : n \in S => n + 1 \in S
  PROVE  Nat \subseteq S
<1> SUFFICES ASSUME Nat \ S # {} PROVE FALSE
  OBVIOUS
<1>1. PICK n \in Nat \ S : \A m \in Nat \ S : n =< m
  BY LeastNumber
<1>2. n # 0 /\ n - 1 \in Nat /\ (n - 1) + 1 = n
  BY <1>1
<1>3. n - 1 \in S
  BY <1>1, <1>2
<1> QED
  BY <1>1, <1>2, <1>3

\* A rule that takes each value to the next one, n times, and what comes of it.
Rule(G, n, S) == G \in [1 .. n -> [S -> S]]

Run(g, G, a, n, S) ==
  /\ g \in [0 .. n -> S]
  /\ g[0] = a
  /\ \A k \in 1 .. n : g[k] = G[k][g[k - 1]]

\* A first value and a rule for the next one determine n values.
LEMMA Iteration ==
  ASSUME NEW n \in Nat, NEW S, NEW a \in S, NEW G, Rule(G, n, S)
  PROVE  \E g : Run(g, G, a, n, S)
<1>0. G \in [1 .. n -> [S -> S]]
  BY DEF Rule
<1> DEFINE Runs(m, g) == g[0] = a /\ \A k \in 1 .. m : g[k] = G[k][g[k - 1]]
           D == {m \in Nat : m =< n => \E g \in [0 .. m -> S] : Runs(m, g)}
<1>1. 0 \in D
  <2>1. [k \in 0 .. 0 |-> a] \in [0 .. 0 -> S] /\ Runs(0, [k \in 0 .. 0 |-> a])
    OBVIOUS
  <2> QED
    BY <2>1
<1>2. ASSUME NEW m \in Nat, m \in D PROVE m + 1 \in D
  <2> SUFFICES ASSUME m + 1 =< n PROVE \E g \in [0 .. m + 1 -> S] : Runs(m + 1, g)
    OBVIOUS
  <2>1. PICK g \in [0 .. m -> S] : Runs(m, g)
    BY <1>2
  <2>2. G[m + 1][g[m]] \in S
    BY <1>0
  <2> DEFINE h == [k \in 0 .. m + 1 |-> IF k = m + 1 THEN G[m + 1][g[m]] ELSE g[k]]
  <2>3. h \in [0 .. m + 1 -> S]
    BY <2>2
  <2>4. Runs(m + 1, h)
    <3>1. h[0] = a
      BY <2>1
    <3>2. ASSUME NEW k \in 1 .. m + 1 PROVE h[k] = G[k][h[k - 1]]
      <4>1. CASE k = m + 1
        <5>1. h[k] = G[m + 1][g[m]]
          BY <4>1
        <5>2. h[k - 1] = g[m]
          BY <4>1
        <5> QED
          BY <4>1, <5>1, <5>2
      <4>2. CASE k \in 1 .. m
        <5>1. h[k] = g[k] /\ h[k - 1] = g[k - 1]
          BY <4>2
        <5> QED
          BY <2>1, <4>2, <5>1
      <4> QED
        BY <4>1, <4>2
    <3> QED
      BY <3>1, <3>2
  <2> QED
    BY <2>3, <2>4
<1> HIDE DEF D
<1>3. n \in D
  BY <1>1, <1>2, Induction
<1> QED
  BY <1>3 DEF D, Run

\* A sequence of values that begins in S and does not leave it stays there.
LEMMA Stays ==
  ASSUME NEW n \in Nat, NEW S, NEW f, f[0] \in S,
         \A k \in 1 .. n : f[k - 1] \in S => f[k] \in S
  PROVE  \A k \in 0 .. n : f[k] \in S
<1> DEFINE D == {k \in Nat : k =< n => f[k] \in S}
<1>1. 0 \in D
  OBVIOUS
<1>2. ASSUME NEW k \in Nat, k \in D PROVE k + 1 \in D
  <2> SUFFICES ASSUME k + 1 =< n PROVE f[k + 1] \in S
    OBVIOUS
  <2>1. f[k] \in S /\ k + 1 \in 1 .. n /\ (k + 1) - 1 = k
    BY <1>2
  <2> QED
    BY <2>1
<1>3. Nat \subseteq D
  <2> HIDE DEF D
  <2> QED
    BY <1>1, <1>2, Induction
<1> QED
  BY <1>3

-----------------------------------------------------------------------------
(* The recursive definitions exist, and obey their equations.              *)

LEMMA NumberPrefixes ==
  ASSUME NEW digits \in Seq(Int), NEW base \in Int
  PROVE  \E p \in [0 .. Len(digits) -> Int] :
           /\ p[0] = 0
           /\ \A k \in 1 .. Len(digits) : p[k] = p[k - 1] * base + digits[k]
           /\ Number(digits, base) = p[Len(digits)]
<1> DEFINE n == Len(digits)
           Recurs(p) ==
             p = [k \in 0 .. n |-> IF k = 0 THEN 0 ELSE p[k - 1] * base + digits[k]]
           prefix == CHOOSE p : Recurs(p)
           G == [k \in 1 .. n |-> [x \in Int |-> x * base + digits[k]]]
<1>0. n \in Nat /\ \A k \in 1 .. n : digits[k] \in Int
  OBVIOUS
<1>1. Number(digits, base) = prefix[n]
  BY DEF Number
<1> HIDE DEF n
<1>2. \A x \in Int, k \in 1 .. n : x * base + digits[k] \in Int
  BY <1>0
<1>3. Rule(G, n, Int)
  BY <1>2 DEF Rule
<1>4. \A x \in Int, k \in 1 .. n : G[k][x] = x * base + digits[k]
  OBVIOUS
<1> HIDE DEF G
<1>5. 0 \in Int
  OBVIOUS
<1>6. PICK g : Run(g, G, 0, n, Int)
  BY <1>0, <1>3, <1>5, Iteration
<1>7. Recurs(g)
  <2>1. ASSUME NEW k \in 1 .. n PROVE g[k] = g[k - 1] * base + digits[k]
    <3>1. g[k - 1] \in Int
      BY <1>0, <1>6 DEF Run
    <3> QED
      BY <1>4, <1>6, <3>1 DEF Run
  <2> QED
    BY <1>0, <1>6, <2>1 DEF Run
<1>8. Recurs(prefix)
  <2> HIDE DEF Recurs
  <2> QED
    BY <1>7
<1> HIDE DEF prefix
<1>9. prefix[0] = 0 /\ \A k \in 1 .. n : prefix[k] = prefix[k - 1] * base + digits[k]
  BY <1>0, <1>8
<1>10. prefix \in [0 .. n -> Int]
  <2>1. \A k \in 1 .. n : prefix[k - 1] \in Int => prefix[k] \in Int
    BY <1>2, <1>9
  <2>2. \A k \in 0 .. n : prefix[k] \in Int
    BY <1>0, <1>5, <1>9, <2>1, Stays
  <2>3. prefix = [k \in 0 .. n |-> prefix[k]]
    BY <1>8
  <2> QED
    BY <2>2, <2>3
<1> QED
  BY <1>1, <1>9, <1>10 DEF n

LEMMA QuotientsRecur ==
  ASSUME NEW n \in Nat, NEW base \in Nat \ {0}, NEW len \in Nat
  PROVE  /\ Quotients(n, base, len) \in [0 .. len -> Nat]
         /\ Quotients(n, base, len)[0] = n
         /\ \A k \in 1 .. len :
              Quotients(n, base, len)[k] = Quotients(n, base, len)[k - 1] \div base
<1> DEFINE Recurs(p) ==
             p = [k \in 0 .. len |-> IF k = 0 THEN n ELSE p[k - 1] \div base]
           left == CHOOSE p : Recurs(p)
           G == [k \in 1 .. len |-> [x \in Nat |-> x \div base]]
<1>1. Quotients(n, base, len) = left
  BY DEF Quotients
<1>2. \A x \in Nat : x \div base \in Nat
  OBVIOUS
<1>3. Rule(G, len, Nat) /\ \A k \in 1 .. len, x \in Nat : G[k][x] = x \div base
  BY <1>2 DEF Rule
<1> HIDE DEF G
<1>4. PICK g : Run(g, G, n, len, Nat)
  BY <1>3, Iteration
<1>5. Recurs(g)
  <2>1. ASSUME NEW k \in 1 .. len PROVE g[k] = g[k - 1] \div base
    <3>1. g[k - 1] \in Nat
      BY <1>4 DEF Run
    <3> QED
      BY <1>3, <1>4, <3>1 DEF Run
  <2> QED
    BY <1>4, <2>1 DEF Run
<1>6. Recurs(left)
  <2> HIDE DEF Recurs
  <2> QED
    BY <1>5
<1> HIDE DEF left
<1>7. left[0] = n /\ \A k \in 1 .. len : left[k] = left[k - 1] \div base
  BY <1>6
<1>8. left \in [0 .. len -> Nat]
  <2>1. \A k \in 1 .. len : left[k - 1] \in Nat => left[k] \in Nat
    BY <1>2, <1>7
  <2>2. \A k \in 0 .. len : left[k] \in Nat
    BY <1>7, <2>1, Stays
  <2>3. left = [k \in 0 .. len |-> left[k]]
    BY <1>6
  <2> QED
    BY <2>2, <2>3
<1> QED
  BY <1>1, <1>7, <1>8

LEMMA ValuesRecur ==
  ASSUME NEW len \in Nat
  PROVE  \E v \in [0 .. len -> Nat \ {0}] :
           /\ v[0] = 1
           /\ \A k \in 1 .. len : v[k] = v[k - 1] * Radix
           /\ Values(len) = v[len]
<1> DEFINE Recurs(p) ==
             p = [k \in 0 .. len |-> IF k = 0 THEN 1 ELSE p[k - 1] * Radix]
           values == CHOOSE p : Recurs(p)
           G == [k \in 1 .. len |-> [x \in Nat \ {0} |-> x * Radix]]
<1>1. Values(len) = values[len]
  BY DEF Values
<1>2. \A x \in Nat \ {0} : x * Radix \in Nat \ {0}
  <2>1. Radix \in Nat \ {0}
    BY FormatsAssumption
  <2> QED
    BY <2>1
<1>3. Rule(G, len, Nat \ {0}) /\ \A k \in 1 .. len, x \in Nat \ {0} : G[k][x] = x * Radix
  BY <1>2 DEF Rule
<1> HIDE DEF G
<1>4. PICK g : Run(g, G, 1, len, Nat \ {0})
  <2>1. 1 \in Nat \ {0}
    OBVIOUS
  <2> QED
    BY <1>3, <2>1, Iteration
<1>5. Recurs(g)
  <2>1. ASSUME NEW k \in 1 .. len PROVE g[k] = g[k - 1] * Radix
    <3>1. g[k - 1] \in Nat \ {0}
      BY <1>4 DEF Run
    <3> QED
      BY <1>3, <1>4, <3>1 DEF Run
  <2> QED
    BY <1>4, <2>1 DEF Run
<1>6. Recurs(values)
  <2> HIDE DEF Recurs
  <2> QED
    BY <1>5
<1> HIDE DEF values
<1>7. values[0] = 1 /\ \A k \in 1 .. len : values[k] = values[k - 1] * Radix
  BY <1>6
<1>8. values \in [0 .. len -> Nat \ {0}]
  <2>1. \A k \in 1 .. len : values[k - 1] \in Nat \ {0} => values[k] \in Nat \ {0}
    BY <1>2, <1>7
  <2>0. values[0] \in Nat \ {0}
    BY <1>7
  <2>2. \A k \in 0 .. len : values[k] \in Nat \ {0}
    BY <2>0, <2>1, Stays
  <2>3. values = [k \in 0 .. len |-> values[k]]
    BY <1>6
  <2> QED
    BY <2>2, <2>3
<1> QED
  BY <1>1, <1>7, <1>8

-----------------------------------------------------------------------------
(* Digits and the number they denote.                                      *)

LEMMA Division ==
  ASSUME NEW n \in Nat, NEW base \in Nat \ {0}
  PROVE  /\ n \div base \in Nat /\ n % base \in 0 .. base - 1
         /\ n = (n \div base) * base + (n % base)
         /\ base > 1 /\ n > 0 => n \div base < n
         /\ \A b \in Nat : n < b * base => n \div base < b
<1> DEFINE q == n \div base
           r == n % base
<1>1. q \in Nat /\ r \in 0 .. base - 1 /\ n = q * base + r
  OBVIOUS
<1> HIDE DEF q, r
<1>2. ASSUME base > 1, n > 0 PROVE q < n
  <2> SUFFICES ASSUME q >= n PROVE FALSE
    BY <1>1
  <2>1. q * base >= q * 2
    BY <1>1, <1>2
  <2> QED
    BY <1>1, <1>2, <2>1
<1>3. ASSUME NEW b \in Nat, n < b * base PROVE q < b
  <2> SUFFICES ASSUME q >= b PROVE FALSE
    BY <1>1
  <2>1. q * base >= b * base
    BY <1>1
  <2> QED
    BY <1>1, <1>3, <2>1
<1>4. /\ q \in Nat /\ r \in 0 .. base - 1
      /\ n = q * base + r
      /\ base > 1 /\ n > 0 => q < n
      /\ \A b \in Nat : n < b * base => q < b
  BY <1>1, <1>2, <1>3
<1> QED
  BY <1>4 DEF q, r

\* Digits that leave nothing denote the whole number.
LEMMA DigitsNumber ==
  ASSUME NEW n \in Nat, NEW base \in Nat \ {0}, NEW len \in Nat,
         Quotients(n, base, len)[len] = 0
  PROVE  /\ Digits(n, base, len) \in Seq(0 .. base - 1)
         /\ Len(Digits(n, base, len)) = len
         /\ Number(Digits(n, base, len), base) = n
<1>0. /\ Quotients(n, base, len) \in [0 .. len -> Nat]
      /\ Quotients(n, base, len)[0] = n
      /\ \A k \in 1 .. len :
           Quotients(n, base, len)[k] = Quotients(n, base, len)[k - 1] \div base
  <2>1. n \in Nat /\ base \in Nat \ {0} /\ len \in Nat
    OBVIOUS
  <2> QED
    BY ONLY <2>1, QuotientsRecur
<1> DEFINE left == Quotients(n, base, len)
           digits == Digits(n, base, len)
<1>1. /\ left \in [0 .. len -> Nat]
      /\ left[0] = n
      /\ \A k \in 1 .. len : left[k] = left[k - 1] \div base
  BY <1>0
<1>2. left[len] = 0
  OBVIOUS
<1>3. digits = [i \in 1 .. len |-> left[len - i] % base]
  BY DEF Digits
<1> HIDE DEF left, digits
<1>4. \A i \in 1 .. len : left[len - i] % base \in 0 .. base - 1
  BY <1>1
<1>5. digits \in [1 .. len -> 0 .. base - 1]
  BY <1>3, <1>4
<1>6. digits \in Seq(0 .. base - 1) /\ Len(digits) = len
  BY <1>5
<1>7. digits \in Seq(Int)
  BY <1>5
<1>8. PICK p \in [0 .. len -> Int] :
        /\ p[0] = 0
        /\ \A k \in 1 .. len : p[k] = p[k - 1] * base + digits[k]
        /\ Number(digits, base) = p[len]
  <2>1. base \in Int
    OBVIOUS
  <2>2. \E p \in [0 .. Len(digits) -> Int] :
          /\ p[0] = 0
          /\ \A k \in 1 .. Len(digits) : p[k] = p[k - 1] * base + digits[k]
          /\ Number(digits, base) = p[Len(digits)]
    BY <1>7, <2>1, NumberPrefixes, Zenon
  <2> QED
    BY <1>6, <2>2
<1> DEFINE D == {k \in Nat : k =< len => p[k] = left[len - k]}
<1>9. 0 \in D
  BY <1>2, <1>8
<1>10. ASSUME NEW k \in Nat, k \in D PROVE k + 1 \in D
  <2> SUFFICES ASSUME k + 1 =< len PROVE p[k + 1] = left[len - (k + 1)]
    OBVIOUS
  <2> DEFINE x == left[len - (k + 1)]
  <2>1. x \in Nat
    BY <1>1
  <2>2. p[k] = x \div base
    <3>1. len - k \in 1 .. len /\ (len - k) - 1 = len - (k + 1)
      OBVIOUS
    <3>2. left[len - k] = x \div base
      BY <1>1, <3>1
    <3> QED
      BY <1>10, <3>2
  <2>3. digits[k + 1] = x % base
    BY <1>3
  <2>4. p[k + 1] = p[k] * base + digits[k + 1]
    <3>1. k + 1 \in 1 .. len /\ (k + 1) - 1 = k
      OBVIOUS
    <3> QED
      BY <1>8, <3>1
  <2>5. x = (x \div base) * base + (x % base)
    BY <2>1, Division
  <2> DEFINE y == x \div base
             r == x % base
  <2>6. p[k] = y /\ digits[k + 1] = r /\ x = y * base + r
    BY <2>2, <2>3, <2>5
  <2> HIDE DEF x, y, r
  <2>7. p[k + 1] = x
    BY <2>4, <2>6
  <2> QED
    BY <2>7 DEF x
<1>11. Nat \subseteq D
  <2> HIDE DEF D
  <2> QED
    BY <1>9, <1>10, Induction
<1>12. p[len] = left[0]
  BY <1>11
<1> QED
  BY <1>1, <1>6, <1>8, <1>12 DEF left, digits

\* len bytes hold a number less than Values(len).
LEMMA BytesHold ==
  ASSUME NEW len \in Nat, NEW n \in Nat, n < Values(len)
  PROVE  Quotients(n, Radix, len)[len] = 0
<1> DEFINE left == Quotients(n, Radix, len)
<1>0. Radix \in Nat \ {0}
  BY FormatsAssumption
<1>1. /\ left \in [0 .. len -> Nat]
      /\ left[0] = n
      /\ \A k \in 1 .. len : left[k] = left[k - 1] \div Radix
  BY <1>0, QuotientsRecur
<1> HIDE DEF left
<1>2. PICK v \in [0 .. len -> Nat \ {0}] :
        /\ v[0] = 1
        /\ \A k \in 1 .. len : v[k] = v[k - 1] * Radix
        /\ Values(len) = v[len]
  BY ValuesRecur
<1> DEFINE D == {k \in Nat : k =< len => left[k] < v[len - k]}
<1>3. 0 \in D
  BY <1>1, <1>2
<1>4. ASSUME NEW k \in Nat, k \in D PROVE k + 1 \in D
  <2> SUFFICES ASSUME k + 1 =< len PROVE left[k + 1] < v[len - (k + 1)]
    OBVIOUS
  <2>1. left[k] \in Nat /\ v[len - (k + 1)] \in Nat
    BY <1>1, <1>2
  <2>2. v[len - k] = v[len - (k + 1)] * Radix
    <3>1. len - k \in 1 .. len /\ (len - k) - 1 = len - (k + 1)
      OBVIOUS
    <3> QED
      BY <1>2, <3>1
  <2>3. left[k] < v[len - k]
    BY <1>4
  <2>4. left[k + 1] = left[k] \div Radix
    <3>1. k + 1 \in 1 .. len /\ (k + 1) - 1 = k
      OBVIOUS
    <3> QED
      BY <1>1, <3>1
  <2>5. left[k] < v[len - (k + 1)] * Radix
    BY <2>2, <2>3
  <2>6. left[k] \div Radix < v[len - (k + 1)]
    BY ONLY <1>0, <2>1, <2>5, Division
  <2> QED
    BY <2>4, <2>6
<1>5. Nat \subseteq D
  <2> HIDE DEF D
  <2> QED
    BY <1>3, <1>4, Induction
<1>6. left[len] < v[0] /\ left[len] \in Nat
  BY <1>1, <1>5
<1> QED
  BY <1>2, <1>6 DEF left

\* A number of fewer digits has the same ones among more.
LEMMA QuotientsAgree ==
  ASSUME NEW n \in Nat, NEW base \in Nat \ {0}, NEW m \in Nat, NEW len \in 0 .. m
  PROVE  \A k \in 0 .. len : Quotients(n, base, len)[k] = Quotients(n, base, m)[k]
<1> DEFINE few == Quotients(n, base, len)
           many == Quotients(n, base, m)
<1>1. few[0] = n /\ \A k \in 1 .. len : few[k] = few[k - 1] \div base
  BY QuotientsRecur
<1>2. many[0] = n /\ \A k \in 1 .. m : many[k] = many[k - 1] \div base
  BY QuotientsRecur
<1> HIDE DEF few, many
<1> DEFINE D == {k \in Nat : k =< len => few[k] = many[k]}
<1>3. 0 \in D
  BY <1>1, <1>2
<1>4. ASSUME NEW k \in Nat, k \in D PROVE k + 1 \in D
  <2> SUFFICES ASSUME k + 1 =< len PROVE few[k + 1] = many[k + 1]
    OBVIOUS
  <2>1. k + 1 \in 1 .. len /\ k + 1 \in 1 .. m /\ (k + 1) - 1 = k
    OBVIOUS
  <2>2. few[k] = many[k]
    BY <1>4
  <2>3. few[k + 1] = few[k] \div base /\ many[k + 1] = many[k] \div base
    BY <1>1, <1>2, <2>1
  <2> QED
    BY <2>2, <2>3
<1>5. Nat \subseteq D
  <2> HIDE DEF D
  <2> QED
    BY <1>3, <1>4, Induction
<1> QED
  BY <1>5 DEF few, many

-----------------------------------------------------------------------------
(* BINARY.                                                                 *)

\* Two's complement.
LEMMA Complement ==
  ASSUME NEW v \in Nat \ {0}, NEW s \in -(v \div 2) .. v \div 2 - 1
  PROVE  /\ s % v \in 0 .. v - 1
         /\ IF s >= 0 THEN s % v = s
            ELSE s % v = s + v /\ s % v \notin -(v \div 2) .. v \div 2 - 1
<1> DEFINE h == v \div 2
<1>1. h \in Nat /\ 2 * h =< v
  OBVIOUS
<1>2. s \in Int /\ -h =< s /\ s =< h - 1
  BY <1>1
<1> HIDE DEF h
<1>3. CASE s >= 0
  <2>1. s \in 0 .. v - 1
    BY <1>1, <1>2, <1>3
  <2> QED
    BY <1>3, <2>1
<1>4. CASE s < 0
  <2>1. s + v \in 0 .. v - 1
    BY <1>1, <1>2, <1>4
  <2>2. s % v = s + v
    BY <1>2, <2>1
  <2>3. s % v \notin -h .. h - 1
    BY <1>1, <1>2, <2>2
  <2> QED
    BY <1>2, <1>4, <2>1, <2>2, <2>3 DEF h
<1> QED
  BY <1>2, <1>3, <1>4

LEMMA ValuesPositive == Values(Bytes) \in Nat \ {0}
<1>1. Bytes \in Nat
  BY FormatsAssumption
<1>2. PICK v \in [0 .. Bytes -> Nat \ {0}] : Values(Bytes) = v[Bytes]
  BY <1>1, ValuesRecur
<1> QED
  BY <1>1, <1>2

LEMMA BinaryDigits ==
  ASSUME NEW stamp \in Longs
  PROVE  /\ BINARY(stamp) \in Seq(0 .. Radix - 1)
         /\ Len(BINARY(stamp)) = Bytes
         /\ Number(BINARY(stamp), Radix) = stamp % Values(Bytes)
<1> DEFINE v == Values(Bytes)
<1>1. v \in Nat \ {0} /\ Bytes \in Nat /\ Radix \in Nat \ {0}
  BY ValuesPositive, FormatsAssumption
<1>2. stamp \in -(v \div 2) .. v \div 2 - 1
  BY DEF Longs
<1> HIDE DEF v
<1>3. stamp % v \in Nat /\ stamp % v < v
  BY <1>1, <1>2, Complement
<1>4. Quotients(stamp % v, Radix, Bytes)[Bytes] = 0
  BY <1>1, <1>3, BytesHold DEF v
<1> QED
  BY <1>1, <1>3, <1>4, DigitsNumber DEF BINARY, v

(***************************************************************************)
(* The bytes of a stamp are read back as that stamp (TimeTrial.BINARY and  *)
(* TimeTrial.BINARY(bytes)), negative ones included.                       *)
(***************************************************************************)
THEOREM BinaryReadsBack ==
  ASSUME NEW stamp \in Longs
  PROVE  FromBytes(BINARY(stamp)) = {stamp}
<1> DEFINE v == Values(Bytes)
           n == stamp % v
<1>1. v \in Nat \ {0}
  BY ValuesPositive
<1>2. Longs = -(v \div 2) .. v \div 2 - 1
  BY DEF Longs
<1>3. Number(BINARY(stamp), Radix) = n /\ Len(BINARY(stamp)) = Bytes
  BY BinaryDigits
<1>4. FromBytes(BINARY(stamp)) = {IF n \in Longs THEN n ELSE n - v}
  BY <1>3 DEF FromBytes
<1>5. /\ n \in 0 .. v - 1
      /\ IF stamp >= 0 THEN n = stamp ELSE n = stamp + v /\ n \notin Longs
  BY <1>1, <1>2, Complement
<1>6. stamp \in Int
  BY <1>1, <1>2
<1> HIDE DEF v, n
<1>7. (IF n \in Longs THEN n ELSE n - v) = stamp
  BY <1>1, <1>5, <1>6
<1> QED
  BY <1>4, <1>7

-----------------------------------------------------------------------------
(* The text formats.                                                       *)

\* A number ends after some digits, and has a first end.
LEMMA DecimalLength ==
  ASSUME NEW size \in Nat
  PROVE  \E k \in 1 .. size + 1 :
           /\ Quotients(size, Base, size + 1)[k] = 0
           /\ k > 1 => Quotients(size, Base, size + 1)[k - 1] # 0
<1> DEFINE left == Quotients(size, Base, size + 1)
           m == size + 1
<1>0. Base \in Nat \ {0} /\ Base > 1
  BY FormatsAssumption
<1>1. /\ left \in [0 .. m -> Nat]
      /\ left[0] = size
      /\ \A k \in 1 .. m : left[k] = left[k - 1] \div Base
  <2>1. size + 1 \in Nat
    OBVIOUS
  <2> QED
    BY <1>0, <2>1, QuotientsRecur
<1>2. m \in Nat /\ m = size + 1
  OBVIOUS
<1> HIDE DEF left, m
<1> DEFINE D == {k \in Nat : k =< m => left[k] = 0 \/ left[k] + k =< size}
<1>3. 0 \in D
  BY <1>1
<1>4. ASSUME NEW k \in Nat, k \in D PROVE k + 1 \in D
  <2> SUFFICES ASSUME k + 1 =< m PROVE left[k + 1] = 0 \/ left[k + 1] + (k + 1) =< size
    OBVIOUS
  <2>1. left[k] \in Nat /\ (left[k] = 0 \/ left[k] + k =< size)
    BY <1>1, <1>2, <1>4
  <2>2. left[k + 1] = left[k] \div Base /\ left[k + 1] \in Nat
    <3>1. k + 1 \in 1 .. m /\ (k + 1) - 1 = k /\ k + 1 \in 0 .. m
      BY <1>2
    <3> QED
      BY <1>1, <3>1
  <2>3. left[k] > 0 => left[k + 1] < left[k]
    <3>1. left[k] > 0 => left[k] \div Base < left[k]
      BY ONLY <1>0, <2>1, Division
    <3> QED
      BY <2>2, <3>1
  <2>4. left[k] = 0 => left[k + 1] = 0
    BY <1>0, <2>2
  <2> QED
    BY <2>1, <2>2, <2>3, <2>4
<1>5. Nat \subseteq D
  <2> HIDE DEF D
  <2> QED
    BY <1>3, <1>4, Induction
<1>6. left[m] = 0
  <2>1. left[m] \in Nat
    BY <1>1, <1>2
  <2> QED
    BY <1>2, <1>5, <2>1
<1> DEFINE T == {k \in 1 .. m : left[k] = 0}
<1>7. T \subseteq Nat /\ T # {}
  BY <1>2, <1>6
<1>8. PICK k \in T : \A j \in T : k =< j
  <2> HIDE DEF T
  <2> QED
    BY <1>7, LeastNumber
<1>9. ASSUME k > 1 PROVE left[k - 1] # 0
  BY <1>2, <1>8, <1>9
<1> QED
  BY <1>8, <1>9 DEF left, m

LEMMA DecimalDigits ==
  ASSUME NEW stamp \in Int
  PROVE  \E d \in Seq(0 .. Base - 1) :
           /\ Len(d) >= 1
           /\ IF stamp < 0 THEN Decimal(stamp) = <<Minus>> \o d
              ELSE Decimal(stamp) = d /\ Number(d, Base) = stamp
<1> DEFINE size == IF stamp < 0 THEN -stamp ELSE stamp
           First(k) == /\ Quotients(size, Base, size + 1)[k] = 0
                       /\ k > 1 => Quotients(size, Base, size + 1)[k - 1] # 0
           len == CHOOSE k \in 1 .. size + 1 : First(k)
           d == Digits(size, Base, len)
<1>1. Decimal(stamp) = IF stamp < 0 THEN <<Minus>> \o d ELSE d
  BY DEF Decimal
<1>2. size \in Nat /\ (stamp < 0 \/ size = stamp)
  OBVIOUS
<1> HIDE DEF size
<1>3. \E k \in 1 .. size + 1 : First(k)
  BY <1>2, DecimalLength
<1>4. len \in 1 .. size + 1 /\ First(len)
  <2> HIDE DEF First
  <2> QED
    BY <1>3
<1> HIDE DEF len
<1>5. Base \in Nat \ {0}
  BY FormatsAssumption
<1>6. Quotients(size, Base, len)[len] = 0
  <2>1. size + 1 \in Nat /\ len \in 0 .. size + 1 /\ len \in 0 .. len
    BY <1>2, <1>4
  <2>2. Quotients(size, Base, len)[len] = Quotients(size, Base, size + 1)[len]
    BY ONLY <1>2, <1>5, <2>1, QuotientsAgree
  <2> QED
    BY <1>4, <2>2
<1>7. d \in Seq(0 .. Base - 1) /\ Len(d) = len /\ Number(d, Base) = size
  <2>1. len \in Nat
    BY <1>2, <1>4
  <2> QED
    BY <1>2, <1>5, <1>6, <2>1, DigitsNumber
<1> HIDE DEF d
<1>8. Len(d) >= 1
  BY <1>2, <1>4, <1>7
<1> QED
  BY <1>1, <1>2, <1>7, <1>8

\* The decimal text of a number holds none of the pieces around it.
LEMMA DecimalText ==
  ASSUME NEW stamp \in Int
  PROVE  /\ Decimal(stamp) \in Seq(0 .. Radix - 1)
         /\ Len(Decimal(stamp)) \in Nat \ {0}
         /\ \A i \in 1 .. Len(Decimal(stamp)) : Decimal(stamp)[i] \notin {Open, Close}
<1>1. PICK d \in Seq(0 .. Base - 1) :
        /\ Len(d) >= 1
        /\ Decimal(stamp) = <<Minus>> \o d \/ Decimal(stamp) = d
  BY DecimalDigits
<1>2. /\ Base \in Nat /\ Radix \in Nat /\ Radix > Base + 3
      /\ Open = Base /\ Close = Base + 1 /\ Minus = Base + 2
  BY FormatsAssumption DEF Open, Close, Minus
<1> DEFINE C == (0 .. Radix - 1) \ {Open, Close}
<1>3. d \in Seq(C) /\ Minus \in C
  BY <1>2
<1> HIDE DEF C
<1>4. Decimal(stamp) \in Seq(C) /\ Len(Decimal(stamp)) \in Nat \ {0}
  BY <1>1, <1>3
<1>5. \A i \in 1 .. Len(Decimal(stamp)) : Decimal(stamp)[i] \in C
  BY <1>4
<1>6. C \subseteq 0 .. Radix - 1 /\ Open \notin C /\ Close \notin C
  BY DEF C
<1>7. Decimal(stamp) \in Seq(0 .. Radix - 1)
  BY <1>4, <1>6, SeqMonotonic
<1> QED
  BY <1>4, <1>5, <1>6, <1>7

(***************************************************************************)
(* A stamp's decimal text is read back as that stamp if it can be read     *)
(* (TimeTrial.STRING and N2Long): it can unless it is negative or longer   *)
(* than N2Long accepts.                                                    *)
(***************************************************************************)
THEOREM DecimalReadsBack ==
  ASSUME NEW stamp \in Int
  PROVE  N2Long(Decimal(stamp)) =
           IF stamp >= 0 /\ Len(Decimal(stamp)) =< MaxDigits THEN {stamp} ELSE {}
<1>1. PICK d \in Seq(0 .. Base - 1) :
        /\ Len(d) >= 1
        /\ IF stamp < 0 THEN Decimal(stamp) = <<Minus>> \o d
           ELSE Decimal(stamp) = d /\ Number(d, Base) = stamp
  BY DecimalDigits
<1>2. Base \in Nat /\ MaxDigits \in Nat /\ Minus = Base + 2
  BY FormatsAssumption DEF Minus
<1>3. CASE stamp < 0
  <2>1. 1 \in DOMAIN Decimal(stamp) /\ Decimal(stamp)[1] = Minus
    BY <1>1, <1>2, <1>3
  <2>2. Decimal(stamp)[1] \notin 0 .. Base - 1
    BY <1>2, <2>1
  <2> QED
    BY <1>3, <2>1, <2>2 DEF N2Long
<1>4. CASE stamp >= 0
  <2>1. Decimal(stamp) = d /\ Number(d, Base) = stamp
    BY <1>1, <1>4
  <2>2. \A i \in DOMAIN d : d[i] \in 0 .. Base - 1
    BY LenProperties
  <2>3. Len(d) \in 1 .. MaxDigits <=> Len(d) =< MaxDigits
    BY <1>1, <1>2
  <2> QED
    BY <1>4, <2>1, <2>2, <2>3 DEF N2Long
<1> QED
  BY <1>3, <1>4

\* An answer in JSON or XML: its first and last characters, and what is between.
LEMMA Enclosed ==
  ASSUME NEW d \in Seq(0 .. Radix - 1)
  PROVE  LET w == <<Open>> \o d \o <<Close>> IN
         /\ w \in Seq(0 .. Radix - 1)
         /\ Len(w) = Len(d) + 2
         /\ w[1] = Open /\ w[Len(w)] = Close
         /\ \A i \in 2 .. Len(w) - 1 : w[i] = d[i - 1]
         /\ SubSeq(w, 2, Len(w) - 1) = d
<1> DEFINE w == <<Open>> \o d \o <<Close>>
<1>1. Open \in 0 .. Radix - 1 /\ Close \in 0 .. Radix - 1
  BY FormatsAssumption DEF Open, Close
<1>2. w \in Seq(0 .. Radix - 1) /\ Len(w) = Len(d) + 2
  BY <1>1
<1>3. w[1] = Open /\ w[Len(w)] = Close /\ \A i \in 2 .. Len(w) - 1 : w[i] = d[i - 1]
  BY <1>1, <1>2
<1> HIDE DEF w
<1>4. SubSeq(w, 2, Len(w) - 1) = d
  <2>0. \A i \in 2 .. Len(w) - 1 : w[i] \in 0 .. Radix - 1
    <3>1. \A i \in 2 .. Len(w) - 1 : i \in 1 .. Len(w)
      BY <1>2
    <3> QED
      BY <1>2, <3>1, ElementOfSeq
  <2>1. Len(SubSeq(w, 2, Len(w) - 1)) = Len(d)
    BY <1>2
  <2>2. SubSeq(w, 2, Len(w) - 1) \in Seq(0 .. Radix - 1)
    <3>1. 2 \in Int /\ Len(w) - 1 \in Int
      BY <1>2
    <3> QED
      BY <2>0, <3>1, SubSeqProperties
  <2>3. ASSUME NEW i \in 1 .. Len(d) PROVE SubSeq(w, 2, Len(w) - 1)[i] = d[i]
    <3>1. SubSeq(w, 2, Len(w) - 1)[i] = w[i + 1]
      BY <1>2
    <3>2. i + 1 \in 2 .. Len(w) - 1 /\ (i + 1) - 1 = i
      BY <1>2
    <3> QED
      BY <1>3, <3>1, <3>2
  <2> QED
    BY <2>1, <2>2, <2>3, SeqEqual
<1> QED
  BY <1>2, <1>3, <1>4 DEF w

\* What the server writes is a sequence of bytes.
LEMMA WrittenType ==
  ASSUME NEW format, NEW stamp \in Longs
  PROVE  Written(format, stamp) \in Seq(0 .. Radix - 1)
<1>1. stamp \in Int
  BY ValuesPositive DEF Longs
<1>2. BINARY(stamp) \in Seq(0 .. Radix - 1)
  BY BinaryDigits
<1>3. Decimal(stamp) \in Seq(0 .. Radix - 1)
  BY <1>1, DecimalText
<1>4. <<Open>> \o Decimal(stamp) \o <<Close>> \in Seq(0 .. Radix - 1)
  BY <1>3, Enclosed
<1>5. Page \in Seq(0 .. Radix - 1)
  BY FormatsAssumption DEF Page, Letter
<1> QED
  BY <1>2, <1>3, <1>4, <1>5 DEF Written

\* A text without the opening piece is read as nothing.
LEMMA NotOpened ==
  ASSUME NEW format, format # "STRING", NEW text, text[1] # Open
  PROVE  Parse(format, text) = {}
  BY DEF Parse

\* The page of an error, or the first part of it, is read as nothing.
LEMMA PageUnread ==
  ASSUME NEW format, format # "STRING", NEW k \in 1 .. Bytes
  PROVE  Len(Page) = Bytes /\ Parse(format, SubSeq(Page, 1, k)) = {}
<1>1. Bytes \in Nat /\ Letter # Open /\ Letter \in Int
  BY FormatsAssumption DEF Letter, Open
<1>2. Page \in Seq(Int) /\ Len(Page) = Bytes /\ \A i \in 1 .. Bytes : Page[i] = Letter
  BY <1>1 DEF Page
<1>3. SubSeq(Page, 1, k)[1] = Letter
  BY <1>1, <1>2
<1> QED
  BY <1>1, <1>2, <1>3, NotOpened

(***************************************************************************)
(* A whole answer in a text format is read as the stamp it was written     *)
(* for, or not at all (TimeTrial.parse).                                   *)
(***************************************************************************)
THEOREM TextReadsBack ==
  ASSUME NEW format, format # "BINARY", NEW stamp \in Longs
  PROVE  Parse(format, Written(format, stamp)) \subseteq {stamp}
<1>1. stamp \in Int
  BY ValuesPositive DEF Longs
<1>2. N2Long(Decimal(stamp)) \subseteq {stamp}
  BY <1>1, DecimalReadsBack
<1>3. CASE format = "STRING"
  BY <1>2, <1>3 DEF Written, Parse
<1>4. CASE format \in {"JSON", "XML"}
  <2> DEFINE w == <<Open>> \o Decimal(stamp) \o <<Close>>
  <2>1. SubSeq(w, 2, Len(w) - 1) = Decimal(stamp)
    BY <1>1, DecimalText, Enclosed
  <2>2. Written(format, stamp) = w
    BY <1>4 DEF Written
  <2> HIDE DEF w
  <2>3. Parse(format, w) \subseteq N2Long(SubSeq(w, 2, Len(w) - 1))
    BY <1>4 DEF Parse
  <2> QED
    BY <1>2, <2>1, <2>2, <2>3
<1>5. CASE format \notin {"STRING", "JSON", "XML"}
  <2>1. Written(format, stamp) = Page
    BY <1>5 DEF Written
  <2>2. Page[1] = Letter /\ Letter # Open
    BY FormatsAssumption DEF Page, Letter, Open
  <2> QED
    BY <1>5, <2>1, <2>2, NotOpened
<1> QED
  BY <1>3, <1>4, <1>5

(***************************************************************************)
(* What has come of an answer in JSON or XML is read as nothing until the  *)
(* last piece has come (TimeTrial.parse, fromUint8Array): a first part of  *)
(* the digits is never taken for the stamp.                                *)
(***************************************************************************)
THEOREM PartUnread ==
  ASSUME NEW format \in {"JSON", "XML"}, NEW stamp \in Longs,
         NEW k \in 1 .. Len(Written(format, stamp))
  PROVE  Parse(format, SubSeq(Written(format, stamp), 1, k)) \subseteq
           IF k = Len(Written(format, stamp)) THEN {stamp} ELSE {}
<1> DEFINE d == Decimal(stamp)
           w == Written(format, stamp)
           part == SubSeq(w, 1, k)
<1>1. /\ d \in Seq(0 .. Radix - 1)
      /\ Len(d) \in Nat \ {0}
      /\ \A i \in 1 .. Len(d) : d[i] \notin {Open, Close}
  <2>1. stamp \in Int
    BY ValuesPositive DEF Longs
  <2> QED
    BY <2>1, DecimalText
<1>2. w = <<Open>> \o d \o <<Close>>
  BY DEF Written
<1>3. /\ w \in Seq(0 .. Radix - 1) /\ Len(w) = Len(d) + 2
      /\ w[1] = Open
      /\ \A i \in 2 .. Len(w) - 1 : w[i] = d[i - 1]
  BY <1>1, <1>2, Enclosed
<1>4. k \in 1 .. Len(w)
  OBVIOUS
<1> HIDE DEF d, w
<1>5. CASE k = Len(w)
  <2>1. part = w
    BY <1>3, <1>5, SubSeqFull
  <2>2. Parse(format, w) \subseteq {stamp}
    BY TextReadsBack DEF w
  <2> QED
    BY <1>5, <2>1, <2>2 DEF w
<1>6. CASE k < Len(w)
  <2>1. Len(part) = k /\ part[k] = w[k]
    BY <1>3, <1>4
  <2>2. k > 1 => w[k] # Close
    BY <1>1, <1>3, <1>4, <1>6
  <2> HIDE DEF part
  <2>3. Parse(format, part) = {}
    BY <2>1, <2>2, <1>4 DEF Parse
  <2> QED
    BY <1>6, <2>3 DEF w, part
<1> QED
  BY <1>3, <1>4, <1>5, <1>6

=============================================================================
