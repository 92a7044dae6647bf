----------------------------- MODULE OmniProofs -----------------------------
(***************************************************************************)
(* What object Omni guarantees for every number of processes and threads,  *)
(* every field width, every clock and every number of calls.               *)
(***************************************************************************)
EXTENDS Omni, TLAPS

-----------------------------------------------------------------------------
(* Arithmetic of the layout.                                               *)

\* Dividing by a positive span leaves a remainder below it.
LEMMA DivMod ==
  ASSUME NEW a \in Int, NEW n \in Nat \ {0}
  PROVE  /\ a \div n \in Int
         /\ a % n \in 0 .. n - 1
         /\ a = n * (a \div n) + (a % n)
  OBVIOUS

\* A multiple of u that is smaller in size than u is 0.
LEMMA SmallMultiple ==
  ASSUME NEW k \in Int, NEW u \in Nat \ {0}, -u < k * u, k * u < u
  PROVE  k = 0
<1>1. ASSUME k >= 1 PROVE FALSE
  <2>1. (k - 1) * u >= 0
    BY <1>1
  <2> QED
    BY <2>1
<1>2. ASSUME k =< -1 PROVE FALSE
  <2>1. (-1 - k) * u >= 0
    BY <1>2
  <2> QED
    BY <2>1
<1> QED
  BY <1>1, <1>2

\* Two numbers closer than n with the same remainder modulo n are equal.
LEMMA CloseAndCongruent ==
  ASSUME NEW n \in Nat \ {0}, NEW a \in Int, NEW b \in Int,
         Distance(a, b) < n, a % n = b % n
  PROVE  a = b
<1>1. a \div n \in Int /\ a = n * (a \div n) + (a % n) /\ a % n \in Int
  OBVIOUS
<1>2. b \div n \in Int /\ b = n * (b \div n) + (b % n) /\ b % n \in Int
  OBVIOUS
<1>3. -n < a - b /\ a - b < n
  BY DEF Distance
<1>4. PICK p \in Int : a = n * p + (a % n)
  BY <1>1
<1>5. PICK q \in Int : b = n * q + (b % n)
  BY <1>2
<1>6. a - b = (p - q) * n
  BY <1>1, <1>2, <1>4, <1>5
<1>7. p - q = 0
  BY <1>3, <1>6, SmallMultiple
<1> QED
  BY <1>1, <1>2, <1>4, <1>5, <1>7

\* The time field is a signed number of its width.
LEMMA ShiftTimeRange ==
  ASSUME NEW ts \in Int
  PROVE  shiftTime(ts) \in -HalfTime .. HalfTime - 1
<1>1. TickOf(ts) \in Int
  BY LayoutAssumption, DivMod DEF TickOf
<1>2. 2 * HalfTime \in Nat \ {0}
  BY LayoutAssumption
<1> DEFINE w == TickOf(ts) + HalfTime
<1>3. w \in Int
  BY <1>1, LayoutAssumption
<1> HIDE DEF w
<1>4. w % (2 * HalfTime) \in 0 .. 2 * HalfTime - 1
  BY <1>2, <1>3, DivMod
<1> QED
  BY <1>4, LayoutAssumption DEF shiftTime, w

\* The count field is a number of its width.
LEMMA CountFieldRange ==
  ASSUME NEW c \in Int
  PROVE  CountField(c) \in 0 .. CountSpan - 1
BY LayoutAssumption, DivMod DEF CountField

\* What lies below the time field is less than one unit of it.
LEMMA LowPart ==
  ASSUME NEW f \in 0 .. CountSpan - 1, NEW h \in 0 .. HostSpan - 1
  PROVE  f * CountUnit + h \in 0 .. TimeUnit - 1
<1>1. h < CountUnit
  BY LayoutAssumption
<1>2. f * CountUnit >= 0
  BY LayoutAssumption
<1>3. (CountSpan - 1 - f) * CountUnit >= 0
  BY LayoutAssumption
<1>4. f * CountUnit =< CountSpan * CountUnit - CountUnit
  BY <1>3, LayoutAssumption
<1> QED
  BY <1>1, <1>2, <1>4, LayoutAssumption

\* An identifier is a signed Long.
LEMMA MakeMOIType ==
  ASSUME NEW ts \in Int, NEW c \in Int, NEW h \in 0 .. HostSpan - 1
  PROVE  MakeMOI(ts, c, h) \in MOI
<1> DEFINE s == shiftTime(ts)
           low == CountField(c) * CountUnit + h
<1>1. s \in -HalfTime .. HalfTime - 1
  BY ShiftTimeRange
<1>2. low \in 0 .. TimeUnit - 1
  BY CountFieldRange, LowPart
<1>3. MakeMOI(ts, c, h) = s * TimeUnit + low
  <2>1. CountField(c) * CountUnit \in Int
    BY CountFieldRange, LayoutAssumption
  <2>2. s * TimeUnit \in Int
    BY <1>1, LayoutAssumption
  <2> QED
    BY <2>1, <2>2 DEF MakeMOI
<1> HIDE DEF s, low
<1>4. (s + HalfTime) * TimeUnit >= 0
  BY <1>1, LayoutAssumption
<1>5. (HalfTime - 1 - s) * TimeUnit >= 0
  BY <1>1, LayoutAssumption
<1> QED
  BY <1>1, <1>2, <1>3, <1>4, <1>5, LayoutAssumption DEF MOI

\* A number is split into a high part and a low part in one way only.
LEMMA SplitUnique ==
  ASSUME NEW u \in Nat \ {0}, NEW s1 \in Int, NEW s2 \in Int,
         NEW l1 \in 0 .. u - 1, NEW l2 \in 0 .. u - 1,
         s1 * u + l1 = s2 * u + l2
  PROVE  s1 = s2 /\ l1 = l2
<1>1. (s1 - s2) * u = l2 - l1
  OBVIOUS
<1>2. s1 - s2 = 0
  BY <1>1, SmallMultiple
<1> QED
  BY <1>1, <1>2

(***************************************************************************)
(* The three fields can be read back from an identifier: the bitwise or of *)
(* Omni.apply() loses nothing.                                             *)
(***************************************************************************)
LEMMA FieldsRecoverable ==
  ASSUME NEW ts1 \in Int, NEW c1 \in Int, NEW h1 \in 0 .. HostSpan - 1,
         NEW ts2 \in Int, NEW c2 \in Int, NEW h2 \in 0 .. HostSpan - 1,
         MakeMOI(ts1, c1, h1) = MakeMOI(ts2, c2, h2)
  PROVE  /\ shiftTime(ts1) = shiftTime(ts2)
         /\ CountField(c1) = CountField(c2)
         /\ h1 = h2
<1>1. /\ shiftTime(ts1) \in Int
      /\ shiftTime(ts2) \in Int
  BY ShiftTimeRange, LayoutAssumption
<1>2. /\ CountField(c1) \in 0 .. CountSpan - 1
      /\ CountField(c2) \in 0 .. CountSpan - 1
  BY CountFieldRange
<1>3. /\ CountField(c1) * CountUnit + h1 \in 0 .. TimeUnit - 1
      /\ CountField(c2) * CountUnit + h2 \in 0 .. TimeUnit - 1
  BY <1>2, LowPart
<1> DEFINE s1 == shiftTime(ts1)
           s2 == shiftTime(ts2)
           f1 == CountField(c1)
           f2 == CountField(c2)
           l1 == f1 * CountUnit + h1
           l2 == f2 * CountUnit + h2
<1>4. s1 * TimeUnit + l1 = s2 * TimeUnit + l2
  <2>1. s1 * TimeUnit \in Int /\ s2 * TimeUnit \in Int
    BY <1>1, LayoutAssumption
  <2>2. f1 * CountUnit \in Int /\ f2 * CountUnit \in Int
    BY <1>2, LayoutAssumption
  <2> QED
    BY <2>1, <2>2 DEF MakeMOI
<1>5. s1 = s2 /\ l1 = l2
  <2>1. s1 \in Int /\ s2 \in Int
    BY <1>1
  <2>2. l1 \in 0 .. TimeUnit - 1 /\ l2 \in 0 .. TimeUnit - 1
    BY <1>3
  <2> HIDE DEF s1, s2, l1, l2
  <2> QED
    BY <2>1, <2>2, <1>4, SplitUnique, LayoutAssumption
<1> HIDE DEF s1, s2, l1, l2, f1, f2
<1>6. f1 * CountUnit + h1 = f2 * CountUnit + h2
  BY <1>5 DEF l1, l2
<1>7. f1 \in Int /\ f2 \in Int
  BY <1>2 DEF f1, f2
<1>8. h1 \in 0 .. CountUnit - 1 /\ h2 \in 0 .. CountUnit - 1
  BY LayoutAssumption
<1>9. f1 = f2 /\ h1 = h2
  BY <1>6, <1>7, <1>8, SplitUnique, LayoutAssumption
<1> QED
  BY <1>5, <1>9 DEF s1, s2, f1, f2

-----------------------------------------------------------------------------
(* Type correctness.                                                       *)

(***************************************************************************)
(* In every execution the threads stay within the steps of Omni.apply, the *)
(* clocks within their bounds, and what a call returns is a signed Long.   *)
(***************************************************************************)
THEOREM TypeCorrect == Spec => []TypeOK
<1>1. Init => TypeOK
  BY OmniAssumption DEF Init, TypeOK
<1>2. TypeOK /\ [Next]_vars => TypeOK'
  <2> SUFFICES ASSUME TypeOK, [Next]_vars
               PROVE  TypeOK'
    OBVIOUS
  <2> USE OmniAssumption DEF TypeOK
  <2>1. ASSUME NEW p \in Process, Tick(p)
        PROVE  TypeOK'
    BY <2>1 DEF Tick
  <2>2. ASSUME NEW p \in Process, StepBack(p)
        PROVE  TypeOK'
    BY <2>2 DEF StepBack
  <2>3. ASSUME NEW t \in Thread, ReadTime(t)
        PROVE  TypeOK'
    BY <2>3 DEF ReadTime
  <2>4. ASSUME NEW t \in Thread, Draw(t)
        PROVE  TypeOK'
    BY <2>4 DEF Draw
  <2>5. ASSUME NEW t \in Thread, Return(t)
        PROVE  TypeOK'
    <3>1. MakeMOI(reading[t], ticket[t], host[home[t]]) \in MOI
      BY MakeMOIType
    <3>2. issued' \in Seq(Call)
      BY <2>5, <3>1 DEF Return, Call
    <3> QED
      BY <2>5, <3>2 DEF Return
  <2>6. CASE UNCHANGED vars
    BY <2>6 DEF vars
  <2> QED
    BY <2>1, <2>2, <2>3, <2>4, <2>5, <2>6 DEF Next
<1> QED
  BY <1>1, <1>2, PTL DEF Spec

-----------------------------------------------------------------------------
(* Uniqueness.                                                             *)

(***************************************************************************)
(* No value of a process's counter (package.scala:34) is drawn by two      *)
(* calls, whether they have returned or are under way: the inductive       *)
(* invariant.                                                              *)
(***************************************************************************)
THEOREM TicketsOnce == Spec => []EveryTicketOnce
<1>1. Init => EveryTicketOnce
  BY OmniAssumption DEF Init, EveryTicketOnce, TypeOK, TicketsBelowCounter,
     TicketsDistinct, IssuedAsMade, Drawn, IssuedBy
<1>2. EveryTicketOnce /\ TypeOK' /\ [Next]_vars => EveryTicketOnce'
  <2> SUFFICES ASSUME EveryTicketOnce, TypeOK', [Next]_vars
               PROVE  EveryTicketOnce'
    OBVIOUS
  <2> USE OmniAssumption DEF EveryTicketOnce, TypeOK
  <2>1. ASSUME UNCHANGED <<counter, ticket, issued>>,
               \A p \in Process : Drawn(p)' = Drawn(p)
        PROVE  EveryTicketOnce'
    BY <2>1 DEF TicketsBelowCounter, TicketsDistinct, IssuedAsMade, IssuedBy
  <2>2. ASSUME NEW p \in Process, Tick(p)
        PROVE  EveryTicketOnce'
    BY <2>1, <2>2 DEF Tick, Drawn
  <2>3. ASSUME NEW p \in Process, StepBack(p)
        PROVE  EveryTicketOnce'
    BY <2>1, <2>3 DEF StepBack, Drawn
  <2>4. ASSUME NEW t \in Thread, ReadTime(t)
        PROVE  EveryTicketOnce'
    BY <2>1, <2>4 DEF ReadTime, Drawn
  <2>5. ASSUME NEW t \in Thread, Draw(t)
        PROVE  EveryTicketOnce'
    <3>1. \A p \in Process : Drawn(p)' = IF p = home[t] THEN Drawn(p) \cup {t}
                                                       ELSE Drawn(p)
      BY <2>5 DEF Draw, Drawn
    <3>2. ticket'[t] = counter[home[t]] /\ \A u \in Thread : u # t => ticket'[u] = ticket[u]
      BY <2>5 DEF Draw
    <3>3. /\ counter'[home[t]] = counter[home[t]] + 1
          /\ \A p \in Process : p # home[t] => counter'[p] = counter[p]
          /\ issued' = issued
      BY <2>5 DEF Draw
    <3>4. t \notin Drawn(home[t])
      BY <2>5 DEF Draw, Drawn
    <3>5. \A p \in Process :
            /\ IssuedBy(p)' = IssuedBy(p)
            /\ \A i \in IssuedBy(p) : issued'[i] = issued[i] /\ issued[i].ticket \in Nat
      <4>1. \A i \in DOMAIN issued : issued[i] \in Call
        OBVIOUS
      <4>2. \A i \in DOMAIN issued : issued[i].ticket \in Nat
        BY <4>1 DEF Call
      <4> HIDE DEF TypeOK
      <4> QED
        BY <3>3, <4>2 DEF IssuedBy
    <3>6. \A p \in Process : Drawn(p) \in SUBSET Thread
      BY DEF Drawn
    <3>7. \A p \in Process : counter[p] \in Nat /\ counter'[p] \in Nat /\ counter[p] =< counter'[p]
      <4> SUFFICES ASSUME NEW p \in Process
                   PROVE  counter[p] \in Nat /\ counter'[p] \in Nat /\ counter[p] =< counter'[p]
        OBVIOUS
      <4>1. counter[p] \in Nat /\ counter'[p] \in Nat
        OBVIOUS
      <4>2. CASE p = home[t]
        BY <3>3, <4>1, <4>2
      <4>3. CASE p # home[t]
        BY <3>3, <4>1, <4>3
      <4> QED
        BY <4>1, <4>2, <4>3
    <3>8. ticket'[t] \in Nat /\ ticket'[t] < counter'[home[t]]
      BY <3>2, <3>3
    <3> HIDE DEF TypeOK
    <3>9. TicketsBelowCounter'
      <4> SUFFICES ASSUME NEW p \in Process
                   PROVE  /\ \A u \in Drawn(p)' : ticket'[u] < counter'[p]
                          /\ \A i \in IssuedBy(p)' : issued'[i].ticket < counter'[p]
        BY DEF TicketsBelowCounter
      <4>1. ASSUME NEW u \in Drawn(p)'
            PROVE  ticket'[u] < counter'[p]
        <5>1. CASE u = t
          BY <5>1, <3>1, <3>4, <3>8 DEF Drawn
        <5>2. CASE u # t
          <6>1. u \in Drawn(p) /\ ticket'[u] = ticket[u] /\ ticket[u] \in Nat
            BY <4>1, <5>2, <3>1, <3>2, <3>6 DEF TypeOK
          <6>2. ticket[u] < counter[p]
            BY <6>1 DEF TicketsBelowCounter
          <6> QED
            BY <6>1, <6>2, <3>7
        <5> QED
          BY <5>1, <5>2
      <4>2. ASSUME NEW i \in IssuedBy(p)'
            PROVE  issued'[i].ticket < counter'[p]
        <5>1. i \in IssuedBy(p) /\ issued'[i] = issued[i] /\ issued[i].ticket \in Nat
          BY <3>5
        <5>2. issued[i].ticket < counter[p]
          BY <5>1 DEF TicketsBelowCounter
        <5> QED
          BY <5>1, <5>2, <3>7
      <4> QED
        BY <4>1, <4>2
    <3>10. \A u \in Drawn(home[t]) : u # t /\ ticket'[u] # ticket'[t]
      <4> SUFFICES ASSUME NEW u \in Drawn(home[t])
                   PROVE  u # t /\ ticket'[u] # ticket'[t]
        OBVIOUS
      <4>1. u # t /\ u \in Thread /\ home[t] \in Process
        BY <3>4, <3>6
      <4>2. ticket[u] \in Nat /\ counter[home[t]] \in Nat
        BY <4>1 DEF TypeOK
      <4>3. ticket[u] < counter[home[t]]
        BY <4>1 DEF TicketsBelowCounter
      <4> QED
        BY <4>1, <4>2, <4>3, <3>2
    <3>11. \A i \in IssuedBy(home[t]) : ticket'[t] # issued'[i].ticket
      <4> SUFFICES ASSUME NEW i \in IssuedBy(home[t])
                   PROVE  ticket'[t] # issued'[i].ticket
        OBVIOUS
      <4>1. home[t] \in Process
        OBVIOUS
      <4>2. counter[home[t]] \in Nat
        BY <4>1 DEF TypeOK
      <4>3. issued[i].ticket < counter[home[t]] /\ issued[i].ticket \in Nat /\ issued'[i] = issued[i]
        BY <4>1, <3>5 DEF TicketsBelowCounter
      <4> QED
        BY <4>2, <4>3, <3>2
    <3>12. TicketsDistinct'
      <4> SUFFICES ASSUME NEW p \in Process
                   PROVE  /\ \A u, v \in Drawn(p)' : u # v => ticket'[u] # ticket'[v]
                          /\ \A u \in Drawn(p)', i \in IssuedBy(p)' :
                               ticket'[u] # issued'[i].ticket
                          /\ \A i, j \in IssuedBy(p)' :
                               i # j => issued'[i].ticket # issued'[j].ticket
        BY DEF TicketsDistinct
      <4>1. \A u, v \in Drawn(p) : u # v => ticket[u] # ticket[v]
        BY DEF TicketsDistinct
      <4>2. \A u \in Drawn(p) : u # t /\ ticket'[u] = ticket[u]
        BY <3>2, <3>4, <3>6 DEF Drawn
      <4>3. \A u, v \in Drawn(p)' : u # v => ticket'[u] # ticket'[v]
        BY <4>1, <4>2, <3>1, <3>10
      <4>4. \A u \in Drawn(p)', i \in IssuedBy(p)' : ticket'[u] # issued'[i].ticket
        BY <4>2, <3>1, <3>5, <3>11 DEF TicketsDistinct
      <4>5. \A i, j \in IssuedBy(p)' : i # j => issued'[i].ticket # issued'[j].ticket
        BY <3>5 DEF TicketsDistinct
      <4> QED
        BY <4>3, <4>4, <4>5
    <3>13. IssuedAsMade'
      BY <3>3 DEF IssuedAsMade
    <3> QED
      BY <3>9, <3>12, <3>13
  <2>6. ASSUME NEW t \in Thread, Return(t)
        PROVE  EveryTicketOnce'
    <3> DEFINE n == Len(issued) + 1
    <3>1. /\ t \in Drawn(home[t])
          /\ \A p \in Process : Drawn(p)' = Drawn(p) \ {t}
          /\ UNCHANGED counter
          /\ \A p \in Process : \A u \in Drawn(p) \ {t} : ticket'[u] = ticket[u]
      BY <2>6 DEF Return, Drawn
    <3>2. /\ DOMAIN issued' = DOMAIN issued \cup {n}
          /\ n \notin DOMAIN issued
          /\ \A i \in DOMAIN issued : issued'[i] = issued[i]
          /\ issued'[n].process = home[t]
          /\ issued'[n].ticket = ticket[t]
          /\ issued'[n].time = reading[t]
          /\ issued'[n].moi = MakeMOI(reading[t], ticket[t], host[home[t]])
      BY <2>6 DEF Return
    <3> HIDE DEF n
    <3>3. \A p \in Process : IssuedBy(p)' = IF p = home[t] THEN IssuedBy(p) \cup {n}
                                                          ELSE IssuedBy(p)
      BY <3>2 DEF IssuedBy
    <3>4. \A p \in Process : \A i \in IssuedBy(p) : i \in DOMAIN issued
      BY DEF IssuedBy
    <3>5. TicketsBelowCounter'
      <4> SUFFICES ASSUME NEW p \in Process
                   PROVE  /\ \A u \in Drawn(p)' : ticket'[u] < counter[p]
                          /\ \A i \in IssuedBy(p)' : issued'[i].ticket < counter[p]
        BY <3>1 DEF TicketsBelowCounter
      <4>1. /\ \A u \in Drawn(p) : ticket[u] < counter[p]
            /\ \A i \in IssuedBy(p) : issued[i].ticket < counter[p]
        BY DEF TicketsBelowCounter
      <4>2. \A u \in Drawn(p)' : ticket'[u] < counter[p]
        BY <3>1, <4>1
      <4>3. ticket[t] < counter[home[t]]
        BY <3>1 DEF TicketsBelowCounter
      <4> HIDE DEF TypeOK, EveryTicketOnce
      <4>4. \A i \in IssuedBy(p)' : issued'[i].ticket < counter[p]
        BY <3>2, <3>3, <3>4, <4>1, <4>3
      <4> QED
        BY <4>2, <4>4
    <3>6. TicketsDistinct'
      <4> SUFFICES ASSUME NEW p \in Process
                   PROVE  /\ \A u, v \in Drawn(p)' : u # v => ticket'[u] # ticket'[v]
                          /\ \A u \in Drawn(p)', i \in IssuedBy(p)' :
                               ticket'[u] # issued'[i].ticket
                          /\ \A i, j \in IssuedBy(p)' :
                               i # j => issued'[i].ticket # issued'[j].ticket
        BY DEF TicketsDistinct
      <4>1. \A i \in IssuedBy(p) : issued'[i] = issued[i] /\ i # n
        BY <3>2, <3>4
      <4>2. \A u, v \in Drawn(p)' : u # v => ticket'[u] # ticket'[v]
        BY <3>1 DEF TicketsDistinct
      <4>3. \A u \in Drawn(p)', i \in IssuedBy(p)' : ticket'[u] # issued'[i].ticket
        <5>1. \A u \in Drawn(p), i \in IssuedBy(p) : ticket[u] # issued[i].ticket
          BY DEF TicketsDistinct
        <5>2. p = home[t] => \A u \in Drawn(p) \ {t} : ticket[u] # ticket[t]
          BY <3>1 DEF TicketsDistinct
        <5> HIDE DEF TypeOK, EveryTicketOnce
        <5>3. CASE p = home[t]
          <6>1. IssuedBy(p)' = IssuedBy(p) \cup {n}
            BY <5>3, <3>3
          <6>2. issued'[n].ticket = ticket[t]
            BY <3>2
          <6> QED
            BY <5>1, <5>2, <5>3, <6>1, <6>2, <4>1, <3>1
        <5>4. CASE p # home[t]
          BY <5>1, <5>4, <4>1, <3>1, <3>3
        <5> QED
          BY <5>3, <5>4
      <4>4. \A i, j \in IssuedBy(p)' : i # j => issued'[i].ticket # issued'[j].ticket
        <5>1. \A i, j \in IssuedBy(p) : i # j => issued[i].ticket # issued[j].ticket
          BY DEF TicketsDistinct
        <5>2. p = home[t] => \A i \in IssuedBy(p) : ticket[t] # issued[i].ticket
          BY <3>1 DEF TicketsDistinct
        <5> HIDE DEF TypeOK, EveryTicketOnce
        <5>3. CASE p = home[t]
          <6>1. IssuedBy(p)' = IssuedBy(p) \cup {n}
            BY <5>3, <3>3
          <6>2. issued'[n].ticket = ticket[t]
            BY <3>2
          <6> QED
            BY <5>1, <5>2, <5>3, <6>1, <6>2, <4>1
        <5>4. CASE p # home[t]
          BY <5>1, <5>4, <4>1, <3>3
        <5> QED
          BY <5>3, <5>4
      <4> QED
        BY <4>2, <4>3, <4>4
    <3>7. IssuedAsMade'
      BY <3>2 DEF IssuedAsMade
    <3> QED
      BY <3>5, <3>6, <3>7
  <2>7. CASE UNCHANGED vars
    BY <2>1, <2>7 DEF vars, Drawn
  <2> QED
    BY <2>2, <2>3, <2>4, <2>5, <2>6, <2>7 DEF Next
<1> QED
  BY <1>1, <1>2, TypeCorrect, PTL DEF Spec

(***************************************************************************)
(* Identifiers of processes with different hosts, and those of one process *)
(* that are fewer than CountSpan draws apart, are different: in every      *)
(* execution, for every interleaving and every movement of the clocks.     *)
(***************************************************************************)
THEOREM UniqueWithinWindow == Spec => []DistinctWithinWindow
<1>1. EveryTicketOnce => DistinctWithinWindow
  <2> SUFFICES ASSUME EveryTicketOnce,
                      NEW i \in DOMAIN issued, NEW j \in DOMAIN issued,
                      issued[i].moi = issued[j].moi
               PROVE  /\ host[issued[i].process] = host[issued[j].process]
                      /\ \/ i = j
                         \/ issued[i].process # issued[j].process
                         \/ ~ (Distance(issued[i].ticket, issued[j].ticket) < CountSpan)
    BY DEF DistinctWithinWindow
  <2> DEFINE a == issued[i]
             b == issued[j]
  <2>1. a \in Call /\ b \in Call
    BY DEF EveryTicketOnce, TypeOK
  <2>2. /\ a.time \in Int /\ a.ticket \in Int /\ a.process \in Process
        /\ b.time \in Int /\ b.ticket \in Int /\ b.process \in Process
    BY <2>1 DEF Call
  <2>3. host[a.process] \in 0 .. HostSpan - 1 /\ host[b.process] \in 0 .. HostSpan - 1
    BY <2>2, OmniAssumption
  <2>4. MakeMOI(a.time, a.ticket, host[a.process])
          = MakeMOI(b.time, b.ticket, host[b.process])
    BY DEF EveryTicketOnce, IssuedAsMade
  <2>5. CountField(a.ticket) = CountField(b.ticket) /\ host[a.process] = host[b.process]
    BY <2>2, <2>3, <2>4, FieldsRecoverable
  <2>6. ASSUME Distance(a.ticket, b.ticket) < CountSpan
        PROVE  a.ticket = b.ticket
    BY <2>2, <2>5, <2>6, CloseAndCongruent, LayoutAssumption DEF CountField
  <2>7. ASSUME a.process = b.process, i # j
        PROVE  a.ticket # b.ticket
    BY <2>2, <2>7 DEF EveryTicketOnce, TicketsDistinct, IssuedBy
  <2> QED
    BY <2>5, <2>6, <2>7
<1> QED
  BY <1>1, TicketsOnce, PTL

-----------------------------------------------------------------------------
(* Order.                                                                  *)

\* Division by a positive number is monotone.
LEMMA DivMonotone ==
  ASSUME NEW n \in Nat \ {0}, NEW a \in Int, NEW b \in Int, a =< b
  PROVE  a \div n =< b \div n
<1>1. PICK p \in Int : p = a \div n /\ n * p =< a /\ a < n * p + n
  BY DivMod
<1>2. PICK q \in Int : q = b \div n /\ n * q =< b /\ b < n * q + n
  BY DivMod
<1>3. ASSUME q =< p - 1
      PROVE  FALSE
  <2>1. (p - 1 - q) * n >= 0
    BY <1>3
  <2>2. n * q + n =< n * p
    BY <2>1
  <2> QED
    BY <1>1, <1>2, <2>2
<1> QED
  BY <1>1, <1>2, <1>3

\* A tick that fits the time field is stored as it is.
LEMMA ShiftTimeExact ==
  ASSUME NEW ts \in Int, TickOf(ts) \in -HalfTime .. HalfTime - 1
  PROVE  shiftTime(ts) = TickOf(ts)
<1> DEFINE w == TickOf(ts) + HalfTime
           m == 2 * HalfTime
<1>1. w \in 0 .. m - 1 /\ m \in Nat \ {0}
  BY LayoutAssumption
<1> HIDE DEF w, m
<1>2. w % m = w
  BY <1>1
<1> QED
  BY <1>2, LayoutAssumption DEF shiftTime, w, m

\* A later tick makes a larger identifier, whatever the other fields are.
LEMMA LaterTickLarger ==
  ASSUME NEW s1 \in Int, NEW s2 \in Int, s1 < s2,
         NEW l1 \in 0 .. TimeUnit - 1, NEW l2 \in 0 .. TimeUnit - 1
  PROVE  s1 * TimeUnit + l1 < s2 * TimeUnit + l2
<1>1. (s2 - 1 - s1) * TimeUnit >= 0
  BY LayoutAssumption
<1>2. s1 * TimeUnit + TimeUnit =< s2 * TimeUnit
  BY <1>1, LayoutAssumption
<1>3. s1 * TimeUnit \in Int /\ s2 * TimeUnit \in Int
  BY LayoutAssumption
<1> QED
  BY <1>2, <1>3, LayoutAssumption

(***************************************************************************)
(* Identifiers of one process whose ticks do not decrease and whose        *)
(* counts increase without a wrap inside the tick are increasing.          *)
(***************************************************************************)
LEMMA MakeMOIIncreases ==
  ASSUME NEW ts1 \in Int, TickOf(ts1) \in -HalfTime .. HalfTime - 1,
         NEW ts2 \in Int, TickOf(ts2) \in -HalfTime .. HalfTime - 1,
         NEW c1 \in Nat, NEW c2 \in Nat, NEW h \in 0 .. HostSpan - 1,
         ts1 =< ts2, c1 < c2,
         TickOf(ts1) = TickOf(ts2) => c1 \div CountSpan = c2 \div CountSpan
  PROVE  MakeMOI(ts1, c1, h) < MakeMOI(ts2, c2, h)
<1> DEFINE s1 == TickOf(ts1)
           s2 == TickOf(ts2)
           f1 == CountField(c1)
           f2 == CountField(c2)
           l1 == f1 * CountUnit + h
           l2 == f2 * CountUnit + h
<1>1. s1 \in Int /\ s2 \in Int /\ s1 =< s2
  BY LayoutAssumption, DivMonotone DEF TickOf
<1>2. f1 \in 0 .. CountSpan - 1 /\ f2 \in 0 .. CountSpan - 1
  BY CountFieldRange
<1>3. l1 \in 0 .. TimeUnit - 1 /\ l2 \in 0 .. TimeUnit - 1
  BY <1>2, LowPart
<1>4. /\ MakeMOI(ts1, c1, h) = s1 * TimeUnit + l1
      /\ MakeMOI(ts2, c2, h) = s2 * TimeUnit + l2
  <2>1. shiftTime(ts1) = s1 /\ shiftTime(ts2) = s2
    BY ShiftTimeExact
  <2>2. f1 * CountUnit \in Int /\ f2 * CountUnit \in Int
    BY <1>2, LayoutAssumption
  <2>3. s1 * TimeUnit \in Int /\ s2 * TimeUnit \in Int
    BY <1>1, LayoutAssumption
  <2> QED
    BY <2>1, <2>2, <2>3 DEF MakeMOI
<1>5. ASSUME s1 = s2
      PROVE  f1 < f2
  <2> DEFINE q1 == c1 \div CountSpan
             q2 == c2 \div CountSpan
  <2>1. q1 \in Int /\ c1 = CountSpan * q1 + f1
    BY DivMod, LayoutAssumption DEF CountField
  <2>2. q2 \in Int /\ c2 = CountSpan * q2 + f2
    BY DivMod, LayoutAssumption DEF CountField
  <2>3. q1 = q2
    BY <1>5
  <2>4. CountSpan * q1 \in Int
    BY <2>1, LayoutAssumption
  <2> HIDE DEF f1, f2, q1, q2
  <2> QED
    BY <1>2, <2>1, <2>2, <2>3, <2>4
<1> HIDE DEF s1, s2, f1, f2
<1>6. CASE s1 < s2
  <2> HIDE DEF l1, l2
  <2> QED
    BY <1>1, <1>3, <1>4, <1>6, LaterTickLarger
<1>7. CASE s1 = s2
  <2>1. (f2 - 1 - f1) * CountUnit >= 0
    BY <1>2, <1>5, <1>7, LayoutAssumption
  <2>2. f1 * CountUnit + CountUnit =< f2 * CountUnit
    BY <1>2, <2>1, LayoutAssumption
  <2>3. f1 * CountUnit \in Int /\ f2 * CountUnit \in Int
    BY <1>2, LayoutAssumption
  <2>4. l1 < l2
    BY <2>2, <2>3, LayoutAssumption
  <2>5. s1 * TimeUnit \in Int
    BY <1>1, LayoutAssumption
  <2> HIDE DEF l1, l2
  <2> QED
    BY <1>3, <1>4, <1>7, <2>4, <2>5
<1> QED
  BY <1>1, <1>6, <1>7

(***************************************************************************)
(* What a call under way knows of the calls that returned before it began: *)
(* they hold smaller tickets and, unless the clock was set back, read no   *)
(* later time.                                                             *)
(***************************************************************************)
TimesInBounds ==
  /\ \A t \in Thread : pc[t] # "idle" => reading[t] \in MinClock .. MaxClock
  /\ \A i \in DOMAIN issued : issued[i].time \in MinClock .. MaxClock

ClockIsLatest ==
  \A p \in Process \ setBack :
    /\ \A t \in Thread : home[t] = p /\ pc[t] # "idle" => reading[t] =< clock[p]
    /\ \A i \in IssuedBy(p) : issued[i].time =< clock[p]

CallsUnderWay ==
  \A t \in Thread : pc[t] # "idle" =>
    /\ began[t] =< Len(issued)
    /\ \A i \in IssuedBy(home[t]) : i =< began[t] =>
         /\ home[t] \notin setBack => issued[i].time =< reading[t]
         /\ pc[t] = "counted" => issued[i].ticket < ticket[t]

CallsReturned ==
  \A i, j \in DOMAIN issued : Follows(i, j) =>
    /\ issued[i].process \notin setBack => issued[i].time =< issued[j].time
    /\ issued[i].ticket < issued[j].ticket

BeganBefore ==
  \A j \in DOMAIN issued : issued[j].began < j

OrderInv ==
  TimesInBounds /\ ClockIsLatest /\ CallsUnderWay /\ CallsReturned /\ BeganBefore

LEMMA OrderKept ==
  ASSUME EveryTicketOnce, OrderInv, [Next]_vars
  PROVE  OrderInv'
<1> USE DEF OrderInv
<1>0. /\ TypeOK
      /\ MinClock \in Int /\ MaxClock \in Int
      /\ \A t \in Thread : home[t] \in Process
      /\ \A i \in DOMAIN issued : issued[i] \in Call
  BY OmniAssumption DEF EveryTicketOnce, TypeOK
<1>1. ASSUME NEW p \in Process, Tick(p)
      PROVE  OrderInv'
  <2>1. UNCHANGED <<setBack, counter, pc, reading, ticket, began, issued>>
    BY <1>1 DEF Tick
  <2>2. \A q \in Process : clock[q] \in Int /\ clock'[q] \in Int /\ clock[q] =< clock'[q]
    BY <1>0, <1>1 DEF Tick, TypeOK
  <2>3. ClockIsLatest'
    <3> SUFFICES ASSUME NEW q \in Process \ setBack
                 PROVE  /\ \A t \in Thread : home[t] = q /\ pc[t] # "idle" =>
                             reading[t] =< clock'[q]
                        /\ \A i \in IssuedBy(q) : issued[i].time =< clock'[q]
      BY <2>1 DEF ClockIsLatest, IssuedBy
    <3>1. /\ \A t \in Thread : reading[t] \in Int
          /\ \A i \in IssuedBy(q) : issued[i].time \in Int
      BY <1>0 DEF TypeOK, Call, IssuedBy
    <3> QED
      BY <2>2, <3>1 DEF ClockIsLatest
  <2> QED
    BY <2>1, <2>3 DEF TimesInBounds, CallsUnderWay, CallsReturned, Follows, BeganBefore, IssuedBy
<1>2. ASSUME NEW p \in Process, StepBack(p)
      PROVE  OrderInv'
  <2>1. /\ UNCHANGED <<counter, pc, reading, ticket, began, issued>>
        /\ setBack' = setBack \cup {p}
    BY <1>2 DEF StepBack
  <2>2. \A q \in Process \ setBack' : q \in Process \ setBack /\ clock'[q] = clock[q]
    BY <1>0, <1>2 DEF StepBack, TypeOK
  <2>3. ClockIsLatest'
    BY <2>1, <2>2 DEF ClockIsLatest, IssuedBy
  <2> QED
    BY <2>1, <2>3 DEF TimesInBounds, CallsUnderWay, CallsReturned, Follows, BeganBefore, IssuedBy
<1>3. ASSUME NEW t \in Thread, ReadTime(t)
      PROVE  OrderInv'
  <2>1. UNCHANGED <<clock, setBack, issued>>
    BY <1>3 DEF ReadTime
  <2>2. /\ reading'[t] = clock[home[t]]
        /\ began'[t] = Len(issued)
        /\ pc'[t] = "timed"
        /\ \A u \in Thread \ {t} : /\ pc'[u] = pc[u]
                                   /\ reading'[u] = reading[u]
                                   /\ ticket'[u] = ticket[u]
                                   /\ began'[u] = began[u]
    BY <1>0, <1>3 DEF ReadTime, TypeOK
  <2>3. clock[home[t]] \in MinClock .. MaxClock
    BY <1>0 DEF TypeOK
  <2>4. TimesInBounds'
    BY <2>1, <2>2, <2>3 DEF TimesInBounds
  <2>5. ClockIsLatest'
    <3>1. clock[home[t]] =< clock[home[t]]
      BY <1>0, <2>3
    <3> QED
      BY <2>1, <2>2, <3>1 DEF ClockIsLatest, IssuedBy
  <2>6. CallsUnderWay'
    <3>1. Len(issued) =< Len(issued)
      BY <1>0 DEF TypeOK
    <3>2. home[t] \notin setBack =>
            \A i \in IssuedBy(home[t]) : issued[i].time =< clock[home[t]]
      BY <1>0 DEF ClockIsLatest
    <3> QED
      BY <2>1, <2>2, <3>1, <3>2 DEF CallsUnderWay, IssuedBy
  <2> QED
    BY <2>1, <2>4, <2>5, <2>6 DEF CallsReturned, Follows, BeganBefore
<1>4. ASSUME NEW t \in Thread, Draw(t)
      PROVE  OrderInv'
  <2>1. UNCHANGED <<clock, setBack, reading, began, issued>>
    BY <1>4 DEF Draw
  <2>2. /\ pc[t] = "timed"
        /\ pc'[t] = "counted"
        /\ ticket'[t] = counter[home[t]]
        /\ \A u \in Thread \ {t} : pc'[u] = pc[u] /\ ticket'[u] = ticket[u]
    BY <1>0, <1>4 DEF Draw, TypeOK
  <2>3. \A i \in IssuedBy(home[t]) : issued[i].ticket < counter[home[t]]
    BY <1>0 DEF EveryTicketOnce, TicketsBelowCounter
  <2>4. \A u \in Thread : pc'[u] # "idle" => pc[u] # "idle"
    BY <2>2
  <2>5. CallsUnderWay'
    BY <2>1, <2>2, <2>3 DEF CallsUnderWay, IssuedBy
  <2> QED
    BY <2>1, <2>4, <2>5 DEF TimesInBounds, ClockIsLatest, CallsReturned, Follows, BeganBefore, IssuedBy
<1>5. ASSUME NEW t \in Thread, Return(t)
      PROVE  OrderInv'
  <2> DEFINE n == Len(issued) + 1
  <2>1. /\ UNCHANGED <<clock, setBack, counter>>
        /\ pc[t] = "counted" /\ pc'[t] = "idle"
        /\ \A u \in Thread \ {t} : /\ pc'[u] = pc[u]
                                   /\ reading'[u] = reading[u]
                                   /\ ticket'[u] = ticket[u]
                                   /\ began'[u] = began[u]
    BY <1>0, <1>5 DEF Return, TypeOK
  <2>2. /\ Len(issued) \in Nat /\ Len(issued') = n
        /\ DOMAIN issued = 1 .. Len(issued) /\ DOMAIN issued' = 1 .. n
        /\ \A i \in DOMAIN issued : issued'[i] = issued[i]
        /\ issued'[n].process = home[t]
        /\ issued'[n].time = reading[t]
        /\ issued'[n].ticket = ticket[t]
        /\ issued'[n].began = began[t]
    BY <1>0, <1>5 DEF Return, TypeOK
  <2>3. DOMAIN issued' = DOMAIN issued \cup {n} /\ n \notin DOMAIN issued
    BY <2>2
  <2>4. /\ began[t] \in Nat /\ began[t] < n
        /\ \A i \in DOMAIN issued : issued[i].began \in Nat /\ issued[i].began < i
    <3>1. began[t] \in Nat
      BY <1>0 DEF TypeOK
    <3>2. began[t] =< Len(issued)
      BY <2>1 DEF CallsUnderWay
    <3>3. \A i \in DOMAIN issued : issued[i].began \in Nat
      BY <1>0 DEF Call
    <3> QED
      BY <2>2, <3>1, <3>2, <3>3 DEF BeganBefore
  <2>5. \A p \in Process : \A i \in IssuedBy(p)' : i \in IssuedBy(p) \/ (i = n /\ p = home[t])
    BY <2>2, <2>3 DEF IssuedBy
  <2>6. \A p \in Process : \A i \in IssuedBy(p) : i \in DOMAIN issued
    BY DEF IssuedBy
  <2>7. TimesInBounds'
    BY <2>1, <2>2, <2>3 DEF TimesInBounds
  <2>8. ClockIsLatest'
    <3> SUFFICES ASSUME NEW p \in Process \ setBack
                 PROVE  /\ \A u \in Thread : home[u] = p /\ pc'[u] # "idle" =>
                             reading'[u] =< clock[p]
                        /\ \A i \in IssuedBy(p)' : issued'[i].time =< clock[p]
      BY <2>1 DEF ClockIsLatest
    <3>1. \A u \in Thread : home[u] = p /\ pc'[u] # "idle" => reading'[u] =< clock[p]
      BY <2>1 DEF ClockIsLatest
    <3>2. home[t] = p => reading[t] =< clock[p]
      BY <2>1 DEF ClockIsLatest
    <3>3. \A i \in IssuedBy(p) : issued[i].time =< clock[p]
      BY DEF ClockIsLatest
    <3> HIDE DEF n
    <3>4. \A i \in IssuedBy(p)' : issued'[i].time =< clock[p]
      BY <2>2, <2>5, <2>6, <3>2, <3>3
    <3> QED
      BY <3>1, <3>4
  <2>9. CallsUnderWay'
    <3> SUFFICES ASSUME NEW u \in Thread, pc'[u] # "idle"
                 PROVE  /\ began'[u] =< Len(issued')
                        /\ \A i \in IssuedBy(home[u])' : i =< began'[u] =>
                             /\ home[u] \notin setBack => issued'[i].time =< reading'[u]
                             /\ pc'[u] = "counted" => issued'[i].ticket < ticket'[u]
      BY <2>1 DEF CallsUnderWay
    <3>1. /\ u # t /\ pc[u] # "idle" /\ pc'[u] = pc[u] /\ reading'[u] = reading[u]
          /\ ticket'[u] = ticket[u] /\ began'[u] = began[u]
      BY <2>1
    <3>2. began[u] \in Nat /\ began[u] =< Len(issued)
      BY <1>0, <3>1 DEF CallsUnderWay, TypeOK
    <3>3. \A i \in IssuedBy(home[u])' : i =< began[u] => i \in IssuedBy(home[u])
      BY <1>0, <2>2, <2>5, <3>2
    <3>4. \A i \in IssuedBy(home[u]) : i =< began[u] =>
            /\ home[u] \notin setBack => issued[i].time =< reading[u]
            /\ pc[u] = "counted" => issued[i].ticket < ticket[u]
      BY <3>1 DEF CallsUnderWay
    <3>5. \A i \in IssuedBy(home[u]) : issued'[i] = issued[i]
      BY <2>2 DEF IssuedBy
    <3>6. began'[u] =< Len(issued')
      BY <2>2, <3>1, <3>2
    <3> HIDE DEF n
    <3> QED
      BY <3>1, <3>3, <3>4, <3>5, <3>6
  <2>10. CallsReturned'
    <3> SUFFICES ASSUME NEW i \in DOMAIN issued', NEW j \in DOMAIN issued',
                        Follows(i, j)'
                 PROVE  /\ issued'[i].process \notin setBack =>
                             issued'[i].time =< issued'[j].time
                        /\ issued'[i].ticket < issued'[j].ticket
      BY <2>1 DEF CallsReturned
    <3>1. issued'[i].process = issued'[j].process /\ i =< issued'[j].began
      BY DEF Follows
    <3>2. CASE j \in DOMAIN issued
      <4>1. i \in DOMAIN issued
        BY <2>2, <2>4, <3>1, <3>2
      <4> QED
        BY <2>2, <3>1, <3>2, <4>1 DEF CallsReturned, Follows
    <3>3. CASE j = n
      <4>1. i \in DOMAIN issued
        BY <2>2, <2>3, <2>4, <3>1, <3>3
      <4>2. i \in IssuedBy(home[t]) /\ i =< began[t]
        BY <2>2, <3>1, <3>3, <4>1 DEF IssuedBy
      <4>3. /\ home[t] \notin setBack => issued[i].time =< reading[t]
            /\ issued[i].ticket < ticket[t]
        BY <2>1, <4>2 DEF CallsUnderWay
      <4>4. issued'[i] = issued[i] /\ issued[i].process = home[t]
        BY <2>2, <4>1, <4>2 DEF IssuedBy
      <4> HIDE DEF n
      <4> QED
        BY <2>2, <3>3, <4>3, <4>4
    <3> QED
      BY <2>3, <3>2, <3>3
  <2>11. BeganBefore'
    BY <2>2, <2>3, <2>4 DEF BeganBefore
  <2> QED
    BY <2>7, <2>8, <2>9, <2>10, <2>11
<1>6. CASE UNCHANGED vars
  BY <1>6 DEF vars, TimesInBounds, ClockIsLatest, CallsUnderWay, CallsReturned,
              Follows, BeganBefore, IssuedBy
<1> QED
  BY <1>1, <1>2, <1>3, <1>4, <1>5, <1>6 DEF Next

(***************************************************************************)
(* In every execution, a call that begins after another call of its        *)
(* process has returned returns a larger identifier, unless the clock was  *)
(* set back or the count wrapped within their tick.                        *)
(***************************************************************************)
THEOREM OrderedInRealTime == Spec => []IncreasingInRealTime
<1>1. Init => OrderInv
  BY DEF Init, OrderInv, TimesInBounds, ClockIsLatest, CallsUnderWay, CallsReturned,
         BeganBefore, IssuedBy
<1>2. EveryTicketOnce /\ OrderInv /\ [Next]_vars => OrderInv'
  BY OrderKept
<1>3. EveryTicketOnce /\ OrderInv => IncreasingInRealTime
  <2> SUFFICES ASSUME EveryTicketOnce, OrderInv,
                      NEW i \in DOMAIN issued, NEW j \in DOMAIN issued,
                      issued[i].process \notin setBack, Follows(i, j)
               PROVE  /\ TickOf(issued[i].time) =< TickOf(issued[j].time)
                      /\ InEra(i) /\ InEra(j) /\ ~ Wrapped(i, j) =>
                           issued[i].moi < issued[j].moi
    BY DEF IncreasingInRealTime
  <2> DEFINE a == issued[i]
             b == issued[j]
  <2>0. a \in Call /\ b \in Call
    BY DEF EveryTicketOnce, TypeOK
  <2>1. a.process \in Process /\ a.ticket \in Nat /\ b.ticket \in Nat
    BY <2>0 DEF Call
  <2>2. a.time \in MinClock .. MaxClock /\ b.time \in MinClock .. MaxClock
    BY DEF OrderInv, TimesInBounds
  <2>3. a.time =< b.time /\ a.ticket < b.ticket /\ a.process = b.process
    BY DEF OrderInv, CallsReturned, Follows
  <2>4. host[a.process] \in 0 .. HostSpan - 1
    BY <2>1, OmniAssumption
  <2>5. /\ a.moi = MakeMOI(a.time, a.ticket, host[a.process])
        /\ b.moi = MakeMOI(b.time, b.ticket, host[b.process])
    BY DEF EveryTicketOnce, IssuedAsMade
  <2>6. TickOf(a.time) =< TickOf(b.time)
    BY <2>2, <2>3, OmniAssumption, LayoutAssumption, DivMonotone DEF TickOf
  <2>7. ASSUME InEra(i), InEra(j), ~ Wrapped(i, j)
        PROVE  a.moi < b.moi
    <3>1. TickOf(a.time) = TickOf(b.time) => a.ticket \div CountSpan = b.ticket \div CountSpan
      BY <2>7 DEF Wrapped
    <3>2. /\ TickOf(a.time) \in -HalfTime .. HalfTime - 1
          /\ TickOf(b.time) \in -HalfTime .. HalfTime - 1
      BY <2>7 DEF InEra
    <3>3. a.time \in Int /\ b.time \in Int
      BY <2>2, OmniAssumption
    <3> HIDE DEF a, b
    <3> QED
      BY <2>1, <2>3, <2>4, <2>5, <3>1, <3>2, <3>3, MakeMOIIncreases
  <2> QED
    BY <2>6, <2>7
<1> QED
  BY <1>1, <1>2, <1>3, TicketsOnce, PTL DEF Spec

=============================================================================
