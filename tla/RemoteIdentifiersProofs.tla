---------------------- MODULE RemoteIdentifiersProofs ----------------------
(***************************************************************************)
(* Theorems about RemoteIdentifiers, for every width of the fields, every  *)
(* number of processes and threads, and every estimate.  What they need of *)
(* the identifiers themselves they take from OmniProofs.                   *)
(***************************************************************************)
EXTENDS RemoteIdentifiers, OmniProofs

-----------------------------------------------------------------------------
(* The arithmetic of a conversion.                                         *)

\* A conversion moves an identifier by a whole number of units of the time
\* field, whether or not it wraps, and yields a Long.
LEMMA ConvertByUnits ==
  ASSUME NEW m \in Int, NEW d \in Int
  PROVE  /\ Convert(m, d) \in AMI
         /\ \E k \in Int : Convert(m, d) = m + k * TimeUnit
<1> DEFINE h == HalfTime * TimeUnit
           n == 2 * HalfTime * TimeUnit
           x == m + d * TimeUnit + h
<1>1. h \in Nat \ {0} /\ n = 2 * h
  BY LayoutAssumption
<1>2. n \in Nat \ {0}
  BY <1>1
<1>3. x \in Int
  BY <1>1, LayoutAssumption
<1>4. /\ x \div n \in Int
      /\ x % n \in 0 .. n - 1
      /\ x = n * (x \div n) + (x % n)
  <2> HIDE DEF x, n
  <2> QED
    BY <1>2, <1>3, DivMod
<1>5. Convert(m, d) = (x % n) - h
  BY DEF Convert, Wrap
<1>6. Convert(m, d) \in AMI
  <2>1. (x % n) - h \in -h .. h - 1
    <3> HIDE DEF x, n, h
    <3> QED
      BY <1>1, <1>4
  <2> QED
    BY <2>1, <1>5 DEF AMI, MOI
<1>7. PICK q \in Int : q = x \div n /\ x % n = x - n * q
  <2> HIDE DEF x, n
  <2> QED
    BY <1>2, <1>3, <1>4
<1>8. Convert(m, d) = m + d * TimeUnit - n * q
  BY <1>1, <1>5, <1>7, LayoutAssumption
<1>9. d * TimeUnit - n * q = (d - 2 * HalfTime * q) * TimeUnit
  BY LayoutAssumption
<1>10. d - 2 * HalfTime * q \in Int
  BY LayoutAssumption
<1> QED
  <2>1. d * TimeUnit \in Int /\ n * q \in Int
    BY <1>2, LayoutAssumption
  <2>2. Convert(m, d) = m + (d - 2 * HalfTime * q) * TimeUnit
    <3> HIDE DEF n
    <3> QED
      BY <1>8, <1>9, <2>1
  <2> QED
    BY <1>6, <1>10, <2>2

\* What an identifier holds below its time field, whatever is added to that.
LEMMA LowPartOfMOI ==
  ASSUME NEW ts \in Int, NEW c \in Int, NEW h \in 0 .. HostSpan - 1, NEW k \in Int
  PROVE  MakeMOI(ts, c, h) + k * TimeUnit
           = (shiftTime(ts) + k) * TimeUnit + (CountField(c) * CountUnit + h)
<1>1. shiftTime(ts) \in Int /\ CountField(c) \in Int
  BY ShiftTimeRange, CountFieldRange, LayoutAssumption
<1>2. (shiftTime(ts) + k) * TimeUnit = shiftTime(ts) * TimeUnit + k * TimeUnit
  BY <1>1, LayoutAssumption
<1>3. /\ shiftTime(ts) * TimeUnit \in Int /\ k * TimeUnit \in Int
      /\ CountField(c) * CountUnit \in Int /\ h \in Int
  BY <1>1, LayoutAssumption
<1> QED
  BY <1>2, <1>3 DEF MakeMOI

\* Sums of identifiers and time units that are equal have the same count and
\* the same host.
LEMMA SameLowPart ==
  ASSUME NEW ts1 \in Int, NEW c1 \in Int, NEW h1 \in 0 .. HostSpan - 1, NEW k1 \in Int,
         NEW ts2 \in Int, NEW c2 \in Int, NEW h2 \in 0 .. HostSpan - 1, NEW k2 \in Int,
         MakeMOI(ts1, c1, h1) + k1 * TimeUnit = MakeMOI(ts2, c2, h2) + k2 * TimeUnit
  PROVE  CountField(c1) = CountField(c2) /\ h1 = h2
<1> DEFINE l1 == CountField(c1) * CountUnit + h1
           l2 == CountField(c2) * CountUnit + h2
           s1 == shiftTime(ts1) + k1
           s2 == shiftTime(ts2) + k2
<1>1. MakeMOI(ts1, c1, h1) + k1 * TimeUnit = s1 * TimeUnit + l1
  BY LowPartOfMOI
<1>2. MakeMOI(ts2, c2, h2) + k2 * TimeUnit = s2 * TimeUnit + l2
  BY LowPartOfMOI
<1>3. l1 \in 0 .. TimeUnit - 1 /\ l2 \in 0 .. TimeUnit - 1
  BY LowPart, CountFieldRange
<1>4. s1 * TimeUnit + l1 = s2 * TimeUnit + l2
  BY <1>1, <1>2
<1>5. l1 = l2
  <2>1. s1 \in Int /\ s2 \in Int
    BY ShiftTimeRange, LayoutAssumption
  <2> HIDE DEF l1, l2, s1, s2
  <2> QED
    BY <2>1, <1>3, <1>4, SplitUnique, LayoutAssumption
<1>6. /\ CountField(c1) \in Int /\ CountField(c2) \in Int
      /\ h1 \in 0 .. CountUnit - 1 /\ h2 \in 0 .. CountUnit - 1
      /\ CountUnit \in Nat \ {0}
  BY CountFieldRange, LayoutAssumption
<1> QED
  BY <1>5, <1>6, SplitUnique

\* The parts of a sum that is a division with remainder.
LEMMA Remainder ==
  ASSUME NEW a \in Int, NEW n \in Nat \ {0}, NEW p \in Int, NEW b \in 0 .. n - 1,
         a = p * n + b
  PROVE  a \div n = p /\ a % n = b
<1>1. a \div n \in Int /\ a % n \in 0 .. n - 1 /\ a = n * (a \div n) + (a % n)
  BY DivMod
<1> DEFINE d == a \div n
           e == a % n
<1>2. d \in Int /\ e \in 0 .. n - 1 /\ d * n + e = p * n + b
  <2>1. d \in Int /\ e \in 0 .. n - 1 /\ a = n * d + e
    BY <1>1
  <2> HIDE DEF d, e
  <2>2. n * d = d * n
    BY <2>1
  <2> QED
    BY <2>1, <2>2
<1>3. d = p /\ e = b
  <2> HIDE DEF d, e
  <2> QED
    BY <1>2, SplitUnique
<1> QED
  BY <1>3

\* What the readers of an identifier make of its fields, whatever its time.
LEMMA FieldsRead ==
  ASSUME NEW s \in Int, NEW f \in 0 .. CountSpan - 1, NEW h \in 0 .. HostSpan - 1
  PROVE  /\ CountOf(s * TimeUnit + (f * CountUnit + h)) = f
         /\ HashMask(s * TimeUnit + (f * CountUnit + h)) = h
<1> DEFINE w == CountSpan * CountUnit
           l == f * CountUnit + h
           x == s * TimeUnit + l
<1>a. /\ CountUnit \in Nat \ {0} /\ CountUnit \in Int
      /\ HostSpan \in Nat \ {0} /\ CountSpan \in Nat \ {0}
      /\ TimeUnit \in Int
      /\ h \in 0 .. CountUnit - 1 /\ f \in Int /\ h \in Int
  BY LayoutAssumption
<1>b. w \in Nat \ {0} /\ w \in Int
  BY <1>a
<1>c. l \in Int /\ x \in Int
  BY <1>a
<1>1. PICK q \in Int : TimeUnit = q * w
  <2>1. TimeUnit % w = 0
    BY FieldsAligned
  <2> HIDE DEF w
  <2>2. TimeUnit \div w \in Int /\ TimeUnit = w * (TimeUnit \div w) + (TimeUnit % w)
    BY <1>a, <1>b, DivMod
  <2>3. TimeUnit = (TimeUnit \div w) * w
    BY <1>b, <2>1, <2>2
  <2> QED
    BY <2>2, <2>3
<1>2. PICK r \in Int : CountUnit = r * HostSpan
  <2>1. CountUnit % HostSpan = 0
    BY FieldsAligned
  <2>2. /\ CountUnit \div HostSpan \in Int
        /\ CountUnit = HostSpan * (CountUnit \div HostSpan) + (CountUnit % HostSpan)
    BY <1>a, DivMod
  <2>3. CountUnit = (CountUnit \div HostSpan) * HostSpan
    BY <1>a, <2>1, <2>2
  <2> QED
    BY <2>2, <2>3
<1>3. l \in 0 .. w - 1
  <2>1. f * CountUnit \in Int /\ f * CountUnit >= 0
    BY <1>a
  <2>2. (CountSpan - 1 - f) * CountUnit >= 0
    BY <1>a
  <2>3. (CountSpan - 1 - f) * CountUnit = w - CountUnit - f * CountUnit
    BY <1>a
  <2> QED
    BY <1>a, <1>b, <2>1, <2>2, <2>3
<1>4. x = (s * q) * w + l /\ s * q \in Int
  <2>1. s * TimeUnit = (s * q) * w
    <3> HIDE DEF w
    <3> QED
      BY <1>b, <1>1
  <2> QED
    BY <1>c, <2>1
<1>5. x = (s * q * CountSpan * r + f * r) * HostSpan + h
  <2> DEFINE y == s * q * CountSpan
  <2>1. y \in Int
    BY <1>a
  <2>2. (s * q) * w = y * CountUnit
    BY <1>a
  <2>3. y * CountUnit = (y * r) * HostSpan /\ f * CountUnit = (f * r) * HostSpan
    <3> HIDE DEF y
    <3> QED
      BY <1>a, <1>2, <2>1
  <2>4. (y * r + f * r) * HostSpan = (y * r) * HostSpan + (f * r) * HostSpan
    <3> HIDE DEF y
    <3> QED
      BY <1>a, <2>1
  <2>5. (s * q) * w \in Int /\ (y * r) * HostSpan \in Int /\ (f * r) * HostSpan \in Int
    BY <1>a
  <2>6. x = (s * q) * w + (f * CountUnit + h)
    BY <1>4
  <2> HIDE DEF x, y, w
  <2>7. x = (y * r + f * r) * HostSpan + h
    <3> DEFINE m == (y * r) * HostSpan
               n == (f * r) * HostSpan
    <3>1. m \in Int /\ n \in Int /\ x = m + (n + h) /\ (y * r + f * r) * HostSpan = m + n
      BY <2>2, <2>3, <2>4, <2>5, <2>6
    <3> HIDE DEF m, n
    <3> QED
      BY <1>a, <3>1
  <2> QED
    BY <2>7 DEF y
<1>6. s * q * CountSpan * r + f * r \in Int
  BY <1>a
<1> DEFINE z == s * q * CountSpan * r + f * r
<1>7. x = z * HostSpan + h /\ z \in Int
  BY <1>5, <1>6
<1>8. l = f * CountUnit + h
  OBVIOUS
<1> HIDE DEF w, l, x, z
<1>9. x % w = l
  BY <1>b, <1>c, <1>3, <1>4, Remainder
<1>10. l \div CountUnit = f
  BY <1>a, <1>c, <1>8, Remainder
<1>11. x % HostSpan = h
  BY <1>a, <1>c, <1>7, Remainder
<1> QED
  BY <1>9, <1>10, <1>11 DEF CountOf, HashMask, x, l, w

-----------------------------------------------------------------------------
(* The conversions that are made.                                          *)

\* The history of conversions, each of an identifier that a call returned.
AmisMade ==
  /\ ready \in BOOLEAN
  /\ deltaT \in Int
  /\ amis \in Seq(Conversion)
  /\ \A k \in DOMAIN amis :
       /\ amis[k].source \in DOMAIN issued
       /\ amis[k].ami = Convert(issued[amis[k].source].moi, amis[k].dT)

\* What calls have returned stays as it is.
LEMMA IssuedGrows ==
  ASSUME TypeOK, [Next]_vars
  PROVE  \A i \in DOMAIN issued : i \in DOMAIN issued' /\ issued'[i] = issued[i]
<1>0. issued \in Seq(Call)
  BY DEF TypeOK
<1>1. CASE issued' = issued
  BY <1>1
<1>2. ASSUME NEW t \in Thread, Return(t)
      PROVE  \A i \in DOMAIN issued : i \in DOMAIN issued' /\ issued'[i] = issued[i]
  <2>1. PICK call : issued' = Append(issued, call)
    BY <1>2 DEF Return
  <2> QED
    BY <1>0, <2>1
<1> QED
  BY <1>1, <1>2 DEF Next, vars, Tick, StepBack, ReadTime, Draw

LEMMA AmisKept ==
  ASSUME TypeOK, AmisMade, [RemoteNext]_remoteVars
  PROVE  AmisMade'
<1> USE DEF AmisMade
<1>1. CASE Local
  <2>1. \A i \in DOMAIN issued : i \in DOMAIN issued' /\ issued'[i] = issued[i]
    BY <1>1, IssuedGrows DEF Local
  <2>2. UNCHANGED <<ready, deltaT, amis>>
    BY <1>1 DEF Local
  <2> QED
    BY <2>1, <2>2
<1>2. CASE BecomeReady
  BY <1>2 DEF BecomeReady, vars
<1>3. CASE SetDeltaT
  BY <1>3, RemoteAssumption DEF SetDeltaT, vars
<1>4. ASSUME NEW i \in DOMAIN issued, Ami(i)
      PROVE  AmisMade'
  <2> DEFINE c == [source |-> i, dT |-> deltaT, ami |-> Convert(issued[i].moi, deltaT)]
  <2>1. /\ amis' = Append(amis, c) /\ issued' = issued
        /\ ready' = ready /\ deltaT' = deltaT
    BY <1>4 DEF Ami, vars
  <2>2. i \in Nat /\ issued[i].moi \in Int
    <3>1. i \in Nat /\ issued[i] \in Call
      BY DEF TypeOK
    <3>2. MOI \subseteq Int
      BY LayoutAssumption DEF MOI
    <3> QED
      BY <3>1, <3>2 DEF Call
  <2>3. c \in Conversion
    BY <2>2, ConvertByUnits DEF Conversion
  <2>4. c.source = i /\ c.ami = Convert(issued[i].moi, c.dT)
    OBVIOUS
  <2> HIDE DEF c
  <2>5. amis' \in Seq(Conversion)
    BY <2>1, <2>3
  <2>6. \A k \in DOMAIN amis' : amis'[k] = c \/ (k \in DOMAIN amis /\ amis'[k] = amis[k])
    BY <2>1, <2>3
  <2> QED
    BY <2>1, <2>4, <2>5, <2>6
<1>5. CASE UNCHANGED remoteVars
  BY <1>5 DEF remoteVars, vars
<1> QED
  BY <1>1, <1>2, <1>3, <1>4, <1>5 DEF RemoteNext

\* Seen through the variables of Omni, nothing but Omni happens.
THEOREM RemoteImplementsOmni == RemoteSpec => Spec
<1>1. RemoteInit => Init
  BY DEF RemoteInit
<1>2. [RemoteNext]_remoteVars => [Next]_vars
  BY DEF RemoteNext, remoteVars, Local, BecomeReady, SetDeltaT, Ami
<1> QED
  BY <1>1, <1>2, PTL DEF RemoteSpec, Spec

\* The history of conversions is as AmisMade says, whatever the interleaving.
THEOREM ConversionsMade == RemoteSpec => []AmisMade
<1>1. RemoteInit => AmisMade
  <2>1. <<>> \in Seq(Conversion) /\ DOMAIN <<>> = {}
    OBVIOUS
  <2>2. FALSE \in BOOLEAN /\ 0 \in Int
    OBVIOUS
  <2> QED
    BY <2>1, <2>2, Zenon DEF RemoteInit, AmisMade
<1>2. TypeOK /\ AmisMade /\ [RemoteNext]_remoteVars => AmisMade'
  BY AmisKept
<1> QED
  BY <1>1, <1>2, RemoteImplementsOmni, TypeCorrect, PTL DEF RemoteSpec

\* Type correctness: every AMI is a signed Long, and was made from an
\* identifier that a call has returned (RemoteClock.scala:40).
THEOREM RemoteTypeCorrect == RemoteSpec => []RemoteTypeOK
<1>1. TypeOK /\ AmisMade => RemoteTypeOK
  BY DEF AmisMade, RemoteTypeOK
<1> QED
  BY <1>1, RemoteImplementsOmni, TypeCorrect, ConversionsMade, PTL

-----------------------------------------------------------------------------
(* Uniqueness.                                                             *)

LEMMA IssuedAreInt ==
  ASSUME EveryTicketOnce, NEW i \in DOMAIN issued
  PROVE  issued[i].moi \in Int
<1>1. issued[i] \in Call
  BY DEF EveryTicketOnce, TypeOK
<1>2. MOI \subseteq Int
  BY LayoutAssumption DEF MOI
<1> QED
  BY <1>1, <1>2 DEF Call

\* What tells two calls apart is in the part that conversions leave alone.
LEMMA ToldApartBelow ==
  ASSUME EveryTicketOnce,
         NEW i \in DOMAIN issued, NEW j \in DOMAIN issued, ToldApart(i, j),
         NEW k1 \in Int, NEW k2 \in Int
  PROVE  issued[i].moi + k1 * TimeUnit # issued[j].moi + k2 * TimeUnit
<1> SUFFICES ASSUME issued[i].moi + k1 * TimeUnit = issued[j].moi + k2 * TimeUnit
             PROVE  FALSE
  OBVIOUS
<1>1. /\ issued[i] \in Call /\ issued[j] \in Call
      /\ i \in Nat /\ j \in Nat
  BY DEF EveryTicketOnce, TypeOK
<1>2. /\ issued[i].time \in Int /\ issued[j].time \in Int
      /\ issued[i].ticket \in Nat /\ issued[j].ticket \in Nat
      /\ issued[i].process \in Process /\ issued[j].process \in Process
  BY <1>1 DEF Call
<1>3. /\ host[issued[i].process] \in 0 .. HostSpan - 1
      /\ host[issued[j].process] \in 0 .. HostSpan - 1
  BY <1>2, OmniAssumption
<1>4. /\ issued[i].moi = MakeMOI(issued[i].time, issued[i].ticket, host[issued[i].process])
      /\ issued[j].moi = MakeMOI(issued[j].time, issued[j].ticket, host[issued[j].process])
  BY DEF EveryTicketOnce, IssuedAsMade
<1>5. /\ CountField(issued[i].ticket) = CountField(issued[j].ticket)
      /\ host[issued[i].process] = host[issued[j].process]
  <2> DEFINE ts1 == issued[i].time
             ts2 == issued[j].time
             c1 == issued[i].ticket
             c2 == issued[j].ticket
             h1 == host[issued[i].process]
             h2 == host[issued[j].process]
  <2>1. /\ ts1 \in Int /\ ts2 \in Int /\ c1 \in Int /\ c2 \in Int
        /\ h1 \in 0 .. HostSpan - 1 /\ h2 \in 0 .. HostSpan - 1
    BY <1>2, <1>3
  <2>2. MakeMOI(ts1, c1, h1) + k1 * TimeUnit = MakeMOI(ts2, c2, h2) + k2 * TimeUnit
    BY <1>4
  <2> HIDE DEF ts1, ts2, c1, c2, h1, h2
  <2>3. k1 \in Int /\ k2 \in Int
    OBVIOUS
  <2>4. CountField(c1) = CountField(c2) /\ h1 = h2
    BY <2>1, <2>2, <2>3, SameLowPart, SMTT(60)
  <2> QED
    BY <2>4 DEF ts1, ts2, c1, c2, h1, h2
<1>6. /\ i # j
      /\ issued[i].process = issued[j].process
      /\ Distance(issued[i].ticket, issued[j].ticket) < CountSpan
  BY <1>5 DEF ToldApart
<1>7. issued[i].ticket = issued[j].ticket
  BY <1>2, <1>5, <1>6, CloseAndCongruent, LayoutAssumption DEF CountField
<1> QED
  BY <1>2, <1>6, <1>7 DEF EveryTicketOnce, TicketsDistinct, IssuedBy

\* A conversion moves the identifier of its call by units of the time field.
LEMMA MovedByUnits ==
  ASSUME EveryTicketOnce, AmisMade, NEW k \in DOMAIN amis
  PROVE  /\ amis[k].source \in DOMAIN issued
         /\ \E u \in Int : amis[k].ami = issued[amis[k].source].moi + u * TimeUnit
<1>1. /\ amis[k].source \in DOMAIN issued
      /\ amis[k].dT \in Int
      /\ amis[k].ami = Convert(issued[amis[k].source].moi, amis[k].dT)
  <2>1. amis[k] \in Conversion
    BY DEF AmisMade
  <2> QED
    BY <2>1 DEF AmisMade, Conversion
<1> DEFINE m == issued[amis[k].source].moi
           d == amis[k].dT
<1>2. m \in Int /\ d \in Int
  BY <1>1, IssuedAreInt
<1>3. \E u \in Int : Convert(m, d) = m + u * TimeUnit
  <2> HIDE DEF m, d
  <2> QED
    BY <1>2, ConvertByUnits
<1> QED
  BY <1>1, <1>3, Zenon

\* Identifiers told apart stay different when they are converted, with any
\* estimates, and no conversion yields the identifier of another call
\* (RemoteClock.scala:40).
THEOREM ConvertedUnique == RemoteSpec => []AmisDistinct
<1>1. EveryTicketOnce /\ AmisMade => AmisDistinct
  <2> SUFFICES ASSUME EveryTicketOnce, AmisMade, NEW k \in DOMAIN amis
               PROVE  /\ \A i \in DOMAIN issued :
                           ToldApart(amis[k].source, i) => amis[k].ami # issued[i].moi
                      /\ \A l \in DOMAIN amis :
                           ToldApart(amis[k].source, amis[l].source)
                             => amis[k].ami # amis[l].ami
    BY DEF AmisDistinct
  <2>1. \A l \in DOMAIN amis :
          /\ amis[l].source \in DOMAIN issued
          /\ \E u \in Int : amis[l].ami = issued[amis[l].source].moi + u * TimeUnit
    BY MovedByUnits
  <2>2. PICK u \in Int : amis[k].ami = issued[amis[k].source].moi + u * TimeUnit
    BY <2>1
  <2>3. ASSUME NEW i \in DOMAIN issued, ToldApart(amis[k].source, i)
        PROVE  amis[k].ami # issued[i].moi
    <3>1. issued[i].moi = issued[i].moi + 0 * TimeUnit
      BY IssuedAreInt, LayoutAssumption
    <3>2. issued[amis[k].source].moi + u * TimeUnit # issued[i].moi + 0 * TimeUnit
      BY <2>1, <2>3, ToldApartBelow
    <3> QED
      BY <2>2, <3>1, <3>2
  <2>4. ASSUME NEW l \in DOMAIN amis, ToldApart(amis[k].source, amis[l].source)
        PROVE  amis[k].ami # amis[l].ami
    <3>1. PICK v \in Int : amis[l].ami = issued[amis[l].source].moi + v * TimeUnit
      BY <2>1
    <3> QED
      BY <2>1, <2>2, <2>4, <3>1, ToldApartBelow
  <2> QED
    BY <2>3, <2>4
<1> QED
  BY <1>1, RemoteImplementsOmni, TicketsOnce, ConversionsMade, PTL

(***************************************************************************)
(* The count and the host of an identifier survive its conversion          *)
(* (RemoteClock.ami, read by AM1.count and AM1.hashMask), for every        *)
(* estimate and whatever carries out of the time field.                    *)
(***************************************************************************)
THEOREM FieldsKept == RemoteSpec => []FieldsSurvive
<1>1. EveryTicketOnce /\ AmisMade => FieldsSurvive
  <2> SUFFICES ASSUME EveryTicketOnce, AmisMade, NEW k \in DOMAIN amis
               PROVE  LET call == issued[amis[k].source] IN
                        /\ CountOf(amis[k].ami) = CountField(call.ticket)
                        /\ CountOf(call.moi) = CountField(call.ticket)
                        /\ HashMask(amis[k].ami) = host[call.process]
    BY DEF FieldsSurvive
  <2> DEFINE call == issued[amis[k].source]
             f == CountField(call.ticket)
             h == host[call.process]
  <2>1. PICK u \in Int : /\ amis[k].source \in DOMAIN issued
                         /\ amis[k].ami = call.moi + u * TimeUnit
    BY MovedByUnits
  <2>2. /\ call.time \in Int /\ call.ticket \in Int /\ h \in 0 .. HostSpan - 1
        /\ call.moi \in Int
        /\ call.moi = MakeMOI(call.time, call.ticket, h)
    <3>1. call \in Call
      BY <2>1 DEF EveryTicketOnce, TypeOK
    <3>2. call.moi = MakeMOI(call.time, call.ticket, h)
      BY <2>1 DEF EveryTicketOnce, IssuedAsMade
    <3> QED
      BY <2>1, <3>1, <3>2, IssuedAreInt, OmniAssumption DEF Call, EveryTicketOnce
  <2>3. f \in 0 .. CountSpan - 1 /\ shiftTime(call.time) \in Int
    BY <2>2, CountFieldRange, ShiftTimeRange, LayoutAssumption
  <2>4. amis[k].ami = (shiftTime(call.time) + u) * TimeUnit + (f * CountUnit + h)
    BY <2>1, <2>2, LowPartOfMOI
  <2>5. call.moi = shiftTime(call.time) * TimeUnit + (f * CountUnit + h)
    <3>1. call.moi = call.moi + 0 * TimeUnit
      BY <2>2, LayoutAssumption
    <3>2. shiftTime(call.time) + 0 = shiftTime(call.time)
      BY <2>3
    <3> QED
      BY <2>2, <3>1, <3>2, LowPartOfMOI
  <2>6. shiftTime(call.time) + u \in Int
    BY <2>3
  <2> HIDE DEF f, h, call
  <2>7. CountOf(amis[k].ami) = f /\ HashMask(amis[k].ami) = h
    BY <2>2, <2>3, <2>4, <2>6, FieldsRead
  <2>8. CountOf(call.moi) = f
    BY <2>2, <2>3, <2>5, FieldsRead
  <2> QED
    BY <2>7, <2>8 DEF f, h, call
<1> QED
  BY <1>1, RemoteImplementsOmni, TicketsOnce, ConversionsMade, PTL

-----------------------------------------------------------------------------
(* Order.                                                                  *)

\* Within the era a conversion does not wrap.
LEMMA ConvertExact ==
  ASSUME NEW ts \in Int, NEW c \in Int, NEW h \in 0 .. HostSpan - 1, NEW d \in Int,
         TickOf(ts) \in -HalfTime .. HalfTime - 1,
         TickOf(ts) + d \in -HalfTime .. HalfTime - 1
  PROVE  Convert(MakeMOI(ts, c, h), d) = MakeMOI(ts, c, h) + d * TimeUnit
<1> DEFINE s == TickOf(ts) + d
           low == CountField(c) * CountUnit + h
           x == MakeMOI(ts, c, h) + d * TimeUnit
<1>1. x = s * TimeUnit + low
  BY LowPartOfMOI, ShiftTimeExact
<1>2. low \in 0 .. TimeUnit - 1
  BY LowPart, CountFieldRange
<1>3. s * TimeUnit >= -HalfTime * TimeUnit
  <2>1. (s + HalfTime) * TimeUnit >= 0
    BY LayoutAssumption
  <2> QED
    BY <2>1, LayoutAssumption
<1>4. s * TimeUnit =< HalfTime * TimeUnit - TimeUnit
  <2>1. (HalfTime - 1 - s) * TimeUnit >= 0
    BY LayoutAssumption
  <2> QED
    BY <2>1, LayoutAssumption
<1>5. s * TimeUnit \in Int /\ HalfTime * TimeUnit \in Nat \ {0}
  BY LayoutAssumption
<1>6. 2 * HalfTime * TimeUnit = 2 * (HalfTime * TimeUnit)
  BY LayoutAssumption
<1> DEFINE g == HalfTime * TimeUnit
<1>7. x \in Int /\ x + g \in 0 .. 2 * g - 1 /\ 2 * g \in Nat \ {0}
  <2>1. -HalfTime * TimeUnit = -(HalfTime * TimeUnit) /\ TimeUnit \in Nat
    BY LayoutAssumption
  <2> DEFINE y == s * TimeUnit
  <2> HIDE DEF x, low, y, g
  <2> QED
    BY <1>1, <1>2, <1>3, <1>4, <1>5, <2>1 DEF y, g
<1>8. (x + g) % (2 * g) = x + g
  <2> HIDE DEF x, g
  <2> QED
    BY <1>7
<1>9. Wrap(x) = x
  <2>1. Wrap(x) = ((x + g) % (2 * g)) - g
    BY <1>6 DEF Wrap
  <2> HIDE DEF x, g
  <2> QED
    BY <2>1, <1>7, <1>8, <1>5 DEF g
<1> QED
  BY <1>9 DEF Convert

\* While the estimate does not go down and the times stay within the era,
\* conversions keep the real-time order of the calls (RemoteClock.scala:40).
THEOREM ConvertedInOrder == RemoteSpec => []AmisInRealTime
<1>1. EveryTicketOnce /\ IncreasingInRealTime /\ AmisMade => AmisInRealTime
  <2> SUFFICES ASSUME EveryTicketOnce, IncreasingInRealTime, AmisMade,
                      NEW k \in DOMAIN amis, NEW l \in DOMAIN amis,
                      issued[amis[k].source].process \notin setBack,
                      Follows(amis[k].source, amis[l].source),
                      ~ Wrapped(amis[k].source, amis[l].source),
                      ConvertedInEra(k), ConvertedInEra(l),
                      amis[k].dT =< amis[l].dT
               PROVE  amis[k].ami < amis[l].ami
    BY DEF AmisInRealTime
  <2>1. ASSUME NEW n \in DOMAIN amis, ConvertedInEra(n)
        PROVE  /\ amis[n].source \in DOMAIN issued
               /\ amis[n].dT \in Int
               /\ issued[amis[n].source].moi \in Int
               /\ amis[n].ami = issued[amis[n].source].moi + amis[n].dT * TimeUnit
    <3>1. /\ amis[n].source \in DOMAIN issued
          /\ amis[n].dT \in Int
          /\ amis[n].ami = Convert(issued[amis[n].source].moi, amis[n].dT)
      <4>1. amis[n] \in Conversion
        BY DEF AmisMade
      <4> QED
        BY <4>1 DEF AmisMade, Conversion
    <3> DEFINE call == issued[amis[n].source]
    <3>2. call \in Call
      BY <3>1 DEF EveryTicketOnce, TypeOK
    <3>3. /\ call.time \in Int /\ call.ticket \in Int /\ call.process \in Process
      BY <3>2 DEF Call
    <3>4. host[call.process] \in 0 .. HostSpan - 1
      BY <3>3, OmniAssumption
    <3>5. call.moi = MakeMOI(call.time, call.ticket, host[call.process])
      BY <3>1 DEF EveryTicketOnce, IssuedAsMade
    <3>6. /\ TickOf(call.time) \in -HalfTime .. HalfTime - 1
          /\ TickOf(call.time) + amis[n].dT \in -HalfTime .. HalfTime - 1
      BY <2>1 DEF ConvertedInEra, InEra
    <3>7. Convert(call.moi, amis[n].dT) = call.moi + amis[n].dT * TimeUnit
      BY <3>1, <3>3, <3>4, <3>5, <3>6, ConvertExact
    <3> QED
      BY <3>1, <3>7, IssuedAreInt
  <2>2. issued[amis[k].source].moi < issued[amis[l].source].moi
    BY <2>1 DEF IncreasingInRealTime, ConvertedInEra
  <2>3. amis[k].dT * TimeUnit =< amis[l].dT * TimeUnit
    <3>1. (amis[l].dT - amis[k].dT) * TimeUnit >= 0
      BY <2>1, LayoutAssumption
    <3> QED
      BY <2>1, <3>1, LayoutAssumption
  <2> DEFINE a == amis[k].dT * TimeUnit
             b == amis[l].dT * TimeUnit
  <2>4. a \in Int /\ b \in Int
    BY <2>1, LayoutAssumption
  <2>5. a =< b
    BY <2>3
  <2> HIDE DEF a, b
  <2> QED
    BY <2>1, <2>2, <2>4, <2>5 DEF a, b
<1> QED
  BY <1>1, RemoteImplementsOmni, TicketsOnce, OrderedInRealTime, ConversionsMade, PTL

=============================================================================
