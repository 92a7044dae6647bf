----------------------- MODULE ConnectionsStampProofs -----------------------
(***************************************************************************)
(* Theorems about Connections: the state keeps its type, and a trial that  *)
(* succeeds has the stamp that the server wrote wherever its end can be    *)
(* told from what came, for all formats, widths of a byte and lengths of   *)
(* an answer, and every way of cutting it into pieces.                     *)
(***************************************************************************)
EXTENDS ConnectionsProofs, TimeTrialFormatsProofs

-----------------------------------------------------------------------------
(* The instances' formats are those of TimeTrialFormats.                   *)

\* What URL's server writes.
LEMMA UrlWritten ==
  ASSUME NEW f, NEW s PROVE Url!Written(f, s) = Written(f, s)
  BY Zenon DEF Url!Written, Written, Url!BINARY, BINARY, Url!Decimal, Decimal,
     Url!Digits, Digits, Url!Quotients, Quotients, Url!Values, Values,
     Url!Page, Page, Url!Open, Open, Url!Close, Close, Url!Minus, Minus, Url!Letter, Letter

LEMMA UrlReads ==
  ASSUME NEW f, NEW s, NEW n
  PROVE  /\ Url!fromInputStream(f, s, n) = fromInputStream(f, s, n)
         /\ Url!fromArrayBuffer(s) = fromArrayBuffer(s)
         /\ Url!fromUint8Array(f, s) = fromUint8Array(f, s)
  BY Zenon DEF Url!fromInputStream, fromInputStream, Url!fromArrayBuffer,
     fromArrayBuffer, Url!fromUint8Array, fromUint8Array,
     Url!Parse, Parse, Url!N2Long, N2Long, Url!FromBytes, FromBytes, Url!ReadBytes,
     ReadBytes, Url!Least, Least,
     Url!Number, Number, Url!Longs, Longs, Url!Values, Values, Url!Open, Open, Url!Close, Close

LEMMA UrlLongs == Url!Longs = Longs
  BY Zenon DEF Url!Longs, Longs, Url!Values, Values

\* What AJAX's server writes.
LEMMA AjaxWritten ==
  ASSUME NEW f, NEW s PROVE Ajax!Written(f, s) = Written(f, s)
  BY Zenon DEF Ajax!Written, Written, Ajax!BINARY, BINARY, Ajax!Decimal, Decimal,
     Ajax!Digits, Digits, Ajax!Quotients, Quotients, Ajax!Values, Values,
     Ajax!Page, Page, Ajax!Open, Open, Ajax!Close, Close, Ajax!Minus, Minus,
     Ajax!Letter, Letter

LEMMA AjaxReads ==
  ASSUME NEW f, NEW s, NEW n
  PROVE  /\ Ajax!fromInputStream(f, s, n) = fromInputStream(f, s, n)
         /\ Ajax!fromArrayBuffer(s) = fromArrayBuffer(s)
         /\ Ajax!fromUint8Array(f, s) = fromUint8Array(f, s)
  BY Zenon DEF Ajax!fromInputStream, fromInputStream, Ajax!fromArrayBuffer,
     fromArrayBuffer, Ajax!fromUint8Array, fromUint8Array,
     Ajax!Parse, Parse, Ajax!N2Long, N2Long, Ajax!FromBytes, FromBytes, Ajax!ReadBytes,
     ReadBytes, Ajax!Least, Least,
     Ajax!Number, Number, Ajax!Longs, Longs, Ajax!Values, Values, Ajax!Open, Open,
     Ajax!Close, Close

LEMMA AjaxLongs == Ajax!Longs = Longs
  BY Zenon DEF Ajax!Longs, Longs, Ajax!Values, Values

\* What NodeJS's server writes.
LEMMA NodeWritten ==
  ASSUME NEW f, NEW s PROVE Node!Written(f, s) = Written(f, s)
  BY Zenon DEF Node!Written, Written, Node!BINARY, BINARY, Node!Decimal, Decimal,
     Node!Digits, Digits, Node!Quotients, Quotients, Node!Values, Values,
     Node!Page, Page, Node!Open, Open, Node!Close, Close, Node!Minus, Minus,
     Node!Letter, Letter

LEMMA NodeReads ==
  ASSUME NEW f, NEW s, NEW n
  PROVE  /\ Node!fromInputStream(f, s, n) = fromInputStream(f, s, n)
         /\ Node!fromArrayBuffer(s) = fromArrayBuffer(s)
         /\ Node!fromUint8Array(f, s) = fromUint8Array(f, s)
  BY Zenon DEF Node!fromInputStream, fromInputStream, Node!fromArrayBuffer,
     fromArrayBuffer, Node!fromUint8Array, fromUint8Array,
     Node!Parse, Parse, Node!N2Long, N2Long, Node!FromBytes, FromBytes, Node!ReadBytes,
     ReadBytes, Node!Least, Least,
     Node!Number, Number, Node!Longs, Longs, Node!Values, Values, Node!Open, Open,
     Node!Close, Close

LEMMA NodeLongs == Node!Longs = Longs
  BY Zenon DEF Node!Longs, Longs, Node!Values, Values

LEMMA StampLong == Stamp \subseteq Longs
  BY ConnectionsAssumption, NodeLongs DEF Node!NodeAssumption

-----------------------------------------------------------------------------
(* Types.                                                                  *)

LEMMA UrlType == ASSUME Url!TypeOK, Url!Next PROVE Url!TypeOK'
<1>0. /\ format \in Format /\ misread \in SUBSET Trial
      /\ future \in [Trial -> {"none", "queued", "blocked", "done"}]
      /\ promise \in [Trial -> {"none", "pending", "success", "failure"}]
      /\ record \in [Trial -> {"none", "waiting", "queued", "done"}]
  BY DEF Url!TypeOK
<1>1. CASE Url!LaunchBurst
  BY <1>0, <1>1 DEF Url!LaunchBurst, Url!TypeOK
<1>2. ASSUME NEW t \in Trial, NEW result \in {"success", "failure"}, Url!TryComplete(t, result)
      PROVE  /\ promise' \in [Trial -> {"none", "pending", "success", "failure"}]
             /\ record' \in [Trial -> {"none", "waiting", "queued", "done"}]
  BY <1>0, <1>2 DEF Url!TryComplete
<1>3. ASSUME NEW t \in Trial, Url!OpenConnection(t) PROVE Url!TypeOK'
  BY <1>0, <1>3 DEF Url!OpenConnection, Url!TypeOK
<1>4. ASSUME NEW t \in Trial, Url!Return(t) PROVE Url!TypeOK'
  <2>1. \E result \in {"success", "failure"} : Url!TryComplete(t, result)
    BY <1>4 DEF Url!Return
  <2>2. misread' \in SUBSET Trial
    BY <1>0, <1>4 DEF Url!Return
  <2>3. future' \in [Trial -> {"none", "queued", "blocked", "done"}] /\ format' = format
    BY <1>0, <1>4 DEF Url!Return
  <2> QED
    BY <1>0, <1>2, <2>1, <2>2, <2>3 DEF Url!TypeOK
<1>5. ASSUME NEW t \in Trial, Url!Expire(t) PROVE Url!TypeOK'
  BY <1>0, <1>2, <1>5 DEF Url!Expire, Url!TypeOK
<1>6. ASSUME NEW t \in Trial, Url!Record(t) PROVE Url!TypeOK'
  BY <1>0, <1>6 DEF Url!Record, Url!TypeOK
<1> QED
  BY <1>1, <1>3, <1>4, <1>5, <1>6 DEF Url!Next

LEMMA AjaxType == ASSUME Ajax!TypeOK, Ajax!Next PROVE Ajax!TypeOK'
<1>1. PICK t \in Trial :
        \/ Ajax!TimeTrial(t) \/ Ajax!OnLoad(t) \/ Ajax!OnLoadUnreadable(t)
        \/ Ajax!OnLoadStatus(t) \/ Ajax!OnLoadLate(t) \/ Ajax!XhrFails(t)
        \/ Ajax!Expire(t)
  BY DEF Ajax!Next
<1>2. format' = format /\ misread' \in SUBSET Trial
  BY <1>1 DEF Ajax!TypeOK, Ajax!TimeTrial, Ajax!OnLoad, Ajax!OnLoadUnreadable,
     Ajax!OnLoadStatus, Ajax!OnLoadLate, Ajax!XhrFails, Ajax!Expire
<1>3. /\ promise' \in [Trial -> {"none", "pending", "success", "failure"}]
      /\ xhr' \in [Trial -> {"none", "sent", "done"}]
  BY <1>1 DEF Ajax!TypeOK, Ajax!TimeTrial, Ajax!OnLoad, Ajax!OnLoadUnreadable,
     Ajax!OnLoadStatus, Ajax!OnLoadLate, Ajax!XhrFails, Ajax!Expire
<1> QED
  BY <1>2, <1>3 DEF Ajax!TypeOK

LEMMA JsonpType == ASSUME Jsonp!TypeOK, Jsonp!Next PROVE Jsonp!TypeOK'
<1>0. /\ MinTick \in Int /\ MaxTick \in Int /\ MaxDraws \in Nat
      /\ CountSpan \in Nat \ {0}
  BY ConnectionsAssumption DEF Jsonp!JsonpAssumption
<1>1. CASE Jsonp!Tick \/ Jsonp!StepBack \/ Jsonp!Draw
  BY <1>0, <1>1 DEF Jsonp!Tick, Jsonp!StepBack, Jsonp!Draw, Jsonp!TypeOK
<1>2. ASSUME NEW t \in Trial, Jsonp!TimeTrial(t) PROVE Jsonp!TypeOK'
  <2>1. Jsonp!NextId \in Jsonp!Identifier
    <3>1. counter % CountSpan \in 0 .. CountSpan - 1
      BY <1>0 DEF Jsonp!TypeOK
    <3> QED
      BY <3>1 DEF Jsonp!NextId, Jsonp!Identifier, Jsonp!TypeOK
  <2>2. registry' \in SUBSET (Jsonp!Identifier \X Trial)
    BY <1>2, <2>1 DEF Jsonp!TimeTrial, Jsonp!TypeOK
  <2>3. moi' \in [Trial -> Jsonp!Identifier]
    BY <1>2, <2>1 DEF Jsonp!TimeTrial, Jsonp!TypeOK
  <2> QED
    BY <1>2, <2>2, <2>3 DEF Jsonp!TimeTrial, Jsonp!TypeOK
<1>3. ASSUME NEW t \in Trial, Jsonp!Respond(t) PROVE Jsonp!TypeOK'
  <2>1. PICK u \in Jsonp!Registered(moi[t]) :
          Jsonp!Complete(u, "success") /\ answer' = [answer EXCEPT ![u] = @ \cup {t}]
    BY <1>3 DEF Jsonp!Respond
  <2>2. u \in Trial
    BY DEF Jsonp!Registered
  <2>3. answer' \in [Trial -> SUBSET Trial]
    BY <2>1, <2>2 DEF Jsonp!TypeOK
  <2>4. /\ promise' \in [Trial -> {"none", "pending", "success", "failure"}]
        /\ callback' \in [Trial -> {"none", "due", "done"}]
    BY <2>1, <2>2 DEF Jsonp!Complete, Jsonp!TypeOK
  <2> QED
    BY <1>3, <2>3, <2>4 DEF Jsonp!Respond, Jsonp!TypeOK
<1>4. ASSUME NEW t \in Trial, Jsonp!RespondUnknown(t) PROVE Jsonp!TypeOK'
  BY <1>4 DEF Jsonp!RespondUnknown, Jsonp!TypeOK
<1>5. ASSUME NEW t \in Trial, Jsonp!Expire(t) PROVE Jsonp!TypeOK'
  BY <1>5 DEF Jsonp!Expire, Jsonp!Complete, Jsonp!TypeOK
<1>6. ASSUME NEW t \in Trial, Jsonp!Remove(t) PROVE Jsonp!TypeOK'
  BY <1>6 DEF Jsonp!Remove, Jsonp!TypeOK
<1> QED
  BY <1>1, <1>2, <1>3, <1>4, <1>5, <1>6 DEF Jsonp!Next

\* The part of a body that is still to come is a sequence of bytes.
LEMMA RestType ==
  ASSUME NEW body \in Seq(0 .. Radix - 1), NEW k \in 1 .. Len(body)
  PROVE  /\ SubSeq(body, k + 1, Len(body)) \in Seq(0 .. Radix - 1)
         /\ Len(SubSeq(body, k + 1, Len(body))) = Len(body) - k
<1>1. Len(body) \in Nat /\ \A i \in 1 .. Len(body) : body[i] \in 0 .. Radix - 1
  BY LenProperties
<1>2. \A i \in k + 1 .. Len(body) : body[i] \in 0 .. Radix - 1
  BY <1>1
<1>3. k + 1 \in Int /\ Len(body) \in Int
  BY <1>1
<1>4. SubSeq(body, k + 1, Len(body)) \in Seq(0 .. Radix - 1)
  BY <1>2, <1>3, SubSeqProperties
<1> QED
  BY <1>1, <1>4

LEMMA NodeType == ASSUME Node!TypeOK, Node!Next PROVE Node!TypeOK'
<1>0. /\ format \in Format /\ misread \in SUBSET Trial /\ running \in BOOLEAN
      /\ promise \in [Trial -> {"none", "pending", "success", "failure"}]
      /\ request \in [Trial -> {"none", "sent", "responding"}]
      /\ stamped \in [Trial -> Stamp \cup {0}]
      /\ coming \in [Trial -> Seq(0 .. Radix - 1)]
  BY DEF Node!TypeOK
<1>1. ASSUME NEW t \in Trial, NEW k \in 1 .. Len(coming[t]), Node!Receive(t, k)
      PROVE  /\ stamped' \in [Trial -> Stamp \cup {0}]
             /\ coming' \in [Trial -> Seq(0 .. Radix - 1)]
  <2>1. SubSeq(coming[t], k + 1, Len(coming[t])) \in Seq(0 .. Radix - 1)
    BY <1>0, RestType
  <2>2. coming' \in [Trial -> Seq(0 .. Radix - 1)]
    BY <1>0, <1>1, <2>1 DEF Node!Receive
  <2>3. stamped' \in [Trial -> Stamp \cup {0}]
    BY <1>0, <1>1 DEF Node!Receive
  <2> QED
    BY <2>2, <2>3
<1>2. ASSUME NEW t \in Trial, Node!TimeTrial(t) PROVE Node!TypeOK'
  BY <1>0, <1>2 DEF Node!TimeTrial, Node!TypeOK
<1>3. ASSUME NEW t \in Trial, Node!Respond(t) PROVE Node!TypeOK'
  <2>1. PICK stamp \in Stamp : \E body \in {Node!Written(format, stamp), Node!Page} :
          /\ stamped' = [stamped EXCEPT ![t] = stamp]
          /\ coming' = [coming EXCEPT ![t] = body]
    BY <1>3 DEF Node!Respond
  <2>2. /\ Node!Written(format, stamp) \in Seq(0 .. Radix - 1)
        /\ Node!Page \in Seq(0 .. Radix - 1)
    <3>1. Page \in Seq(0 .. Radix - 1)
      BY FormatsAssumption DEF Page, Letter
    <3> QED
      BY <3>1, StampLong, NodeWritten, WrittenType DEF Node!Page, Page, Node!Letter, Letter
  <2>3. coming' \in [Trial -> Seq(0 .. Radix - 1)]
    BY <1>0, <2>1, <2>2
  <2>4. stamped' \in [Trial -> Stamp \cup {0}]
    BY <1>0, <2>1
  <2>5. request' \in [Trial -> {"none", "sent", "responding"}]
        /\ UNCHANGED <<format, promise, misread, running>>
    BY <1>0, <1>3 DEF Node!Respond
  <2> QED
    BY <1>0, <2>3, <2>4, <2>5 DEF Node!TypeOK
<1>4. ASSUME NEW t \in Trial, Node!Data(t) PROVE Node!TypeOK'
  <2>1. PICK k \in 1 .. Len(coming[t]) : Node!Receive(t, k)
    BY <1>4 DEF Node!Data
  <2>2. misread' \in SUBSET Trial
    BY <1>0, <1>4 DEF Node!Data
  <2>3. promise' \in [Trial -> {"none", "pending", "success", "failure"}]
        /\ UNCHANGED <<format, running, request>>
    BY <1>0, <1>4 DEF Node!Data
  <2> QED
    BY <1>0, <1>1, <2>1, <2>2, <2>3 DEF Node!TypeOK
<1>5. ASSUME NEW t \in Trial, Node!DataLate(t) PROVE Node!TypeOK'
  BY <1>0, <1>1, <1>5 DEF Node!DataLate, Node!TypeOK
<1>6. ASSUME NEW t \in Trial, Node!Refuse(t) \/ Node!Expire(t) PROVE Node!TypeOK'
  BY <1>0, <1>6 DEF Node!Refuse, Node!Expire, Node!TypeOK
<1> QED
  BY <1>2, <1>3, <1>4, <1>5, <1>6 DEF Node!Next

LEMMA TypeInit == Init => TypeOK
<1> SUFFICES ASSUME Init PROVE TypeOK
  OBVIOUS
<1>1. connection \in {"URL", "AJAX", "JSONP", "NodeJS"}
  BY InvInit DEF IInv
<1>2. format \in Format
  <2>1. PICK platform \in {"JVM", "JS"}, window \in BOOLEAN, sameHost \in BOOLEAN,
             asked \in Format \cup {NoFormat} :
          format = FormatOf(Chosen(platform, window, sameHost), asked)
    BY DEF Init
  <2> QED
    BY <2>1, DefaultFormats DEF FormatOf, DefaultFormat
<1>3. Url!TypeOK
  BY <1>2 DEF Init, Url!Init, Url!TypeOK
<1>4. Ajax!TypeOK
  BY <1>2 DEF Init, Ajax!Init, Ajax!TypeOK
<1>5. Jsonp!TypeOK
  <2>1. /\ MinTick \in Int /\ MaxTick \in Int /\ MinTick =< MaxTick /\ MaxDraws \in Nat
        /\ CountSpan \in Nat \ {0}
    BY ConnectionsAssumption DEF Jsonp!JsonpAssumption
  <2> QED
    BY <2>1 DEF Init, Jsonp!Init, Jsonp!TypeOK, Jsonp!Identifier, Jsonp!NoIdentifier
<1>6. Node!TypeOK
  BY <1>2 DEF Init, Node!Init, Node!TypeOK
<1> QED
  BY <1>1, <1>3, <1>4, <1>5, <1>6 DEF TypeOK, Node!TypeOK

LEMMA TypeStep == TypeOK /\ [Next]_vars => TypeOK'
<1> SUFFICES ASSUME TypeOK, [Next]_vars PROVE TypeOK'
  OBVIOUS
<1>1. CASE UrlOnly /\ Url!Next
  BY <1>1, UrlType DEF UrlOnly, TypeOK, Url!TypeOK, Ajax!TypeOK, Jsonp!TypeOK, Node!TypeOK,
     ajaxVars, jsonpVars, nodeVars, Jsonp!Identifier
<1>2. CASE AjaxOnly /\ Ajax!Next
  BY <1>2, AjaxType DEF AjaxOnly, TypeOK, Url!TypeOK, Ajax!TypeOK, Jsonp!TypeOK, Node!TypeOK,
     urlVars, jsonpVars, nodeVars, Jsonp!Identifier
<1>3. CASE JsonpOnly /\ Jsonp!Next
  BY <1>3, JsonpType DEF JsonpOnly, TypeOK, Url!TypeOK, Ajax!TypeOK, Jsonp!TypeOK, Node!TypeOK,
     urlVars, ajaxVars, nodeVars, Jsonp!Identifier
<1>4. CASE NodeOnly /\ Node!Next
  BY <1>4, NodeType DEF NodeOnly, TypeOK, Url!TypeOK, Ajax!TypeOK, Jsonp!TypeOK, Node!TypeOK,
     urlVars, ajaxVars, jsonpVars, Jsonp!Identifier
<1>5. CASE UNCHANGED vars
  BY <1>5 DEF vars, TypeOK, Url!TypeOK, Ajax!TypeOK, Jsonp!TypeOK, Node!TypeOK,
     urlVars, ajaxVars, jsonpVars, nodeVars, Jsonp!Identifier
<1> QED
  BY <1>1, <1>2, <1>3, <1>4, <1>5 DEF Next

(***************************************************************************)
(* The state of the program and of the connection it chose keeps its type, *)
(* and what is still to come of an answer is a sequence of bytes.          *)
(***************************************************************************)
THEOREM TypeCorrect == Spec => []TypeOK
<1> QED
  BY TypeInit, TypeStep, PTL DEF Spec

-----------------------------------------------------------------------------
(* Stamps.                                                                 *)

\* What is read of a whole answer in a text format.
LEMMA WholeRead ==
  ASSUME NEW f, f # "BINARY", NEW stamp \in Longs, NEW n
  PROVE  fromInputStream(f, Written(f, stamp), n) \subseteq {stamp}
  BY TextReadsBack DEF fromInputStream

\* What is read of eight bytes that have come together.
LEMMA BinaryRead ==
  ASSUME NEW stamp \in Longs
  PROVE  fromArrayBuffer(BINARY(stamp)) = {stamp}
<1> DEFINE b == BINARY(stamp)
<1>1. b \in Seq(0 .. Radix - 1) /\ Len(b) = Bytes /\ Bytes \in Nat /\ Radix \in Nat
  BY BinaryDigits, FormatsAssumption
<1>2. FromBytes(b) = {stamp}
  BY BinaryReadsBack
<1> HIDE DEF b
<1>3. SubSeq(b, 1, Bytes) = b
  BY <1>1, SubSeqFull
<1>4. ReadBytes(b, Bytes) = b
  <2>1. b = [i \in 1 .. Bytes |-> b[i]]
    BY <1>1, LenProperties
  <2> QED
    BY <1>1, <2>1 DEF ReadBytes
<1>5. fromArrayBuffer(b) = fromInputStream("BINARY", b, Bytes)
  <2>1. ~ (Len(b) < Bytes)
    BY <1>1
  <2> QED
    BY <1>3, <2>1, Zenon DEF fromArrayBuffer
<1> QED
  BY <1>2, <1>4, <1>5 DEF fromInputStream, b

LEMMA AjaxStampRead ==
  ASSUME NEW stamp \in Longs
  PROVE  Ajax!Read(Ajax!Written(format, stamp)) \subseteq {stamp}
<1>1. Ajax!Written(format, stamp) = Written(format, stamp)
  BY AjaxWritten
<1>2. CASE format = "BINARY"
  <2>1. Written(format, stamp) = BINARY(stamp)
    BY <1>2 DEF Written
  <2> QED
    BY <1>1, <1>2, <2>1, AjaxReads, BinaryRead DEF Ajax!Read
<1>3. CASE format # "BINARY"
  BY <1>1, <1>3, AjaxReads, WholeRead DEF Ajax!Read
<1> QED
  BY <1>2, <1>3

(***************************************************************************)
(* The invariant: while a NodeJS trial is pending, no part of its answer   *)
(* has come, and the answer is that of the stamp the server made.          *)
(***************************************************************************)
Intact(t) ==
  /\ request[t] = "sent" \/ coming[t] # <<>> => promise[t] # "none"
  /\ promise[t] = "pending" /\ coming[t] # <<>> =>
       stamped[t] \in Stamp /\ coming[t] \in {Written(format, stamped[t]), Page}

BodiesIntact == connection = "NodeJS" => \A t \in Trial : Intact(t)

\* A first part of such an answer, in JSON or XML, is not read as another stamp.
LEMMA PartRead ==
  ASSUME NEW f \in {"JSON", "XML"}, NEW stamp \in Longs,
         NEW body \in {Written(f, stamp), Page}, NEW k \in 1 .. Len(body)
  PROVE  fromUint8Array(f, SubSeq(body, 1, k)) \subseteq {stamp}
<1>1. fromUint8Array(f, SubSeq(body, 1, k)) = Parse(f, SubSeq(body, 1, k))
  BY DEF fromUint8Array, fromInputStream
<1>2. CASE body = Written(f, stamp)
  BY <1>1, <1>2, PartUnread
<1>3. CASE body = Page
  <2>1. Bytes \in Nat \ {0} /\ f # "STRING"
    BY FormatsAssumption
  <2>2. Len(Page) = Bytes
    BY <2>1 DEF Page
  <2> QED
    BY <1>1, <1>3, <2>1, <2>2, PageUnread
<1> QED
  BY <1>2, <1>3

LEMMA UrlStamps ==
  ASSUME Url!Next, format # "BINARY", misread = {}
  PROVE  misread' = {}
<1>1. CASE Url!LaunchBurst
  BY <1>1 DEF Url!LaunchBurst
<1>2. ASSUME NEW t \in Trial, Url!Return(t) PROVE misread' = {}
  <2>1. ASSUME NEW stamp \in Stamp, NEW n
        PROVE  Url!fromInputStream(format, Url!Written(format, stamp), n) \subseteq {stamp}
    BY StampLong, UrlWritten, UrlReads, WholeRead
  <2> QED
    BY <1>2, <2>1 DEF Url!Return
<1>3. ASSUME NEW t \in Trial, Url!OpenConnection(t) \/ Url!Expire(t) \/ Url!Record(t)
      PROVE  misread' = {}
  BY <1>3 DEF Url!OpenConnection, Url!Expire, Url!Record
<1> QED
  BY <1>1, <1>2, <1>3 DEF Url!Next

LEMMA AjaxStamps ==
  ASSUME Ajax!Next, misread = {}
  PROVE  misread' = {}
<1>1. ASSUME NEW t \in Trial, Ajax!OnLoad(t) PROVE misread' = {}
  <2>1. PICK stamp \in Stamp : \E read \in Ajax!Read(Ajax!Written(format, stamp)) :
          misread' = IF read = stamp THEN misread ELSE misread \cup {t}
    BY <1>1 DEF Ajax!OnLoad
  <2>2. Ajax!Read(Ajax!Written(format, stamp)) \subseteq {stamp}
    BY StampLong, AjaxStampRead
  <2> QED
    BY <2>1, <2>2
<1>2. ASSUME NEW t \in Trial,
             \/ Ajax!TimeTrial(t) \/ Ajax!OnLoadUnreadable(t) \/ Ajax!OnLoadStatus(t)
             \/ Ajax!OnLoadLate(t) \/ Ajax!XhrFails(t) \/ Ajax!Expire(t)
      PROVE  misread' = {}
  BY <1>2 DEF Ajax!TimeTrial, Ajax!OnLoadUnreadable, Ajax!OnLoadStatus,
     Ajax!OnLoadLate, Ajax!XhrFails, Ajax!Expire
<1> QED
  BY <1>1, <1>2 DEF Ajax!Next

LEMMA NodeStamps ==
  ASSUME Node!TypeOK, Node!Next, \A t \in Trial : Intact(t)
  PROVE  /\ \A t \in Trial : Intact(t)'
         /\ format' = format
         /\ format \in {"JSON", "XML"} /\ misread = {} => misread' = {}
<1>0. /\ promise \in [Trial -> {"none", "pending", "success", "failure"}]
      /\ request \in [Trial -> {"none", "sent", "responding"}]
      /\ stamped \in [Trial -> Stamp \cup {0}]
      /\ coming \in [Trial -> Seq(0 .. Radix - 1)]
  BY DEF Node!TypeOK
<1>1. ASSUME NEW t \in Trial, Node!TimeTrial(t)
      PROVE  /\ \A u \in Trial : Intact(u)'
             /\ format' = format /\ misread' = misread
  BY <1>0, <1>1 DEF Node!TimeTrial, Intact
<1>2. ASSUME NEW t \in Trial, Node!Respond(t)
      PROVE  /\ \A u \in Trial : Intact(u)'
             /\ format' = format /\ misread' = misread
  <2>1. PICK stamp \in Stamp : \E body \in {Node!Written(format, stamp), Node!Page} :
          /\ stamped' = [stamped EXCEPT ![t] = stamp]
          /\ coming' = [coming EXCEPT ![t] = body]
    BY <1>2 DEF Node!Respond
  <2>2. Node!Written(format, stamp) = Written(format, stamp) /\ Node!Page = Page
    BY NodeWritten DEF Node!Page, Page, Node!Letter, Letter
  <2>3. stamped'[t] \in Stamp /\ coming'[t] \in {Written(format, stamped'[t]), Page}
    BY <1>0, <2>1, <2>2
  <2>4. /\ \A u \in Trial \ {t} : stamped'[u] = stamped[u] /\ coming'[u] = coming[u]
        /\ \A u \in Trial \ {t} : request'[u] = request[u]
        /\ request[t] = "sent"
        /\ UNCHANGED <<format, promise, misread>>
    BY <1>0, <1>2, <2>1 DEF Node!Respond
  <2>5. Intact(t)'
    BY <2>3, <2>4 DEF Intact
  <2>6. ASSUME NEW u \in Trial \ {t} PROVE Intact(u)'
    BY <2>4 DEF Intact
  <2> QED
    BY <2>4, <2>5, <2>6
<1>3. ASSUME NEW t \in Trial, NEW k \in 1 .. Len(coming[t]), Node!Receive(t, k),
             promise'[t] \in {"success", "failure"},
             \A u \in Trial \ {t} : promise'[u] = promise[u],
             UNCHANGED <<format, request>>
      PROVE  \A u \in Trial : Intact(u)'
  <2>1. /\ \A u \in Trial \ {t} : stamped'[u] = stamped[u] /\ coming'[u] = coming[u]
    BY <1>0, <1>3 DEF Node!Receive
  <2>2. Intact(t)'
    BY <1>3 DEF Intact
  <2>3. ASSUME NEW u \in Trial \ {t} PROVE Intact(u)'
    BY <1>3, <2>1 DEF Intact
  <2> QED
    BY <2>2, <2>3
<1>4. ASSUME NEW t \in Trial, Node!Data(t)
      PROVE  /\ \A u \in Trial : Intact(u)'
             /\ format' = format
             /\ format \in {"JSON", "XML"} /\ misread = {} => misread' = {}
  <2> DEFINE read(k) == Node!fromUint8Array(format, SubSeq(coming[t], 1, k))
  <2>1. PICK k \in 1 .. Len(coming[t]) :
          /\ Node!Receive(t, k)
          /\ promise' = [promise EXCEPT ![t] = IF read(k) = {} THEN "failure" ELSE "success"]
          /\ misread' = IF read(k) \subseteq {stamped[t]} THEN misread ELSE misread \cup {t}
    BY <1>4 DEF Node!Data
  <2>2. promise[t] = "pending" /\ UNCHANGED <<format, request>>
    BY <1>4 DEF Node!Data
  <2>3. \A u \in Trial : Intact(u)'
    <3>1. promise'[t] \in {"success", "failure"}
          /\ \A u \in Trial \ {t} : promise'[u] = promise[u]
      BY <1>0, <2>1
    <3> QED
      BY <1>3, <2>1, <2>2, <3>1
  <2>4. coming[t] # <<>>
    BY <1>0, <2>1
  <2>5. stamped[t] \in Stamp /\ coming[t] \in {Written(format, stamped[t]), Page}
    BY <2>2, <2>4 DEF Intact
  <2>6. ASSUME format \in {"JSON", "XML"} PROVE read(k) \subseteq {stamped[t]}
    <3>1. fromUint8Array(format, SubSeq(coming[t], 1, k)) \subseteq {stamped[t]}
      BY <2>5, <2>6, StampLong, PartRead
    <3> QED
      BY <3>1, NodeReads
  <2> QED
    BY <2>1, <2>2, <2>3, <2>6
<1>5. ASSUME NEW t \in Trial, Node!DataLate(t)
      PROVE  /\ \A u \in Trial : Intact(u)'
             /\ format' = format /\ misread' = misread
  <2>1. PICK k \in 1 .. Len(coming[t]) : Node!Receive(t, k)
    BY <1>5 DEF Node!DataLate
  <2>2. promise[t] \in {"success", "failure"} /\ UNCHANGED <<format, promise, misread, request>>
    BY <1>5 DEF Node!DataLate
  <2> QED
    BY <1>3, <2>1, <2>2
<1>6. ASSUME NEW t \in Trial, Node!Refuse(t) \/ Node!Expire(t)
      PROVE  /\ \A u \in Trial : Intact(u)'
             /\ format' = format /\ misread' = misread
  BY <1>0, <1>6 DEF Node!Refuse, Node!Expire, Intact
<1> QED
  BY <1>1, <1>2, <1>4, <1>5, <1>6 DEF Node!Next

LEMMA StampsStep ==
  TypeOK /\ StampIntact /\ BodiesIntact /\ [Next]_vars => StampIntact' /\ BodiesIntact'
<1> SUFFICES ASSUME TypeOK, StampIntact, BodiesIntact, [Next]_vars
             PROVE  StampIntact' /\ BodiesIntact'
  OBVIOUS
<1>1. CASE UrlOnly /\ Url!Next
  <2>1. connection = "URL" /\ connection' = connection
    BY <1>1 DEF UrlOnly
  <2>2. format' = format
    BY <1>1 DEF Url!Next, Url!LaunchBurst, Url!OpenConnection, Url!Return, Url!Expire, Url!Record
  <2>3. format # "BINARY" => misread' = {}
    BY <1>1, <2>1, UrlStamps DEF StampIntact
  <2> QED
    BY <2>1, <2>2, <2>3 DEF StampIntact, BodiesIntact
<1>2. CASE AjaxOnly /\ Ajax!Next
  <2>1. connection = "AJAX" /\ connection' = connection
    BY <1>2 DEF AjaxOnly
  <2>2. misread' = {}
    BY <1>2, <2>1, AjaxStamps DEF StampIntact
  <2> QED
    BY <2>1, <2>2 DEF StampIntact, BodiesIntact
<1>3. CASE JsonpOnly /\ Jsonp!Next
  BY <1>3 DEF JsonpOnly, StampIntact, BodiesIntact
<1>4. CASE NodeOnly /\ Node!Next
  <2>1. connection = "NodeJS" /\ connection' = connection
    BY <1>4 DEF NodeOnly
  <2>2. /\ \A t \in Trial : Intact(t)'
        /\ format' = format
        /\ format \in {"JSON", "XML"} /\ misread = {} => misread' = {}
    BY <1>4, <2>1, NodeStamps DEF TypeOK, BodiesIntact
  <2> QED
    BY <2>1, <2>2 DEF StampIntact, BodiesIntact
<1>5. CASE UNCHANGED vars
  BY <1>5 DEF vars, nodeVars, StampIntact, BodiesIntact, Intact
<1> QED
  BY <1>1, <1>2, <1>3, <1>4, <1>5 DEF Next

(***************************************************************************)
(* A trial that succeeds has the stamp that the server wrote, on AJAX and  *)
(* JSONP, on URL in the text formats, and in JSON and XML on any           *)
(* connection, however the answer is cut (AJAX.scala, NodeJS.scala and     *)
(* URL.scala, timeTrial; TimeTrial.parse).                                 *)
(***************************************************************************)
THEOREM StampsIntact == Spec => []StampIntact
<1>1. Init => StampIntact /\ BodiesIntact
  BY DEF Init, Node!Init, StampIntact, BodiesIntact, Intact
<1> QED
  BY <1>1, StampsStep, TypeCorrect, PTL DEF Spec

=============================================================================
