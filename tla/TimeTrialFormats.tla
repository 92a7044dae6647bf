-------------------------- MODULE TimeTrialFormats --------------------------
(***************************************************************************)
(* How a time server writes a TimeTrial and how the connections read it    *)
(* (shared TimeTrial.scala, js TimeTrial.scala).                           *)
(*                                                                         *)
(* An answer is a sequence of bytes.  BINARY is the stamp's two's          *)
(* complement in a fixed number of bytes, the highest first; the other     *)
(* formats are its decimal text, in JSON and XML between two fixed pieces  *)
(* of text.  The widths and the base are constants, narrow ones for TLC.   *)
(* Reading yields the set of stamps it may return: one, or none when it    *)
(* throws.                                                                 *)
(***************************************************************************)
EXTENDS Integers, Sequences

CONSTANTS
  Bytes,      \* 8: TimeTrial.BYTES
  Radix,      \* 256: values of a byte
  Base,       \* 10: base of the text formats
  MaxDigits   \* 19: digits that N2Long accepts

ASSUME FormatsAssumption ==
  /\ Bytes \in Nat \ {0}
  /\ MaxDigits \in Nat \ {0}
  /\ Base \in Nat /\ Base > 1
  /\ Radix \in Nat /\ Radix > Base + 3

\* The characters of the text formats that the models tell apart.
Open == Base         \* {"t":" and <TimeTrial t="
Close == Base + 1    \* "} and "/>
Minus == Base + 2
Letter == Base + 3   \* any other

Least(a, b) == IF a < b THEN a ELSE b

\* The number that a sequence of digits denotes.
Number(digits, base) ==
  LET prefix[k \in 0 .. Len(digits)] ==
        IF k = 0 THEN 0 ELSE prefix[k - 1] * base + digits[k]
  IN  prefix[Len(digits)]

\* What is left of n, a digit to the right each time.
Quotients(n, base, len) ==
  LET left[k \in 0 .. len] == IF k = 0 THEN n ELSE left[k - 1] \div base IN left

\* The last len digits of n, the highest first.
Digits(n, base, len) ==
  LET left == Quotients(n, base, len)
  IN  [i \in 1 .. len |-> left[len - i] % base]

\* How many values len bytes have.
Values(len) ==
  LET values[k \in 0 .. len] == IF k = 0 THEN 1 ELSE values[k - 1] * Radix
  IN  values[len]

\* The numbers that Bytes bytes hold in two's complement: Long.
Longs == -(Values(Bytes) \div 2) .. Values(Bytes) \div 2 - 1

-----------------------------------------------------------------------------
(* Writing.                                                                *)

\* ByteBuffer.allocate(BYTES).putLong(serverTimeStamp)
BINARY(stamp) == Digits(stamp % Values(Bytes), Radix, Bytes)

\* Long.toString
Decimal(stamp) ==
  LET size == IF stamp < 0 THEN -stamp ELSE stamp
      left == Quotients(size, Base, size + 1)
      len == CHOOSE k \in 1 .. size + 1 : left[k] = 0 /\ (k > 1 => left[k - 1] # 0)
      digits == Digits(size, Base, len)
  IN  IF stamp < 0 THEN <<Minus>> \o digits ELSE digits

\* What the server writes when it is asked for a format it does not know,
\* and what a server that fails writes.
Page == [i \in 1 .. Bytes |-> Letter]

\* TimeTrialFormats that a TimeServer is asked for by their names.
Written(format, stamp) ==
  CASE format = "BINARY" -> BINARY(stamp)
    [] format = "STRING" -> Decimal(stamp)
    [] format \in {"JSON", "XML"} -> <<Open>> \o Decimal(stamp) \o <<Close>>
    [] OTHER -> Page

-----------------------------------------------------------------------------
(* Reading.                                                                *)

\* inputStreamToByteArray: read() obtains the first n bytes, the others of
\* the new Array keep their 0.
ReadBytes(stream, n) ==
  [i \in 1 .. Bytes |-> IF i =< n THEN stream[i] ELSE 0]

\* TimeTrial.BINARY(bytes): the length is checked, getLong reads them.
FromBytes(bytes) ==
  IF Len(bytes) # Bytes THEN {}
  ELSE LET n == Number(bytes, Radix) IN
       {IF n \in Longs THEN n ELSE n - Values(Bytes)}

\* case N2Long(t) => TimeTrial(java.lang.Long.parseLong(t))
N2Long(text) ==
  IF /\ Len(text) \in 1 .. MaxDigits
     /\ \A i \in DOMAIN text : text[i] \in 0 .. Base - 1
  THEN {Number(text, Base)} ELSE {}

\* Mutation: what follows the stamp is not looked at.
ParseUnclosed(format, text) ==
  IF format = "STRING" THEN N2Long(text)
  ELSE IF Len(text) > 1 /\ text[1] = Open
       THEN N2Long(SelectSeq(Tail(text), LAMBDA c : c # Close))
  ELSE {}

\* TimeTrial.parse: the text between the pieces of its StringContext.
Parse(format, text) ==
  IF format = "STRING" THEN N2Long(text)
  ELSE IF Len(text) > 1 /\ text[1] = Open /\ text[Len(text)] = Close
       THEN N2Long(SubSeq(text, 2, Len(text) - 1))
  ELSE {}

\* TimeTrial.fromInputStream, where one read() yields the first n bytes; the
\* text formats read up to the end (readLine), JSONP as XML.
fromInputStream(format, stream, n) ==
  IF format = "BINARY" THEN FromBytes(ReadBytes(stream, n)) ELSE Parse(format, stream)

\* js TimeTrial.fromArrayBuffer: get(bytes, 0, BYTES) throws on a shorter one.
fromArrayBuffer(buffer) ==
  IF Len(buffer) < Bytes THEN {}
  ELSE fromInputStream("BINARY", SubSeq(buffer, 1, Bytes), Bytes)

\* js TimeTrial.fromUint8Array, on what has come so far.
fromUint8Array(format, chunk) ==
  fromInputStream(format, chunk, Least(Len(chunk), Bytes))

=============================================================================
