-------------------------------- MODULE MOILayout --------------------------------
(***************************************************************************)
(* The layout of a Mono+Omni identifier (type MOI = Long, monotomni/shared *)
(* package.scala).  An identifier is one 64 bit integer:                   *)
(*                                                                         *)
(*   bits 32..63   (ts - dawnOfTime) >>> 8, its low 32 bits                *)
(*   bits  8..15   the low 8 bits of the process-wide counter              *)
(*   bits  0..3    the low 4 bits of the host name's hash                  *)
(*   bits 4..7 and 16..31 are always 0                                     *)
(*                                                                         *)
(* The widths are constants so that TLC, whose integers have 32 bits, can  *)
(* use narrow fields; the operators are the same for every width.  Times   *)
(* are milliseconds since dawnOfTime: the subtraction is done once and for *)
(* all by the choice of the origin, so a time before dawnOfTime is         *)
(* negative.                                                               *)
(***************************************************************************)
EXTENDS Integers

CONSTANTS
  TickMillis,   \* 2^8:  milliseconds told apart by the time field
  HalfTime,     \* 2^31: half the values of the time field
  TimeUnit,     \* 2^32: weight of the time field
  CountSpan,    \* 2^8:  values of the count field
  CountUnit,    \* 2^8:  weight of the count field
  HostSpan      \* 2^4:  values of the host field

ASSUME LayoutAssumption ==
  /\ TickMillis \in Nat \ {0}
  /\ HalfTime \in Nat \ {0}
  /\ TimeUnit \in Nat \ {0}
  /\ CountSpan \in Nat \ {0}
  /\ CountUnit \in Nat \ {0}
  /\ HostSpan \in Nat \ {0}
  /\ HostSpan =< CountUnit                  \* the host fits below the count
  /\ CountSpan * CountUnit =< TimeUnit      \* the count fits below the time

(***************************************************************************)
(* The 256 millisecond tick a time falls in.  \div rounds towards minus    *)
(* infinity, as a shift of a two's complement number does.                 *)
(***************************************************************************)
TickOf(ts) == ts \div TickMillis

(***************************************************************************)
(* The time field read as the top half of a signed Long: << 32 drops the   *)
(* high bits of the tick, and the highest bit that stays is the sign.      *)
(***************************************************************************)
shiftTime(ts) == ((TickOf(ts) + HalfTime) % (2 * HalfTime)) - HalfTime

(***************************************************************************)
(* 0x0000fff0L & (c << 8): the shift clears bits 0..7 and the mask drops   *)
(* everything from bit 16 up, which leaves the counter modulo 2^8.         *)
(***************************************************************************)
\* Mutation: a mask one bit short.
CountFieldShortMask(c) == c % (CountSpan - 1)
CountField(c) == c % CountSpan

\* type MOI: every value of the signed Long.
MOI == -(HalfTime * TimeUnit) .. HalfTime * TimeUnit - 1

(***************************************************************************)
(* shiftTime | count | host.  The three fields share no bit, so the        *)
(* bitwise or is a sum.                                                    *)
(***************************************************************************)
MakeMOI(ts, c, h) == shiftTime(ts) * TimeUnit + CountField(c) * CountUnit + h

=============================================================================
