------------------------- MODULE RemoteIdentifiers -------------------------
(***************************************************************************)
(* Identifiers in the server's time: RemoteClock.ami (shared               *)
(* RemoteClock.scala) and the readers M0I and AM1 (shared package.scala).  *)
(*                                                                         *)
(* ami(moi) converts an identifier that some call of Mono+Omni() has       *)
(* returned, by default one drawn for the purpose.  It reads the estimate  *)
(* of DeltaT after that, and the estimate may have changed since the       *)
(* identifier was drawn.  Scala evaluates the default argument first, so   *)
(* an ami() that throws because the clock is not ready has drawn from the  *)
(* counter as any other call has.                                          *)
(***************************************************************************)
EXTENDS Omni

CONSTANTS
  Delta,      \* milliseconds the estimate may be set to
  MaxAmis     \* bound on the conversions

ASSUME RemoteAssumption ==
  /\ Delta \in SUBSET Int
  /\ MaxAmis \in Nat

\* The masks of the readers cut between fields: widths are powers of two.
ASSUME FieldsAligned ==
  /\ TimeUnit % (CountSpan * CountUnit) = 0
  /\ CountUnit % HostSpan = 0

VARIABLES
  ready,      \* promisedDT.isCompleted
  deltaT,     \* state.deltaT, the estimate
  amis        \* history: the conversions made, in that order

remoteVars == <<vars, ready, deltaT, amis>>

-----------------------------------------------------------------------------
(* The arithmetic of an AMI.                                               *)

AMI == MOI

\* A Long keeps the low 64 bits of a sum.
Wrap(x) ==
  ((x + HalfTime * TimeUnit) % (2 * HalfTime * TimeUnit)) - HalfTime * TimeUnit

\* Mutation: the difference is not shifted to the time field.
ConvertUnshifted(moi, dT) == Wrap(moi + dT)

\* Mutation: the conversion starts from the time field alone.
ConvertTimeOnly(moi, dT) == Wrap((moi \div TimeUnit + dT) * TimeUnit)

\* Mutation: the difference is taken the other way round.
ConvertBackwards(moi, dT) == Wrap(moi - dT * TimeUnit)

\* Mutation: the sum does not wrap.
ConvertUnwrapped(moi, dT) == moi + dT * TimeUnit

\* moi + (state.deltaT << 32)
Convert(moi, dT) == Wrap(moi + dT * TimeUnit)

\* ami >>> 32, as a signed number of its width.
TimeField(ami) == ami \div TimeUnit

\* (0x0000fff0L & ami) >>> 8 and 0x0000000F & ami.
CountOf(ami) == (ami % (CountSpan * CountUnit)) \div CountUnit
HashMask(ami) == ami % HostSpan

Conversion == [source : Nat, dT : Int, ami : AMI]

RemoteTypeOK ==
  /\ TypeOK
  /\ ready \in BOOLEAN
  /\ deltaT \in Int
  /\ amis \in Seq(Conversion)
  /\ \A k \in DOMAIN amis : amis[k].source \in DOMAIN issued

RemoteInit ==
  /\ Init
  /\ ready = FALSE
  /\ deltaT = 0
  /\ amis = <<>>

-----------------------------------------------------------------------------
(* Actions.                                                                *)

\* A call of Mono+Omni(), or the operating system's clock.
Local == Next /\ UNCHANGED <<ready, deltaT, amis>>

\* The first use of logTimeTrial completes promisedDT.
BecomeReady ==
  /\ ~ ready
  /\ ready' = TRUE
  /\ UNCHANGED <<vars, deltaT, amis>>

\* A time trial sets the estimate.
SetDeltaT ==
  /\ ready
  /\ deltaT' \in Delta
  /\ UNCHANGED <<vars, ready, amis>>

\* ami(moi), for the identifier that call i has returned.
Ami(i) ==
  /\ ready
  /\ Len(amis) < MaxAmis
  /\ amis' = Append(amis, [source |-> i, dT |-> deltaT,
                           ami |-> Convert(issued[i].moi, deltaT)])
  /\ UNCHANGED <<vars, ready, deltaT>>

RemoteNext ==
  \/ Local
  \/ BecomeReady
  \/ SetDeltaT
  \/ \E i \in DOMAIN issued : Ami(i)

RemoteSpec == RemoteInit /\ [][RemoteNext]_remoteVars

-----------------------------------------------------------------------------
(* Properties.                                                             *)

(***************************************************************************)
(* The count and the host of an identifier survive its conversion,         *)
(* whatever the estimate was, however large or negative: they are what     *)
(* M0I.count, AM1.count and AM1.hashMask read (package.scala:66,75,76).    *)
(***************************************************************************)
FieldsSurvive ==
  \A k \in DOMAIN amis :
    LET call == issued[amis[k].source] IN
      /\ CountOf(amis[k].ami) = CountField(call.ticket)
      /\ CountOf(call.moi) = CountField(call.ticket)
      /\ HashMask(amis[k].ami) = host[call.process]

\* The identifiers of two calls are told apart by the layout.
ToldApart(i, j) ==
  \/ host[issued[i].process] # host[issued[j].process]
  \/ /\ i # j
     /\ issued[i].process = issued[j].process
     /\ Distance(issued[i].ticket, issued[j].ticket) < CountSpan

(***************************************************************************)
(* Uniqueness survives conversion: identifiers that two calls can be told  *)
(* apart by stay different when one or both are converted, with the same   *)
(* estimate or with two, before and after it changed.                      *)
(***************************************************************************)
AmisDistinct ==
  \A k \in DOMAIN amis :
    /\ \A i \in DOMAIN issued :
         ToldApart(amis[k].source, i) => amis[k].ami # issued[i].moi
    /\ \A l \in DOMAIN amis :
         ToldApart(amis[k].source, amis[l].source) => amis[k].ami # amis[l].ami

(***************************************************************************)
(* Order survives conversion too, while the estimate does not go down and  *)
(* the converted times stay within the era of the layout.                  *)
(***************************************************************************)
ConvertedInEra(k) ==
  LET i == amis[k].source IN
    InEra(i) /\ TickOf(issued[i].time) + amis[k].dT \in -HalfTime .. HalfTime - 1

AmisInRealTime ==
  \A k, l \in DOMAIN amis :
    LET i == amis[k].source
        j == amis[l].source
    IN  /\ issued[i].process \notin setBack
        /\ Follows(i, j) /\ ~ Wrapped(i, j)
        /\ ConvertedInEra(k) /\ ConvertedInEra(l)
        /\ amis[k].dT =< amis[l].dT
        => amis[k].ami < amis[l].ami

(***************************************************************************)
(* What RemoteClock.scala:38 says of ami(): an AMI approximates the MOI    *)
(* of the time server.  Its time field is then at most one tick from that  *)
(* of the local time moved by the estimate.                                *)
(***************************************************************************)
ApproximatesServer ==
  \A k \in DOMAIN amis :
    ConvertedInEra(k) =>
      Distance(TimeField(amis[k].ami),
               TickOf(issued[amis[k].source].time + amis[k].dT)) =< 1

=============================================================================
