-------------------------------- MODULE Omni --------------------------------
(***************************************************************************)
(* Mono+Omni(): identifier generation by the threads of several processes  *)
(* (object Omni, monotomni/shared package.scala).  A process is one JVM or *)
(* one JavaScript realm: it has its own wall clock, its own AtomicLong     *)
(* counter and its own host field.  Omni.apply() evaluates its operands    *)
(* from left to right, so a call first reads System.currentTimeMillis(),   *)
(* then draws from the counter, and only then or-s the fields and returns; *)
(* other threads run in between.  The wall clock is the operating system's *)
(* and may be set back.                                                    *)
(***************************************************************************)
EXTENDS MOILayout, Sequences

CONSTANTS
  Process,       \* processes that generate identifiers
  Thread,        \* threads that call Mono+Omni()
  home,          \* home[t]: the process thread t belongs to
  host,          \* host[p]: Omni.host of process p
  MinClock,      \* bounds of the wall clocks
  MaxClock,
  MaxIds         \* bound on the number of calls

ASSUME OmniAssumption ==
  /\ home \in [Thread -> Process]
  /\ host \in [Process -> 0 .. HostSpan - 1]
  /\ MinClock \in Int /\ MaxClock \in Int /\ MinClock =< MaxClock
  /\ MaxIds \in Nat

VARIABLES
  clock,     \* clock[p]: System.currentTimeMillis() of process p
  setBack,   \* history: the processes whose clock was set back
  counter,   \* counter[p]: the AtomicLong
  pc,        \* pc[t]: where thread t is in Omni.apply
  reading,   \* reading[t]: the time the current call has read
  ticket,    \* ticket[t]: the counter value the current call has drawn
  began,     \* began[t]: how many calls had returned when the current one began
  issued     \* history: the calls that have returned, in that order

vars == <<clock, setBack, counter, pc, reading, ticket, began, issued>>

Call == [process : Process, thread : Thread, time : Int, ticket : Nat,
         began : Nat, moi : MOI]

TypeOK ==
  /\ clock \in [Process -> MinClock .. MaxClock]
  /\ setBack \in SUBSET Process
  /\ counter \in [Process -> Nat]
  /\ pc \in [Thread -> {"idle", "timed", "counted"}]
  /\ reading \in [Thread -> Int]
  /\ ticket \in [Thread -> Nat]
  /\ began \in [Thread -> Nat]
  /\ issued \in Seq(Call)

Init ==
  /\ clock = [p \in Process |-> MinClock]
  /\ setBack = {}
  /\ counter = [p \in Process |-> 0]
  /\ pc = [t \in Thread |-> "idle"]
  /\ reading = [t \in Thread |-> 0]
  /\ ticket = [t \in Thread |-> 0]
  /\ began = [t \in Thread |-> 0]
  /\ issued = <<>>

-----------------------------------------------------------------------------
(* The operating system's clock.                                           *)

Tick(p) ==
  /\ clock[p] < MaxClock
  /\ clock' = [clock EXCEPT ![p] = @ + 1]
  /\ UNCHANGED <<setBack, counter, pc, reading, ticket, began, issued>>

StepBack(p) ==
  /\ \E c \in MinClock .. (clock[p] - 1) : clock' = [clock EXCEPT ![p] = c]
  /\ setBack' = setBack \cup {p}
  /\ UNCHANGED <<counter, pc, reading, ticket, began, issued>>

-----------------------------------------------------------------------------
(* One call of Omni.apply().                                               *)

\* Mutation: the first reading of a thread is kept for its later calls.
ReadTimeOnce(t) ==
  /\ pc[t] = "idle"
  /\ Len(issued) < MaxIds
  /\ reading' = [reading EXCEPT ![t] =
                   IF \E i \in DOMAIN issued : issued[i].thread = t
                   THEN @ ELSE clock[home[t]]]
  /\ began' = [began EXCEPT ![t] = Len(issued)]
  /\ pc' = [pc EXCEPT ![t] = "timed"]
  /\ UNCHANGED <<clock, setBack, counter, ticket, issued>>

\* System.currentTimeMillis(), the first operand.
ReadTime(t) ==
  /\ pc[t] = "idle"
  /\ Len(issued) < MaxIds
  /\ reading' = [reading EXCEPT ![t] = clock[home[t]]]
  /\ began' = [began EXCEPT ![t] = Len(issued)]
  /\ pc' = [pc EXCEPT ![t] = "timed"]
  /\ UNCHANGED <<clock, setBack, counter, ticket, issued>>

\* Mutation: the counter is decremented.
DrawDown(t) ==
  /\ pc[t] = "timed"
  /\ ticket' = [ticket EXCEPT ![t] = counter[home[t]]]
  /\ counter' = [counter EXCEPT ![home[t]] = @ - 1]
  /\ pc' = [pc EXCEPT ![t] = "counted"]
  /\ UNCHANGED <<clock, setBack, reading, began, issued>>

\* Mutation: two threads in count() at once obtain the same value.
DrawUnsynchronized(t) ==
  /\ pc[t] = "timed"
  /\ ticket' = [ticket EXCEPT ![t] = counter[home[t]]]
  /\ counter' = [counter EXCEPT ![home[t]] =
                   IF \E u \in Thread \ {t} : pc[u] = "timed" /\ home[u] = home[t]
                   THEN @ ELSE @ + 1]
  /\ pc' = [pc EXCEPT ![t] = "counted"]
  /\ UNCHANGED <<clock, setBack, reading, began, issued>>

\* count(): counter.getAndIncrement(), in a synchronized method.
Draw(t) ==
  /\ pc[t] = "timed"
  /\ ticket' = [ticket EXCEPT ![t] = counter[home[t]]]
  /\ counter' = [counter EXCEPT ![home[t]] = @ + 1]
  /\ pc' = [pc EXCEPT ![t] = "counted"]
  /\ UNCHANGED <<clock, setBack, reading, began, issued>>

\* The or of the three fields is returned to the caller; the operands are
\* forgotten.
Return(t) ==
  /\ pc[t] = "counted"
  /\ issued' = Append(issued,
                 [process |-> home[t], thread |-> t, time |-> reading[t],
                  ticket |-> ticket[t], began |-> began[t],
                  moi |-> MakeMOI(reading[t], ticket[t], host[home[t]])])
  /\ pc' = [pc EXCEPT ![t] = "idle"]
  /\ reading' = [reading EXCEPT ![t] = 0]
  /\ ticket' = [ticket EXCEPT ![t] = 0]
  /\ began' = [began EXCEPT ![t] = 0]
  /\ UNCHANGED <<clock, setBack, counter>>

Next ==
  \/ \E p \in Process : Tick(p) \/ StepBack(p)
  \/ \E t \in Thread : ReadTime(t) \/ Draw(t) \/ Return(t)

Spec == Init /\ [][Next]_vars

-----------------------------------------------------------------------------
(* Properties.                                                             *)

Distance(a, b) == IF a < b THEN b - a ELSE a - b

(***************************************************************************)
(* Two calls never return the same identifier when their processes have    *)
(* different host fields, or when they are calls of one process with fewer *)
(* than CountSpan (256) draws between them, whatever the threads'          *)
(* interleaving and however the wall clocks move.  This is all that the    *)
(* layout of package.scala guarantees of the uniqueness the README names.  *)
(***************************************************************************)
DistinctWithinWindow ==
  \A i, j \in DOMAIN issued :
    \/ host[issued[i].process] # host[issued[j].process]
    \/ /\ i # j
       /\ issued[i].process = issued[j].process
       /\ Distance(issued[i].ticket, issued[j].ticket) < CountSpan
    => issued[i].moi # issued[j].moi

(***************************************************************************)
(* Why it holds: every value of a counter is drawn by one call at most.    *)
(* The strengthening of DistinctWithinWindow that is inductive.            *)
(***************************************************************************)
Drawn(p) ==
  {t \in Thread : pc[t] = "counted" /\ home[t] = p}

IssuedBy(p) ==
  {i \in DOMAIN issued : issued[i].process = p}

TicketsBelowCounter ==
  \A p \in Process :
    /\ \A t \in Drawn(p) : ticket[t] < counter[p]
    /\ \A i \in IssuedBy(p) : issued[i].ticket < counter[p]

TicketsDistinct ==
  \A p \in Process :
    /\ \A t, u \in Drawn(p) : t # u => ticket[t] # ticket[u]
    /\ \A t \in Drawn(p), i \in IssuedBy(p) : ticket[t] # issued[i].ticket
    /\ \A i, j \in IssuedBy(p) : i # j => issued[i].ticket # issued[j].ticket

IssuedAsMade ==
  \A i \in DOMAIN issued :
    issued[i].moi = MakeMOI(issued[i].time, issued[i].ticket,
                            host[issued[i].process])

EveryTicketOnce ==
  /\ TypeOK
  /\ TicketsBelowCounter
  /\ TicketsDistinct
  /\ IssuedAsMade

(***************************************************************************)
(* Real-time order.  When the wall clock is never set back, a call that    *)
(* begins after another call of the process has returned (possibly on      *)
(* another thread) returns a larger identifier, unless both read the same  *)
(* 256 ms tick and the 8 bit count wrapped between them; even then it has   *)
(* read no earlier tick.  This holds within the era of the layout, the     *)
(* 2^31 ticks (17.4 years) on either side of dawnOfTime in which the time  *)
(* field keeps its sign: in August 2038 identifiers turn negative.         *)
(***************************************************************************)
InEra(i) ==
  TickOf(issued[i].time) \in -HalfTime .. HalfTime - 1

Follows(i, j) ==
  /\ issued[i].process = issued[j].process
  /\ i =< issued[j].began

Wrapped(i, j) ==
  /\ TickOf(issued[i].time) = TickOf(issued[j].time)
  /\ issued[i].ticket \div CountSpan # issued[j].ticket \div CountSpan

IncreasingInRealTime ==
  \A i, j \in DOMAIN issued :
    issued[i].process \notin setBack /\ Follows(i, j) =>
      /\ TickOf(issued[i].time) =< TickOf(issued[j].time)
      /\ InEra(i) /\ InEra(j) /\ ~ Wrapped(i, j) => issued[i].moi < issued[j].moi

(***************************************************************************)
(* What README.md:3 says of the identifiers: unique and monotonically      *)
(* increasing, here of one thread whose wall clock is never set back.      *)
(***************************************************************************)
StrictlyIncreasing ==
  \A i, j \in DOMAIN issued :
    /\ i < j
    /\ issued[i].thread = issued[j].thread
    /\ issued[i].process \notin setBack
    => issued[i].moi < issued[j].moi

=============================================================================
