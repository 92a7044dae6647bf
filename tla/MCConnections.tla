--------------------------- MODULE MCConnections ---------------------------
(***************************************************************************)
(* An instance of Connections for TLC: three trials in bursts of two, two   *)
(* on either side of dawnOfTime, a count field of one bit, which repeats   *)
(* within a tick and after a clock is set back, and a stamp of three       *)
(* digits, one byte and a half.                                            *)
(***************************************************************************)
EXTENDS Connections

CONSTANTS t1, t2, t3

\* The page's clock stands before dawnOfTime at first.
MCMinTick == -1


=============================================================================
