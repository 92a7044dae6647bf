------------------------ MODULE MCRemoteIdentifiers ------------------------
(***************************************************************************)
(* Instances of RemoteIdentifiers for TLC: one thread in each of two       *)
(* processes (MCOmni has two in one), and a time field of two ticks on     *)
(* either side of dawnOfTime, so that conversions leave the era.           *)
(***************************************************************************)
EXTENDS RemoteIdentifiers, TLC

CONSTANTS p1, p2, t1, t2

\* Each process has its thread.
MCHome == (t1 :> p1) @@ (t2 :> p2)

\* Two hosts whose names have different hashes modulo HostSpan.
MCDistinctHosts == (p1 :> 0) @@ (p2 :> 1)

\* A clock may be set to before dawnOfTime.
MCBeforeDawn == -1

\* Estimates that leave the era and return, and one that goes down.
MCDelta == {-2, 1}

\* A single process with one thread.
MCHomeAlone == (t1 :> p1)
MCHostAlone == (p1 :> 1)

=============================================================================
