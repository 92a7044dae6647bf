------------------------------- MODULE MCOmni -------------------------------
(***************************************************************************)
(* Instances of Omni for TLC: two threads of one process and one of        *)
(* another, a clock that crosses a tick boundary, and a count field narrow *)
(* enough to wrap within the calls made.                                   *)
(***************************************************************************)
EXTENDS Omni, TLC

CONSTANTS p1, p2, t1, t2, t3

\* t1 and t2 share process p1, t3 is alone in p2.
MCHome == (t1 :> p1) @@ (t2 :> p1) @@ (t3 :> p2)

\* Two hosts whose names have different hashes modulo HostSpan.
MCDistinctHosts == (p1 :> 0) @@ (p2 :> 1)

\* A clock may be set to before dawnOfTime.
MCBeforeDawn == -1

\* The threads of p1 are alike.
Symmetry == Permutations({t1, t2})

\* A single process with two threads.
MCHomeAlone == (t1 :> p1) @@ (t2 :> p1)
MCHostAlone == (p1 :> 1)

=============================================================================
