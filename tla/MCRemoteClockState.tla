------------------------- MODULE MCRemoteClockState -------------------------
(***************************************************************************)
(* Instances of RemoteClockState for TLC.                                  *)
(***************************************************************************)
EXTENDS RemoteClockState, TLC

CONSTANTS t1, t2

Symmetry == Permutations(Trial)


=============================================================================
