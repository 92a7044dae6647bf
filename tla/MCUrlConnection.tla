-------------------------- MODULE MCUrlConnection --------------------------
(***************************************************************************)
(* Instances of UrlConnection for TLC: bursts of two trials, and trials    *)
(* enough for the requests of an earlier burst to be blocked still.        *)
(***************************************************************************)
EXTENDS UrlConnection

CONSTANTS r1, r2, r3, r4

=============================================================================
