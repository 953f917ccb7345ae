---------------------------- MODULE MCCliNonceFile ----------------------------
(* Three invocations: one that settles a challenge and two that overlap, or   *)
(* one whose late write undoes what another accepted.                         *)
EXTENDS CliNonceFile

CONSTANTS r1, r2, r3, c1, c2
===============================================================================
