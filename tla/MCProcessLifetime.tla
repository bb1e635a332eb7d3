-------------------------- MODULE MCProcessLifetime --------------------------
(***************************************************************************)
(* An instance of ProcessLifetime for TLC.                                 *)
(***************************************************************************)
EXTENDS ProcessLifetime

CONSTANTS q1, q2
=============================================================================
