------------------------- MODULE MCReferenceResolver -------------------------
(***************************************************************************)
(* Instances of ReferenceResolver for TLC.                                 *)
(***************************************************************************)
EXTENDS ReferenceResolver

CONSTANTS g1, g2
=============================================================================
