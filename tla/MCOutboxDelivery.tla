-------------------------- MODULE MCOutboxDelivery ---------------------------
(***************************************************************************)
(* Instances of OutboxDelivery for TLC.                                    *)
(***************************************************************************)
EXTENDS OutboxDelivery, TLC

CONSTANTS p1, p2

PublisherSymmetry == Permutations(Publisher)
=============================================================================
