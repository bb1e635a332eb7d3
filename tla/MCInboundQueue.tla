--------------------------- MODULE MCInboundQueue ---------------------------
(* Bounded instances of InboundQueue. *)
EXTENDS InboundQueue, TLC

CONSTANTS c1, c2, wa

\* All messages are operations of one wallet, or each of one of its own.
OneWallet == [m \in Message |-> wa]
WalletEach == [m \in Message |-> m]

ConsumerSymmetry == Permutations(Consumer)
=============================================================================
