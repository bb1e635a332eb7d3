---------------------------- MODULE MCLedgerReads ----------------------------
(***************************************************************************)
(* Instances of LedgerReads for TLC.                                       *)
(***************************************************************************)
EXTENDS LedgerReads, TLC

CONSTANTS a1, a2, w1, ana, brl, r1, e1, e2, k1, k2, m1

Cmd(e, k, kind) ==
    [ext |-> e, key |-> k, wallet |-> w1, player |-> ana, currency |-> brl,
     kind |-> kind, amount |-> 1, round |-> r1, ref |-> None]

\* Two operations that move the money of one wallet at the same time.
BetAndWin == {Cmd(e1, k1, "BET"), Cmd(e2, k2, "WIN")}

Nothing == {}

CallSymmetry == Permutations(Call)
=============================================================================
