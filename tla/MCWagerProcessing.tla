-------------------------- MODULE MCWagerProcessing --------------------------
(***************************************************************************)
(* Instances of WagerProcessing for TLC.                                   *)
(***************************************************************************)
EXTENDS WagerProcessing, TLC

CONSTANTS
    a1, a2,             \* calls
    w1, w2,             \* wallets
    ana, bia,           \* players
    brl, usd,           \* currencies
    r1,                 \* a round
    e1, e2, e3, e4,     \* external ids
    k1, k2, k3, k4,     \* idempotency keys
    m1, m2              \* messages

Cmd(e, k, kind, amount, ref) ==
    [ext |-> e, key |-> k, wallet |-> w1, player |-> ana, currency |-> brl,
     kind |-> kind, amount |-> amount, round |-> r1, ref |-> ref]

\* A bet and one reversal of it.
OneReversal == {Cmd(e1, k1, "BET", 1, None), Cmd(e2, k2, "REFUND", 1, e1)}

\* Every kind, and the operations that compete: a bet and a win under one id,
\* a refund and a rollback of the first, a rollback of the refund, bets that
\* fit the balance or do not.  The wallet may be another player's or in another
\* currency, and the win overflows unless a bet was placed.
Operations ==
    {Cmd(e1, k1, "BET", 1, None), Cmd(e1, k1, "WIN", 2, None),
     Cmd(e2, k2, "REFUND", 1, e1), Cmd(e2, k2, "BET", 1, None),
     Cmd(e3, k3, "ROLLBACK", 1, e1), Cmd(e3, k3, "ROLLBACK", 1, e2),
     Cmd(e3, k3, "LOSS", 0, None)}

\* The same operations, by HTTP and by two messages, one of which comes back
\* with another body.
Deliveries ==
    {[id |-> m1, cmd |-> Cmd(e1, k1, "BET", 1, None)],
     [id |-> m1, cmd |-> Cmd(e2, k2, "REFUND", 1, e1)],
     [id |-> m2, cmd |-> Cmd(e2, k2, "REFUND", 1, e1)]}

TwoBets == {Cmd(e1, k1, "BET", 1, None), Cmd(e2, k2, "BET", 1, None)}

\* A bet, its refund, and a bet that reuses the key of the first.
Retries == OneReversal \cup {Cmd(e2, k1, "BET", 1, None)}

Nothing == {}

CallSymmetry == Permutations(Call)
=============================================================================
