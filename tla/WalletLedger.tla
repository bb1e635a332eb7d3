---------------------------- MODULE WalletLedger ----------------------------
(***************************************************************************)
(* What the service promises: a sequential wallet.  Every operation takes  *)
(* effect in one step, and the step decides over the state it changes.     *)
(* There are no calls, locks, retries or crashes here; WagerProcessing,    *)
(* which has them, is shown to implement this specification.               *)
(*                                                                         *)
(* Parking is the one decision that may be older than its step: a reversal *)
(* may be parked although its reference has arrived meanwhile, because the *)
(* code looks for the reference before it stores the wait.  Expiry refuses *)
(* any parked reversal.                                                    *)
(***************************************************************************)
EXTENDS WagerRules

CONSTANTS
    Command,        \* the commands providers send
    InitialBalance  \* the balances wallets are opened with

VARIABLES
    wallets,   \* table wallets
    rows,      \* table wager_transactions
    ledger,    \* table wallet_ledger, per wallet in seq order
    events     \* table outbox: the events of each transaction, in the order written;
               \* a wallet stands for its OPENING

vars == <<wallets, rows, ledger, events>>

Init ==
    /\ wallets = [w \in Wallet |-> None]
    /\ rows = [e \in Ext |-> None]
    /\ ledger = [w \in Wallet |-> <<>>]
    /\ events = [x \in Ext \cup Wallet |-> <<>>]

\* A wallet is opened once per player and currency, its row, its
\* opening credit and the events of that credit together.
OpenWallet(w, player, currency, balance) ==
    /\ wallets[w] = None
    /\ \A v \in Wallet : wallets[v] # None =>
          <<wallets[v].player, wallets[v].currency>> # <<player, currency>>
    /\ wallets' = [wallets EXCEPT ![w] =
          [player |-> player, currency |-> currency, balance |-> balance, version |-> 1]]
    /\ ledger' = [ledger EXCEPT ![w] =
          IF balance > 0 THEN <<NewLedgerEntry(Opening, "CREDIT", balance, 0)>> ELSE <<>>]
    /\ events' = [events EXCEPT ![w] = IF balance > 0 THEN OpeningEvents ELSE <<>>]
    /\ UNCHANGED rows

Unfinished(c) ==
    \/ rows[c.ext] = None
    \/ /\ rows[c.ext] # None
       /\ ~IsTerminal(rows[c.ext].state)
       /\ PayloadHash(rows[c.ext].cmd) = PayloadHash(c)

Current(c) == IF rows[c.ext] = None THEN NewExternalTransaction(c) ELSE rows[c.ext]

VerdictNow(c) ==
    apply(c, wallets[c.wallet], RowOf(rows, c.ref), HasProcessedReversal(rows, c.ref))

Store(t, moved) ==
    /\ rows' = [rows EXCEPT ![t.cmd.ext] = t]
    /\ events' = [events EXCEPT ![t.cmd.ext] = @ \o EventsOf(t, moved)]

\* The money moves: balance, version, ledger, row and events change at once.
Move(c) ==
    LET v == VerdictNow(c)
        w == wallets[c.wallet]
        after == ApplyMovement(w, v.direction, c.amount)
    IN  /\ Unfinished(c)
        /\ wallets[c.wallet] # None
        /\ v.act = "MOVE"
        /\ wallets' = [wallets EXCEPT ![c.wallet] = after]
        /\ ledger' = [ledger EXCEPT ![c.wallet] =
              Append(@, NewLedgerEntry(c.ext, v.direction, c.amount, w.balance))]
        /\ Store(MarkAsProcessed(Current(c), after.balance, v.ref), TRUE)

\* A LOSS is acknowledged and moves nothing.
Conclude(c) ==
    /\ Unfinished(c)
    /\ wallets[c.wallet] # None
    /\ VerdictNow(c).act = "CONCLUDE"
    /\ Store(MarkAsProcessed(Current(c), wallets[c.wallet].balance, None), FALSE)
    /\ UNCHANGED <<wallets, ledger>>

Refused(c) ==
    /\ Unfinished(c)
    /\ VerdictNow(c).act = "REJECT"
    /\ Store(Reject(Current(c), VerdictNow(c).code, VerdictNow(c).ref), FALSE)
    /\ UNCHANGED <<wallets, ledger>>

Park(c) ==
    /\ rows[c.ext] = None
    /\ RequiresReference(c.kind)
    /\ Store(MarkAsPendingReference(NewExternalTransaction(c)), FALSE)
    /\ UNCHANGED <<wallets, ledger>>

Expire(e) ==
    /\ rows[e] # None
    /\ rows[e].state = "PENDING_REFERENCE"
    /\ Store(Reject(rows[e], "REFERENCE_NOT_FOUND", rows[e].ref), FALSE)
    /\ UNCHANGED <<wallets, ledger>>

Next ==
    \/ \E w \in Wallet, p \in Player, u \in Currency, b \in InitialBalance :
          OpenWallet(w, p, u, b)
    \/ \E c \in Command : Move(c) \/ Conclude(c) \/ Refused(c) \/ Park(c)
    \/ \E e \in Ext : Expire(e)

Spec == Init /\ [][Next]_vars
=============================================================================
