----------------------------- MODULE WagerRules -----------------------------
(***************************************************************************)
(* The business rules of the wallet service, as pure operators: what a     *)
(* provider command is, how a kind moves a balance, when a reversal agrees *)
(* with what it reverses, and the verdict the service reaches on one       *)
(* operation once the wallet is locked and the reference has been read.    *)
(*                                                                         *)
(* Identifiers are opaque.  An element of Ext is a pair (providerId,       *)
(* externalTransactionId) and an element of Key a pair (providerId,        *)
(* idempotencyKey): the code never mixes two providers, so the pair is     *)
(* one name.  Money is a number of cents that fits an int64, whose largest *)
(* value is MaxMoney.                                                      *)
(***************************************************************************)
EXTENDS Integers, Sequences

CONSTANTS
    Wallet,     \* wallet identifiers
    Player,     \* player identifiers
    Currency,   \* currency codes
    Round,      \* round identifiers
    Ext,        \* (providerId, externalTransactionId)
    Key,        \* (providerId, idempotencyKey)
    MaxMoney,   \* the largest int64 amount of cents
    Opening,    \* the transaction id of a wallet's internal OPENING
    None        \* an absent value

ASSUME MoneyAssumption == MaxMoney \in Nat
ASSUME NoneAssumption ==
    None \notin Wallet \cup Player \cup Currency \cup Ext \cup Key \cup 0..MaxMoney
ASSUME OpeningAssumption == Opening \notin Ext
ASSUME IdentifierAssumption == Wallet \cap Ext = {}

Money == 0..MaxMoney

\* A kind a provider may send; OPENING is the internal one.
ExternalKind == {"BET", "WIN", "LOSS", "REFUND", "ROLLBACK"}

Direction == {"DEBIT", "CREDIT"}

ASSUME DirectionAssumption == None \notin Direction

\* PENDING exists only in memory and in uncommitted rows, FAILED is never
\* assigned by any code path.
TransactionState == {"PENDING", "PENDING_REFERENCE", "PROCESSED", "REJECTED"}

IsTerminal(state) == state \in {"PROCESSED", "REJECTED"}

FailureCode ==
    {"INSUFFICIENT_FUNDS", "REVERSAL_INSUFFICIENT_FUNDS", "REFERENCE_NOT_FOUND",
     "REFERENCE_NOT_PROCESSED", "REFERENCE_MISMATCH", "ALREADY_REVERSED",
     "WALLET_NOT_FOUND", "CURRENCY_MISMATCH"}

WagerCommand ==
    [ext: Ext, key: Key, wallet: Wallet, player: Player, currency: Currency,
     kind: ExternalKind, amount: Money, round: Round, ref: Ext \cup {None}]

\* The canonical hash covers every business field and leaves the idempotency
\* key out.  SHA-256 is taken to be injective on canonical bodies.
PayloadHash(c) ==
    <<c.ext, c.wallet, c.player, c.currency, c.kind, c.amount, c.round, c.ref>>

RequiresReference(kind) == kind \in {"REFUND", "ROLLBACK"}

AcceptsReference(kind) == RequiresReference(kind) \/ kind = "WIN"

\* What NewExternalTransaction refuses as an invalid command.
ValidCommand(c) ==
    /\ c.kind = "LOSS" <=> c.amount = 0
    /\ RequiresReference(c.kind) => c.ref # None
    /\ c.ref # None => AcceptsReference(c.kind)

\* How a kind moves the balance by itself: LOSS moves nothing and ROLLBACK
\* depends on its reference.
DirectionOf(kind) ==
    IF kind = "BET" THEN "DEBIT"
    ELSE IF kind \in {"WIN", "REFUND"} THEN "CREDIT"
    ELSE None

Opposite(direction) == IF direction = "DEBIT" THEN "CREDIT" ELSE "DEBIT"

\* The movement of command c whose reference, when it is a reversal, is the
\* transaction of command r.
movementOf(c, r) ==
    IF c.kind = "ROLLBACK" THEN Opposite(DirectionOf(r.kind)) ELSE DirectionOf(c.kind)

ReversibleKinds(kind) ==
    IF kind = "REFUND" THEN {"BET"} ELSE {"BET", "WIN", "REFUND"}

\* A reversal and its reference describe the same money.
agrees(c, r) ==
    /\ c.player = r.player
    /\ c.wallet = r.wallet
    /\ c.round = r.round
    /\ r.kind \in ReversibleKinds(c.kind)
    /\ c.currency = r.currency
    /\ c.amount = r.amount

insufficientFundsCode(kind) ==
    IF RequiresReference(kind) THEN "REVERSAL_INSUFFICIENT_FUNDS" ELSE "INSUFFICIENT_FUNDS"

-----------------------------------------------------------------------------
(***************************************************************************)
(* The rows of the tables.                                                 *)
(***************************************************************************)

\* A row of wallets.
WalletRow == [player: Player, currency: Currency, balance: Money, version: Nat]

\* A row of wager_transactions: the command that created it and the outcome
\* columns.  ref is the resolved reference_transaction_id.
TransactionRow ==
    [cmd: WagerCommand, state: TransactionState, code: FailureCode \cup {None},
     result: Money \cup {None}, ref: Ext \cup {None}]

NewExternalTransaction(c) ==
    [cmd |-> c, state |-> "PENDING", code |-> None, result |-> None, ref |-> None]

MarkAsProcessed(t, balance, ref) ==
    [t EXCEPT !.state = "PROCESSED", !.result = balance, !.ref = ref]

Reject(t, code, ref) == [t EXCEPT !.state = "REJECTED", !.code = code, !.ref = ref]

MarkAsPendingReference(t) == [t EXCEPT !.state = "PENDING_REFERENCE"]

\* A row of wallet_ledger.
LedgerEntry ==
    [tx: Ext \cup {Opening}, direction: Direction, amount: Money,
     before: Money, after: Money]

BalanceAfter(balance, direction, amount) ==
    IF direction = "DEBIT" THEN balance - amount ELSE balance + amount

NewLedgerEntry(tx, direction, amount, before) ==
    [tx |-> tx, direction |-> direction, amount |-> amount, before |-> before,
     after |-> BalanceAfter(before, direction, amount)]

\* Wallet.apply: the moved aggregate.
ApplyMovement(wallet, direction, amount) ==
    [wallet EXCEPT !.balance = BalanceAfter(@, direction, amount), !.version = @ + 1]

EventType ==
    {"WagerTransactionProcessed", "WalletBalanceChanged",
     "WagerTransactionRejected", "WagerTransactionPendingReference"}

\* The events an outcome writes to the outbox, in order.
EventsOf(t, moved) ==
    IF t.state = "PROCESSED" /\ moved
    THEN <<"WagerTransactionProcessed", "WalletBalanceChanged">>
    ELSE IF t.state = "PROCESSED" THEN <<"WagerTransactionProcessed">>
    ELSE IF t.state = "REJECTED" THEN <<"WagerTransactionRejected">>
    ELSE <<"WagerTransactionPendingReference">>

OpeningEvents == <<"WagerTransactionProcessed", "WalletBalanceChanged">>

-----------------------------------------------------------------------------
(***************************************************************************)
(* The verdict on an operation: apply, resolveReference and settle, from   *)
(* the wallet row that was locked on.  act is what the flow does next, and *)
(* ref the reference that was resolved on the way, which a reversal        *)
(* refused for lack of funds keeps.                                        *)
(***************************************************************************)

Verdict(act, code, direction, ref) ==
    [act |-> act, code |-> code, direction |-> direction, ref |-> ref]

Refuse(code) == Verdict("REJECT", code, None, None)

\* Mutant of settle: no check of the funds.
settleUnchecked(c, wallet, direction, ref) ==
    Verdict(IF direction = None THEN "CONCLUDE" ELSE "MOVE", None, direction, ref)

\* Debit and Credit: a debit beyond the balance is a business refusal, a
\* credit beyond the int64 range an error that rolls everything back.
settle(c, wallet, direction, ref) ==
    IF direction = None THEN Verdict("CONCLUDE", None, None, ref)
    ELSE IF direction = "DEBIT" /\ wallet.balance < c.amount
         THEN Verdict("REJECT", insufficientFundsCode(c.kind), None, ref)
    ELSE IF direction = "CREDIT" /\ wallet.balance + c.amount > MaxMoney
         THEN Verdict("OVERFLOW", None, None, ref)
    ELSE Verdict("MOVE", None, direction, ref)

\* reference is the row named by c.ref, or None; reversed says whether some
\* successful reversal already points at it.
resolveReference(c, wallet, reference, reversed) ==
    IF ~RequiresReference(c.kind) THEN settle(c, wallet, DirectionOf(c.kind), None)
    ELSE IF reference = None THEN Verdict("PARK", None, None, None)
    ELSE IF ~IsTerminal(reference.state) THEN Verdict("PARK", None, None, None)
    ELSE IF reference.state # "PROCESSED" THEN Refuse("REFERENCE_NOT_PROCESSED")
    ELSE IF ~agrees(c, reference.cmd) THEN Refuse("REFERENCE_MISMATCH")
    ELSE IF reversed THEN Refuse("ALREADY_REVERSED")
    ELSE settle(c, wallet, movementOf(c, reference.cmd), c.ref)

apply(c, wallet, reference, reversed) ==
    IF wallet = None THEN Refuse("WALLET_NOT_FOUND")
    ELSE IF wallet.player # c.player THEN Refuse("WALLET_NOT_FOUND")
    ELSE IF wallet.currency # c.currency THEN Refuse("CURRENCY_MISMATCH")
    ELSE resolveReference(c, wallet, reference, reversed)

\* Mutant of IsSuccessfulReversalOf: only refunds count.
IsRefundOf(t, e) ==
    t # None /\ t.state = "PROCESSED" /\ t.cmd.kind = "REFUND" /\ t.ref = e

\* HasProcessedReversal, and the partial unique index of the same condition:
\* row t is a successful reversal of transaction e.
IsSuccessfulReversalOf(t, e) ==
    /\ t # None
    /\ t.state = "PROCESSED"
    /\ RequiresReference(t.cmd.kind)
    /\ t.ref = e

RowOf(table, e) == IF e = None THEN None ELSE table[e]

HasProcessedReversal(table, e) == \E f \in Ext : IsSuccessfulReversalOf(table[f], e)
=============================================================================
