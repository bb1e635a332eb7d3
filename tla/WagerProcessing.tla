-------------------------- MODULE WagerProcessing ---------------------------
(***************************************************************************)
(* ProcessWagerTransaction, ResumePendingReference.Expire and OpenWallet,  *)
(* as concurrent calls over PostgreSQL at READ COMMITTED.                  *)
(*                                                                         *)
(* A call runs one SQL transaction at a time.  Its steps are the           *)
(* statements that other transactions can observe or delay: each reads the *)
(* committed tables, keeps what it writes in the call's own variables, and *)
(* Commit installs the writes at once.  A statement that must wait for a   *)
(* row lock is a step that is not enabled while Blockers(p) is not empty.  *)
(* Any call may die at any step (crash, timeout, lost connection), and     *)
(* every command and message may be sent any number of times by any call,  *)
(* which is how HTTP retries, SQS redeliveries and the reference worker's  *)
(* Resume reach the use case.                                              *)
(*                                                                         *)
(* Left out: timestamps, the attempts counter and last_error of the inbox, *)
(* and the connection pool.                                                *)
(***************************************************************************)
EXTENDS WagerRules, FiniteSets

CONSTANTS
    Call,           \* goroutines that may be inside a use case at once
    Command,        \* the commands providers send
    MessageId,      \* identifiers of inbound messages
    Message,        \* inbound messages: [id, cmd]
    InitialBalance  \* the balances wallets are opened with

ASSUME CommandAssumption == Command \subseteq WagerCommand
ASSUME MessageAssumption == Message \subseteq [id: MessageId, cmd: Command]
ASSUME InitialBalanceAssumption == InitialBalance \subseteq Money
ASSUME MessageIdAssumption == None \notin MessageId
ASSUME RecordAssumption ==
    /\ None \notin WalletRow
    /\ None \notin TransactionRow
    /\ None \notin LedgerEntry
    /\ None \notin WagerCommand

VARIABLES
    \* the committed tables
    wallets,   \* wallets
    rows,      \* wager_transactions
    ledger,    \* wallet_ledger, per wallet in seq order
    events,    \* outbox: the events of each transaction, in the order written; a
               \* wallet stands for its OPENING
    inbox,     \* inbox: the hash of each completed message
    \* the calls
    pc,        \* the statement each call executes next
    cmd,       \* its command
    msg,       \* the id of the message it handles, None over HTTP
    attempt,   \* runWithRetry: the SQL transactions tried so far
    op,        \* the WagerTransaction it holds in memory
    fresh,     \* whether its SQL transaction inserted that row
    wal,       \* the Wallet it holds in memory, locked FOR UPDATE
    entry,     \* the ledger entry it has written
    reply      \* what it answers

tables == <<wallets, rows, ledger, events, inbox>>
vars == <<wallets, rows, ledger, events, inbox,
          pc, cmd, msg, attempt, op, fresh, wal, entry, reply>>

Step == {"idle", "register", "find", "insert", "fkey", "lock", "decide", "move",
         "update", "commit", "expire", "reply"}

\* runWithRetry tries a whole transaction at most this many times.
maxConflictRetries == 3

\* Errors a call may end with.  The first four are the sentinels of the use
\* case; the others reach the caller as an unclassified failure.
Error ==
    {"ErrInvalidCommand", "ErrPayloadConflict", "ErrMessageConflict", "ErrConcurrentUpdate",
     "ForeignKeyViolation", "DeadlockDetected", "TerminalRow",
     "ErrArithmeticOverflow", "Interrupted"}

WagerResult ==
    [error: Error \cup {None}, state: TransactionState \cup {None},
     code: FailureCode \cup {None}, balance: Money \cup {None}, replayed: BOOLEAN]

Failure(error) ==
    [error |-> error, state |-> None, code |-> None, balance |-> None, replayed |-> FALSE]

\* conclude, reject and park answer what they stored, replayOf what is stored.
ResultOf(t, replayed) ==
    [error |-> None, state |-> t.state, code |-> t.code, balance |-> t.result,
     replayed |-> replayed]

\* A redelivery of a completed message carries no state at all.
InboxReplay ==
    [error |-> None, state |-> None, code |-> None, balance |-> None, replayed |-> TRUE]

-----------------------------------------------------------------------------
(***************************************************************************)
(* Locks.  They are a function of where each call is: a call keeps what it *)
(* locked until its SQL transaction ends.                                  *)
(***************************************************************************)

\* The upsert of Register locks the inbox row of the message.
HoldsInbox(q, id) == msg[q] = id /\ pc[q] \notin {"idle", "register", "reply"}

\* An uncommitted row blocks inserts of either unique pair.
HoldsUnique(q, c) == fresh[q] /\ (cmd[q].ext = c.ext \/ cmd[q].key = c.key)

\* The foreign key check of the insert locks the wallet row FOR KEY SHARE.
HoldsKeyShare(q, w) ==
    /\ fresh[q]
    /\ cmd[q].wallet = w
    /\ pc[q] \in {"lock", "decide", "move", "update", "commit"}

\* LockByID locks the wallet row FOR UPDATE.
HoldsWallet(q, w) == wal[q] # None /\ cmd[q].wallet = w

\* The UPDATE of Transactions.Update locks the row of the operation.
HoldsRow(q, e) == pc[q] = "commit" /\ cmd[q].ext = e

\* It also enters the partial unique index of successful reversals.
HoldsReversal(q, t) ==
    /\ pc[q] = "commit"
    /\ t.state = "PROCESSED" /\ RequiresReference(t.cmd.kind)
    /\ IsSuccessfulReversalOf(op[q], t.ref)

\* Mutant of Blocks: LockByID without FOR UPDATE.
BlocksUnlessWallet(q, p) ==
    \/ pc[p] = "register" /\ HoldsInbox(q, msg[p])
    \/ pc[p] = "insert" /\ HoldsUnique(q, cmd[p])
    \/ pc[p] = "update" /\ (HoldsRow(q, cmd[p].ext) \/ HoldsReversal(q, op[p]))

Blocks(q, p) ==
    \/ pc[p] = "register" /\ HoldsInbox(q, msg[p])
    \/ pc[p] = "insert" /\ HoldsUnique(q, cmd[p])
    \/ pc[p] \in {"fkey", "lock"} /\ HoldsWallet(q, cmd[p].wallet)
    \/ pc[p] = "lock" /\ HoldsKeyShare(q, cmd[p].wallet)
    \/ pc[p] = "update" /\ (HoldsRow(q, cmd[p].ext) \/ HoldsReversal(q, op[p]))

Blockers(p) == {q \in Call \ {p} : Blocks(q, p)}

At(p, step) == pc[p] = step /\ Blockers(p) = {}

-----------------------------------------------------------------------------
(***************************************************************************)
(* The end of a SQL transaction.                                           *)
(***************************************************************************)

\* What a call held in memory goes with its transaction.
Discard(p) ==
    /\ op' = [op EXCEPT ![p] = None]
    /\ fresh' = [fresh EXCEPT ![p] = FALSE]
    /\ wal' = [wal EXCEPT ![p] = None]
    /\ entry' = [entry EXCEPT ![p] = None]

Answer(p, result) ==
    /\ Discard(p)
    /\ pc' = [pc EXCEPT ![p] = "reply"]
    /\ reply' = [reply EXCEPT ![p] = result]
    /\ UNCHANGED <<cmd, msg, attempt>>

\* Inbox.Register and Inbox.Complete commit with whatever the message caused,
\* so a committed inbox row is always a completed one.
CompleteInbox(p) ==
    inbox' = IF msg[p] = None THEN inbox
             ELSE [inbox EXCEPT ![msg[p]] = PayloadHash(cmd[p])]

\* Mutant of Fail: a message that failed is marked as handled.
FailHandled(p, error) ==
    /\ Answer(p, Failure(error))
    /\ CompleteInbox(p)
    /\ UNCHANGED <<wallets, rows, ledger, events>>

\* Within rolls back on any error.
Fail(p, error) == Answer(p, Failure(error)) /\ UNCHANGED tables

\* Mutant of Conflict: the retries are not counted.
ConflictForEver(p) ==
    /\ Discard(p)
    /\ pc' = [pc EXCEPT ![p] = IF msg[p] = None THEN "find" ELSE "register"]
    /\ UNCHANGED <<tables, cmd, msg, attempt, reply>>

\* ErrConcurrentUpdate runs the whole transaction again, up to the limit.
Conflict(p) ==
    IF attempt[p] < maxConflictRetries
    THEN /\ Discard(p)
         /\ pc' = [pc EXCEPT ![p] = IF msg[p] = None THEN "find" ELSE "register"]
         /\ attempt' = [attempt EXCEPT ![p] = @ + 1]
         /\ UNCHANGED <<tables, cmd, msg, reply>>
    ELSE Fail(p, "ErrConcurrentUpdate")

\* The transaction commits and has changed nothing but the inbox.
FinishUnchanged(p, result) ==
    /\ Answer(p, result)
    /\ CompleteInbox(p)
    /\ UNCHANGED <<wallets, rows, ledger, events>>

Goto(p, step) == pc' = [pc EXCEPT ![p] = step]

-----------------------------------------------------------------------------
Init ==
    /\ wallets = [w \in Wallet |-> None]
    /\ rows = [e \in Ext |-> None]
    /\ ledger = [w \in Wallet |-> <<>>]
    /\ events = [x \in Ext \cup Wallet |-> <<>>]
    /\ inbox = [m \in MessageId |-> None]
    /\ pc = [p \in Call |-> "idle"]
    /\ cmd = [p \in Call |-> None]
    /\ msg = [p \in Call |-> None]
    /\ attempt = [p \in Call |-> 0]
    /\ op = [p \in Call |-> None]
    /\ fresh = [p \in Call |-> FALSE]
    /\ wal = [p \in Call |-> None]
    /\ entry = [p \in Call |-> None]
    /\ reply = [p \in Call |-> Failure(None)]

\* OpenWallet.Execute.  Nobody can refer to the new rows before they commit,
\* and a second opening of the pair waits on the unique key and is refused,
\* so the transaction is one step.  A wallet opened with money has an OPENING,
\* whose row nothing reads again: its ledger entry stands for it.
OpenWallet(w, player, currency, balance) ==
    /\ wallets[w] = None
    /\ \A v \in Wallet : wallets[v] # None =>
          ~(wallets[v].player = player /\ wallets[v].currency = currency)
    /\ wallets' = [wallets EXCEPT ![w] =
          [player |-> player, currency |-> currency, balance |-> balance, version |-> 1]]
    /\ ledger' = [ledger EXCEPT ![w] =
          IF balance > 0 THEN <<NewLedgerEntry(Opening, "CREDIT", balance, 0)>> ELSE <<>>]
    /\ events' = [events EXCEPT ![w] = IF balance > 0 THEN OpeningEvents ELSE <<>>]
    /\ UNCHANGED <<rows, inbox, pc, cmd, msg, attempt, op, fresh, wal, entry, reply>>

Begin(p, c, id, step) ==
    /\ pc[p] = "idle"
    /\ cmd' = [cmd EXCEPT ![p] = c]
    /\ msg' = [msg EXCEPT ![p] = id]
    /\ attempt' = [attempt EXCEPT ![p] = 1]
    /\ Goto(p, step)
    /\ UNCHANGED <<tables, op, fresh, wal, entry, reply>>

\* Execute: a command over HTTP, or the reference worker resuming a row.
Execute(p, c) == Begin(p, c, None, "find")

\* ExecuteFromMessage: a delivery of a message.
ExecuteFromMessage(p, m) == Begin(p, m.cmd, m.id, "register")

\* Expire: the worker gives up on a row it claimed while it was parked.
Expire(p, e) ==
    /\ rows[e] # None
    /\ rows[e].state = "PENDING_REFERENCE"
    /\ Begin(p, rows[e].cmd, None, "expire")

\* Inbox.Register.
Register(p) ==
    /\ At(p, "register")
    /\ \/ /\ inbox[msg[p]] = None
          /\ Goto(p, "find")
          /\ UNCHANGED <<tables, cmd, msg, attempt, op, fresh, wal, entry, reply>>
       \/ /\ inbox[msg[p]] # None
          /\ inbox[msg[p]] # PayloadHash(cmd[p])
          /\ Fail(p, "ErrMessageConflict")
       \/ /\ inbox[msg[p]] = PayloadHash(cmd[p])
          /\ FinishUnchanged(p, InboxReplay)

\* record: the lookup that recognises a replay and decides whether to insert.
Find(p) ==
    LET stored == rows[cmd[p].ext] IN
    /\ At(p, "find")
    /\ \/ /\ stored = None
          /\ ~ValidCommand(cmd[p])
          /\ Fail(p, "ErrInvalidCommand")
       \/ /\ stored = None
          /\ ValidCommand(cmd[p])
          /\ Goto(p, "insert")
          /\ op' = [op EXCEPT ![p] = NewExternalTransaction(cmd[p])]
          /\ UNCHANGED <<tables, cmd, msg, attempt, fresh, wal, entry, reply>>
       \/ /\ stored # None
          /\ PayloadHash(stored.cmd) # PayloadHash(cmd[p])
          /\ Fail(p, "ErrPayloadConflict")
       \/ /\ stored # None
          /\ PayloadHash(stored.cmd) = PayloadHash(cmd[p])
          /\ IsTerminal(stored.state)
          /\ FinishUnchanged(p, ResultOf(stored, TRUE))
       \/ /\ stored # None
          /\ PayloadHash(stored.cmd) = PayloadHash(cmd[p])
          /\ ~IsTerminal(stored.state)
          /\ Goto(p, "lock")
          /\ op' = [op EXCEPT ![p] = stored]
          /\ UNCHANGED <<tables, cmd, msg, attempt, fresh, wal, entry, reply>>

\* Transactions.Insert, up to its unique indexes: any unique violation is
\* reported as ErrConcurrentUpdate, the idempotency key's too.
TakenByAnother(c) ==
    \E e \in Ext : rows[e] # None /\ (e = c.ext \/ rows[e].cmd.key = c.key)

Insert(p) ==
    /\ At(p, "insert")
    /\ \/ /\ TakenByAnother(cmd[p])
          /\ Conflict(p)
       \/ /\ ~TakenByAnother(cmd[p])
          /\ fresh' = [fresh EXCEPT ![p] = TRUE]
          /\ Goto(p, "fkey")
          /\ UNCHANGED <<tables, cmd, msg, attempt, op, wal, entry, reply>>

\* The composite foreign key (wallet_id, currency) of the inserted row.
SatisfiesForeignKey(c) ==
    wallets[c.wallet] # None /\ wallets[c.wallet].currency = c.currency

ForeignKey(p) ==
    /\ At(p, "fkey")
    /\ \/ /\ ~SatisfiesForeignKey(cmd[p])
          /\ Fail(p, "ForeignKeyViolation")
       \/ /\ SatisfiesForeignKey(cmd[p])
          /\ Goto(p, "lock")
          /\ UNCHANGED <<tables, cmd, msg, attempt, op, fresh, wal, entry, reply>>

\* Wallets.LockByID: SELECT ... FOR UPDATE returns the latest committed row.
LockByID(p) ==
    /\ At(p, "lock")
    /\ wal' = [wal EXCEPT ![p] = wallets[cmd[p].wallet]]
    /\ Goto(p, "decide")
    /\ UNCHANGED <<tables, cmd, msg, attempt, op, fresh, entry, reply>>

\* The verdict of a call that has its wallet.  The reference and its
\* reversals are read from the committed tables; a row this call inserted is
\* not terminal, so reading None in its place parks all the same.
VerdictOf(p) ==
    apply(cmd[p], wal[p], RowOf(rows, cmd[p].ref), HasProcessedReversal(rows, cmd[p].ref))

Decided(p, act) == pc[p] = "decide" /\ VerdictOf(p).act = act

\* The outcome columns now in memory are written by the next UPDATE.
Outcome(p, t) ==
    /\ op' = [op EXCEPT ![p] = t]
    /\ UNCHANGED <<tables, cmd, msg, attempt, fresh, reply>>

\* park, of an operation that is already parked: nothing is announced again.
StayParked(p) ==
    /\ Decided(p, "PARK")
    /\ op[p].state = "PENDING_REFERENCE"
    /\ FinishUnchanged(p, ResultOf(op[p], FALSE))

\* Mutant of ParkNew: an operation that stays parked is announced again.
ParkAgain(p) ==
    /\ Decided(p, "PARK")
    /\ Outcome(p, MarkAsPendingReference(op[p]))
    /\ Goto(p, "update")
    /\ UNCHANGED <<wal, entry>>

\* park.
ParkNew(p) ==
    /\ Decided(p, "PARK")
    /\ op[p].state # "PENDING_REFERENCE"
    /\ Outcome(p, MarkAsPendingReference(op[p]))
    /\ Goto(p, "update")
    /\ UNCHANGED <<wal, entry>>

\* reject.
RejectOp(p) ==
    /\ Decided(p, "REJECT")
    /\ Outcome(p, Reject(op[p], VerdictOf(p).code, VerdictOf(p).ref))
    /\ Goto(p, "update")
    /\ UNCHANGED <<wal, entry>>

\* settle and conclude of a LOSS.
ConcludeLoss(p) ==
    /\ Decided(p, "CONCLUDE")
    /\ Outcome(p, MarkAsProcessed(op[p], wal[p].balance, None))
    /\ Goto(p, "update")
    /\ UNCHANGED <<wal, entry>>

\* Credit overflows: the error rolls the operation back.
Overflow(p) == Decided(p, "OVERFLOW") /\ Fail(p, "ErrArithmeticOverflow")

\* Mutants of Settle: the ledger entry, or the outcome, is computed from the
\* balance at the wrong side of the movement.
SettleEntryLate(p) ==
    LET v == VerdictOf(p)
        moved == ApplyMovement(wal[p], v.direction, cmd[p].amount)
    IN  /\ Decided(p, "MOVE")
        /\ wal' = [wal EXCEPT ![p] = moved]
        /\ entry' = [entry EXCEPT ![p] =
              NewLedgerEntry(cmd[p].ext, v.direction, cmd[p].amount, moved.balance)]
        /\ Outcome(p, MarkAsProcessed(op[p], moved.balance, v.ref))
        /\ Goto(p, "move")

SettleOutcomeEarly(p) ==
    LET v == VerdictOf(p)
        moved == ApplyMovement(wal[p], v.direction, cmd[p].amount)
    IN  /\ Decided(p, "MOVE")
        /\ wal' = [wal EXCEPT ![p] = moved]
        /\ entry' = [entry EXCEPT ![p] =
              NewLedgerEntry(cmd[p].ext, v.direction, cmd[p].amount, wal[p].balance)]
        /\ Outcome(p, MarkAsProcessed(op[p], wal[p].balance, v.ref))
        /\ Goto(p, "move")

\* settle: Debit or Credit on the aggregate, in memory.
Settle(p) ==
    LET v == VerdictOf(p)
        moved == ApplyMovement(wal[p], v.direction, cmd[p].amount)
    IN  /\ Decided(p, "MOVE")
        /\ wal' = [wal EXCEPT ![p] = moved]
        /\ entry' = [entry EXCEPT ![p] =
              NewLedgerEntry(cmd[p].ext, v.direction, cmd[p].amount, wal[p].balance)]
        /\ Outcome(p, MarkAsProcessed(op[p], moved.balance, v.ref))
        /\ Goto(p, "move")

\* UpdateBalance matches the version the wallet was read at, and the ledger
\* accepts one entry of a transaction per wallet.
MoveApplies(p) ==
    /\ wallets[cmd[p].wallet].version = wal[p].version - 1
    /\ \A i \in DOMAIN ledger[cmd[p].wallet] : ledger[cmd[p].wallet][i].tx # cmd[p].ext

MoveBalance(p) ==
    /\ At(p, "move")
    /\ IF MoveApplies(p)
       THEN /\ Goto(p, "update")
            /\ UNCHANGED <<tables, cmd, msg, attempt, op, fresh, wal, entry, reply>>
       ELSE Conflict(p)

\* Mutant of RefusedByTrigger: the table has no guard.
NeverRefused(p) == FALSE

\* The trigger wager_transactions_guard_update.
RefusedByTrigger(p) == ~fresh[p] /\ IsTerminal(rows[cmd[p].ext].state)

RefusedByIndex(p) ==
    /\ op[p].state = "PROCESSED"
    /\ RequiresReference(op[p].cmd.kind)
    /\ HasProcessedReversal(rows, op[p].ref)

\* Mutant of Update: a row that was not updated is taken for one that was.
UpdateUnchecked(p) ==
    /\ At(p, "update")
    /\ IF RefusedByTrigger(p)
       THEN Answer(p, ResultOf(op[p], FALSE)) /\ UNCHANGED tables
       ELSE /\ Goto(p, "commit")
            /\ UNCHANGED <<tables, cmd, msg, attempt, op, fresh, wal, entry, reply>>

\* Transactions.Update, then saveEvents.
Update(p) ==
    /\ At(p, "update")
    /\ IF RefusedByTrigger(p) THEN Fail(p, "TerminalRow")
       ELSE IF RefusedByIndex(p) THEN Conflict(p)
       ELSE /\ Goto(p, "commit")
            /\ UNCHANGED <<tables, cmd, msg, attempt, op, fresh, wal, entry, reply>>

\* The commit makes every write visible.  Its acknowledgement may be lost,
\* and then the caller sees an error although the operation took effect.
Commit(p) ==
    /\ At(p, "commit")
    /\ rows' = [rows EXCEPT ![cmd[p].ext] = op[p]]
    /\ events' = [events EXCEPT ![cmd[p].ext] = @ \o EventsOf(op[p], entry[p] # None)]
    /\ wallets' = IF entry[p] = None THEN wallets
                  ELSE [wallets EXCEPT ![cmd[p].wallet] = wal[p]]
    /\ ledger' = IF entry[p] = None THEN ledger
                 ELSE [ledger EXCEPT ![cmd[p].wallet] = Append(@, entry[p])]
    /\ CompleteInbox(p)
    /\ \E result \in {ResultOf(op[p], FALSE), Failure("Interrupted")} : Answer(p, result)

\* Expire's own transaction: it reads the row, without locking it, and
\* refuses it unless it has concluded.
ExpireRow(p) ==
    LET stored == rows[cmd[p].ext] IN
    /\ At(p, "expire")
    /\ \/ /\ IsTerminal(stored.state)
          /\ FinishUnchanged(p, ResultOf(stored, TRUE))
       \/ /\ ~IsTerminal(stored.state)
          /\ Outcome(p, Reject(stored, "REFERENCE_NOT_FOUND", stored.ref))
          /\ Goto(p, "update")
          /\ UNCHANGED <<wal, entry>>

\* The deadlock detector aborts a call that waits for one that waits for it.
DeadlockVictim(p) ==
    /\ \E q \in Blockers(p) : p \in Blockers(q)
    /\ Fail(p, "DeadlockDetected")

\* A crash, a timeout or a lost connection rolls the transaction back.
Interrupt(p) ==
    /\ pc[p] \notin {"idle", "reply"}
    /\ Fail(p, "Interrupted")

Return(p) ==
    /\ pc[p] = "reply"
    /\ Goto(p, "idle")
    /\ cmd' = [cmd EXCEPT ![p] = None]
    /\ msg' = [msg EXCEPT ![p] = None]
    /\ attempt' = [attempt EXCEPT ![p] = 0]
    /\ reply' = [reply EXCEPT ![p] = Failure(None)]
    /\ UNCHANGED <<tables, op, fresh, wal, entry>>

-----------------------------------------------------------------------------
\* The steps a running call takes by itself.
Progress(p) ==
    \/ Register(p) \/ Find(p) \/ Insert(p) \/ ForeignKey(p) \/ LockByID(p)
    \/ StayParked(p) \/ ParkNew(p) \/ RejectOp(p) \/ ConcludeLoss(p) \/ Overflow(p)
    \/ Settle(p) \/ MoveBalance(p) \/ Update(p) \/ Commit(p) \/ ExpireRow(p) \/ Return(p)

Start(p) ==
    \/ \E c \in Command : Execute(p, c)
    \/ \E m \in Message : ExecuteFromMessage(p, m)
    \/ \E e \in Ext : Expire(p, e)

Next ==
    \/ \E w \in Wallet, pl \in Player, u \in Currency, b \in InitialBalance :
          OpenWallet(w, pl, u, b)
    \/ \E p \in Call : Start(p) \/ Progress(p) \/ DeadlockVictim(p) \/ Interrupt(p)

Spec == Init /\ [][Next]_vars

\* Fairness.  The runtime schedules a call that can go on, PostgreSQL grants a
\* row lock to its waiters in turn, and its deadlock detector always runs.
\* Nothing makes calls start or be interrupted.
Fairness ==
    \A p \in Call : SF_vars(Progress(p)) /\ WF_vars(DeadlockVictim(p))

FairSpec == Spec /\ Fairness

-----------------------------------------------------------------------------
(***************************************************************************)
(* Properties.                                                             *)
(***************************************************************************)

\* Every table and every call holds values of its type.
TypeOK ==
    /\ wallets \in [Wallet -> WalletRow \cup {None}]
    /\ rows \in [Ext -> TransactionRow \cup {None}]
    /\ ledger \in [Wallet -> Seq(LedgerEntry)]
    /\ events \in [Ext \cup Wallet -> Seq(EventType)]
    /\ DOMAIN inbox = MessageId
    /\ pc \in [Call -> Step]
    /\ cmd \in [Call -> WagerCommand \cup {None}]
    /\ msg \in [Call -> MessageId \cup {None}]
    /\ attempt \in [Call -> 0..maxConflictRetries]
    /\ op \in [Call -> TransactionRow \cup {None}]
    /\ fresh \in [Call -> BOOLEAN]
    /\ wal \in [Call -> WalletRow \cup {None}]
    /\ entry \in [Call -> LedgerEntry \cup {None}]
    /\ reply \in [Call -> WagerResult]

\* The wallet a call decides over is the committed one until the call ends:
\* the row lock of LockByID lets no other writer in between, so a balance is
\* never computed from a stale read, and the version check of UpdateBalance
\* never has anything to detect.
NoStaleDecision ==
    \A p \in Call : wal[p] # None =>
        /\ \A q \in Call \ {p} : ~HoldsWallet(q, cmd[p].wallet)
        /\ LET w == wallets[cmd[p].wallet] IN
             IF entry[p] = None
             THEN wal[p] = w
             ELSE /\ entry[p].before = w.balance
                  /\ entry[p].after = wal[p].balance
                  /\ wal[p].version = w.version + 1

\* Reconciliation: each entry of a wallet's ledger starts from the balance
\* the previous one left, and the stored balance is what the last one left.
LedgerExplainsBalance ==
    \A w \in Wallet : wallets[w] # None =>
        LET l == ledger[w] IN
        /\ \A i \in 1..Len(l) :
             /\ l[i].before = IF i = 1 THEN 0 ELSE l[i-1].after
             /\ l[i].after = BalanceAfter(l[i].before, l[i].direction, l[i].amount)
        /\ wallets[w].balance = IF l = <<>> THEN 0 ELSE l[Len(l)].after

\* Where operation e appears in the ledger.
Positions(e) ==
    UNION {{[wallet |-> w, seq |-> i] : i \in {j \in DOMAIN ledger[w] : ledger[w][j].tx = e}} :
           w \in Wallet}

\* However often an operation is sent, resumed, retried or interrupted, it
\* moves money exactly once if it was processed (a LOSS never does), in its
\* own wallet and by its own amount, and not at all otherwise.
AppliedOnce ==
    \A e \in Ext :
        IF rows[e] # None /\ rows[e].state = "PROCESSED" /\ rows[e].cmd.kind # "LOSS"
        THEN /\ Cardinality(Positions(e)) = 1
             /\ \A x \in Positions(e) :
                  /\ x.wallet = rows[e].cmd.wallet
                  /\ ledger[x.wallet][x.seq].amount = rows[e].cmd.amount
                  /\ ledger[x.wallet][x.seq].after = rows[e].result
        ELSE Positions(e) = {}

\* The money of one operation is returned once: no two reversals that moved
\* money name the same reference, whatever their kinds.
ReversedOnce ==
    \A e, f \in Ext :
        /\ e # f
        /\ Positions(e) # {} /\ RequiresReference(rows[e].cmd.kind)
        /\ Positions(f) # {} /\ RequiresReference(rows[f].cmd.kind)
        => rows[e].cmd.ref # rows[f].cmd.ref

\* A concluded operation never changes again, although two calls may hold a
\* copy of it in memory from before it concluded.
TerminalForGood ==
    [][\A e \in Ext :
        rows[e] # None /\ IsTerminal(rows[e].state) => rows'[e] = rows[e]]_rows

\* The outbox tells the history of each operation: at most one wait, then
\* one conclusion, and a balance change exactly when the ledger has one.
EventsTellTheStory ==
    \A e \in Ext :
        LET waits == {<<>>, <<"WagerTransactionPendingReference">>}
            end == IF rows[e].state = "PENDING_REFERENCE" THEN <<>>
                   ELSE IF rows[e].state = "REJECTED" THEN <<"WagerTransactionRejected">>
                   ELSE IF Positions(e) = {} THEN <<"WagerTransactionProcessed">>
                   ELSE <<"WagerTransactionProcessed", "WalletBalanceChanged">>
        IN  IF rows[e] = None THEN events[e] = <<>>
            ELSE \E wait \in waits :
                   /\ events[e] = wait \o end
                   /\ rows[e].state = "PENDING_REFERENCE" => wait # <<>>

\* What a caller is told is stored: a conclusion answered to it is the
\* conclusion every later replay answers, with the balance of that moment.
AnswersAreDurable ==
    \A p \in Call :
        pc[p] = "reply" /\ reply[p].state # None =>
            LET t == rows[cmd[p].ext] IN
            /\ t # None
            /\ [t.cmd EXCEPT !.key = cmd[p].key] = cmd[p]
            /\ IsTerminal(reply[p].state) => ResultOf(t, reply[p].replayed) = reply[p]

\* A message is marked as handled only together with the work it caused.
HandledMeansRecorded ==
    \A m \in MessageId : inbox[m] # None =>
        \E e \in Ext : rows[e] # None /\ PayloadHash(rows[e].cmd) = inbox[m]

\* The concurrent service implements the sequential wallet: every commit is
\* one step of it, decided over the state it changes.
Sequential ==
    INSTANCE WalletLedger
    WITH wallets <- wallets, rows <- rows, ledger <- ledger, events <- events
ImplementsWalletLedger == Sequential!Spec

\* Every call that starts ends: the lock order, the deadlock detector and the
\* bound on retries leave nobody waiting for ever.
CallsEnd == \A p \in Call : pc[p] # "idle" ~> pc[p] = "idle"

-----------------------------------------------------------------------------
(***************************************************************************)
(* What the repository says of the program and the program does not do.    *)
(***************************************************************************)

\* "Every writer of the same wallet queues here" (wallet-repository.go:45):
\* two operations over one wallet wait for each other in turn and neither
\* fails.
WritersQueue == \A p \in Call : reply[p].error # "DeadlockDetected"
=============================================================================
