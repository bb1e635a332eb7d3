----------------------- MODULE WagerProcessing_proofs ------------------------
(***************************************************************************)
(* Proofs about WagerProcessing, for every value of its constants: it is   *)
(* type correct, no call decides over a stale wallet, the ledger explains  *)
(* the balance, and a concluded operation never changes.                   *)
(*                                                                         *)
(* TypeOK is not inductive alone: TypeInv adds what each call holds at     *)
(* each step (CallOK) and that a stored row is complete (RowsOK).          *)
(***************************************************************************)
EXTENDS WagerProcessing, TLAPS

\* The steps at which a call has its operation in memory.
HasOp == {"insert", "fkey", "lock", "decide", "move", "update", "commit"}

\* What a call holds, by the step it is at.
CallOKAt(p) ==
    /\ pc[p] # "idle" => cmd[p] # None
    /\ pc[p] \in HasOp => op[p] # None
    /\ wal[p] # None => pc[p] \in {"decide", "move", "update", "commit"}
    /\ pc[p] = "move" => entry[p] # None
    /\ entry[p] # None =>
         /\ wal[p] # None
         /\ pc[p] \in {"move", "update", "commit"}
         /\ entry[p].after = BalanceAfter(entry[p].before, entry[p].direction, entry[p].amount)
    /\ op[p] # None => op[p].cmd.ext = cmd[p].ext /\ pc[p] \in HasOp
    /\ pc[p] = "expire" => rows[cmd[p].ext] # None

CallOK == \A p \in Call : CallOKAt(p)

\* A row is stored under the identifier of its command.
RowsOK == \A e \in Ext : rows[e] # None => rows[e].cmd.ext = e

TypeInv == TypeOK /\ CallOK /\ RowsOK

-----------------------------------------------------------------------------
\* What a verdict guarantees about the movement or refusal it leads to.
LEMMA ApplyVerdict ==
    ASSUME NEW c \in WagerCommand, NEW w \in WalletRow \cup {None},
           NEW r \in TransactionRow \cup {None}, NEW b \in BOOLEAN
    PROVE  LET v == apply(c, w, r, b) IN
           /\ v.ref \in Ext \cup {None}
           /\ v.act = "MOVE" =>
                /\ w # None
                /\ v.direction \in Direction
                /\ BalanceAfter(w.balance, v.direction, c.amount) \in Money
           /\ v.act = "REJECT" => v.code \in FailureCode
           /\ v.act = "CONCLUDE" => w # None
<1>1. ASSUME NEW d, NEW ref \in Ext \cup {None}, w # None,
             d = None \/ d \in Direction
      PROVE  LET v == settle(c, w, d, ref) IN
             /\ v.ref \in Ext \cup {None}
             /\ v.act = "MOVE" =>
                  /\ v.direction \in Direction
                  /\ BalanceAfter(w.balance, v.direction, c.amount) \in Money
             /\ v.act = "REJECT" => v.code \in FailureCode
  BY <1>1, MoneyAssumption DEF settle, Verdict, BalanceAfter, insufficientFundsCode, FailureCode,
     Direction, WagerCommand, WalletRow, Money
<1>2. \A k : DirectionOf(k) = None \/ DirectionOf(k) \in Direction
  BY DEF DirectionOf, Direction
<1>3. \A d : movementOf(c, d) = None \/ movementOf(c, d) \in Direction
  BY <1>2 DEF movementOf, Opposite, Direction
<1>4. c.ref \in Ext \cup {None}
  BY DEF WagerCommand
<1>5. CASE w = None
  BY <1>5 DEF apply, Refuse, Verdict, FailureCode
<1>6. CASE w # None
  BY <1>1, <1>2, <1>3, <1>4, <1>6 DEF apply, resolveReference, Refuse, Verdict, FailureCode
<1>. QED BY <1>5, <1>6

-----------------------------------------------------------------------------
\* A step of one call leaves the other calls as they are.
SameCall(q) ==
    /\ pc'[q] = pc[q]
    /\ cmd'[q] = cmd[q]
    /\ op'[q] = op[q]
    /\ wal'[q] = wal[q]
    /\ entry'[q] = entry[q]

\* Rows are replaced by rows, never removed.
RowsKept == \A e \in Ext : rows[e] # None => rows'[e] # None

\* A step that leaves a call and the stored rows alone leaves the call well formed.
LEMMA SameCallOK ==
    ASSUME TypeInv, NEW q \in Call, SameCall(q), RowsKept
    PROVE  CallOKAt(q)'
<1>1. CallOKAt(q)
  BY DEF TypeInv, CallOK
<1>2. pc[q] = "expire" => cmd[q].ext \in Ext
  BY <1>1 DEF CallOKAt, TypeInv, TypeOK, WagerCommand
<1>. QED BY <1>1, <1>2 DEF CallOKAt, SameCall, RowsKept

\* Before anything is stored every table and call is empty and well formed.
LEMMA InitTypeInv == Init => TypeInv
<1>1. Failure(None) \in WagerResult
  BY DEF Failure, WagerResult
<1>. QED
  BY <1>1 DEF Init, TypeInv, TypeOK, CallOK, CallOKAt, RowsOK, Step, HasOp, maxConflictRetries

\* Ending a transaction with an answer that is well typed keeps the calls so.
LEMMA AnswerTypeInv ==
    ASSUME TypeInv, NEW p \in Call, pc[p] # "idle", NEW r \in WagerResult, Answer(p, r),
           UNCHANGED <<wallets, rows, ledger, events>>, DOMAIN inbox' = MessageId
    PROVE  TypeInv'
<1>1. TypeOK'
  BY DEF TypeInv, TypeOK, Answer, Discard, Step
<1>2. CallOK'
  <2>1. ASSUME NEW q \in Call, q # p  PROVE  CallOKAt(q)'
    <3>1. SameCall(q) /\ RowsKept
      BY <2>1 DEF SameCall, RowsKept, Answer, Discard, TypeInv, TypeOK
    <3>. QED BY <3>1, SameCallOK
  <2>2. /\ pc'[p] = "reply" /\ cmd'[p] = cmd[p] /\ cmd[p] # None
        /\ op'[p] = None /\ wal'[p] = None /\ entry'[p] = None
    BY DEF TypeInv, TypeOK, CallOK, CallOKAt, Answer, Discard
  <2>3. CallOKAt(p)'
    BY <2>2 DEF CallOKAt, HasOp
  <2>. QED BY <2>1, <2>3 DEF CallOK
<1>3. RowsOK'
  BY DEF TypeInv, RowsOK
<1>. QED BY <1>1, <1>2, <1>3 DEF TypeInv

\* An error that rolls back changes no table and ends in a well-typed answer.
LEMMA FailTypeInv ==
    ASSUME TypeInv, NEW p \in Call, pc[p] # "idle", NEW error \in Error, Fail(p, error)
    PROVE  TypeInv'
<1>1. Failure(error) \in WagerResult
  BY DEF Failure, WagerResult
<1>. QED BY <1>1, AnswerTypeInv DEF Fail, tables, TypeInv, TypeOK

\* A conflict starts over with nothing in memory, or gives up at the limit.
LEMMA ConflictTypeInv ==
    ASSUME TypeInv, NEW p \in Call, pc[p] # "idle", Conflict(p)
    PROVE  TypeInv'
<1>1. CASE ~(attempt[p] < maxConflictRetries)
  <2>1. Fail(p, "ErrConcurrentUpdate")
    BY <1>1 DEF Conflict
  <2>. QED BY <2>1, FailTypeInv DEF Error
<1>2. CASE attempt[p] < maxConflictRetries
  <2>. DEFINE first == IF msg[p] = None THEN "find" ELSE "register"
  <2>0a. attempt[p] + 1 \in 0..maxConflictRetries
    <3>1. attempt[p] \in 0..3
      BY DEF maxConflictRetries, TypeInv, TypeOK
    <3>2. attempt[p] < 3
      BY <1>2 DEF maxConflictRetries
    <3>. QED BY <3>1, <3>2 DEF maxConflictRetries
  <2>0b. first \in {"find", "register"}
    OBVIOUS
  <2>0c. /\ pc' = [pc EXCEPT ![p] = first]
         /\ attempt' = [attempt EXCEPT ![p] = @ + 1]
         /\ Discard(p) /\ UNCHANGED <<wallets, rows, ledger, events, inbox, cmd, msg, reply>>
    BY <1>2 DEF Conflict, tables
  <2>0. first \in {"find", "register"} /\ attempt[p] + 1 \in 0..maxConflictRetries
    BY <2>0a, <2>0b
  <2>. HIDE DEF first
  <2>1. TypeOK'
    BY <2>0, <2>0c DEF TypeInv, TypeOK, Discard, Step
  <2>2. CallOK'
    <3>1. ASSUME NEW q \in Call, q # p  PROVE  CallOKAt(q)'
      <4>1. SameCall(q) /\ RowsKept
        BY <2>0c, <3>1 DEF SameCall, RowsKept, Discard, TypeInv, TypeOK
      <4>. QED BY <4>1, SameCallOK
    <3>2. /\ pc'[p] = first /\ cmd'[p] = cmd[p] /\ cmd[p] # None
          /\ op'[p] = None /\ wal'[p] = None /\ entry'[p] = None
      BY <2>0c DEF TypeInv, TypeOK, CallOK, CallOKAt, Discard
    <3>3. CallOKAt(p)'
      BY <2>0, <3>2 DEF CallOKAt, HasOp
    <3>. QED BY <3>1, <3>3 DEF CallOK
  <2>3. RowsOK'
    BY <1>2 DEF TypeInv, RowsOK, Conflict, tables
  <2>. QED BY <2>1, <2>2, <2>3 DEF TypeInv
<1>. QED BY <1>1, <1>2

\* A transaction that changed nothing but the inbox.
LEMMA FinishTypeInv ==
    ASSUME TypeInv, NEW p \in Call, pc[p] # "idle", NEW r \in WagerResult, FinishUnchanged(p, r)
    PROVE  TypeInv'
<1>1. DOMAIN inbox' = MessageId
  BY DEF FinishUnchanged, CompleteInbox, TypeInv, TypeOK
<1>. QED BY <1>1, AnswerTypeInv DEF FinishUnchanged

\* What is stored or held can be answered.
LEMMA ResultType ==
    ASSUME NEW t \in TransactionRow, NEW b \in BOOLEAN
    PROVE  ResultOf(t, b) \in WagerResult
BY DEF ResultOf, WagerResult, TransactionRow

-----------------------------------------------------------------------------
\* A step in which call p goes on inside its transaction: it changes its own
\* memory and nothing else.
Advance(p, step, o, f, w, n) ==
    /\ pc' = [pc EXCEPT ![p] = step]
    /\ op' = [op EXCEPT ![p] = o]
    /\ fresh' = [fresh EXCEPT ![p] = f]
    /\ wal' = [wal EXCEPT ![p] = w]
    /\ entry' = [entry EXCEPT ![p] = n]
    /\ UNCHANGED <<wallets, rows, ledger, events, inbox, cmd, msg, attempt, reply>>

\* What call p holds fits the step it is at.
Fits(p, step, o, w, n) ==
    /\ step \in HasOp <=> o # None
    /\ o # None => o.cmd.ext = cmd[p].ext
    /\ w # None => step \in {"decide", "move", "update", "commit"}
    /\ step = "move" => n # None
    /\ n # None =>
         /\ w # None
         /\ step \in {"move", "update", "commit"}
         /\ n.after = BalanceAfter(n.before, n.direction, n.amount)

\* Going on keeps the types when the new memory fits the new step.
LEMMA AdvanceTypeInv ==
    ASSUME TypeInv, NEW p \in Call, cmd[p] # None,
           NEW step \in Step \ {"idle", "expire"}, NEW o \in TransactionRow \cup {None},
           NEW f \in BOOLEAN, NEW w \in WalletRow \cup {None}, NEW n \in LedgerEntry \cup {None},
           Fits(p, step, o, w, n), Advance(p, step, o, f, w, n)
    PROVE  TypeInv'
<1>1. TypeOK'
  BY DEF TypeInv, TypeOK, Advance
<1>2. ASSUME NEW q \in Call, q # p  PROVE  CallOKAt(q)'
  <2>1. SameCall(q) /\ RowsKept
    BY <1>2 DEF SameCall, RowsKept, Advance, TypeInv, TypeOK
  <2>. QED BY <2>1, SameCallOK
<1>3. /\ pc'[p] = step /\ cmd'[p] = cmd[p] /\ op'[p] = o
      /\ wal'[p] = w /\ entry'[p] = n
  BY DEF TypeInv, TypeOK, Advance
<1>4. CallOKAt(p)'
  BY <1>3 DEF CallOKAt, Fits
<1>5. RowsOK'
  BY DEF TypeInv, RowsOK, Advance
<1>. QED BY <1>1, <1>2, <1>4, <1>5 DEF TypeInv, CallOK

\* A call that changes only its step.
LEMMA GotoAdvances ==
    ASSUME TypeInv, NEW p \in Call, NEW step \in Step, Goto(p, step),
           UNCHANGED <<tables, cmd, msg, attempt, op, fresh, wal, entry, reply>>
    PROVE  Advance(p, step, op[p], fresh[p], wal[p], entry[p])
BY DEF TypeInv, TypeOK, Goto, Advance, tables

\* What a call holds has its type.
LEMMA Memory ==
    ASSUME TypeInv, NEW p \in Call
    PROVE  /\ op[p] \in TransactionRow \cup {None}
           /\ fresh[p] \in BOOLEAN
           /\ wal[p] \in WalletRow \cup {None}
           /\ entry[p] \in LedgerEntry \cup {None}
           /\ CallOKAt(p)
           /\ cmd[p] # None => cmd[p] \in WagerCommand /\ cmd[p].ext \in Ext
                                 /\ cmd[p].wallet \in Wallet
           /\ pc[p] # "idle" => cmd[p] # None
BY DEF TypeInv, TypeOK, CallOK, CallOKAt, WagerCommand

\* Opening a wallet.
LEMMA OpenWalletTypeInv ==
    ASSUME TypeInv, NEW w \in Wallet, NEW pl \in Player, NEW u \in Currency,
           NEW b \in InitialBalance, OpenWallet(w, pl, u, b)
    PROVE  TypeInv'
<1>. DEFINE row == [player |-> pl, currency |-> u, balance |-> b, version |-> 1]
            first == IF b > 0 THEN <<NewLedgerEntry(Opening, "CREDIT", b, 0)>> ELSE <<>>
            announced == IF b > 0 THEN OpeningEvents ELSE <<>>
<1>1. b \in Money /\ 0 \in Money
  BY InitialBalanceAssumption, MoneyAssumption DEF Money
<1>2. row \in WalletRow
  BY <1>1 DEF WalletRow
<1>3. 0 + b = b
  BY <1>1 DEF Money
<1>4. NewLedgerEntry(Opening, "CREDIT", b, 0) \in LedgerEntry
  BY <1>1, <1>3 DEF NewLedgerEntry, LedgerEntry, BalanceAfter, Direction
<1>5. first \in Seq(LedgerEntry) /\ announced \in Seq(EventType)
  <2>1. OpeningEvents \in Seq(EventType)
    BY DEF OpeningEvents, EventType
  <2>. QED BY <1>4, <2>1
<1>6. /\ wallets' = [wallets EXCEPT ![w] = row]
      /\ ledger' = [ledger EXCEPT ![w] = first]
      /\ events' = [events EXCEPT ![w] = announced]
      /\ UNCHANGED <<rows, inbox, pc, cmd, msg, attempt, op, fresh, wal, entry, reply>>
  BY DEF OpenWallet
<1>. HIDE DEF row, first, announced
<1>7. TypeOK'
  BY <1>2, <1>5, <1>6 DEF TypeInv, TypeOK
<1>8. ASSUME NEW q \in Call  PROVE  CallOKAt(q)'
  <2>1. SameCall(q) /\ RowsKept
    BY <1>6 DEF SameCall, RowsKept
  <2>. QED BY <2>1, SameCallOK
<1>9. RowsOK'
  BY <1>6 DEF TypeInv, RowsOK
<1>. QED BY <1>7, <1>8, <1>9 DEF TypeInv, CallOK

\* A call that starts or returns.
LEMMA BeginTypeInv ==
    ASSUME TypeInv, NEW p \in Call, NEW c \in WagerCommand, NEW id \in MessageId \cup {None},
           NEW step \in {"register", "find", "expire"}, step = "expire" => rows[c.ext] # None,
           Begin(p, c, id, step)
    PROVE  TypeInv'
<1>1. /\ pc' = [pc EXCEPT ![p] = step] /\ cmd' = [cmd EXCEPT ![p] = c]
      /\ msg' = [msg EXCEPT ![p] = id] /\ attempt' = [attempt EXCEPT ![p] = 1]
      /\ UNCHANGED <<wallets, rows, ledger, events, inbox, op, fresh, wal, entry, reply>>
  BY DEF Begin, Goto, tables
<1>2. TypeOK'
  BY <1>1 DEF TypeInv, TypeOK, Step, maxConflictRetries
<1>3. ASSUME NEW q \in Call, q # p  PROVE  CallOKAt(q)'
  <2>1. SameCall(q) /\ RowsKept
    BY <1>1, <1>3 DEF SameCall, RowsKept, TypeInv, TypeOK
  <2>. QED BY <2>1, SameCallOK
<1>4. pc[p] = "idle" /\ CallOKAt(p)
  BY DEF Begin, TypeInv, CallOK
<1>5. op[p] = None /\ wal[p] = None /\ entry[p] = None
  BY <1>4 DEF CallOKAt, HasOp
<1>6. /\ pc'[p] = step /\ cmd'[p] = c /\ rows' = rows
      /\ op'[p] = None /\ wal'[p] = None /\ entry'[p] = None
  BY <1>1, <1>5 DEF TypeInv, TypeOK
<1>7. c # None
  BY RecordAssumption
<1>8. CallOKAt(p)'
  BY <1>6, <1>7 DEF CallOKAt, HasOp
<1>9. RowsOK'
  BY <1>1 DEF TypeInv, RowsOK
<1>. QED BY <1>2, <1>3, <1>8, <1>9 DEF TypeInv, CallOK

\* A call returns to its caller and forgets everything.
LEMMA ReturnTypeInv ==
    ASSUME TypeInv, NEW p \in Call, Return(p)
    PROVE  TypeInv'
<1>1. /\ pc' = [pc EXCEPT ![p] = "idle"] /\ cmd' = [cmd EXCEPT ![p] = None]
      /\ msg' = [msg EXCEPT ![p] = None] /\ attempt' = [attempt EXCEPT ![p] = 0]
      /\ reply' = [reply EXCEPT ![p] = Failure(None)]
      /\ UNCHANGED <<wallets, rows, ledger, events, inbox, op, fresh, wal, entry>>
  BY DEF Return, Goto, tables
<1>2. Failure(None) \in WagerResult
  BY DEF Failure, WagerResult
<1>3. TypeOK'
  BY <1>1, <1>2 DEF TypeInv, TypeOK, Step, maxConflictRetries
<1>4. ASSUME NEW q \in Call, q # p  PROVE  CallOKAt(q)'
  <2>1. SameCall(q) /\ RowsKept
    BY <1>1, <1>4 DEF SameCall, RowsKept, TypeInv, TypeOK
  <2>. QED BY <2>1, SameCallOK
<1>5. op[p] = None /\ wal[p] = None /\ entry[p] = None
  BY Memory DEF CallOKAt, HasOp, Return
<1>6. pc'[p] = "idle" /\ op'[p] = None /\ wal'[p] = None /\ entry'[p] = None
  BY <1>1, <1>5 DEF TypeInv, TypeOK
<1>7. CallOKAt(p)'
  BY <1>6 DEF CallOKAt, HasOp
<1>8. RowsOK'
  BY <1>1 DEF TypeInv, RowsOK
<1>. QED BY <1>3, <1>4, <1>7, <1>8 DEF TypeInv, CallOK

\* A call that changes only its step, to one that needs what it holds.
LEMMA GotoTypeInv ==
    ASSUME TypeInv, NEW p \in Call, pc[p] # "idle", NEW step \in Step \ {"idle", "expire"},
           Goto(p, step),
           UNCHANGED <<tables, cmd, msg, attempt, op, fresh, wal, entry, reply>>,
           step \in HasOp <=> op[p] # None,
           wal[p] # None => step \in {"decide", "move", "update", "commit"},
           step \notin {"decide", "move"}
    PROVE  TypeInv'
<1>1. Advance(p, step, op[p], fresh[p], wal[p], entry[p])
  BY GotoAdvances
<1>2. Fits(p, step, op[p], wal[p], entry[p])
  BY Memory DEF CallOKAt, Fits
<1>3. /\ cmd[p] # None
      /\ op[p] \in TransactionRow \cup {None} /\ fresh[p] \in BOOLEAN
      /\ wal[p] \in WalletRow \cup {None} /\ entry[p] \in LedgerEntry \cup {None}
  BY Memory
<1>. QED BY <1>1, <1>2, <1>3, AdvanceTypeInv

\* The statements before the verdict.
LEMMA RegisterTypeInv ==
    ASSUME TypeInv, NEW p \in Call, Register(p)
    PROVE  TypeInv'
<1>1. pc[p] = "register" /\ op[p] = None /\ wal[p] = None
  BY Memory DEF Register, At, CallOKAt, HasOp
<1>2. CASE Goto(p, "find") /\ UNCHANGED <<tables, cmd, msg, attempt, op, fresh, wal, entry, reply>>
  BY <1>1, <1>2, GotoTypeInv DEF Step, HasOp
<1>3. CASE Fail(p, "ErrMessageConflict")
  BY <1>1, <1>3, FailTypeInv DEF Error
<1>4. CASE FinishUnchanged(p, InboxReplay)
  <2>1. InboxReplay \in WagerResult
    BY DEF InboxReplay, WagerResult
  <2>. QED BY <1>1, <1>4, <2>1, FinishTypeInv
<1>. QED BY <1>2, <1>3, <1>4 DEF Register

\* A command that was never stored becomes a complete row of its own.
LEMMA NewOperation ==
    ASSUME NEW c \in WagerCommand
    PROVE  /\ NewExternalTransaction(c) \in TransactionRow
           /\ NewExternalTransaction(c).cmd = c
BY DEF NewExternalTransaction, TransactionRow, TransactionState

\* The lookup of record answers, refuses, or leaves an operation in memory.
LEMMA FindTypeInv ==
    ASSUME TypeInv, NEW p \in Call, Find(p)
    PROVE  TypeInv'
<1>. DEFINE stored == rows[cmd[p].ext]
<1>1. /\ pc[p] = "find" /\ op[p] = None /\ wal[p] = None /\ entry[p] = None
      /\ cmd[p] # None /\ cmd[p] \in WagerCommand /\ fresh[p] \in BOOLEAN
      /\ cmd[p].ext \in Ext
  BY Memory DEF Find, At, CallOKAt, HasOp
<1>2. /\ stored \in TransactionRow \cup {None}
      /\ stored # None => stored.cmd.ext = cmd[p].ext
  BY <1>1 DEF TypeInv, TypeOK, RowsOK
<1>3. CASE \E error \in {"ErrInvalidCommand", "ErrPayloadConflict"} : Fail(p, error)
  BY <1>1, <1>3, FailTypeInv DEF Error
<1>4. CASE stored # None /\ FinishUnchanged(p, ResultOf(stored, TRUE))
  <2>1. ResultOf(stored, TRUE) \in WagerResult
    BY <1>2, <1>4, ResultType
  <2>. QED BY <1>1, <1>4, <2>1, FinishTypeInv
<1>5. ASSUME NEW o \in TransactionRow, o.cmd.ext = cmd[p].ext, NEW step \in {"insert", "lock"},
             Goto(p, step), op' = [op EXCEPT ![p] = o],
             UNCHANGED <<tables, cmd, msg, attempt, fresh, wal, entry, reply>>
      PROVE  TypeInv'
  <2>1. Advance(p, step, o, fresh[p], None, None)
    BY <1>1, <1>5 DEF Advance, Goto, tables, TypeInv, TypeOK
  <2>2. o # None
    BY RecordAssumption
  <2>3. step \in HasOp /\ step \in Step \ {"idle", "expire"} /\ step # "move"
    BY DEF HasOp, Step
  <2>4. Fits(p, step, o, None, None)
    BY <1>5, <2>2, <2>3 DEF Fits
  <2>. QED BY <1>1, <1>5, <2>1, <2>3, <2>4, AdvanceTypeInv
<1>6. CASE /\ Goto(p, "insert") /\ op' = [op EXCEPT ![p] = NewExternalTransaction(cmd[p])]
           /\ UNCHANGED <<tables, cmd, msg, attempt, fresh, wal, entry, reply>>
  BY <1>1, <1>5, <1>6, NewOperation
<1>7. CASE /\ stored # None /\ Goto(p, "lock") /\ op' = [op EXCEPT ![p] = stored]
           /\ UNCHANGED <<tables, cmd, msg, attempt, fresh, wal, entry, reply>>
  BY <1>2, <1>5, <1>7
<1>. QED BY <1>3, <1>4, <1>6, <1>7 DEF Find

\* The insert only marks the operation as fresh, or is a conflict.
LEMMA InsertTypeInv ==
    ASSUME TypeInv, NEW p \in Call, Insert(p)
    PROVE  TypeInv'
<1>1. /\ pc[p] = "insert" /\ op[p] # None /\ wal[p] = None /\ entry[p] = None
      /\ cmd[p] # None /\ op[p] \in TransactionRow \cup {None}
      /\ op[p].cmd.ext = cmd[p].ext
  BY Memory DEF Insert, At, CallOKAt, HasOp
<1>2. CASE Conflict(p)
  BY <1>1, <1>2, ConflictTypeInv
<1>3. CASE /\ fresh' = [fresh EXCEPT ![p] = TRUE] /\ Goto(p, "fkey")
           /\ UNCHANGED <<tables, cmd, msg, attempt, op, wal, entry, reply>>
  <2>1. Advance(p, "fkey", op[p], TRUE, None, None)
    BY <1>1, <1>3 DEF Advance, Goto, tables, TypeInv, TypeOK
  <2>2. "fkey" \in HasOp /\ "fkey" \in Step \ {"idle", "expire"}
    BY DEF HasOp, Step
  <2>3. Fits(p, "fkey", op[p], None, None)
    BY <1>1, <2>2 DEF Fits
  <2>. QED BY <1>1, <2>1, <2>2, <2>3, AdvanceTypeInv
<1>. QED BY <1>2, <1>3 DEF Insert

\* The foreign key check lets the call go on to the lock, or fails it.
LEMMA ForeignKeyTypeInv ==
    ASSUME TypeInv, NEW p \in Call, ForeignKey(p)
    PROVE  TypeInv'
<1>1. pc[p] = "fkey" /\ op[p] # None /\ wal[p] = None
  BY Memory DEF ForeignKey, At, CallOKAt, HasOp
<1>2. CASE Fail(p, "ForeignKeyViolation")
  BY <1>1, <1>2, FailTypeInv DEF Error
<1>3. CASE Goto(p, "lock") /\ UNCHANGED <<tables, cmd, msg, attempt, op, fresh, wal, entry, reply>>
  BY <1>1, <1>3, GotoTypeInv DEF Step, HasOp
<1>. QED BY <1>2, <1>3 DEF ForeignKey

\* LockByID puts the committed wallet, or none, in the call's memory.
LEMMA LockByIDTypeInv ==
    ASSUME TypeInv, NEW p \in Call, LockByID(p)
    PROVE  TypeInv'
<1>1. /\ pc[p] = "lock" /\ op[p] # None /\ wal[p] = None /\ entry[p] = None
      /\ cmd[p] # None /\ op[p] \in TransactionRow \cup {None} /\ fresh[p] \in BOOLEAN
      /\ op[p].cmd.ext = cmd[p].ext /\ cmd[p].wallet \in Wallet
  BY Memory DEF LockByID, At, CallOKAt, HasOp
<1>2. wallets[cmd[p].wallet] \in WalletRow \cup {None}
  BY <1>1 DEF TypeInv, TypeOK
<1>3. Advance(p, "decide", op[p], fresh[p], wallets[cmd[p].wallet], None)
  BY <1>1 DEF LockByID, Advance, Goto, tables, TypeInv, TypeOK
<1>4. "decide" \in HasOp /\ "decide" \in Step \ {"idle", "expire"}
  BY DEF HasOp, Step
<1>5. Fits(p, "decide", op[p], wallets[cmd[p].wallet], None)
  BY <1>1, <1>4 DEF Fits
<1>. QED BY <1>1, <1>2, <1>3, <1>4, <1>5, AdvanceTypeInv

\* What a call that has its wallet knows, and what the verdict leads to.
LEMMA DecideFacts ==
    ASSUME TypeInv, NEW p \in Call, pc[p] = "decide"
    PROVE  /\ op[p] \in TransactionRow /\ op[p] # None /\ op[p].cmd.ext = cmd[p].ext
           /\ cmd[p] # None /\ cmd[p] \in WagerCommand
           /\ VerdictOf(p).ref \in Ext \cup {None}
           /\ VerdictOf(p).act = "MOVE" =>
                /\ wal[p] \in WalletRow
                /\ VerdictOf(p).direction \in Direction
                /\ BalanceAfter(wal[p].balance, VerdictOf(p).direction, cmd[p].amount) \in Money
           /\ VerdictOf(p).act = "REJECT" => VerdictOf(p).code \in FailureCode
           /\ VerdictOf(p).act = "CONCLUDE" => wal[p] \in WalletRow
<1>1. /\ op[p] \in TransactionRow /\ op[p] # None /\ op[p].cmd.ext = cmd[p].ext
      /\ cmd[p] # None /\ cmd[p] \in WagerCommand
      /\ wal[p] \in WalletRow \cup {None}
  BY Memory DEF CallOKAt, HasOp
<1>2. cmd[p].ref \in Ext \cup {None}
  BY <1>1 DEF WagerCommand
<1>3. RowOf(rows, cmd[p].ref) \in TransactionRow \cup {None}
  BY <1>2 DEF RowOf, TypeInv, TypeOK
<1>4. HasProcessedReversal(rows, cmd[p].ref) \in BOOLEAN
  BY DEF HasProcessedReversal
<1>5. VerdictOf(p) = apply(cmd[p], wal[p], RowOf(rows, cmd[p].ref), HasProcessedReversal(rows, cmd[p].ref))
  BY DEF VerdictOf
<1>. QED BY <1>1, <1>3, <1>4, <1>5, ApplyVerdict

\* The outcomes are rows, and of the same command.
LEMMA OutcomeType ==
    ASSUME NEW t \in TransactionRow, NEW ref \in Ext \cup {None}
    PROVE  /\ \A b \in Money :
                /\ MarkAsProcessed(t, b, ref) \in TransactionRow
                /\ MarkAsProcessed(t, b, ref).cmd = t.cmd
           /\ \A code \in FailureCode :
                /\ Reject(t, code, ref) \in TransactionRow
                /\ Reject(t, code, ref).cmd = t.cmd
           /\ MarkAsPendingReference(t) \in TransactionRow
           /\ MarkAsPendingReference(t).cmd = t.cmd
BY DEF MarkAsProcessed, Reject, MarkAsPendingReference, TransactionRow, TransactionState

\* A call writes the outcome it reached into the operation it holds.
LEMMA OutcomeTypeInv ==
    ASSUME TypeInv, NEW p \in Call, NEW t \in TransactionRow, t.cmd.ext = cmd[p].ext,
           pc[p] \in {"decide", "expire"}, Outcome(p, t), Goto(p, "update"),
           UNCHANGED <<wal, entry>>
    PROVE  TypeInv'
<1>1. Advance(p, "update", t, fresh[p], wal[p], entry[p])
  BY DEF Advance, Outcome, Goto, tables, TypeInv, TypeOK
<1>2. t # None
  BY RecordAssumption
<1>3. Fits(p, "update", t, wal[p], entry[p])
  BY Memory, <1>2 DEF CallOKAt, Fits, HasOp
<1>4. /\ cmd[p] # None /\ fresh[p] \in BOOLEAN
      /\ wal[p] \in WalletRow \cup {None} /\ entry[p] \in LedgerEntry \cup {None}
  BY Memory
<1>5. "update" \in Step \ {"idle", "expire"}
  BY DEF Step
<1>. QED BY <1>1, <1>3, <1>4, <1>5, AdvanceTypeInv

\* The five ways out of a verdict.
LEMMA StayParkedTypeInv ==
    ASSUME TypeInv, NEW p \in Call, StayParked(p)
    PROVE  TypeInv'
<1>1. pc[p] = "decide" /\ op[p] \in TransactionRow
  BY DecideFacts DEF StayParked, Decided
<1>2. ResultOf(op[p], FALSE) \in WagerResult
  BY <1>1, ResultType
<1>. QED BY <1>1, <1>2, FinishTypeInv DEF StayParked

\* A parked operation is a row without an outcome.
LEMMA ParkNewTypeInv ==
    ASSUME TypeInv, NEW p \in Call, ParkNew(p)
    PROVE  TypeInv'
<1>1. pc[p] = "decide" /\ op[p] \in TransactionRow /\ op[p].cmd.ext = cmd[p].ext
  BY DecideFacts DEF ParkNew, Decided
<1>2. /\ MarkAsPendingReference(op[p]) \in TransactionRow
      /\ MarkAsPendingReference(op[p]).cmd = op[p].cmd
  BY <1>1, OutcomeType
<1>. QED BY <1>1, <1>2, OutcomeTypeInv DEF ParkNew

\* A rejected operation carries a code and no balance.
LEMMA RejectTypeInv ==
    ASSUME TypeInv, NEW p \in Call, RejectOp(p)
    PROVE  TypeInv'
<1>. DEFINE t == Reject(op[p], VerdictOf(p).code, VerdictOf(p).ref)
<1>1. /\ pc[p] = "decide" /\ op[p] \in TransactionRow /\ op[p].cmd.ext = cmd[p].ext
      /\ VerdictOf(p).code \in FailureCode /\ VerdictOf(p).ref \in Ext \cup {None}
  BY DecideFacts DEF RejectOp, Decided
<1>2. t \in TransactionRow /\ t.cmd = op[p].cmd
  BY <1>1, OutcomeType
<1>3. Outcome(p, t) /\ Goto(p, "update") /\ UNCHANGED <<wal, entry>>
  BY DEF RejectOp
<1>. HIDE DEF t
<1>. QED BY <1>1, <1>2, <1>3, OutcomeTypeInv

\* A LOSS is concluded with the balance of the wallet that is held.
LEMMA ConcludeLossTypeInv ==
    ASSUME TypeInv, NEW p \in Call, ConcludeLoss(p)
    PROVE  TypeInv'
<1>. DEFINE t == MarkAsProcessed(op[p], wal[p].balance, None)
<1>1. /\ pc[p] = "decide" /\ op[p] \in TransactionRow /\ op[p].cmd.ext = cmd[p].ext
      /\ wal[p] \in WalletRow
  BY DecideFacts DEF ConcludeLoss, Decided
<1>2. wal[p].balance \in Money
  BY <1>1 DEF WalletRow
<1>3. t \in TransactionRow /\ t.cmd = op[p].cmd
  BY <1>1, <1>2, OutcomeType
<1>4. Outcome(p, t) /\ Goto(p, "update") /\ UNCHANGED <<wal, entry>>
  BY DEF ConcludeLoss
<1>. HIDE DEF t
<1>. QED BY <1>1, <1>3, <1>4, OutcomeTypeInv

\* A movement of money computes a ledger entry and a wallet of their types.
LEMMA MovementType ==
    ASSUME NEW c \in WagerCommand, NEW w \in WalletRow, NEW d \in Direction,
           BalanceAfter(w.balance, d, c.amount) \in Money
    PROVE  /\ ApplyMovement(w, d, c.amount) \in WalletRow
           /\ ApplyMovement(w, d, c.amount).balance = BalanceAfter(w.balance, d, c.amount)
           /\ ApplyMovement(w, d, c.amount).version = w.version + 1
           /\ NewLedgerEntry(c.ext, d, c.amount, w.balance) \in LedgerEntry
           /\ NewLedgerEntry(c.ext, d, c.amount, w.balance).before = w.balance
           /\ NewLedgerEntry(c.ext, d, c.amount, w.balance).direction = d
           /\ NewLedgerEntry(c.ext, d, c.amount, w.balance).amount = c.amount
           /\ NewLedgerEntry(c.ext, d, c.amount, w.balance).after =
                BalanceAfter(w.balance, d, c.amount)
<1>1. w.version + 1 \in Nat
  BY DEF WalletRow
<1>2. c.amount \in Money /\ c.ext \in Ext /\ w.balance \in Money
  BY DEF WagerCommand, WalletRow
<1>. QED BY <1>1, <1>2 DEF ApplyMovement, NewLedgerEntry, LedgerEntry, WalletRow

\* A movement leaves a wallet, an entry and an outcome in memory.
LEMMA SettleTypeInv ==
    ASSUME TypeInv, NEW p \in Call, Settle(p)
    PROVE  TypeInv'
<1>. DEFINE d == VerdictOf(p).direction
            moved == ApplyMovement(wal[p], d, cmd[p].amount)
            n == NewLedgerEntry(cmd[p].ext, d, cmd[p].amount, wal[p].balance)
            t == MarkAsProcessed(op[p], moved.balance, VerdictOf(p).ref)
<1>1. /\ pc[p] = "decide" /\ op[p] \in TransactionRow /\ op[p].cmd.ext = cmd[p].ext
      /\ cmd[p] # None /\ cmd[p] \in WagerCommand /\ wal[p] \in WalletRow /\ d \in Direction
      /\ VerdictOf(p).ref \in Ext \cup {None}
      /\ BalanceAfter(wal[p].balance, d, cmd[p].amount) \in Money
  BY DecideFacts DEF Settle, Decided
<1>2. /\ moved \in WalletRow /\ moved.balance \in Money /\ n \in LedgerEntry
      /\ n.after = BalanceAfter(n.before, n.direction, n.amount)
  BY <1>1, MovementType
<1>3. t \in TransactionRow /\ t.cmd = op[p].cmd
  BY <1>1, <1>2, OutcomeType
<1>4. /\ wal' = [wal EXCEPT ![p] = moved] /\ entry' = [entry EXCEPT ![p] = n]
      /\ Outcome(p, t) /\ Goto(p, "move")
  BY DEF Settle
<1>5. fresh[p] \in BOOLEAN
  BY Memory
<1>6. moved # None /\ n # None /\ t # None
  BY <1>2, <1>3, RecordAssumption
<1>. HIDE DEF moved, n, t
<1>7. Advance(p, "move", t, fresh[p], moved, n)
  BY <1>4 DEF Advance, Outcome, Goto, tables, TypeInv, TypeOK
<1>8. "move" \in Step \ {"idle", "expire"} /\ "move" \in HasOp
  BY DEF Step, HasOp
<1>9. Fits(p, "move", t, moved, n)
  BY <1>1, <1>2, <1>3, <1>6, <1>8 DEF Fits
<1>. QED BY <1>1, <1>2, <1>3, <1>5, <1>7, <1>8, <1>9, AdvanceTypeInv

\* The statements after the verdict.
LEMMA MoveBalanceTypeInv ==
    ASSUME TypeInv, NEW p \in Call, MoveBalance(p)
    PROVE  TypeInv'
<1>1. pc[p] = "move" /\ op[p] # None
  BY Memory DEF MoveBalance, At, CallOKAt, HasOp
<1>2. CASE Conflict(p)
  BY <1>1, <1>2, ConflictTypeInv
<1>3. CASE Goto(p, "update") /\ UNCHANGED <<tables, cmd, msg, attempt, op, fresh, wal, entry, reply>>
  BY <1>1, <1>3, GotoTypeInv DEF Step, HasOp
<1>. QED BY <1>2, <1>3 DEF MoveBalance

\* The update of the row is refused, conflicts, or leads to the commit.
LEMMA UpdateTypeInv ==
    ASSUME TypeInv, NEW p \in Call, Update(p)
    PROVE  TypeInv'
<1>1. pc[p] = "update" /\ op[p] # None
  BY Memory DEF Update, At, CallOKAt, HasOp
<1>2. CASE Conflict(p)
  BY <1>1, <1>2, ConflictTypeInv
<1>3. CASE Fail(p, "TerminalRow")
  BY <1>1, <1>3, FailTypeInv DEF Error
<1>4. CASE Goto(p, "commit") /\ UNCHANGED <<tables, cmd, msg, attempt, op, fresh, wal, entry, reply>>
  BY <1>1, <1>4, GotoTypeInv DEF Step, HasOp
<1>. QED BY <1>2, <1>3, <1>4 DEF Update

\* The commit: the tables take what the call held.
LEMMA CommitTypeInv ==
    ASSUME TypeInv, NEW p \in Call, Commit(p)
    PROVE  TypeInv'
<1>1. /\ pc[p] = "commit" /\ op[p] \in TransactionRow /\ op[p] # None
      /\ cmd[p] # None /\ cmd[p].ext \in Ext /\ cmd[p].wallet \in Wallet
      /\ op[p].cmd.ext = cmd[p].ext
      /\ entry[p] # None => entry[p] \in LedgerEntry /\ wal[p] \in WalletRow
  BY Memory DEF Commit, At, CallOKAt, HasOp
<1>2. PICK r \in WagerResult : Answer(p, r)
  <2>1. ResultOf(op[p], FALSE) \in WagerResult
    BY <1>1, ResultType
  <2>2. Failure("Interrupted") \in WagerResult
    BY DEF Failure, WagerResult, Error
  <2>. QED BY <2>1, <2>2 DEF Commit
<1>3. rows' = [rows EXCEPT ![cmd[p].ext] = op[p]]
  BY DEF Commit
<1>4. EventsOf(op[p], entry[p] # None) \in Seq(EventType)
  <2>1. \A x, y \in EventType : <<x>> \in Seq(EventType) /\ <<x, y>> \in Seq(EventType)
    OBVIOUS
  <2>2. /\ "WagerTransactionProcessed" \in EventType /\ "WalletBalanceChanged" \in EventType
        /\ "WagerTransactionRejected" \in EventType
        /\ "WagerTransactionPendingReference" \in EventType
    BY DEF EventType
  <2>. HIDE DEF EventType
  <2>. QED BY <2>1, <2>2, Zenon DEF EventsOf
<1>5. /\ wallets' \in [Wallet -> WalletRow \cup {None}]
      /\ ledger' \in [Wallet -> Seq(LedgerEntry)]
  <2>1. CASE entry[p] = None
    BY <2>1 DEF Commit, TypeInv, TypeOK
  <2>2. CASE entry[p] # None
    <3>1. /\ wallets' = [wallets EXCEPT ![cmd[p].wallet] = wal[p]]
          /\ ledger' = [ledger EXCEPT ![cmd[p].wallet] = Append(@, entry[p])]
      BY <2>2 DEF Commit
    <3>2. /\ wallets \in [Wallet -> WalletRow \cup {None}]
          /\ ledger \in [Wallet -> Seq(LedgerEntry)]
      BY DEF TypeInv, TypeOK
    <3>3. Append(ledger[cmd[p].wallet], entry[p]) \in Seq(LedgerEntry)
      BY <1>1, <2>2, <3>2
    <3>. QED BY <1>1, <2>2, <3>1, <3>2, <3>3
  <2>. QED BY <2>1, <2>2
<1>6. events' \in [Ext \cup Wallet -> Seq(EventType)]
  <2>1. /\ events' = [events EXCEPT ![cmd[p].ext] = @ \o EventsOf(op[p], entry[p] # None)]
        /\ events \in [Ext \cup Wallet -> Seq(EventType)]
    BY DEF Commit, TypeInv, TypeOK
  <2>2. events[cmd[p].ext] \o EventsOf(op[p], entry[p] # None) \in Seq(EventType)
    BY <1>1, <1>4, <2>1
  <2>. QED BY <1>1, <2>1, <2>2
<1>7. rows' \in [Ext -> TransactionRow \cup {None}] /\ DOMAIN inbox' = MessageId
  BY <1>1, <1>3 DEF Commit, CompleteInbox, TypeInv, TypeOK
<1>8. TypeOK'
  BY <1>2, <1>5, <1>6, <1>7 DEF TypeInv, TypeOK, Answer, Discard, Step
<1>9. ASSUME NEW q \in Call, q # p  PROVE  CallOKAt(q)'
  <2>1. SameCall(q) /\ RowsKept
    BY <1>1, <1>2, <1>3, <1>9 DEF SameCall, RowsKept, Answer, Discard, TypeInv, TypeOK
  <2>. QED BY <2>1, SameCallOK
<1>10. /\ pc'[p] = "reply" /\ cmd'[p] = cmd[p]
       /\ op'[p] = None /\ wal'[p] = None /\ entry'[p] = None
  BY <1>2 DEF TypeInv, TypeOK, Answer, Discard
<1>11. CallOKAt(p)'
  BY <1>1, <1>10 DEF CallOKAt, HasOp
<1>12. RowsOK'
  BY <1>1, <1>3 DEF TypeInv, TypeOK, RowsOK
<1>. QED BY <1>8, <1>9, <1>11, <1>12 DEF TypeInv, CallOK

\* Expire answers a concluded row and refuses one that is still parked.
LEMMA ExpireRowTypeInv ==
    ASSUME TypeInv, NEW p \in Call, ExpireRow(p)
    PROVE  TypeInv'
<1>. DEFINE stored == rows[cmd[p].ext]
<1>1. pc[p] = "expire" /\ cmd[p] # None /\ cmd[p].ext \in Ext /\ stored # None
  BY Memory DEF ExpireRow, At, CallOKAt
<1>2. stored \in TransactionRow /\ stored.cmd.ext = cmd[p].ext /\ stored.ref \in Ext \cup {None}
  BY <1>1 DEF TypeInv, TypeOK, RowsOK, TransactionRow
<1>3. CASE FinishUnchanged(p, ResultOf(stored, TRUE))
  BY <1>1, <1>2, <1>3, ResultType, FinishTypeInv
<1>4. CASE /\ Outcome(p, Reject(stored, "REFERENCE_NOT_FOUND", stored.ref))
           /\ Goto(p, "update") /\ UNCHANGED <<wal, entry>>
  <2>1. "REFERENCE_NOT_FOUND" \in FailureCode
    BY DEF FailureCode
  <2>. DEFINE t == Reject(stored, "REFERENCE_NOT_FOUND", stored.ref)
  <2>2. t \in TransactionRow /\ t.cmd = stored.cmd
    BY <1>2, <2>1, OutcomeType
  <2>. HIDE DEF t
  <2>3. Outcome(p, t)
    BY <1>4 DEF t
  <2>. QED BY <1>1, <1>2, <1>4, <2>2, <2>3, OutcomeTypeInv
<1>. QED BY <1>3, <1>4 DEF ExpireRow

-----------------------------------------------------------------------------
\* Every step keeps the invariant.
LEMMA NextTypeInv == TypeInv /\ [Next]_vars => TypeInv'
<1>. SUFFICES ASSUME TypeInv, [Next]_vars  PROVE TypeInv'
  OBVIOUS
<1>1. CASE UNCHANGED vars
  BY <1>1 DEF vars, TypeInv, TypeOK, CallOK, CallOKAt, RowsOK
<1>2. CASE \E w \in Wallet, pl \in Player, u \in Currency, b \in InitialBalance :
             OpenWallet(w, pl, u, b)
  BY <1>2, OpenWalletTypeInv
<1>3. ASSUME NEW p \in Call, Start(p)  PROVE TypeInv'
  <2>1. CASE \E c \in Command : Execute(p, c)
    BY <2>1, CommandAssumption, BeginTypeInv DEF Execute
  <2>2. CASE \E m \in Message : ExecuteFromMessage(p, m)
    BY <2>2, CommandAssumption, MessageAssumption, BeginTypeInv DEF ExecuteFromMessage
  <2>3. CASE \E e \in Ext : Expire(p, e)
    <3>1. PICK e \in Ext : Expire(p, e)
      BY <2>3
    <3>2. rows[e] # None /\ rows[e].cmd \in WagerCommand /\ rows[e].cmd.ext = e
      BY <3>1 DEF Expire, TypeInv, TypeOK, RowsOK, TransactionRow
    <3>. QED BY <3>1, <3>2, BeginTypeInv DEF Expire
  <2>. QED BY <1>3, <2>1, <2>2, <2>3 DEF Start
<1>4. ASSUME NEW p \in Call, Progress(p)  PROVE TypeInv'
  <2>1. ASSUME Overflow(p)  PROVE TypeInv'
    BY <2>1, FailTypeInv DEF Overflow, Decided, Error
  <2>. QED
    BY <1>4, <2>1, RegisterTypeInv, FindTypeInv, InsertTypeInv, ForeignKeyTypeInv,
       LockByIDTypeInv, StayParkedTypeInv, ParkNewTypeInv, RejectTypeInv,
       ConcludeLossTypeInv, SettleTypeInv, MoveBalanceTypeInv, UpdateTypeInv,
       CommitTypeInv, ExpireRowTypeInv, ReturnTypeInv DEF Progress
<1>5. ASSUME NEW p \in Call, DeadlockVictim(p)  PROVE TypeInv'
  <2>1. pc[p] # "idle"
    BY <1>5 DEF DeadlockVictim, Blockers, Blocks
  <2>. QED BY <1>5, <2>1, FailTypeInv DEF DeadlockVictim, Error
<1>6. ASSUME NEW p \in Call, Interrupt(p)  PROVE TypeInv'
  BY <1>6, FailTypeInv DEF Interrupt, Error
<1>. QED BY <1>1, <1>2, <1>3, <1>4, <1>5, <1>6 DEF Next

\* Whatever calls run and however they interleave, fail and retry, every table
\* and every call holds values of its type: no balance leaves the int64 range
\* or goes below zero, and every stored row is complete.
THEOREM TypeCorrect == Spec => []TypeOK
<1>1. Spec => []TypeInv
  BY InitTypeInv, NextTypeInv, PTL DEF Spec
<1>2. TypeInv => TypeOK
  BY DEF TypeInv
<1>. QED BY <1>1, <1>2, PTL

-----------------------------------------------------------------------------
(***************************************************************************)
(* What the steps leave alone.                                             *)
(***************************************************************************)

\* A step of one call leaves the others as they are, the mark of an inserted
\* row included.
Untouched(q) == SameCall(q) /\ fresh'[q] = fresh[q]

\* A step of call p that writes no table but the inbox, and that either drops
\* the wallet and the entry p held or leaves them alone.
Quiet(p) ==
    /\ UNCHANGED <<wallets, rows, ledger, events>>
    /\ \A q \in Call \ {p} : Untouched(q)
    /\ \/ wal'[p] = None /\ entry'[p] = None
       \/ wal'[p] = wal[p] /\ entry'[p] = entry[p] /\ cmd'[p] = cmd[p]

\* A call that ends its SQL transaction without writing is quiet.
LEMMA AnswerQuiet ==
    ASSUME TypeInv, NEW p \in Call, NEW r, Answer(p, r),
           UNCHANGED <<wallets, rows, ledger, events>>
    PROVE  Quiet(p)
BY DEF Answer, Discard, Quiet, Untouched, SameCall, TypeInv, TypeOK

\* So is one that fails, one that starts over and one that finishes unchanged.
LEMMA FailQuiet ==
    ASSUME TypeInv, NEW p \in Call, NEW error, Fail(p, error)
    PROVE  Quiet(p)
BY AnswerQuiet DEF Fail, tables

\* A conflict is a failure or a fresh start, both quiet.
LEMMA ConflictQuiet ==
    ASSUME TypeInv, NEW p \in Call, Conflict(p)
    PROVE  Quiet(p)
<1>1. CASE Fail(p, "ErrConcurrentUpdate")
  BY <1>1, FailQuiet
<1>2. CASE Discard(p) /\ (\E s : pc' = [pc EXCEPT ![p] = s]) /\ UNCHANGED <<tables, cmd, msg, reply>>
  BY <1>2 DEF Discard, Quiet, Untouched, SameCall, TypeInv, TypeOK, tables
<1>. QED BY <1>1, <1>2 DEF Conflict

\* A transaction that completes the inbox and nothing else is quiet.
LEMMA FinishQuiet ==
    ASSUME TypeInv, NEW p \in Call, NEW r, FinishUnchanged(p, r)
    PROVE  Quiet(p)
BY AnswerQuiet DEF FinishUnchanged

\* A call that changes its step, and its operation or its mark at most.
LEMMA MemoryQuiet ==
    ASSUME TypeInv, NEW p \in Call, NEW step, Goto(p, step),
           \E o : op' = [op EXCEPT ![p] = o],
           \E f : fresh' = [fresh EXCEPT ![p] = f],
           UNCHANGED <<tables, cmd, wal, entry>>
    PROVE  Quiet(p)
BY DEF Goto, Quiet, Untouched, SameCall, TypeInv, TypeOK, tables

\* The mark and the operation of a call that does not change them.
LEMMA Unwritten ==
    ASSUME TypeInv, NEW p \in Call
    PROVE  /\ op' = op => \E o : op' = [op EXCEPT ![p] = o]
           /\ fresh' = fresh => \E f : fresh' = [fresh EXCEPT ![p] = f]
<1>1. op = [op EXCEPT ![p] = op[p]] /\ fresh = [fresh EXCEPT ![p] = fresh[p]]
  BY DEF TypeInv, TypeOK
<1>. QED BY <1>1

\* Every step that neither opens, locks, settles nor commits is quiet.
LEMMA OtherStepsQuiet ==
    ASSUME TypeInv, NEW p \in Call,
           \/ Start(p) \/ DeadlockVictim(p) \/ Interrupt(p)
           \/ Progress(p) /\ ~LockByID(p) /\ ~Settle(p) /\ ~Commit(p)
    PROVE  Quiet(p)
<1>1. ASSUME NEW c, NEW id, NEW step, Begin(p, c, id, step)  PROVE Quiet(p)
  <2>1. wal[p] = None /\ entry[p] = None
    BY <1>1, Memory DEF Begin, CallOKAt
  <2>. QED BY <1>1, <2>1 DEF Begin, Goto, tables, Quiet, Untouched, SameCall, TypeInv, TypeOK
<1>2. CASE Start(p)
  BY <1>1, <1>2 DEF Start, Execute, ExecuteFromMessage, Expire
<1>3. CASE DeadlockVictim(p) \/ Interrupt(p) \/ Overflow(p)
  BY <1>3, FailQuiet DEF DeadlockVictim, Interrupt, Overflow
<1>4. CASE Register(p)
  BY <1>4, FailQuiet, FinishQuiet, MemoryQuiet, Unwritten DEF Register
<1>5. CASE Find(p)
  BY <1>5, FailQuiet, FinishQuiet, MemoryQuiet, Unwritten DEF Find
<1>6. CASE Insert(p)
  BY <1>6, ConflictQuiet, MemoryQuiet, Unwritten DEF Insert
<1>7. CASE ForeignKey(p)
  BY <1>7, FailQuiet, MemoryQuiet, Unwritten DEF ForeignKey
<1>8. CASE StayParked(p)
  BY <1>8, FinishQuiet DEF StayParked
<1>9. ASSUME NEW t, Outcome(p, t), Goto(p, "update"), UNCHANGED <<wal, entry>>  PROVE Quiet(p)
  BY <1>9, MemoryQuiet, Unwritten DEF Outcome
<1>10. CASE ParkNew(p) \/ RejectOp(p) \/ ConcludeLoss(p)
  BY <1>9, <1>10 DEF ParkNew, RejectOp, ConcludeLoss
<1>11. CASE MoveBalance(p)
  BY <1>11, ConflictQuiet, MemoryQuiet, Unwritten DEF MoveBalance
<1>12. CASE Update(p)
  BY <1>12, FailQuiet, ConflictQuiet, MemoryQuiet, Unwritten DEF Update
<1>13. CASE ExpireRow(p)
  BY <1>9, <1>13, FinishQuiet DEF ExpireRow
<1>14. CASE Return(p)
  <2>1. wal[p] = None /\ entry[p] = None
    BY <1>14, Memory DEF Return, CallOKAt
  <2>. QED BY <1>14, <2>1 DEF Return, Goto, tables, Quiet, Untouched, SameCall, TypeInv, TypeOK
<1>. QED BY <1>2, <1>3, <1>4, <1>5, <1>6, <1>7, <1>8, <1>10, <1>11, <1>12, <1>13, <1>14 DEF Progress

-----------------------------------------------------------------------------
(***************************************************************************)
(* The wallet lock.                                                        *)
(***************************************************************************)

\* What a call that holds a wallet knows of it.
HeldAt(p) ==
    wal[p] # None =>
        /\ \A q \in Call \ {p} : wal[q] # None => cmd[q].wallet # cmd[p].wallet
        /\ wallets[cmd[p].wallet] # None
        /\ IF entry[p] = None
           THEN wal[p] = wallets[cmd[p].wallet]
           ELSE /\ entry[p].before = wallets[cmd[p].wallet].balance
                /\ entry[p].after = wal[p].balance
                /\ wal[p].version = wallets[cmd[p].wallet].version + 1

Held == \A p \in Call : HeldAt(p)

\* A quiet step keeps every lock what it was.
LEMMA QuietHeld ==
    ASSUME TypeInv, Held, NEW p \in Call, Quiet(p)
    PROVE  Held'
<1>1. ASSUME NEW q \in Call, wal'[q] # None
      PROVE  wal'[q] = wal[q] /\ entry'[q] = entry[q] /\ cmd'[q] = cmd[q]
  BY <1>1 DEF Quiet, Untouched, SameCall
<1>2. wallets' = wallets
  BY DEF Quiet
<1>3. ASSUME NEW q \in Call  PROVE HeldAt(q)'
  BY <1>1, <1>2 DEF Held, HeldAt
<1>. QED BY <1>3 DEF Held

\* The lock is granted only when nobody else has it.
LEMMA LockHeld ==
    ASSUME TypeInv, Held, NEW p \in Call, LockByID(p)
    PROVE  Held'
<1>1. /\ wal' = [wal EXCEPT ![p] = wallets[cmd[p].wallet]]
      /\ UNCHANGED <<wallets, cmd, entry>>
      /\ pc[p] = "lock"
  BY DEF LockByID, At, tables
<1>2. \A q \in Call \ {p} : wal[q] # None => cmd[q].wallet # cmd[p].wallet
  BY DEF LockByID, At, Blockers, Blocks, HoldsWallet
<1>3. entry[p] = None
  BY <1>1, Memory DEF CallOKAt
<1>4. wal'[p] = wallets[cmd[p].wallet] /\ \A q \in Call \ {p} : wal'[q] = wal[q]
  BY <1>1 DEF TypeInv, TypeOK
<1>5. ASSUME NEW q \in Call  PROVE HeldAt(q)'
  BY <1>1, <1>2, <1>3, <1>4 DEF Held, HeldAt
<1>. QED BY <1>5 DEF Held

\* The money is computed from the wallet that was locked.
LEMMA SettleHeld ==
    ASSUME TypeInv, Held, NEW p \in Call, Settle(p)
    PROVE  Held'
<1>. DEFINE d == VerdictOf(p).direction
            moved == ApplyMovement(wal[p], d, cmd[p].amount)
            n == NewLedgerEntry(cmd[p].ext, d, cmd[p].amount, wal[p].balance)
<1>1. /\ pc[p] = "decide" /\ cmd[p] \in WagerCommand /\ wal[p] \in WalletRow /\ d \in Direction
      /\ BalanceAfter(wal[p].balance, d, cmd[p].amount) \in Money
  BY DecideFacts DEF Settle, Decided
<1>2. /\ moved.balance = n.after /\ moved.version = wal[p].version + 1
      /\ n.before = wal[p].balance /\ moved \in WalletRow /\ n \in LedgerEntry
  BY <1>1, MovementType
<1>3. /\ wal' = [wal EXCEPT ![p] = moved] /\ entry' = [entry EXCEPT ![p] = n]
      /\ UNCHANGED <<wallets, cmd>>
  BY DEF Settle, Outcome, tables
<1>4. moved # None /\ n # None /\ wal[p] # None
  BY <1>1, <1>2, RecordAssumption
<1>. HIDE DEF moved, n
<1>5. /\ wal'[p] = moved /\ entry'[p] = n
      /\ \A q \in Call \ {p} : wal'[q] = wal[q] /\ entry'[q] = entry[q]
  BY <1>3 DEF TypeInv, TypeOK
<1>6. HeldAt(p) /\ (entry[p] # None => wal[p] # None)
  BY DEF Held, TypeInv, CallOK, CallOKAt
<1>7. entry[p] = None => wal[p] = wallets[cmd[p].wallet]
  BY <1>4, <1>6 DEF HeldAt
<1>8. entry[p] = None
  BY <1>1, Memory DEF CallOKAt
<1>9. ASSUME NEW q \in Call  PROVE HeldAt(q)'
  BY <1>2, <1>3, <1>4, <1>5, <1>7, <1>8 DEF Held, HeldAt
<1>. QED BY <1>9 DEF Held

\* What a commit does to the wallets and to the calls.
LEMMA CommitFacts ==
    ASSUME TypeInv, NEW p \in Call, Commit(p)
    PROVE  /\ \A q \in Call \ {p} : Untouched(q)
           /\ wal'[p] = None /\ entry'[p] = None /\ fresh'[p] = FALSE /\ pc'[p] = "reply"
           /\ cmd' = cmd
           /\ cmd[p].wallet \in Wallet /\ cmd[p].ext \in Ext /\ op[p] # None
           /\ entry[p] = None => wallets' = wallets /\ ledger' = ledger
           /\ entry[p] # None =>
                /\ wal[p] \in WalletRow /\ entry[p] \in LedgerEntry
                /\ wallets' = [wallets EXCEPT ![cmd[p].wallet] = wal[p]]
                /\ ledger' = [ledger EXCEPT ![cmd[p].wallet] = Append(@, entry[p])]
           /\ rows' = [rows EXCEPT ![cmd[p].ext] = op[p]]
<1>1. PICK r : Answer(p, r)
  BY DEF Commit
<1>2. pc[p] = "commit"
  BY DEF Commit, At
<1>3. /\ cmd[p].wallet \in Wallet /\ cmd[p].ext \in Ext /\ op[p] # None
      /\ entry[p] # None => wal[p] \in WalletRow /\ entry[p] \in LedgerEntry
  BY <1>2, Memory DEF CallOKAt, HasOp
<1>4. /\ \A q \in Call \ {p} : Untouched(q)
      /\ wal'[p] = None /\ entry'[p] = None /\ fresh'[p] = FALSE /\ pc'[p] = "reply"
      /\ cmd' = cmd
  BY <1>1 DEF Answer, Discard, Untouched, SameCall, TypeInv, TypeOK
<1>. QED BY <1>3, <1>4 DEF Commit

\* A commit changes no wallet that another call holds.
LEMMA CommitHeld ==
    ASSUME TypeInv, Held, NEW p \in Call, Commit(p)
    PROVE  Held'
<1>1. ASSUME NEW q \in Call, q # p, wal[q] # None  PROVE HeldAt(q)'
  <2>1. wallets'[cmd[q].wallet] = wallets[cmd[q].wallet]
    <3>1. CASE entry[p] = None
      BY <3>1, CommitFacts
    <3>2. CASE entry[p] # None
      <4>1. wal[p] # None
        BY <3>2, Memory DEF CallOKAt
      <4>2. cmd[q].wallet # cmd[p].wallet
        BY <1>1, <4>1 DEF Held, HeldAt
      <4>3. cmd[q].wallet \in Wallet
        BY <1>1, Memory DEF CallOKAt
      <4>4. DOMAIN wallets = Wallet
        BY DEF TypeInv, TypeOK
      <4>. QED BY <3>2, <4>2, <4>3, <4>4, CommitFacts
    <3>. QED BY <3>1, <3>2
  <2>2. \A r \in Call : wal'[r] # None => wal'[r] = wal[r]
    BY CommitFacts DEF Untouched, SameCall
  <2>3. /\ wal'[q] = wal[q] /\ entry'[q] = entry[q] /\ cmd' = cmd
    BY <1>1, CommitFacts DEF Untouched, SameCall
  <2>. QED BY <1>1, <2>1, <2>2, <2>3 DEF Held, HeldAt
<1>2. ASSUME NEW q \in Call, q = p \/ wal[q] = None  PROVE HeldAt(q)'
  BY <1>2, CommitFacts DEF HeldAt, Untouched, SameCall
<1>. QED BY <1>1, <1>2 DEF Held

\* A wallet that is opened was held by nobody.
LEMMA OpenWalletHeld ==
    ASSUME TypeInv, Held, NEW w \in Wallet, NEW pl \in Player, NEW u \in Currency,
           NEW b \in InitialBalance, OpenWallet(w, pl, u, b)
    PROVE  Held'
<1>1. /\ wallets[w] = None /\ \A v \in Wallet \ {w} : wallets'[v] = wallets[v]
      /\ UNCHANGED <<cmd, wal, entry>>
  BY DEF OpenWallet, TypeInv, TypeOK
<1>2. ASSUME NEW q \in Call, wal[q] # None  PROVE cmd[q].wallet \in Wallet \ {w}
  BY <1>1, <1>2, Memory DEF CallOKAt, Held, HeldAt
<1>3. ASSUME NEW q \in Call  PROVE HeldAt(q)'
  BY <1>1, <1>2 DEF Held, HeldAt
<1>. QED BY <1>3 DEF Held

\* The lock invariant holds throughout.
LEMMA HeldInvariant == Spec => [](TypeInv /\ Held)
<1>1. Init => TypeInv /\ Held
  BY InitTypeInv DEF Init, Held, HeldAt
<1>2. TypeInv /\ Held /\ [Next]_vars => (TypeInv /\ Held)'
  <2>. SUFFICES ASSUME TypeInv, Held, [Next]_vars  PROVE Held'
    BY NextTypeInv
  <2>1. CASE UNCHANGED vars
    BY <2>1 DEF vars, Held, HeldAt
  <2>2. CASE \E w \in Wallet, pl \in Player, u \in Currency, b \in InitialBalance :
               OpenWallet(w, pl, u, b)
    BY <2>2, OpenWalletHeld
  <2>3. ASSUME NEW p \in Call, Start(p) \/ Progress(p) \/ DeadlockVictim(p) \/ Interrupt(p)
        PROVE  Held'
    BY <2>3, LockHeld, SettleHeld, CommitHeld, OtherStepsQuiet, QuietHeld
  <2>. QED BY <2>1, <2>2, <2>3 DEF Next
<1>. QED BY <1>1, <1>2, PTL DEF Spec

\* Whatever the number of calls and however they interleave, a call that has
\* locked its wallet is the only one, and what it holds in memory is the
\* committed row until it commits: no balance is computed from a stale read.
THEOREM NeverStale == Spec => []NoStaleDecision
<1>1. TypeInv /\ Held => NoStaleDecision
  BY DEF Held, HeldAt, NoStaleDecision, HoldsWallet
<1>. QED BY <1>1, HeldInvariant, PTL

-----------------------------------------------------------------------------
(***************************************************************************)
(* The ledger.                                                             *)
(***************************************************************************)

\* The ledger l of a wallet explains its balance.
Explains(l, balance) ==
    /\ \A i \in 1..Len(l) :
         /\ l[i].before = IF i = 1 THEN 0 ELSE l[i-1].after
         /\ l[i].after = BalanceAfter(l[i].before, l[i].direction, l[i].amount)
    /\ balance = IF l = <<>> THEN 0 ELSE l[Len(l)].after

\* An entry that starts where the ledger ends extends the explanation.
LEMMA AppendExplains ==
    ASSUME NEW l \in Seq(LedgerEntry), NEW n \in LedgerEntry, NEW balance,
           Explains(l, balance), n.before = balance,
           n.after = BalanceAfter(n.before, n.direction, n.amount)
    PROVE  Explains(Append(l, n), n.after)
<1>. DEFINE m == Append(l, n)
<1>1. /\ m \in Seq(LedgerEntry) /\ Len(m) = Len(l) + 1 /\ Len(l) \in Nat
      /\ m[Len(l) + 1] = n
      /\ \A i \in 1..Len(l) : m[i] = l[i]
  OBVIOUS
<1>2. m # <<>> /\ (l = <<>> <=> Len(l) = 0)
  <2>1. l = <<>> => Len(l) = 0
    OBVIOUS
  <2>2. Len(l) = 0 => l = <<>>
    OBVIOUS
  <2>3. m # <<>>
    <3>1. Len(m) # 0
      BY <1>1
    <3>2. Len(<<>>) = 0
      OBVIOUS
    <3>. QED BY <3>1, <3>2
  <2>. QED BY <2>1, <2>2, <2>3
<1>. HIDE DEF m
<1>3. ASSUME NEW i \in 1..Len(l)
      PROVE  /\ m[i].before = IF i = 1 THEN 0 ELSE m[i-1].after
             /\ m[i].after = BalanceAfter(m[i].before, m[i].direction, m[i].amount)
  <2>1. m[i] = l[i] /\ (i # 1 => i - 1 \in 1..Len(l) /\ m[i-1] = l[i-1])
    BY <1>1
  <2>. QED BY <2>1 DEF Explains
<1>4. n.before = IF Len(l) + 1 = 1 THEN 0 ELSE m[Len(l)].after
  BY <1>1, <1>2 DEF Explains
<1>5. Explains(m, n.after)
  BY <1>1, <1>2, <1>3, <1>4 DEF Explains
<1>. QED BY <1>5 DEF m

\* The first entry of a wallet explains the balance it is opened with.
LEMMA OpeningExplains ==
    ASSUME NEW b \in Money
    PROVE  Explains(IF b > 0 THEN <<NewLedgerEntry(Opening, "CREDIT", b, 0)>> ELSE <<>>, b)
<1>1. b \in Nat
  BY MoneyAssumption DEF Money
<1>2. CASE b > 0
  <2>. DEFINE n == NewLedgerEntry(Opening, "CREDIT", b, 0)
  <2>1. n.before = 0 /\ n.after = b /\ n.after = BalanceAfter(n.before, n.direction, n.amount)
    BY <1>1 DEF NewLedgerEntry, BalanceAfter
  <2>. HIDE DEF n
  <2>2. Explains(<<n>>, b)
    BY <2>1 DEF Explains
  <2>. QED BY <1>2, <2>2 DEF n
<1>3. CASE b = 0
  BY <1>3 DEF Explains
<1>. QED BY <1>1, <1>2, <1>3

\* A commit appends one entry, computed from the balance it replaces.
LEMMA CommitExplains ==
    ASSUME TypeInv, Held, LedgerExplainsBalance, NEW p \in Call, Commit(p)
    PROVE  LedgerExplainsBalance'
<1>1. CASE entry[p] = None
  <2>1. wallets' = wallets /\ ledger' = ledger
    BY <1>1, CommitFacts
  <2>. QED BY <2>1 DEF LedgerExplainsBalance
<1>2. CASE entry[p] # None
  <2>. DEFINE w == cmd[p].wallet
  <2>1. /\ w \in Wallet /\ wal[p] \in WalletRow /\ entry[p] \in LedgerEntry
        /\ wallets' = [wallets EXCEPT ![w] = wal[p]]
        /\ ledger' = [ledger EXCEPT ![w] = Append(@, entry[p])]
    BY <1>2, CommitFacts
  <2>2. /\ wallets[w] # None /\ entry[p].before = wallets[w].balance
        /\ entry[p].after = wal[p].balance
        /\ entry[p].after = BalanceAfter(entry[p].before, entry[p].direction, entry[p].amount)
    BY <1>2, Memory DEF Held, HeldAt, CallOKAt
  <2>3. ledger[w] \in Seq(LedgerEntry) /\ Explains(ledger[w], wallets[w].balance)
    BY <2>1, <2>2 DEF LedgerExplainsBalance, Explains, TypeInv, TypeOK
  <2>4. Explains(Append(ledger[w], entry[p]), wal[p].balance)
    BY <2>1, <2>2, <2>3, AppendExplains
  <2>5. /\ ledger'[w] = Append(ledger[w], entry[p]) /\ wallets'[w] = wal[p]
        /\ \A v \in Wallet \ {w} : ledger'[v] = ledger[v] /\ wallets'[v] = wallets[v]
    BY <2>1 DEF TypeInv, TypeOK
  <2>. HIDE DEF w
  <2>6. Explains(ledger'[w], wallets'[w].balance)
    BY <2>4, <2>5
  <2>7. ASSUME NEW v \in Wallet, v # w, wallets'[v] # None
        PROVE  Explains(ledger'[v], wallets'[v].balance)
    <3>1. Explains(ledger[v], wallets[v].balance)
      BY <2>5, <2>7 DEF LedgerExplainsBalance, Explains
    <3>. QED BY <2>5, <2>7, <3>1
  <2>. QED BY <2>6, <2>7 DEF LedgerExplainsBalance, Explains
<1>. QED BY <1>1, <1>2

\* A wallet that opens starts a ledger, and leaves the others alone.
LEMMA OpenWalletExplains ==
    ASSUME TypeInv, LedgerExplainsBalance, NEW w \in Wallet, NEW pl \in Player,
           NEW u \in Currency, NEW b \in InitialBalance, OpenWallet(w, pl, u, b)
    PROVE  LedgerExplainsBalance'
<1>. DEFINE first == IF b > 0 THEN <<NewLedgerEntry(Opening, "CREDIT", b, 0)>> ELSE <<>>
<1>1. Explains(first, b)
  BY InitialBalanceAssumption, OpeningExplains
<1>2. /\ wallets' = [wallets EXCEPT ![w] =
             [player |-> pl, currency |-> u, balance |-> b, version |-> 1]]
      /\ ledger' = [ledger EXCEPT ![w] = first]
  BY DEF OpenWallet
<1>. HIDE DEF first
<1>3. /\ ledger'[w] = first /\ wallets'[w].balance = b
      /\ \A v \in Wallet \ {w} : ledger'[v] = ledger[v] /\ wallets'[v] = wallets[v]
  BY <1>2 DEF TypeInv, TypeOK
<1>4. ASSUME NEW v \in Wallet, wallets'[v] # None
      PROVE  Explains(ledger'[v], wallets'[v].balance)
  <2>1. CASE v = w
    BY <1>1, <1>3, <2>1
  <2>2. CASE v # w
    <3>1. Explains(ledger[v], wallets[v].balance)
      BY <1>3, <1>4, <2>2 DEF LedgerExplainsBalance, Explains
    <3>. QED BY <1>3, <2>2, <3>1
  <2>. QED BY <2>1, <2>2
<1>. QED BY <1>4 DEF LedgerExplainsBalance, Explains

\* For any wallets, commands and calls, replaying a wallet's ledger from zero
\* gives its stored balance, entry after entry: what Reconcile looks for
\* between the two is never there.
THEOREM LedgerReconciles == Spec => []LedgerExplainsBalance
<1>1. Init => LedgerExplainsBalance
  BY DEF Init, LedgerExplainsBalance
<1>2. /\ TypeInv /\ Held /\ LedgerExplainsBalance /\ [Next]_vars
      => LedgerExplainsBalance'
  <2>. SUFFICES ASSUME TypeInv, Held, LedgerExplainsBalance, [Next]_vars
                PROVE  LedgerExplainsBalance'
    OBVIOUS
  <2>1. CASE UNCHANGED <<wallets, ledger>>
    BY <2>1 DEF LedgerExplainsBalance
  <2>2. CASE \E w \in Wallet, pl \in Player, u \in Currency, b \in InitialBalance :
               OpenWallet(w, pl, u, b)
    BY <2>2, OpenWalletExplains
  <2>3. ASSUME NEW p \in Call, Start(p) \/ Progress(p) \/ DeadlockVictim(p) \/ Interrupt(p)
        PROVE  LedgerExplainsBalance'
    <3>1. CASE LockByID(p) \/ Settle(p)
      BY <2>1, <3>1 DEF LockByID, Settle, Outcome, tables
    <3>2. CASE Commit(p)
      BY <3>2, CommitExplains
    <3>3. CASE Quiet(p)
      BY <2>1, <3>3 DEF Quiet
    <3>. QED BY <2>3, <3>1, <3>2, <3>3, OtherStepsQuiet
  <2>. QED BY <2>1, <2>2, <2>3 DEF Next, vars
<1>. QED BY <1>1, <1>2, HeldInvariant, PTL DEF Spec

-----------------------------------------------------------------------------
(***************************************************************************)
(* The row of an operation.                                                *)
(***************************************************************************)

\* The steps at which a call has inserted or found the row of its operation.
Inside == {"fkey", "lock", "decide", "move", "update", "commit"}

\* What a call knows of the row of its operation: the one it inserted is its
\* own and nobody sees it yet; the one it found is stored; and at its commit,
\* alone with the row lock, that row has not concluded.
OwnsAt(p) ==
    /\ fresh[p] =>
         /\ pc[p] \in Inside
         /\ rows[cmd[p].ext] = None
         /\ \A q \in Call \ {p} : fresh[q] => cmd[q].ext # cmd[p].ext
    /\ ~fresh[p] /\ pc[p] \in Inside => rows[cmd[p].ext] # None
    /\ pc[p] = "commit" =>
         /\ ~fresh[p] => ~IsTerminal(rows[cmd[p].ext].state)
         /\ \A q \in Call \ {p} : pc[q] = "commit" => cmd[q].ext # cmd[p].ext

Owns == \A p \in Call : OwnsAt(p)

\* A step of p that writes no row, marks no row and takes no row lock keeps
\* what the others know.
LEMMA OthersOwn ==
    ASSUME TypeInv, Owns, NEW p \in Call, rows' = rows,
           \A q \in Call \ {p} : Untouched(q),
           fresh'[p] => fresh[p] /\ cmd'[p] = cmd[p],
           pc'[p] # "commit",
           NEW q \in Call, q # p
    PROVE  OwnsAt(q)'
<1>1. /\ fresh'[q] = fresh[q] /\ pc'[q] = pc[q] /\ cmd'[q] = cmd[q]
      /\ \A r \in Call : fresh'[r] => fresh[r] /\ cmd'[r] = cmd[r]
      /\ \A r \in Call : pc'[r] = "commit" => pc[r] = "commit" /\ cmd'[r] = cmd[r]
  BY DEF Untouched, SameCall
<1>. QED BY <1>1 DEF Owns, OwnsAt

\* A call that is out of the section keeps nothing.
LEMMA OutsideOwns ==
    ASSUME TypeInv, Owns, NEW p \in Call, Quiet(p), ~fresh'[p], pc'[p] \notin Inside
    PROVE  Owns'
<1>1. \A q \in Call \ {p} : OwnsAt(q)'
  BY OthersOwn DEF Quiet, Inside
<1>2. OwnsAt(p)'
  BY DEF OwnsAt, Inside
<1>. QED BY <1>1, <1>2 DEF Owns

\* A call that goes on inside the section knows what it knew.
LEMMA InsideOwns ==
    ASSUME TypeInv, Owns, NEW p \in Call, rows' = rows,
           \A q \in Call \ {p} : Untouched(q),
           fresh' = fresh, cmd' = cmd, pc[p] \in Inside, pc'[p] \in Inside \ {"commit"}
    PROVE  Owns'
<1>1. \A q \in Call \ {p} : OwnsAt(q)'
  BY OthersOwn
<1>2. OwnsAt(p)'
  BY DEF Owns, OwnsAt
<1>. QED BY <1>1, <1>2 DEF Owns

\* Where a step of p leads when it ends the transaction.
LEMMA EndOutside ==
    ASSUME TypeInv, NEW p \in Call
    PROVE  /\ \A r : Answer(p, r) => ~fresh'[p] /\ pc'[p] \notin Inside
           /\ \A e : Fail(p, e) => ~fresh'[p] /\ pc'[p] \notin Inside
           /\ \A r : FinishUnchanged(p, r) => ~fresh'[p] /\ pc'[p] \notin Inside
           /\ Conflict(p) => ~fresh'[p] /\ pc'[p] \notin Inside
<1>1. \A r : Answer(p, r) => ~fresh'[p] /\ pc'[p] \notin Inside
  BY DEF Answer, Discard, Inside, TypeInv, TypeOK
<1>2. Conflict(p) => ~fresh'[p] /\ pc'[p] \notin Inside
  <2>1. CASE Fail(p, "ErrConcurrentUpdate")
    BY <1>1, <2>1 DEF Fail
  <2>2. ASSUME NEW s \in {"find", "register"}, Discard(p), pc' = [pc EXCEPT ![p] = s]
        PROVE  ~fresh'[p] /\ pc'[p] \notin Inside
    BY <2>2 DEF Discard, Inside, TypeInv, TypeOK
  <2>. QED BY <2>1, <2>2 DEF Conflict
<1>. QED BY <1>1, <1>2 DEF Fail, FinishUnchanged

\* A call goes to a step.
LEMMA GotoAt ==
    ASSUME TypeInv, NEW p \in Call, NEW step, Goto(p, step)
    PROVE  pc'[p] = step
BY DEF Goto, TypeInv, TypeOK

\* The lookup leaves the call outside, or holding what is stored.
LEMMA FindOwns ==
    ASSUME TypeInv, Owns, NEW p \in Call, Find(p)
    PROVE  Owns'
<1>1. Quiet(p) /\ pc[p] = "find" /\ ~fresh[p]
  BY OtherStepsQuiet DEF Progress, Find, At, LockByID, Settle, Decided, Commit, Owns, OwnsAt, Inside
<1>2. CASE ~fresh'[p] /\ pc'[p] \notin Inside
  BY <1>1, <1>2, OutsideOwns
<1>3. CASE Goto(p, "insert") /\ fresh' = fresh
  BY <1>1, <1>3, GotoAt, OutsideOwns DEF Inside
<1>4. CASE rows[cmd[p].ext] # None /\ Goto(p, "lock") /\ UNCHANGED <<rows, cmd, fresh>>
  <2>1. pc'[p] = "lock"
    BY <1>4, GotoAt
  <2>2. \A q \in Call \ {p} : OwnsAt(q)'
    BY <1>1, <1>4, <2>1, OthersOwn DEF Quiet
  <2>3. OwnsAt(p)'
    BY <1>1, <1>4, <2>1 DEF OwnsAt
  <2>. QED BY <2>2, <2>3 DEF Owns
<1>. QED BY <1>2, <1>3, <1>4, EndOutside DEF Find, tables

\* An insert that goes through leaves the call alone with a row nobody stored.
LEMMA InsertOwns ==
    ASSUME TypeInv, Owns, NEW p \in Call, Insert(p)
    PROVE  Owns'
<1>1. Quiet(p) /\ pc[p] = "insert"
  BY OtherStepsQuiet DEF Progress, Insert, At, LockByID, Settle, Decided, Commit
<1>2. CASE Conflict(p)
  BY <1>1, <1>2, EndOutside, OutsideOwns
<1>3. CASE /\ ~TakenByAnother(cmd[p]) /\ fresh' = [fresh EXCEPT ![p] = TRUE] /\ Goto(p, "fkey")
           /\ UNCHANGED <<tables, cmd>>
  <2>1. /\ pc'[p] = "fkey" /\ fresh'[p] /\ cmd' = cmd /\ rows' = rows
        /\ \A q \in Call \ {p} : fresh'[q] = fresh[q] /\ pc'[q] = pc[q]
    BY <1>1, <1>3, GotoAt DEF tables, Quiet, Untouched, SameCall, TypeInv, TypeOK
  <2>2. cmd[p].ext \in Ext
    BY <1>1, Memory
  <2>3. rows[cmd[p].ext] = None
    BY <1>3, <2>2 DEF TakenByAnother
  <2>4. \A q \in Call \ {p} : fresh[q] => cmd[q].ext # cmd[p].ext
    BY <1>1 DEF Insert, At, Blockers, Blocks, HoldsUnique
  <2>5. OwnsAt(p)'
    BY <2>1, <2>3, <2>4 DEF OwnsAt, Inside
  <2>6. ASSUME NEW q \in Call, q # p  PROVE OwnsAt(q)'
    BY <2>1, <2>4, <2>6 DEF Owns, OwnsAt
  <2>. QED BY <2>5, <2>6 DEF Owns
<1>. QED BY <1>2, <1>3 DEF Insert

\* The row lock is granted alone, and the trigger has let the row pass.
LEMMA UpdateOwns ==
    ASSUME TypeInv, Owns, NEW p \in Call, Update(p)
    PROVE  Owns'
<1>1. Quiet(p) /\ pc[p] = "update"
  BY OtherStepsQuiet DEF Progress, Update, At, LockByID, Settle, Decided, Commit
<1>2. CASE Conflict(p) \/ Fail(p, "TerminalRow")
  BY <1>1, <1>2, EndOutside, OutsideOwns
<1>3. CASE ~RefusedByTrigger(p) /\ Goto(p, "commit") /\ UNCHANGED <<tables, cmd, fresh>>
  <2>1. /\ pc'[p] = "commit" /\ fresh' = fresh /\ cmd' = cmd /\ rows' = rows
        /\ \A q \in Call \ {p} : pc'[q] = pc[q]
    BY <1>1, <1>3, GotoAt DEF tables, Quiet, Untouched, SameCall
  <2>2. \A q \in Call \ {p} : pc[q] = "commit" => cmd[q].ext # cmd[p].ext
    BY <1>1 DEF Update, At, Blockers, Blocks, HoldsRow
  <2>3. OwnsAt(p)'
    BY <1>1, <1>3, <2>1, <2>2 DEF Owns, OwnsAt, Inside, RefusedByTrigger
  <2>4. ASSUME NEW q \in Call, q # p  PROVE OwnsAt(q)'
    BY <2>1, <2>2, <2>4 DEF Owns, OwnsAt
  <2>. QED BY <2>3, <2>4 DEF Owns
<1>. QED BY <1>2, <1>3 DEF Update

\* A commit writes the row of its own operation only.
LEMMA CommitOwns ==
    ASSUME TypeInv, Owns, NEW p \in Call, Commit(p)
    PROVE  Owns'
<1>1. pc[p] = "commit" /\ OwnsAt(p)
  BY DEF Commit, At, Owns
<1>2. /\ \A q \in Call \ {p} : Untouched(q)
      /\ ~fresh'[p] /\ pc'[p] = "reply" /\ cmd' = cmd
      /\ cmd[p].ext \in Ext /\ op[p] # None
      /\ rows' = [rows EXCEPT ![cmd[p].ext] = op[p]]
  BY CommitFacts
<1>3. OwnsAt(p)'
  BY <1>2 DEF OwnsAt, Inside
<1>4. ASSUME NEW q \in Call, q # p  PROVE OwnsAt(q)'
  <2>1. /\ fresh'[q] = fresh[q] /\ pc'[q] = pc[q] /\ cmd'[q] = cmd[q]
        /\ \A r \in Call : fresh'[r] => fresh[r] /\ cmd'[r] = cmd[r]
        /\ \A r \in Call : pc'[r] = "commit" => pc[r] = "commit" /\ cmd'[r] = cmd[r]
    BY <1>2, <1>4 DEF Untouched, SameCall
  <2>2. pc[q] \in Inside => cmd[q].ext \in Ext
    BY Memory DEF Inside
  <2>3. OwnsAt(q)
    BY DEF Owns
  <2>4. pc[q] \in Inside =>
          /\ rows[cmd[q].ext] # None => rows'[cmd[q].ext] # None
          /\ cmd[q].ext # cmd[p].ext => rows'[cmd[q].ext] = rows[cmd[q].ext]
    BY <1>2, <2>2 DEF TypeInv, TypeOK
  <2>5. fresh[q] => cmd[q].ext # cmd[p].ext
    BY <1>1, <1>4, <2>3 DEF OwnsAt, Inside
  <2>6. pc[q] = "commit" => cmd[q].ext # cmd[p].ext
    BY <1>1, <1>4 DEF OwnsAt
  <2>. QED BY <2>1, <2>3, <2>4, <2>5, <2>6 DEF OwnsAt, Inside
<1>. QED BY <1>3, <1>4 DEF Owns

\* The other steps of a call.
LEMMA OtherStepsOwn ==
    ASSUME TypeInv, Owns, NEW p \in Call,
           \/ Start(p) \/ DeadlockVictim(p) \/ Interrupt(p)
           \/ Progress(p) /\ ~Commit(p)
    PROVE  Owns'
<1>0. OwnsAt(p)
  BY DEF Owns
<1>1. ASSUME Quiet(p), ~fresh'[p], pc'[p] \notin Inside  PROVE Owns'
  BY <1>1, OutsideOwns
<1>2. ASSUME NEW c, NEW id, NEW step \in {"register", "find", "expire"},
             Begin(p, c, id, step)
      PROVE  ~fresh'[p] /\ pc'[p] \notin Inside
  BY <1>0, <1>2, GotoAt DEF Begin, Inside, OwnsAt
<1>3. CASE Start(p)
  <2>1. ~fresh'[p] /\ pc'[p] \notin Inside
    BY <1>2, <1>3 DEF Start, Execute, ExecuteFromMessage, Expire
  <2>. QED BY <1>1, <1>3, <2>1, OtherStepsQuiet
<1>4. CASE DeadlockVictim(p) \/ Interrupt(p)
  BY <1>1, <1>4, EndOutside, OtherStepsQuiet DEF DeadlockVictim, Interrupt
<1>5. CASE Progress(p) /\ ~Commit(p)
  <2>1. CASE LockByID(p) \/ Settle(p)
    <3>1. \E step \in Inside \ {"commit"} : Goto(p, step)
      BY <2>1 DEF LockByID, Settle, Inside
    <3>2. pc[p] \in Inside /\ UNCHANGED <<rows, fresh, cmd>>
      BY <2>1 DEF LockByID, Settle, At, Decided, Outcome, tables, Inside
    <3>3. \A q \in Call \ {p} : Untouched(q)
      BY <2>1 DEF LockByID, Settle, Outcome, Goto, Untouched, SameCall, TypeInv, TypeOK
    <3>. QED BY <3>1, <3>2, <3>3, GotoAt, InsideOwns
  <2>2. CASE ~LockByID(p) /\ ~Settle(p)
    <3>1. Quiet(p)
      BY <1>5, <2>2, OtherStepsQuiet
    <3>2. /\ rows' = rows /\ \A q \in Call \ {p} : Untouched(q)
      BY <3>1 DEF Quiet
    <3>3. CASE ~fresh'[p] /\ pc'[p] \notin Inside
      BY <1>1, <3>1, <3>3
    <3>4. CASE /\ \E step \in Inside \ {"commit"} : Goto(p, step)
               /\ UNCHANGED <<fresh, cmd>> /\ pc[p] \in Inside
      BY <3>2, <3>4, GotoAt, InsideOwns
    <3>5. CASE Register(p)
      <4>1. CASE Goto(p, "find") /\ UNCHANGED fresh
        BY <1>0, <3>3, <3>5, <4>1, GotoAt DEF Register, At, Inside, OwnsAt
      <4>. QED BY <3>3, <3>5, <4>1, EndOutside DEF Register
    <3>6. CASE Find(p) \/ Insert(p) \/ Update(p)
      BY <3>6, FindOwns, InsertOwns, UpdateOwns
    <3>7. CASE ForeignKey(p)
      BY <3>3, <3>4, <3>7, EndOutside DEF ForeignKey, At, Inside
    <3>8. CASE StayParked(p) \/ Overflow(p)
      BY <3>3, <3>8, EndOutside DEF StayParked, Overflow
    <3>9. CASE ParkNew(p) \/ RejectOp(p) \/ ConcludeLoss(p)
      BY <3>4, <3>9 DEF ParkNew, RejectOp, ConcludeLoss, Decided, Outcome, Inside
    <3>10. CASE MoveBalance(p)
      BY <3>3, <3>4, <3>10, EndOutside DEF MoveBalance, At, Inside
    <3>11. CASE ExpireRow(p)
      <4>1. CASE \E r : FinishUnchanged(p, r)
        BY <3>3, <4>1, EndOutside
      <4>2. CASE \E t : Outcome(p, t) /\ Goto(p, "update")
        <5>1. pc[p] = "expire" /\ pc'[p] = "update" /\ UNCHANGED <<fresh, cmd>>
          BY <3>11, <4>2, GotoAt DEF ExpireRow, At, Outcome
        <5>2. ~fresh[p] /\ rows[cmd[p].ext] # None
          BY <1>0, <5>1, Memory DEF OwnsAt, Inside, CallOKAt
        <5>3. \A q \in Call \ {p} : OwnsAt(q)'
          BY <3>2, <5>1, <5>2, OthersOwn
        <5>4. OwnsAt(p)'
          BY <3>2, <5>1, <5>2 DEF OwnsAt
        <5>. QED BY <5>3, <5>4 DEF Owns
      <4>. QED BY <3>11, <4>1, <4>2 DEF ExpireRow
    <3>12. CASE Return(p)
      BY <1>0, <3>3, <3>12, GotoAt DEF Return, Inside, OwnsAt
    <3>. QED BY <1>5, <2>2, <3>5, <3>6, <3>7, <3>8, <3>9, <3>10, <3>11, <3>12 DEF Progress
  <2>. QED BY <2>1, <2>2
<1>. QED BY <1>3, <1>4, <1>5

\* The row invariant holds throughout.
LEMMA OwnsInvariant == Spec => [](TypeInv /\ Owns)
<1>1. Init => TypeInv /\ Owns
  BY InitTypeInv DEF Init, Owns, OwnsAt, Inside
<1>2. TypeInv /\ Owns /\ [Next]_vars => (TypeInv /\ Owns)'
  <2>. SUFFICES ASSUME TypeInv, Owns, [Next]_vars  PROVE Owns'
    BY NextTypeInv
  <2>1. CASE UNCHANGED <<rows, pc, cmd, fresh>>
    BY <2>1 DEF Owns, OwnsAt
  <2>2. CASE \E w \in Wallet, pl \in Player, u \in Currency, b \in InitialBalance :
               OpenWallet(w, pl, u, b)
    BY <2>1, <2>2 DEF OpenWallet
  <2>3. ASSUME NEW p \in Call, Start(p) \/ Progress(p) \/ DeadlockVictim(p) \/ Interrupt(p)
        PROVE  Owns'
    BY <2>3, CommitOwns, OtherStepsOwn
  <2>. QED BY <2>1, <2>2, <2>3 DEF Next, vars
<1>. QED BY <1>1, <1>2, PTL DEF Spec

\* A concluded row is never written again, whoever still holds a copy of it
\* from before: the row lock admits one writer, and the guard of the table
\* refuses the ones that come after the conclusion.
THEOREM ConcludedForGood == Spec => TerminalForGood
<1>. DEFINE A == \A e \in Ext :
                   rows[e] # None /\ IsTerminal(rows[e].state) => rows'[e] = rows[e]
<1>1. TypeInv /\ Owns /\ [Next]_vars => [A]_rows
  <2>. SUFFICES ASSUME TypeInv, Owns, [Next]_vars, rows' # rows  PROVE A
    OBVIOUS
  <2>1. PICK p \in Call : Commit(p)
    <3>1. ~ \E w \in Wallet, pl \in Player, u \in Currency, b \in InitialBalance :
              OpenWallet(w, pl, u, b)
      BY DEF OpenWallet
    <3>2. ASSUME NEW p \in Call, LockByID(p) \/ Settle(p)  PROVE FALSE
      BY <3>2 DEF LockByID, Settle, Outcome, tables
    <3>3. ASSUME NEW p \in Call, Quiet(p)  PROVE FALSE
      BY <3>3 DEF Quiet
    <3>4. PICK p \in Call : Start(p) \/ Progress(p) \/ DeadlockVictim(p) \/ Interrupt(p)
      BY <3>1 DEF Next, vars
    <3>5. Commit(p)
      BY <3>2, <3>3, <3>4, OtherStepsQuiet
    <3>. QED BY <3>5
  <2>2. /\ rows' = [rows EXCEPT ![cmd[p].ext] = op[p]]
        /\ rows[cmd[p].ext] # None => ~IsTerminal(rows[cmd[p].ext].state)
    BY <2>1, CommitFacts DEF Commit, At, Owns, OwnsAt, Inside
  <2>. QED BY <2>2 DEF TypeInv, TypeOK
<1>. QED BY <1>1, OwnsInvariant, PTL DEF Spec, TerminalForGood
=============================================================================
