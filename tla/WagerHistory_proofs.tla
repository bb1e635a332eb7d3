------------------------- MODULE WagerHistory_proofs -------------------------
(***************************************************************************)
(* What becomes of an operation, for every value of the constants: what a  *)
(* caller is told is what is stored, a message marked as handled has its   *)
(* operation, an operation moves money once, with its events, and is       *)
(* returned once, and all of it amounts to a sequential wallet.  On top    *)
(* of the lock on its wallet and on its row, a call has to know that the   *)
(* operation it holds in memory is the one that is stored, that what it is *)
(* about to write is its one conclusion, and that its decision is still    *)
(* the verdict over the tables it commits to.                              *)
(***************************************************************************)
EXTENDS WagerProcessing_proofs, FiniteSetTheorems

\* The operation a call holds, by the step it is at.
SameOperation(p) ==
    /\ op[p] # None => PayloadHash(op[p].cmd) = PayloadHash(cmd[p])
    /\ pc[p] \in Inside /\ ~fresh[p] => rows[cmd[p].ext].cmd = op[p].cmd
    /\ pc[p] = "expire" => rows[cmd[p].ext].cmd = cmd[p]

\* How far that operation has come.  A parked operation is parked once.
OneConclusion(p) ==
    /\ pc[p] = "insert" => op[p].state = "PENDING"
    /\ pc[p] \in {"fkey", "lock", "decide"} =>
         op[p].state = IF fresh[p] THEN "PENDING" ELSE "PENDING_REFERENCE"
    /\ pc[p] \in {"move", "update", "commit"} =>
         IsTerminal(op[p].state) \/ (fresh[p] /\ op[p].state = "PENDING_REFERENCE")

\* The entry of a call is the movement it concludes with; a conclusion
\* without one is the one of a LOSS.
EntryConcludes(p) ==
    /\ pc[p] \in {"move", "update", "commit"} /\ op[p].state = "PROCESSED" =>
         (entry[p] = None <=> cmd[p].kind = "LOSS")
    /\ entry[p] # None =>
         /\ op[p].state = "PROCESSED"
         /\ entry[p].tx = cmd[p].ext
         /\ entry[p].amount = cmd[p].amount
         /\ entry[p].after = op[p].result

KnowsAt(p) == SameOperation(p) /\ OneConclusion(p) /\ EntryConcludes(p)

Known == \A p \in Call : KnowsAt(p)

\* Nothing uncommitted is stored, and a wallet has no history before it opens.
Clean ==
    /\ \A e \in Ext : rows[e] # None => rows[e].state # "PENDING"
    /\ \A w \in Wallet : wallets[w] = None => ledger[w] = <<>>

-----------------------------------------------------------------------------
(***************************************************************************)
(* The operation in memory.                                                *)
(***************************************************************************)

\* A stored row keeps its command.
CommandsKept ==
    \A e \in Ext : rows[e] # None => rows'[e] # None /\ rows'[e].cmd = rows[e].cmd

\* The steps of other calls change nothing of what a call knows.
LEMMA OthersKnow ==
    ASSUME TypeInv, Owns, Known, CommandsKept, NEW q \in Call, Untouched(q)
    PROVE  KnowsAt(q)'
<1>1. /\ pc'[q] = pc[q] /\ cmd'[q] = cmd[q] /\ op'[q] = op[q] /\ entry'[q] = entry[q]
      /\ fresh'[q] = fresh[q]
  BY DEF Untouched, SameCall
<1>2. (pc[q] \in Inside /\ ~fresh[q]) \/ pc[q] = "expire" =>
        cmd[q].ext \in Ext /\ rows[cmd[q].ext] # None
  BY Memory DEF Owns, OwnsAt, Inside, CallOKAt
<1>3. SameOperation(q)'
  BY <1>1, <1>2 DEF Known, KnowsAt, SameOperation, CommandsKept
<1>4. OneConclusion(q)'
  BY <1>1 DEF Known, KnowsAt, OneConclusion
<1>5. EntryConcludes(q)'
  BY <1>1 DEF Known, KnowsAt, EntryConcludes
<1>. QED BY <1>3, <1>4, <1>5 DEF KnowsAt

\* A commit writes a row of the command that is stored.
LEMMA CommitKeeps ==
    ASSUME TypeInv, Owns, Known, NEW p \in Call, Commit(p)
    PROVE  /\ CommandsKept
           /\ rows[cmd[p].ext] # None => rows[cmd[p].ext].cmd = op[p].cmd
           /\ rows'[cmd[p].ext] = op[p]
           /\ \A e \in Ext \ {cmd[p].ext} : rows'[e] = rows[e]
<1>1. pc[p] = "commit"
  BY DEF Commit, At
<1>2. rows[cmd[p].ext] # None => rows[cmd[p].ext].cmd = op[p].cmd
  BY <1>1 DEF Owns, OwnsAt, Known, KnowsAt, SameOperation, Inside
<1>3. /\ cmd[p].ext \in Ext /\ op[p] # None
      /\ rows' = [rows EXCEPT ![cmd[p].ext] = op[p]]
  BY CommitFacts
<1>4. rows'[cmd[p].ext] = op[p] /\ \A e \in Ext \ {cmd[p].ext} : rows'[e] = rows[e]
  BY <1>3 DEF TypeInv, TypeOK
<1>. QED BY <1>2, <1>3, <1>4 DEF CommandsKept

\* What a call without a transaction knows is nothing.
LEMMA NothingKnown ==
    ASSUME NEW p \in Call, op'[p] = None, entry'[p] = None,
           pc'[p] \in {"idle", "register", "find", "reply"}
    PROVE  KnowsAt(p)'
BY DEF KnowsAt, SameOperation, OneConclusion, EntryConcludes, Inside

\* Where a transaction that ends leads.
LEMMA EndForgets ==
    ASSUME TypeInv, NEW p \in Call,
           \/ \E r : Answer(p, r)
           \/ \E e : Fail(p, e)
           \/ \E r : FinishUnchanged(p, r)
           \/ Conflict(p)
    PROVE  /\ op'[p] = None /\ entry'[p] = None
           /\ pc'[p] \in {"idle", "register", "find", "reply"}
<1>1. ASSUME NEW r, Answer(p, r)
      PROVE  op'[p] = None /\ entry'[p] = None /\ pc'[p] = "reply"
  BY <1>1 DEF Answer, Discard, TypeInv, TypeOK
<1>2. ASSUME NEW s \in {"find", "register"}, Discard(p), pc' = [pc EXCEPT ![p] = s]
      PROVE  op'[p] = None /\ entry'[p] = None /\ pc'[p] \in {"find", "register"}
  BY <1>2 DEF Discard, TypeInv, TypeOK
<1>. QED BY <1>1, <1>2 DEF Fail, FinishUnchanged, Conflict

\* A call that moves on with what it has.
LEMMA GoesOn ==
    ASSUME TypeInv, Known, NEW p \in Call, NEW step, Goto(p, step),
           UNCHANGED <<rows, cmd, op, entry>>, fresh'[p] = fresh[p],
           \/ pc[p] = "fkey" /\ step = "lock"
           \/ pc[p] = "lock" /\ step = "decide"
           \/ pc[p] = "move" /\ step = "update"
           \/ pc[p] = "update" /\ step = "commit"
    PROVE  KnowsAt(p)'
<1>1. pc'[p] = step
  BY GotoAt
<1>2. SameOperation(p) /\ OneConclusion(p) /\ EntryConcludes(p)
  BY DEF Known, KnowsAt
<1>3. SameOperation(p)'
  BY <1>1, <1>2 DEF SameOperation, Inside
<1>4. OneConclusion(p)'
  BY <1>1, <1>2 DEF OneConclusion
<1>5. entry[p] = None => pc[p] # "move"
  BY Memory DEF CallOKAt
<1>6. EntryConcludes(p)'
  BY <1>1, <1>2, <1>5 DEF EntryConcludes
<1>. QED BY <1>3, <1>4, <1>6 DEF KnowsAt

\* Only a LOSS is concluded without a movement.
LEMMA LossAlone ==
    ASSUME NEW c \in WagerCommand, NEW w, NEW r, NEW b \in BOOLEAN
    PROVE  /\ apply(c, w, r, b).act = "MOVE" => c.kind # "LOSS"
           /\ apply(c, w, r, b).act = "CONCLUDE" => c.kind = "LOSS"
<1>1. \A d, ref : /\ settle(c, w, d, ref).act = "MOVE" => d # None
                  /\ settle(c, w, d, ref).act = "CONCLUDE" => d = None
  BY DEF settle, Verdict
<1>2. c.kind \in ExternalKind
  BY DEF WagerCommand
<1>3. \A k \in ExternalKind \ {"LOSS", "ROLLBACK"} : DirectionOf(k) # None
  BY DirectionAssumption DEF DirectionOf, Direction, ExternalKind
<1>4. DirectionOf("LOSS") = None
  BY DEF DirectionOf
<1>5. \A k : Opposite(k) # None
  BY DirectionAssumption DEF Opposite, Direction
<1>6. RequiresReference(c.kind) => \A k : movementOf(c, k) # None /\ c.kind # "LOSS"
  BY <1>2, <1>3, <1>5 DEF movementOf, RequiresReference, ExternalKind
<1>7. ~RequiresReference(c.kind) => (DirectionOf(c.kind) = None <=> c.kind = "LOSS")
  BY <1>2, <1>3, <1>4 DEF RequiresReference, ExternalKind
<1>8. /\ resolveReference(c, w, r, b).act = "MOVE" => c.kind # "LOSS"
      /\ resolveReference(c, w, r, b).act = "CONCLUDE" => c.kind = "LOSS"
  BY <1>1, <1>6, <1>7 DEF resolveReference, Verdict, Refuse
<1>. QED BY <1>8 DEF apply, Verdict, Refuse

\* A call that reaches an outcome: its operation stays what it was, and has
\* concluded or is parked for the first time.
LEMMA OutcomeKnown ==
    ASSUME TypeInv, Owns, Known, NEW p \in Call, pc[p] \in {"decide", "expire"},
           NEW t, Outcome(p, t), Goto(p, "update"), UNCHANGED <<wal, entry>>,
           PayloadHash(t.cmd) = PayloadHash(cmd[p]),
           ~fresh[p] => t.cmd = rows[cmd[p].ext].cmd,
           IsTerminal(t.state) \/ (fresh[p] /\ t.state = "PENDING_REFERENCE"),
           t.state = "PROCESSED" => cmd[p].kind = "LOSS"
    PROVE  KnowsAt(p)'
<1>1. /\ pc'[p] = "update" /\ op'[p] = t /\ cmd' = cmd /\ fresh' = fresh /\ rows' = rows
      /\ entry'[p] = entry[p]
  BY GotoAt DEF Outcome, tables, TypeInv, TypeOK
<1>2. entry[p] = None
  BY Memory DEF CallOKAt
<1>. QED
  BY <1>1, <1>2 DEF KnowsAt, SameOperation, OneConclusion, EntryConcludes

\* The state an outcome gives an operation, whose command it keeps.
LEMMA OutcomeStates ==
    ASSUME NEW t \in TransactionRow
    PROVE  /\ \A b, ref : /\ MarkAsProcessed(t, b, ref).cmd = t.cmd
                          /\ MarkAsProcessed(t, b, ref).state = "PROCESSED"
                          /\ MarkAsProcessed(t, b, ref).result = b
           /\ \A code, ref : /\ Reject(t, code, ref).cmd = t.cmd
                             /\ Reject(t, code, ref).state = "REJECTED"
           /\ MarkAsPendingReference(t).cmd = t.cmd
           /\ MarkAsPendingReference(t).state = "PENDING_REFERENCE"
BY DEF MarkAsProcessed, Reject, MarkAsPendingReference, TransactionRow

\* The verdicts of a call that has decided.
LEMMA DecidedKnows ==
    ASSUME TypeInv, Owns, Known, NEW p \in Call, pc[p] = "decide"
    PROVE  /\ op[p] \in TransactionRow
           /\ PayloadHash(op[p].cmd) = PayloadHash(cmd[p])
           /\ ~fresh[p] => op[p].cmd = rows[cmd[p].ext].cmd
           /\ op[p].state # "PENDING_REFERENCE" => fresh[p]
           /\ VerdictOf(p).act = "MOVE" => cmd[p].kind # "LOSS"
           /\ VerdictOf(p).act = "CONCLUDE" => cmd[p].kind = "LOSS"
<1>1. op[p] \in TransactionRow /\ op[p] # None /\ cmd[p] \in WagerCommand
  BY DecideFacts
<1>2. SameOperation(p) /\ OneConclusion(p)
  BY DEF Known, KnowsAt
<1>3. HasProcessedReversal(rows, cmd[p].ref) \in BOOLEAN
  BY DEF HasProcessedReversal
<1>4. /\ VerdictOf(p).act = "MOVE" => cmd[p].kind # "LOSS"
      /\ VerdictOf(p).act = "CONCLUDE" => cmd[p].kind = "LOSS"
  BY <1>1, <1>3, LossAlone DEF VerdictOf
<1>. QED BY <1>1, <1>2, <1>4 DEF SameOperation, OneConclusion, Inside

LEMMA DecisionKnown ==
    ASSUME TypeInv, Owns, Known, NEW p \in Call,
           ParkNew(p) \/ RejectOp(p) \/ ConcludeLoss(p)
    PROVE  KnowsAt(p)'
<1>1. pc[p] = "decide"
  BY DEF ParkNew, RejectOp, ConcludeLoss, Decided
<1>2. CASE ParkNew(p)
  <2>. DEFINE t == MarkAsPendingReference(op[p])
  <2>1. t.cmd = op[p].cmd /\ t.state = "PENDING_REFERENCE" /\ fresh[p]
    BY <1>1, <1>2, DecidedKnows, OutcomeStates DEF ParkNew
  <2>. HIDE DEF t
  <2>. QED BY <1>1, <1>2, <2>1, DecidedKnows, OutcomeKnown DEF ParkNew, t
<1>3. CASE RejectOp(p)
  <2>. DEFINE t == Reject(op[p], VerdictOf(p).code, VerdictOf(p).ref)
  <2>1. t.cmd = op[p].cmd /\ t.state = "REJECTED"
    BY <1>1, DecidedKnows, OutcomeStates
  <2>2. Outcome(p, t) /\ Goto(p, "update") /\ UNCHANGED <<wal, entry>>
    BY <1>3 DEF RejectOp
  <2>. HIDE DEF t
  <2>3. /\ IsTerminal(t.state) \/ (fresh[p] /\ t.state = "PENDING_REFERENCE")
        /\ t.state = "PROCESSED" => cmd[p].kind = "LOSS"
        /\ pc[p] \in {"decide", "expire"}
    BY <1>1, <2>1 DEF IsTerminal
  <2>4. PayloadHash(t.cmd) = PayloadHash(cmd[p])
    BY <1>1, <2>1, DecidedKnows
  <2>5. ~fresh[p] => t.cmd = rows[cmd[p].ext].cmd
    BY <1>1, <2>1, DecidedKnows
  <2>. QED BY <2>2, <2>3, <2>4, <2>5, OutcomeKnown
<1>4. CASE ConcludeLoss(p)
  <2>. DEFINE t == MarkAsProcessed(op[p], wal[p].balance, None)
  <2>1. t.cmd = op[p].cmd /\ t.state = "PROCESSED" /\ cmd[p].kind = "LOSS"
    BY <1>1, <1>4, DecidedKnows, OutcomeStates DEF ConcludeLoss, Decided
  <2>2. Outcome(p, t) /\ Goto(p, "update") /\ UNCHANGED <<wal, entry>>
    BY <1>4 DEF ConcludeLoss
  <2>. HIDE DEF t
  <2>3. /\ IsTerminal(t.state) \/ (fresh[p] /\ t.state = "PENDING_REFERENCE")
        /\ t.state = "PROCESSED" => cmd[p].kind = "LOSS"
        /\ pc[p] \in {"decide", "expire"}
    BY <1>1, <2>1 DEF IsTerminal
  <2>4. PayloadHash(t.cmd) = PayloadHash(cmd[p])
    BY <1>1, <2>1, DecidedKnows
  <2>5. ~fresh[p] => t.cmd = rows[cmd[p].ext].cmd
    BY <1>1, <2>1, DecidedKnows
  <2>. QED BY <2>2, <2>3, <2>4, <2>5, OutcomeKnown
<1>. QED BY <1>2, <1>3, <1>4

\* A movement concludes with the balance it leaves.
LEMMA SettleKnown ==
    ASSUME TypeInv, Owns, Known, NEW p \in Call, Settle(p)
    PROVE  KnowsAt(p)'
<1>. DEFINE v == VerdictOf(p)
            moved == ApplyMovement(wal[p], v.direction, cmd[p].amount)
            n == NewLedgerEntry(cmd[p].ext, v.direction, cmd[p].amount, wal[p].balance)
            t == MarkAsProcessed(op[p], moved.balance, v.ref)
<1>1. /\ pc[p] = "decide" /\ v.act = "MOVE"
      /\ cmd[p] \in WagerCommand /\ wal[p] \in WalletRow /\ v.direction \in Direction
      /\ BalanceAfter(wal[p].balance, v.direction, cmd[p].amount) \in Money
  BY DecideFacts DEF Settle, Decided
<1>2. /\ n.amount = cmd[p].amount /\ n.after = moved.balance /\ n.tx = cmd[p].ext
      /\ n \in LedgerEntry
  BY <1>1, MovementType DEF NewLedgerEntry
<1>3. t.cmd = op[p].cmd /\ t.state = "PROCESSED" /\ t.result = moved.balance
  BY <1>1, DecidedKnows, OutcomeStates
<1>4. /\ entry' = [entry EXCEPT ![p] = n] /\ Goto(p, "move")
      /\ op' = [op EXCEPT ![p] = t] /\ UNCHANGED <<cmd, fresh, rows>>
  BY DEF Settle, Outcome, tables
<1>5. n # None
  BY <1>2, RecordAssumption
<1>. HIDE DEF n, t, moved, v
<1>6. entry'[p] = n /\ op'[p] = t /\ pc'[p] = "move"
  BY <1>4, GotoAt DEF TypeInv, TypeOK
<1>7. cmd[p].kind # "LOSS" /\ PayloadHash(op[p].cmd) = PayloadHash(cmd[p])
      /\ (~fresh[p] => op[p].cmd = rows[cmd[p].ext].cmd)
  BY <1>1, DecidedKnows DEF v
<1>8. SameOperation(p)'
  BY <1>3, <1>4, <1>6, <1>7 DEF SameOperation
<1>9. OneConclusion(p)'
  BY <1>3, <1>6 DEF OneConclusion, IsTerminal
<1>10. EntryConcludes(p)'
  BY <1>2, <1>3, <1>4, <1>5, <1>6, <1>7 DEF EntryConcludes
<1>. QED BY <1>8, <1>9, <1>10 DEF KnowsAt

\* The lookup leaves a new operation, or one that is parked.
LEMMA FindKnown ==
    ASSUME TypeInv, Owns, Known, Clean, NEW p \in Call, Find(p)
    PROVE  KnowsAt(p)'
<1>1. pc[p] = "find" /\ ~fresh[p] /\ cmd[p] \in WagerCommand /\ cmd[p].ext \in Ext
      /\ entry[p] = None
  BY Memory DEF Find, At, Owns, OwnsAt, Inside, CallOKAt
<1>. DEFINE stored == rows[cmd[p].ext]
            new == NewExternalTransaction(cmd[p])
<1>2. CASE /\ Goto(p, "insert") /\ op' = [op EXCEPT ![p] = new]
           /\ UNCHANGED <<cmd, fresh, entry>>
  <2>1. new.cmd = cmd[p] /\ new.state = "PENDING"
    BY <1>1 DEF NewExternalTransaction
  <2>. HIDE DEF new
  <2>2. pc'[p] = "insert" /\ op'[p] = new /\ cmd'[p] = cmd[p] /\ entry'[p] = None
    BY <1>1, <1>2, GotoAt DEF TypeInv, TypeOK
  <2>. QED
    BY <2>1, <2>2 DEF KnowsAt, SameOperation, OneConclusion, EntryConcludes, Inside
<1>3. CASE /\ stored # None /\ PayloadHash(stored.cmd) = PayloadHash(cmd[p])
           /\ ~IsTerminal(stored.state)
           /\ Goto(p, "lock") /\ op' = [op EXCEPT ![p] = stored]
           /\ UNCHANGED <<rows, cmd, fresh, entry>>
  <2>1. pc'[p] = "lock" /\ op'[p] = stored /\ entry'[p] = None /\ ~fresh'[p]
    BY <1>1, <1>3, GotoAt DEF TypeInv, TypeOK
  <2>2. stored.state = "PENDING_REFERENCE"
    <3>1. stored \in TransactionRow /\ stored.state # "PENDING"
      BY <1>1, <1>3 DEF TypeInv, TypeOK, Clean
    <3>. QED BY <1>3, <3>1 DEF TransactionRow, TransactionState, IsTerminal
  <2>3. SameOperation(p)'
    BY <1>3, <2>1 DEF SameOperation
  <2>. QED
    BY <1>3, <2>1, <2>2, <2>3 DEF KnowsAt, OneConclusion, EntryConcludes
<1>4. CASE (\E e : Fail(p, e)) \/ (\E r : FinishUnchanged(p, r))
  BY <1>4, EndForgets, NothingKnown
<1>. QED BY <1>2, <1>3, <1>4 DEF Find, tables

\* An insert keeps the operation, which is new.
LEMMA InsertKnown ==
    ASSUME TypeInv, Owns, Known, NEW p \in Call, Insert(p)
    PROVE  KnowsAt(p)'
<1>1. pc[p] = "insert" /\ SameOperation(p) /\ OneConclusion(p) /\ entry[p] = None
  BY Memory DEF Insert, At, Known, KnowsAt, CallOKAt
<1>2. CASE Conflict(p)
  BY <1>2, EndForgets, NothingKnown
<1>3. CASE /\ fresh' = [fresh EXCEPT ![p] = TRUE] /\ Goto(p, "fkey")
           /\ UNCHANGED <<rows, cmd, op, entry>>
  <2>1. pc'[p] = "fkey" /\ fresh'[p] /\ op' = op /\ cmd' = cmd /\ entry'[p] = None
    BY <1>1, <1>3, GotoAt DEF TypeInv, TypeOK
  <2>. QED
    BY <1>1, <2>1 DEF KnowsAt, SameOperation, OneConclusion, EntryConcludes
<1>. QED BY <1>2, <1>3 DEF Insert, tables

\* Expiry holds the row it read.
LEMMA ExpireRowKnown ==
    ASSUME TypeInv, Owns, Known, NEW p \in Call, ExpireRow(p)
    PROVE  KnowsAt(p)'
<1>. DEFINE stored == rows[cmd[p].ext]
            t == Reject(stored, "REFERENCE_NOT_FOUND", stored.ref)
<1>1. /\ pc[p] = "expire" /\ stored # None /\ cmd[p].ext \in Ext
      /\ stored.cmd = cmd[p]
  BY Memory DEF ExpireRow, At, CallOKAt, Known, KnowsAt, SameOperation
<1>2. stored \in TransactionRow
  BY <1>1 DEF TypeInv, TypeOK
<1>3. CASE \E r : FinishUnchanged(p, r)
  BY <1>3, EndForgets, NothingKnown
<1>4. CASE Outcome(p, t) /\ Goto(p, "update") /\ UNCHANGED <<wal, entry>>
  <2>1. t.cmd = stored.cmd /\ t.state = "REJECTED"
    BY <1>2, OutcomeStates
  <2>. HIDE DEF t
  <2>2. /\ IsTerminal(t.state) \/ (fresh[p] /\ t.state = "PENDING_REFERENCE")
        /\ t.state = "PROCESSED" => cmd[p].kind = "LOSS"
        /\ pc[p] \in {"decide", "expire"}
    BY <1>1, <2>1 DEF IsTerminal
  <2>3. PayloadHash(t.cmd) = PayloadHash(cmd[p]) /\ (~fresh[p] => t.cmd = rows[cmd[p].ext].cmd)
    BY <1>1, <2>1
  <2>. QED BY <1>4, <2>2, <2>3, OutcomeKnown
<1>. QED BY <1>3, <1>4 DEF ExpireRow

\* A call that starts knows the row it starts from, if it is an expiry.
LEMMA StartKnown ==
    ASSUME TypeInv, Owns, Known, NEW p \in Call, Start(p)
    PROVE  KnowsAt(p)'
<1>1. ASSUME NEW c, NEW id, NEW step \in {"register", "find", "expire"}, Begin(p, c, id, step),
             step = "expire" => rows[c.ext].cmd = c
      PROVE  KnowsAt(p)'
  <2>1. pc[p] = "idle" /\ op[p] = None /\ entry[p] = None
    BY <1>1, Memory DEF Begin, CallOKAt, HasOp
  <2>2. /\ pc'[p] = step /\ op'[p] = None /\ entry'[p] = None /\ cmd'[p] = c /\ rows' = rows
    BY <1>1, <2>1, GotoAt DEF Begin, tables, TypeInv, TypeOK
  <2>. QED
    BY <1>1, <2>2 DEF KnowsAt, SameOperation, OneConclusion, EntryConcludes, Inside
<1>2. ASSUME NEW e \in Ext, Expire(p, e)  PROVE KnowsAt(p)'
  <2>1. Begin(p, rows[e].cmd, None, "expire") /\ rows[e].cmd.ext = e
    BY <1>2 DEF Expire, TypeInv, RowsOK
  <2>. QED BY <1>1, <2>1
<1>3. ASSUME NEW c, Execute(p, c) PROVE KnowsAt(p)'
  BY <1>1, <1>3 DEF Execute
<1>4. ASSUME NEW m, ExecuteFromMessage(p, m) PROVE KnowsAt(p)'
  BY <1>1, <1>4 DEF ExecuteFromMessage
<1>. QED BY <1>2, <1>3, <1>4 DEF Start

\* A step that writes no row.
LEMMA StepsKnow ==
    ASSUME TypeInv, Owns, Known, Clean, NEW p \in Call,
           \/ Start(p) \/ DeadlockVictim(p) \/ Interrupt(p)
           \/ Progress(p) /\ ~Commit(p)
    PROVE  KnowsAt(p)' /\ rows' = rows /\ \A q \in Call \ {p} : Untouched(q)
<1>1. rows' = rows /\ \A q \in Call \ {p} : Untouched(q)
  <2>1. CASE LockByID(p) \/ Settle(p)
    BY <2>1 DEF LockByID, Settle, Outcome, Goto, Untouched, SameCall, TypeInv, TypeOK, tables
  <2>2. CASE ~LockByID(p) /\ ~Settle(p)
    BY <2>2, OtherStepsQuiet DEF Quiet
  <2>. QED BY <2>1, <2>2
<1>. SUFFICES KnowsAt(p)'
  BY <1>1
<1>2. CASE \/ \E r : Answer(p, r)
           \/ \E e : Fail(p, e)
           \/ \E r : FinishUnchanged(p, r)
           \/ Conflict(p)
  BY <1>2, EndForgets, NothingKnown
<1>3. CASE DeadlockVictim(p) \/ Interrupt(p) \/ Overflow(p) \/ StayParked(p)
  BY <1>2, <1>3 DEF DeadlockVictim, Interrupt, Overflow, StayParked
<1>4. CASE Register(p)
  <2>1. CASE Goto(p, "find") /\ UNCHANGED <<op, entry>>
    <3>1. pc[p] = "register" /\ op[p] = None /\ entry[p] = None
      BY <1>4, Memory DEF Register, At, CallOKAt, HasOp
    <3>. QED BY <2>1, <3>1, GotoAt, NothingKnown
  <2>. QED BY <1>2, <1>4, <2>1 DEF Register
<1>5. CASE ForeignKey(p)
  BY <1>2, <1>5, GoesOn DEF ForeignKey, At, tables
<1>6. CASE LockByID(p)
  BY <1>6, GoesOn DEF LockByID, At, tables
<1>7. CASE MoveBalance(p)
  BY <1>2, <1>7, GoesOn DEF MoveBalance, At, tables
<1>8. CASE Update(p)
  BY <1>2, <1>8, GoesOn DEF Update, At, tables
<1>9. CASE Return(p)
  <2>1. pc[p] = "reply" /\ op[p] = None /\ entry[p] = None
    BY <1>9, Memory DEF Return, CallOKAt, HasOp
  <2>. QED BY <1>9, <2>1, GotoAt, NothingKnown DEF Return
<1>10. CASE Start(p) \/ Find(p) \/ Insert(p) \/ ExpireRow(p) \/ Settle(p)
            \/ ParkNew(p) \/ RejectOp(p) \/ ConcludeLoss(p)
  BY <1>10, StartKnown, FindKnown, InsertKnown, ExpireRowKnown, SettleKnown, DecisionKnown
<1>. QED
  BY <1>3, <1>4, <1>5, <1>6, <1>7, <1>8, <1>9, <1>10 DEF Progress

\* A commit stores a conclusion or a first wait, in a wallet that is open.
LEMMA CommitClean ==
    ASSUME TypeInv, Held, Known, Clean, NEW p \in Call, Commit(p)
    PROVE  Clean'
<1>1. pc[p] = "commit" /\ OneConclusion(p)
  BY DEF Commit, At, Known, KnowsAt
<1>2. op[p].state # "PENDING"
  BY <1>1 DEF OneConclusion, IsTerminal
<1>3. ASSUME NEW e \in Ext, rows'[e] # None  PROVE rows'[e].state # "PENDING"
  <2>1. rows' = [rows EXCEPT ![cmd[p].ext] = op[p]]
    BY CommitFacts
  <2>2. rows'[e] = IF e = cmd[p].ext THEN op[p] ELSE rows[e]
    BY <2>1 DEF TypeInv, TypeOK
  <2>. QED BY <1>2, <1>3, <2>2 DEF Clean
<1>4. ASSUME NEW w \in Wallet, wallets'[w] = None  PROVE ledger'[w] = <<>>
  <2>1. CASE entry[p] = None
    BY <1>4, <2>1, CommitFacts DEF Clean
  <2>2. CASE entry[p] # None
    <3>1. wal[p] # None
      BY <2>2, Memory DEF CallOKAt
    <3>2. /\ wallets' = [wallets EXCEPT ![cmd[p].wallet] = wal[p]]
          /\ ledger' = [ledger EXCEPT ![cmd[p].wallet] = Append(@, entry[p])]
      BY <2>2, CommitFacts
    <3>3. wallets'[w] = IF w = cmd[p].wallet THEN wal[p] ELSE wallets[w]
      BY <3>2 DEF TypeInv, TypeOK
    <3>4. w # cmd[p].wallet /\ wallets'[w] = wallets[w]
      BY <1>4, <3>1, <3>3
    <3>5. ledger'[w] = ledger[w]
      BY <3>2, <3>4 DEF TypeInv, TypeOK
    <3>. QED BY <1>4, <3>4, <3>5 DEF Clean
  <2>. QED BY <2>1, <2>2
<1>. QED BY <1>3, <1>4 DEF Clean

\* What an opening does to the tables.
LEMMA OpenWalletFacts ==
    ASSUME TypeInv, Clean, NEW w \in Wallet, NEW pl \in Player, NEW u \in Currency,
           NEW b \in InitialBalance, OpenWallet(w, pl, u, b)
    PROVE  /\ rows' = rows /\ wallets'[w] # None /\ ledger[w] = <<>>
           /\ \A v \in Wallet \ {w} : wallets'[v] = wallets[v] /\ ledger'[v] = ledger[v]
           /\ \A i \in DOMAIN ledger'[w] : ledger'[w][i].tx = Opening
           /\ \A e \in Ext : events'[e] = events[e]
           /\ UNCHANGED <<inbox, pc, cmd, msg, op, fresh, wal, entry, reply>>
<1>. DEFINE row == [player |-> pl, currency |-> u, balance |-> b, version |-> 1]
            n == NewLedgerEntry(Opening, "CREDIT", b, 0)
<1>1. row \in WalletRow
  BY InitialBalanceAssumption DEF WalletRow
<1>2. row # None
  BY <1>1, RecordAssumption
<1>3. n.tx = Opening
  BY DEF NewLedgerEntry
<1>. HIDE DEF row, n
<1>4. /\ wallets' = [wallets EXCEPT ![w] = row]
      /\ ledger' = [ledger EXCEPT ![w] = IF b > 0 THEN <<n>> ELSE <<>>]
      /\ rows' = rows
      /\ UNCHANGED <<inbox, pc, cmd, msg, op, fresh, wal, entry, reply>>
      /\ wallets[w] = None
  BY DEF OpenWallet, row, n
<1>5. wallets'[w] = row /\ \A v \in Wallet \ {w} : wallets'[v] = wallets[v] /\ ledger'[v] = ledger[v]
  BY <1>4 DEF TypeInv, TypeOK
<1>6. ledger'[w] = IF b > 0 THEN <<n>> ELSE <<>>
  BY <1>4 DEF TypeInv, TypeOK
<1>7. \A i \in DOMAIN ledger'[w] : ledger'[w][i].tx = Opening
  BY <1>3, <1>6
<1>8. \A e \in Ext : events'[e] = events[e]
  BY IdentifierAssumption DEF OpenWallet, TypeInv, TypeOK
<1>. QED BY <1>2, <1>4, <1>5, <1>7, <1>8 DEF Clean

\* The steps of a call but the commit write none of these tables.
LEMMA TablesKept ==
    ASSUME TypeInv, NEW p \in Call,
           \/ Start(p) \/ DeadlockVictim(p) \/ Interrupt(p)
           \/ Progress(p) /\ ~Commit(p)
    PROVE  UNCHANGED <<wallets, rows, ledger, events>>
<1>1. CASE LockByID(p) \/ Settle(p)
  BY <1>1 DEF LockByID, Settle, Outcome, tables
<1>2. CASE ~LockByID(p) /\ ~Settle(p)
  BY <1>2, OtherStepsQuiet DEF Quiet
<1>. QED BY <1>1, <1>2

Memories == TypeInv /\ Held /\ Owns /\ Known /\ Clean

\* The steps of the calls, the two that write tables set apart.
LEMMA StepsOfCalls ==
    ASSUME [Next]_vars
    PROVE  \/ UNCHANGED vars
           \/ \E w \in Wallet, pl \in Player, u \in Currency, b \in InitialBalance :
                 OpenWallet(w, pl, u, b)
           \/ \E p \in Call : Commit(p)
           \/ \E p \in Call : \/ Start(p) \/ DeadlockVictim(p) \/ Interrupt(p)
                              \/ Progress(p) /\ ~Commit(p)
BY DEF Next

\* What a call has in memory is known throughout.
LEMMA KnownInvariant == Spec => []Memories
<1>1. Init => Known /\ Clean
  BY DEF Init, Known, KnowsAt, SameOperation, OneConclusion, EntryConcludes, Inside, Clean
<1>2. TypeInv /\ Held /\ Owns /\ Known /\ Clean /\ [Next]_vars => (Known /\ Clean)'
  <2>. SUFFICES ASSUME TypeInv, Held, Owns, Known, Clean, [Next]_vars  PROVE (Known /\ Clean)'
    OBVIOUS
  <2>1. CASE UNCHANGED vars
    BY <2>1 DEF vars, Known, KnowsAt, SameOperation, OneConclusion, EntryConcludes, Clean
  <2>2. ASSUME NEW w \in Wallet, NEW pl \in Player, NEW u \in Currency,
               NEW b \in InitialBalance, OpenWallet(w, pl, u, b)
        PROVE  (Known /\ Clean)'
    <3>1. Known'
      BY <2>2, OpenWalletFacts
      DEF Known, KnowsAt, SameOperation, OneConclusion, EntryConcludes
    <3>2. Clean'
      BY <2>2, OpenWalletFacts DEF Clean
    <3>. QED BY <3>1, <3>2
  <2>3. ASSUME NEW p \in Call, Commit(p)  PROVE (Known /\ Clean)'
    <3>1. ASSUME NEW q \in Call, q # p  PROVE KnowsAt(q)'
      BY <2>3, <3>1, CommitFacts, CommitKeeps, OthersKnow
    <3>2. KnowsAt(p)'
      BY <2>3, EndForgets, NothingKnown DEF Commit
    <3>. QED BY <2>3, <3>1, <3>2, CommitClean DEF Known
  <2>4. ASSUME NEW p \in Call,
               \/ Start(p) \/ DeadlockVictim(p) \/ Interrupt(p)
               \/ Progress(p) /\ ~Commit(p)
        PROVE  (Known /\ Clean)'
    <3>1. KnowsAt(p)' /\ rows' = rows /\ \A q \in Call \ {p} : Untouched(q)
      BY <2>4, StepsKnow
    <3>2. ASSUME NEW q \in Call, q # p  PROVE KnowsAt(q)'
      BY <3>1, <3>2, OthersKnow DEF CommandsKept
    <3>3. Clean'
      BY <2>4, TablesKept DEF Clean
    <3>. QED BY <3>1, <3>2, <3>3 DEF Known
  <2>. QED BY <2>1, <2>2, <2>3, <2>4, StepsOfCalls
<1>. QED BY <1>1, <1>2, HeldInvariant, OwnsInvariant, PTL DEF Spec, Memories

-----------------------------------------------------------------------------
(***************************************************************************)
(* Answers and handled messages.                                           *)
(***************************************************************************)

\* A stored operation stays stored, and a concluded one stays as it is.
HistoryKept ==
    \A e \in Ext : rows[e] # None =>
        /\ rows'[e] # None /\ rows'[e].cmd = rows[e].cmd
        /\ IsTerminal(rows[e].state) => rows'[e] = rows[e]

LEMMA StepsKeepHistory == ASSUME Memories, [Next]_vars PROVE HistoryKept
<1>1. CASE rows' = rows
  BY <1>1 DEF HistoryKept
<1>2. ASSUME NEW p \in Call, Commit(p)  PROVE HistoryKept
  <2>1. pc[p] = "commit" /\ OwnsAt(p)
    BY <1>2 DEF Commit, At, Memories, Owns
  <2>2. rows[cmd[p].ext] # None => ~IsTerminal(rows[cmd[p].ext].state)
    BY <2>1 DEF OwnsAt
  <2>. QED BY <1>2, <2>2, CommitKeeps DEF Memories, HistoryKept, CommandsKept
<1>. QED BY <1>1, <1>2, StepsOfCalls, TablesKept, OpenWalletFacts DEF Memories, vars

\* The hash tells commands apart but for the idempotency key.
LEMMA SameHash ==
    ASSUME NEW c \in WagerCommand, NEW d \in WagerCommand, PayloadHash(c) = PayloadHash(d)
    PROVE  /\ [c EXCEPT !.key = d.key] = d
           /\ c.ext = d.ext /\ c.wallet = d.wallet /\ c.kind = d.kind
           /\ c.amount = d.amount /\ c.ref = d.ref /\ c.player = d.player
           /\ c.round = d.round /\ c.currency = d.currency
<1>1. /\ c.ext = d.ext /\ c.wallet = d.wallet /\ c.kind = d.kind
      /\ c.amount = d.amount /\ c.ref = d.ref /\ c.player = d.player
      /\ c.round = d.round /\ c.currency = d.currency
  BY DEF PayloadHash
<1>. QED BY <1>1 DEF WagerCommand

\* What a call that replies knows.
ToldAt(p) ==
    pc[p] = "reply" /\ reply[p].state # None =>
        LET t == rows[cmd[p].ext] IN
        /\ t # None
        /\ [t.cmd EXCEPT !.key = cmd[p].key] = cmd[p]
        /\ IsTerminal(reply[p].state) => ResultOf(t, reply[p].replayed) = reply[p]

\* A call that keeps its reply keeps what it was told.
LEMMA StillTold ==
    ASSUME Memories, HistoryKept, NEW q \in Call, ToldAt(q),
           pc'[q] = pc[q], cmd'[q] = cmd[q], reply'[q] = reply[q]
    PROVE  ToldAt(q)'
<1>1. pc[q] = "reply" => cmd[q].ext \in Ext
  BY Memory DEF Memories, CallOKAt
<1>2. ASSUME NEW t, NEW r  PROVE ResultOf(t, r).state = t.state
  BY DEF ResultOf
<1>3. SUFFICES ASSUME pc[q] = "reply", reply[q].state # None
               PROVE  /\ rows'[cmd[q].ext] # None
                      /\ [rows'[cmd[q].ext].cmd EXCEPT !.key = cmd[q].key] = cmd[q]
                      /\ IsTerminal(reply[q].state) =>
                           ResultOf(rows'[cmd[q].ext], reply[q].replayed) = reply[q]
  BY DEF ToldAt
<1>. DEFINE t == rows[cmd[q].ext]
<1>4. /\ t # None /\ [t.cmd EXCEPT !.key = cmd[q].key] = cmd[q]
      /\ IsTerminal(reply[q].state) => ResultOf(t, reply[q].replayed) = reply[q]
  BY <1>3 DEF ToldAt
<1>5. rows'[cmd[q].ext] # None /\ rows'[cmd[q].ext].cmd = t.cmd
  BY <1>1, <1>3, <1>4 DEF HistoryKept
<1>6. ASSUME IsTerminal(reply[q].state)
      PROVE  ResultOf(rows'[cmd[q].ext], reply[q].replayed) = reply[q]
  <2>1. t.state = reply[q].state
    BY <1>2, <1>4, <1>6
  <2>2. rows'[cmd[q].ext] = t
    BY <1>1, <1>3, <1>4, <1>6, <2>1 DEF HistoryKept
  <2>. QED BY <1>4, <1>6, <2>2
<1>. QED BY <1>4, <1>5, <1>6

\* t is stored as the operation of the command of call p.
StoredAs(p, t) ==
    /\ t \in TransactionRow /\ PayloadHash(t.cmd) = PayloadHash(cmd[p])
    /\ rows'[cmd[p].ext] = t

\* A call that answers without a state, or with that of a stored operation.
LEMMA AnswerTold ==
    ASSUME Memories, NEW p \in Call, NEW r, Answer(p, r), pc[p] # "idle",
           \/ r.state = None
           \/ \E t : /\ StoredAs(p, t)
                    /\ \/ ~IsTerminal(r.state)
                       \/ r = ResultOf(t, TRUE)
                       \/ r = ResultOf(t, FALSE)
    PROVE  ToldAt(p)'
<1>1. reply'[p] = r /\ cmd' = cmd
  BY DEF Answer, Memories, TypeInv, TypeOK
<1>2. CASE r.state = None
  BY <1>1, <1>2 DEF ToldAt
<1>3. ASSUME NEW t, StoredAs(p, t),
             ~IsTerminal(r.state) \/ r = ResultOf(t, TRUE) \/ r = ResultOf(t, FALSE)
      PROVE  ToldAt(p)'
  <2>1. cmd[p] \in WagerCommand /\ t.cmd \in WagerCommand /\ t # None
    BY <1>3, Memory, RecordAssumption DEF Memories, CallOKAt, StoredAs, TransactionRow
  <2>2. [t.cmd EXCEPT !.key = cmd[p].key] = cmd[p]
    BY <1>3, <2>1, SameHash DEF StoredAs
  <2>3. ASSUME IsTerminal(r.state)  PROVE ResultOf(t, r.replayed) = r
    BY <1>3, <2>3 DEF ResultOf
  <2>. QED BY <1>1, <1>3, <2>1, <2>2, <2>3 DEF ToldAt, StoredAs
<1>. QED BY <1>2, <1>3

\* The operation of a call that replays or stays parked is the stored one.
LEMMA FindsStored ==
    ASSUME Memories, NEW p \in Call, rows' = rows
    PROVE  /\ /\ pc[p] = "find" /\ rows[cmd[p].ext] # None
              /\ PayloadHash(rows[cmd[p].ext].cmd) = PayloadHash(cmd[p])
              => StoredAs(p, rows[cmd[p].ext])
           /\ pc[p] = "expire" => StoredAs(p, rows[cmd[p].ext])
           /\ pc[p] = "decide" /\ op[p].state = "PENDING_REFERENCE" =>
                StoredAs(p, rows[cmd[p].ext])
<1>1. SameOperation(p) /\ OneConclusion(p) /\ OwnsAt(p)
  BY DEF Memories, Known, KnowsAt, Owns
<1>2. pc[p] # "idle" => cmd[p].ext \in Ext
  BY Memory DEF Memories
<1>3. pc[p] # "idle" /\ rows[cmd[p].ext] # None => rows[cmd[p].ext] \in TransactionRow
  BY <1>2 DEF Memories, TypeInv, TypeOK
<1>4. CASE pc[p] = "find"
  BY <1>3, <1>4 DEF StoredAs
<1>5. CASE pc[p] = "expire"
  <2>1. rows[cmd[p].ext] # None /\ rows[cmd[p].ext].cmd = cmd[p]
    BY <1>1, <1>5, Memory DEF Memories, CallOKAt, SameOperation
  <2>. QED BY <1>3, <1>5, <2>1 DEF StoredAs
<1>6. CASE pc[p] = "decide" /\ op[p].state = "PENDING_REFERENCE"
  <2>1. ~fresh[p] /\ op[p] # None
    BY <1>1, <1>6, Memory DEF Memories, CallOKAt, HasOp, OneConclusion
  <2>2. rows[cmd[p].ext] # None /\ rows[cmd[p].ext].cmd = op[p].cmd
    BY <1>1, <1>6, <2>1 DEF OwnsAt, SameOperation, Inside
  <2>3. PayloadHash(op[p].cmd) = PayloadHash(cmd[p])
    BY <1>1, <2>1 DEF SameOperation
  <2>. QED BY <1>3, <1>6, <2>2, <2>3 DEF StoredAs
<1>. QED BY <1>4, <1>5, <1>6

\* A commit stores the operation in memory.
LEMMA CommitStores ==
    ASSUME Memories, NEW p \in Call, Commit(p)
    PROVE  StoredAs(p, op[p])
<1>1. op[p] # None /\ rows'[cmd[p].ext] = op[p]
  BY CommitFacts, CommitKeeps DEF Memories
<1>2. op[p] \in TransactionRow /\ PayloadHash(op[p].cmd) = PayloadHash(cmd[p])
  BY <1>1, Memory DEF Memories, Known, KnowsAt, SameOperation
<1>. QED BY <1>1, <1>2 DEF StoredAs

\* How a transaction ends: on an error or a redelivery, which answer without
\* a state, or with the operation that is stored.
LEMMA EndTold ==
    ASSUME Memories, NEW p \in Call, pc[p] # "idle",
           \/ \E e : Fail(p, e)
           \/ Conflict(p)
           \/ FinishUnchanged(p, InboxReplay)
           \/ \E t : StoredAs(p, t) /\ FinishUnchanged(p, ResultOf(t, TRUE))
           \/ \E t, r : /\ StoredAs(p, t) /\ ~IsTerminal(r.state) /\ FinishUnchanged(p, r)
           \/ \E t : StoredAs(p, t) /\ Answer(p, ResultOf(t, FALSE))
    PROVE  ToldAt(p)'
<1>1. ASSUME NEW e, Fail(p, e)  PROVE ToldAt(p)'
  <2>1. Failure(e).state = None
    BY DEF Failure
  <2>. QED BY <1>1, <2>1, AnswerTold DEF Fail
<1>2. CASE Conflict(p)
  <2>1. CASE Fail(p, "ErrConcurrentUpdate")
    BY <1>1, <2>1
  <2>2. ASSUME NEW s \in {"find", "register"}, pc' = [pc EXCEPT ![p] = s]  PROVE ToldAt(p)'
    BY <2>2 DEF ToldAt, Memories, TypeInv, TypeOK
  <2>. QED BY <1>2, <2>1, <2>2 DEF Conflict
<1>3. CASE FinishUnchanged(p, InboxReplay)
  <2>1. InboxReplay.state = None
    BY DEF InboxReplay
  <2>. QED BY <1>3, <2>1, AnswerTold DEF FinishUnchanged
<1>4. ASSUME NEW t, NEW r, StoredAs(p, t), Answer(p, r),
             ~IsTerminal(r.state) \/ r = ResultOf(t, TRUE) \/ r = ResultOf(t, FALSE)
      PROVE  ToldAt(p)'
  BY <1>4, AnswerTold
<1>. QED BY <1>1, <1>2, <1>3, <1>4 DEF FinishUnchanged

\* A call that goes on is told nothing.
LEMMA GoesOnUntold ==
    ASSUME TypeInv, NEW p \in Call, NEW step, Goto(p, step), step # "reply"
    PROVE  ToldAt(p)'
BY GotoAt DEF ToldAt

\* The steps of a call tell it what is stored, and leave alone what others
\* were told.
LEMMA StepsTell ==
    ASSUME Memories, NEW p \in Call,
           Start(p) \/ Progress(p) \/ DeadlockVictim(p) \/ Interrupt(p)
    PROVE  /\ ToldAt(p)'
           /\ \A q \in Call \ {p} : UNCHANGED <<pc[q], cmd[q], reply[q]>>
<1>0. TypeInv
  BY DEF Memories
<1>1. \A q \in Call \ {p} : UNCHANGED <<pc[q], cmd[q]>>
  <2>1. CASE Commit(p)
    BY <1>0, <2>1, CommitFacts DEF Untouched, SameCall
  <2>2. CASE ~Commit(p)
    BY <2>2, StepsKnow DEF Memories, Untouched, SameCall
  <2>. QED BY <2>1, <2>2
<1>2. \A q \in Call \ {p} : reply'[q] = reply[q]
  <2>1. reply' = reply \/ \E r : reply' = [reply EXCEPT ![p] = r]
    <3>1. ASSUME (\E r : Answer(p, r)) \/ (\E e : Fail(p, e)) \/ Conflict(p)
                 \/ (\E r : FinishUnchanged(p, r))
          PROVE  reply' = reply \/ \E r : reply' = [reply EXCEPT ![p] = r]
      BY <3>1 DEF Answer, Fail, Conflict, FinishUnchanged
    <3>2. CASE DeadlockVictim(p) \/ Interrupt(p) \/ Overflow(p) \/ StayParked(p) \/ Commit(p)
      BY <3>1, <3>2 DEF DeadlockVictim, Interrupt, Overflow, StayParked, Commit
    <3>3. CASE Register(p)
      BY <3>1, <3>3 DEF Register
    <3>4. CASE Find(p)
      BY <3>1, <3>4 DEF Find
    <3>5. CASE Insert(p) \/ ForeignKey(p)
      BY <3>1, <3>5 DEF Insert, ForeignKey
    <3>6. CASE MoveBalance(p) \/ Update(p)
      BY <3>1, <3>6 DEF MoveBalance, Update
    <3>7. CASE ExpireRow(p)
      BY <3>1, <3>7 DEF ExpireRow, Outcome
    <3>8. CASE LockByID(p) \/ ParkNew(p) \/ RejectOp(p) \/ ConcludeLoss(p) \/ Settle(p)
      BY <3>8 DEF LockByID, ParkNew, RejectOp, ConcludeLoss, Settle, Outcome
    <3>9. CASE Start(p) \/ Return(p)
      BY <3>9 DEF Start, Execute, ExecuteFromMessage, Expire, Begin, Return
    <3>. QED BY <3>2, <3>3, <3>4, <3>5, <3>6, <3>7, <3>8, <3>9 DEF Progress
  <2>. QED BY <1>0, <2>1 DEF TypeInv, TypeOK
<1>. SUFFICES ToldAt(p)'
  BY <1>1, <1>2
<1>3. CASE DeadlockVictim(p) \/ Interrupt(p)
  BY <1>3, EndTold, Memory, <1>0 DEF DeadlockVictim, Interrupt, Blockers, Blocks
<1>4. CASE Commit(p)
  <2>1. ASSUME Answer(p, Failure("Interrupted"))  PROVE ToldAt(p)'
    <3>1. Failure("Interrupted").state = None
      BY DEF Failure
    <3>. QED BY <1>4, <2>1, <3>1, AnswerTold DEF Commit, At
  <2>. QED BY <1>4, <2>1, CommitStores, EndTold DEF Commit, At
<1>5. CASE Register(p)
  BY <1>0, <1>5, EndTold, GoesOnUntold DEF Register, At
<1>6. CASE Find(p)
  <2>1. pc[p] = "find" /\ rows' = rows
    BY <1>0, <1>6, TablesKept DEF Find, At, Progress, Commit
  <2>. QED BY <1>0, <1>6, <2>1, EndTold, GoesOnUntold, FindsStored DEF Find
<1>7. CASE Insert(p)
  BY <1>0, <1>7, EndTold, GoesOnUntold DEF Insert, At
<1>8. CASE ForeignKey(p)
  BY <1>0, <1>8, EndTold, GoesOnUntold DEF ForeignKey, At
<1>9. CASE LockByID(p) \/ ParkNew(p) \/ RejectOp(p) \/ ConcludeLoss(p) \/ Settle(p)
  BY <1>0, <1>9, GoesOnUntold DEF LockByID, ParkNew, RejectOp, ConcludeLoss, Settle
<1>10. CASE StayParked(p)
  <2>1. pc[p] = "decide" /\ op[p].state = "PENDING_REFERENCE" /\ rows' = rows
    BY <1>10 DEF StayParked, Decided, FinishUnchanged
  <2>2. StoredAs(p, rows[cmd[p].ext])
    BY <2>1, FindsStored
  <2>3. ~IsTerminal(ResultOf(op[p], FALSE).state)
    BY <2>1 DEF ResultOf, IsTerminal
  <2>. QED BY <1>10, <2>1, <2>2, <2>3, EndTold DEF StayParked
<1>11. CASE Overflow(p)
  BY <1>11, EndTold DEF Overflow, Decided
<1>12. CASE MoveBalance(p) \/ Update(p)
  BY <1>0, <1>12, EndTold, GoesOnUntold DEF MoveBalance, Update, At
<1>13. CASE ExpireRow(p)
  <2>1. pc[p] = "expire" /\ rows' = rows
    BY <1>0, <1>13, TablesKept DEF ExpireRow, At, Progress, Commit
  <2>. QED BY <1>0, <1>13, <2>1, EndTold, GoesOnUntold, FindsStored DEF ExpireRow
<1>14. CASE Start(p)
  BY <1>0, <1>14, GoesOnUntold DEF Start, Execute, ExecuteFromMessage, Expire, Begin
<1>15. CASE Return(p)
  BY <1>0, <1>15, GoesOnUntold DEF Return
<1>. QED
  BY <1>3, <1>4, <1>5, <1>6, <1>7, <1>8, <1>9, <1>10, <1>11, <1>12, <1>13, <1>14, <1>15
  DEF Progress

\* However many calls, retries and lost connections there are, a call that
\* replies with an operation replies with the one that is stored for its
\* payload, and the conclusion it tells is the one every replay will tell.
THEOREM AnswersLast == Spec => []AnswersAreDurable
<1>. DEFINE Told == \A p \in Call : ToldAt(p)
<1>1. Told <=> AnswersAreDurable
  BY DEF ToldAt, AnswersAreDurable
<1>2. Init => Told
  BY DEF Init, ToldAt
<1>3. Memories /\ Told /\ [Next]_vars => Told'
  <2>. SUFFICES ASSUME Memories, Told, [Next]_vars, NEW q \in Call  PROVE ToldAt(q)'
    OBVIOUS
  <2>1. ToldAt(q) /\ HistoryKept
    BY StepsKeepHistory
  <2>2. CASE UNCHANGED <<pc, cmd, reply>>
    BY <2>1, <2>2, StillTold
  <2>3. ASSUME NEW p \in Call, Start(p) \/ Progress(p) \/ DeadlockVictim(p) \/ Interrupt(p)
        PROVE  ToldAt(q)'
    <3>1. ToldAt(p)' /\ \A r \in Call \ {p} : UNCHANGED <<pc[r], cmd[r], reply[r]>>
      BY <2>3, StepsTell
    <3>. QED BY <2>1, <3>1, StillTold
  <2>. QED BY <2>2, <2>3, OpenWalletFacts DEF Next, vars, Memories
<1>. QED BY <1>1, <1>2, <1>3, KnownInvariant, PTL DEF Spec

\* Every step leaves a message as it was, or marks it with a stored operation.
LEMMA StepsMark ==
    ASSUME Memories, NEW p \in Call, NEW m \in MessageId,
           Start(p) \/ Progress(p) \/ DeadlockVictim(p) \/ Interrupt(p)
    PROVE  \/ inbox'[m] = inbox[m]
           \/ inbox'[m] = PayloadHash(cmd[p]) /\ pc[p] # "idle" /\ \E t : StoredAs(p, t)
<1>. DEFINE Marks == \/ inbox'[m] = inbox[m]
                    \/ /\ inbox'[m] = PayloadHash(cmd[p]) /\ pc[p] # "idle"
                       /\ \E t : StoredAs(p, t)
<1>0. DOMAIN inbox = MessageId
  BY DEF Memories, TypeInv, TypeOK
<1>1. CASE inbox' = inbox
  BY <1>1
<1>2. ASSUME CompleteInbox(p)
      PROVE  inbox'[m] = inbox[m] \/ inbox'[m] = PayloadHash(cmd[p])
  BY <1>0, <1>2 DEF CompleteInbox
<1>3. ASSUME (\E e : Fail(p, e)) \/ Conflict(p)  PROVE inbox' = inbox
  BY <1>3 DEF Fail, Conflict, tables
<1>4. ASSUME NEW r, FinishUnchanged(p, r), pc[p] # "idle", \E t : StoredAs(p, t)  PROVE Marks
  BY <1>2, <1>4 DEF FinishUnchanged
<1>5. CASE DeadlockVictim(p) \/ Interrupt(p) \/ Overflow(p)
  BY <1>1, <1>3, <1>5 DEF DeadlockVictim, Interrupt, Overflow
<1>6. CASE Commit(p)
  BY <1>2, <1>6, CommitStores DEF Commit, At
<1>7. CASE Register(p)
  <2>1. ASSUME FinishUnchanged(p, InboxReplay), inbox[msg[p]] = PayloadHash(cmd[p])
        PROVE  inbox'[m] = inbox[m]
    BY <1>0, <2>1 DEF FinishUnchanged, CompleteInbox
  <2>. QED BY <1>1, <1>3, <1>7, <2>1 DEF Register, tables
<1>8. CASE Find(p)
  <2>1. pc[p] = "find" /\ rows' = rows
    BY <1>8, TablesKept DEF Find, At, Progress, Commit, Memories
  <2>. QED BY <1>1, <1>3, <1>4, <1>8, <2>1, FindsStored DEF Find, tables
<1>9. CASE StayParked(p)
  <2>1. pc[p] = "decide" /\ op[p].state = "PENDING_REFERENCE" /\ rows' = rows
    BY <1>9 DEF StayParked, Decided, FinishUnchanged
  <2>. QED BY <1>4, <1>9, <2>1, FindsStored DEF StayParked
<1>10. CASE ExpireRow(p)
  <2>1. pc[p] = "expire" /\ rows' = rows
    BY <1>10, TablesKept DEF ExpireRow, At, Progress, Commit, Memories
  <2>. QED BY <1>1, <1>4, <1>10, <2>1, FindsStored DEF ExpireRow, Outcome, tables
<1>11. CASE Insert(p) \/ ForeignKey(p)
  BY <1>1, <1>3, <1>11 DEF Insert, ForeignKey, tables
<1>12. CASE MoveBalance(p) \/ Update(p)
  BY <1>1, <1>3, <1>12 DEF MoveBalance, Update, tables
<1>13. CASE LockByID(p) \/ ParkNew(p) \/ RejectOp(p) \/ ConcludeLoss(p) \/ Settle(p)
  BY <1>1, <1>13 DEF LockByID, ParkNew, RejectOp, ConcludeLoss, Settle, Outcome, tables
<1>14. CASE Start(p) \/ Return(p)
  BY <1>1, <1>14 DEF Start, Execute, ExecuteFromMessage, Expire, Begin, Return, tables
<1>. QED
  BY <1>5, <1>6, <1>7, <1>8, <1>9, <1>10, <1>11, <1>12, <1>13, <1>14 DEF Progress

\* However often a message is delivered, handled or interrupted, it is marked
\* as handled only with an operation of its payload stored.
THEOREM HandledIsRecorded == Spec => []HandledMeansRecorded
<1>1. Init => HandledMeansRecorded
  BY DEF Init, HandledMeansRecorded
<1>2. Memories /\ HandledMeansRecorded /\ [Next]_vars => HandledMeansRecorded'
  <2>. SUFFICES ASSUME Memories, HandledMeansRecorded, [Next]_vars,
                       NEW m \in MessageId, inbox'[m] # None
                PROVE  \E e \in Ext : rows'[e] # None /\ PayloadHash(rows'[e].cmd) = inbox'[m]
    BY DEF HandledMeansRecorded
  <2>1. CASE inbox'[m] = inbox[m]
    <3>1. PICK e \in Ext : rows[e] # None /\ PayloadHash(rows[e].cmd) = inbox[m]
      BY <2>1 DEF HandledMeansRecorded
    <3>2. rows'[e] # None /\ rows'[e].cmd = rows[e].cmd
      BY <3>1, StepsKeepHistory DEF HistoryKept
    <3>. QED BY <2>1, <3>1, <3>2
  <2>2. ASSUME NEW p \in Call, NEW t, StoredAs(p, t), pc[p] # "idle",
               inbox'[m] = PayloadHash(cmd[p])
        PROVE  \E e \in Ext : rows'[e] # None /\ PayloadHash(rows'[e].cmd) = inbox'[m]
    <3>1. cmd[p].ext \in Ext
      BY <2>2, Memory DEF Memories
    <3>2. t # None
      BY <2>2, RecordAssumption DEF StoredAs
    <3>. QED BY <2>2, <3>1, <3>2 DEF StoredAs
  <2>. QED BY <2>1, <2>2, StepsMark, OpenWalletFacts DEF Next, vars, Memories
<1>. QED BY <1>1, <1>2, KnownInvariant, PTL DEF Spec

-----------------------------------------------------------------------------
(***************************************************************************)
(* The ledger and the events of an operation.                              *)
(***************************************************************************)

\* The positions of an operation, element by element.
LEMMA InPositions ==
    ASSUME NEW e, NEW x
    PROVE  /\ x \in Positions(e) <=>
                \E w \in Wallet : \E i \in DOMAIN ledger[w] :
                    ledger[w][i].tx = e /\ x = [wallet |-> w, seq |-> i]
           /\ x \in Positions(e)' <=>
                \E w \in Wallet : \E i \in DOMAIN ledger'[w] :
                    ledger'[w][i].tx = e /\ x = [wallet |-> w, seq |-> i]
<1>1. x \in Positions(e) <=>
        \E w \in Wallet : x \in {[wallet |-> w, seq |-> i] : i \in {j \in DOMAIN ledger[w] : ledger[w][j].tx = e}}
  BY DEF Positions
<1>2. x \in Positions(e)' <=>
        \E w \in Wallet : x \in {[wallet |-> w, seq |-> i] : i \in {j \in DOMAIN ledger'[w] : ledger'[w][j].tx = e}}
  BY DEF Positions
<1>. QED BY <1>1, <1>2

\* What a step adds to the ledger: nothing, an opening, or the entry of the
\* operation that commits.
LEMMA PositionsKept ==
    ASSUME NEW e, \A w \in Wallet :
             \/ ledger'[w] = ledger[w]
             \/ /\ \A i \in DOMAIN ledger[w] : ledger[w][i].tx # e
                /\ \A i \in DOMAIN ledger'[w] : ledger'[w][i].tx # e
    PROVE  Positions(e)' = Positions(e)
<1>1. ASSUME NEW x  PROVE x \in Positions(e)' <=> x \in Positions(e)
  BY InPositions
<1>. QED BY <1>1

\* Where the entry of a call that commits appears.
LEMMA CommitPositions ==
    ASSUME Memories, NEW p \in Call, Commit(p), entry[p] # None
    PROVE  /\ \A e \in Ext :
                Positions(e)' =
                  IF e = cmd[p].ext
                  THEN Positions(e)
                       \cup {[wallet |-> cmd[p].wallet, seq |-> Len(ledger[cmd[p].wallet]) + 1]}
                  ELSE Positions(e)
           /\ ledger'[cmd[p].wallet][Len(ledger[cmd[p].wallet]) + 1] = entry[p]
           /\ \A w \in Wallet : \A i \in DOMAIN ledger[w] : ledger'[w][i] = ledger[w][i]
<1>. DEFINE W == cmd[p].wallet
            n == Len(ledger[W]) + 1
            tx == cmd[p].ext
<1>1. W \in Wallet /\ ledger' = [ledger EXCEPT ![W] = Append(@, entry[p])]
      /\ entry[p] \in LedgerEntry
  BY CommitFacts DEF Memories
<1>2. entry[p].tx = tx
  BY DEF Memories, Known, KnowsAt, EntryConcludes
<1>3. ledger \in [Wallet -> Seq(LedgerEntry)]
  BY DEF Memories, TypeInv, TypeOK
<1>4. \A w \in Wallet \ {W} : ledger'[w] = ledger[w]
  BY <1>1, <1>3
<1>5. ledger[W] \in Seq(LedgerEntry) /\ ledger'[W] = Append(ledger[W], entry[p])
  BY <1>1, <1>3
<1>6. /\ DOMAIN ledger[W] = 1..Len(ledger[W]) /\ Len(ledger[W]) \in Nat
      /\ DOMAIN ledger'[W] = 1..n
      /\ ledger'[W][n] = entry[p]
      /\ \A i \in DOMAIN ledger[W] : ledger'[W][i] = ledger[W][i]
  <2>. DEFINE l == ledger[W]
              m == ledger'[W]
  <2>. HIDE DEF l, m
  <2>1. l \in Seq(LedgerEntry) /\ m = Append(l, entry[p])
    BY <1>5 DEF l, m
  <2>2. DOMAIN l = 1..Len(l) /\ Len(l) \in Nat
    BY <2>1
  <2>3. DOMAIN m = 1..(Len(l) + 1) /\ m[Len(l) + 1] = entry[p]
    BY <2>1
  <2>4. \A i \in 1..Len(l) : m[i] = l[i]
    BY <2>1
  <2>. QED BY <2>2, <2>3, <2>4 DEF l, m
<1>. HIDE DEF W, n, tx
<1>7. DOMAIN ledger'[W] = DOMAIN ledger[W] \cup {n}
  BY <1>6 DEF n
<1>8. ASSUME NEW e, NEW x
      PROVE  x \in Positions(e)' <=>
               x \in Positions(e) \/ (e = tx /\ x = [wallet |-> W, seq |-> n])
  <2>1. ASSUME NEW w \in Wallet \ {W}
        PROVE  (\E i \in DOMAIN ledger'[w] : ledger'[w][i].tx = e /\ x = [wallet |-> w, seq |-> i])
               <=> (\E i \in DOMAIN ledger[w] : ledger[w][i].tx = e /\ x = [wallet |-> w, seq |-> i])
    BY <1>4, <2>1
  <2>2. (\E i \in DOMAIN ledger'[W] : ledger'[W][i].tx = e /\ x = [wallet |-> W, seq |-> i])
        <=> \/ \E i \in DOMAIN ledger[W] : ledger[W][i].tx = e /\ x = [wallet |-> W, seq |-> i]
            \/ e = tx /\ x = [wallet |-> W, seq |-> n]
    BY <1>2, <1>6, <1>7
  <2>. QED BY <1>1, <2>1, <2>2, InPositions
<1>9. ASSUME NEW f
      PROVE  Positions(f)' =
               IF f = tx THEN Positions(f) \cup {[wallet |-> W, seq |-> n]} ELSE Positions(f)
  <2>1. ASSUME NEW x
        PROVE  x \in Positions(f)' <=>
                 x \in IF f = tx THEN Positions(f) \cup {[wallet |-> W, seq |-> n]}
                      ELSE Positions(f)
    <3>1. x \in Positions(f)' <=>
            x \in Positions(f) \/ (f = tx /\ x = [wallet |-> W, seq |-> n])
      BY <1>8
    <3>. QED BY <3>1
  <2>. QED BY <2>1
<1>. QED BY <1>4, <1>6, <1>9 DEF W, n, tx

\* What the ledger holds of operation e.
AppliedAt(e) ==
    IF rows[e] # None /\ rows[e].state = "PROCESSED" /\ rows[e].cmd.kind # "LOSS"
    THEN /\ Cardinality(Positions(e)) = 1
         /\ \A x \in Positions(e) :
              /\ x.wallet = rows[e].cmd.wallet
              /\ ledger[x.wallet][x.seq].amount = rows[e].cmd.amount
              /\ ledger[x.wallet][x.seq].after = rows[e].result
    ELSE Positions(e) = {}

\* A step that leaves the row and the entries of an operation alone.
LEMMA StillApplied ==
    ASSUME NEW e, AppliedAt(e), rows'[e] = rows[e], Positions(e)' = Positions(e),
           \A x \in Positions(e) : ledger'[x.wallet][x.seq] = ledger[x.wallet][x.seq]
    PROVE  AppliedAt(e)'
BY DEF AppliedAt

\* What a call that commits knows of its operation and of its entry.
LEMMA CommitKnows ==
    ASSUME Memories, NEW p \in Call, Commit(p)
    PROVE  /\ cmd[p].ext \in Ext /\ cmd[p] \in WagerCommand
           /\ op[p] \in TransactionRow /\ op[p] # None /\ rows'[cmd[p].ext] = op[p]
           /\ op[p].cmd.wallet = cmd[p].wallet /\ op[p].cmd.kind = cmd[p].kind
           /\ op[p].cmd.amount = cmd[p].amount /\ op[p].cmd.ref = cmd[p].ref
           /\ rows[cmd[p].ext] # None => ~fresh[p] /\ rows[cmd[p].ext].state = "PENDING_REFERENCE"
           /\ rows[cmd[p].ext] = None => fresh[p]
           /\ OneConclusion(p) /\ EntryConcludes(p) /\ pc[p] = "commit"
<1>1. /\ pc[p] = "commit" /\ OneConclusion(p) /\ EntryConcludes(p) /\ OwnsAt(p)
      /\ SameOperation(p)
  BY DEF Commit, At, Memories, Known, KnowsAt, Owns
<1>2. /\ cmd[p] \in WagerCommand /\ cmd[p].ext \in Ext
      /\ op[p] \in TransactionRow /\ op[p] # None
  BY <1>1, Memory, CommitFacts DEF Memories, CallOKAt
<1>3. rows'[cmd[p].ext] = op[p]
  BY CommitKeeps DEF Memories
<1>4. op[p].cmd \in WagerCommand /\ PayloadHash(op[p].cmd) = PayloadHash(cmd[p])
  BY <1>1, <1>2 DEF TransactionRow, SameOperation
<1>5. /\ op[p].cmd.wallet = cmd[p].wallet /\ op[p].cmd.kind = cmd[p].kind
      /\ op[p].cmd.amount = cmd[p].amount /\ op[p].cmd.ref = cmd[p].ref
  BY <1>2, <1>4, SameHash
<1>6. /\ rows[cmd[p].ext] = None => fresh[p]
      /\ rows[cmd[p].ext] # None => ~fresh[p] /\ ~IsTerminal(rows[cmd[p].ext].state)
  BY <1>1 DEF OwnsAt, Inside
<1>7. ASSUME rows[cmd[p].ext] # None  PROVE rows[cmd[p].ext].state = "PENDING_REFERENCE"
  <2>1. rows[cmd[p].ext] \in TransactionRow /\ rows[cmd[p].ext].state # "PENDING"
    BY <1>2, <1>7 DEF Memories, TypeInv, TypeOK, Clean
  <2>. QED BY <1>6, <1>7, <2>1 DEF TransactionRow, TransactionState, IsTerminal
<1>. QED BY <1>1, <1>2, <1>3, <1>5, <1>6, <1>7

\* The operation that commits had moved nothing, and moves what it says.
LEMMA CommitApplies ==
    ASSUME Memories, \A e \in Ext : AppliedAt(e), NEW p \in Call, Commit(p), NEW e \in Ext
    PROVE  AppliedAt(e)'
<1>1. CASE entry[p] = None
  <2>1. ledger' = ledger /\ Positions(e)' = Positions(e)
    BY <1>1, CommitFacts, PositionsKept DEF Memories
  <2>2. CASE e # cmd[p].ext
    BY <2>1, <2>2, CommitKeeps, StillApplied DEF Memories
  <2>3. CASE e = cmd[p].ext
    <3>1. Positions(e) = {}
      BY <2>3, CommitKnows DEF AppliedAt
    <3>2. ~(op[p].state = "PROCESSED" /\ op[p].cmd.kind # "LOSS")
      BY <1>1, CommitKnows DEF EntryConcludes
    <3>. QED BY <2>1, <2>3, <3>1, <3>2, CommitKnows DEF AppliedAt
  <2>. QED BY <2>2, <2>3
<1>2. CASE entry[p] # None
  <2>. DEFINE W == cmd[p].wallet
              n == Len(ledger[W]) + 1
  <2>1. /\ Positions(e)' = IF e = cmd[p].ext THEN Positions(e) \cup {[wallet |-> W, seq |-> n]}
                          ELSE Positions(e)
        /\ ledger'[W][n] = entry[p]
        /\ \A w \in Wallet : \A i \in DOMAIN ledger[w] : ledger'[w][i] = ledger[w][i]
    BY <1>2, CommitPositions
  <2>. HIDE DEF n
  <2>2. CASE e # cmd[p].ext
    <3>1. \A x \in Positions(e) : ledger'[x.wallet][x.seq] = ledger[x.wallet][x.seq]
      BY <2>1, InPositions
    <3>. QED BY <2>1, <2>2, <3>1, CommitKeeps, StillApplied DEF Memories
  <2>3. CASE e = cmd[p].ext
    <3>1. Positions(e) = {}
      BY <2>3, CommitKnows DEF AppliedAt
    <3>2. Positions(e)' = {[wallet |-> W, seq |-> n]}
      BY <2>1, <2>3, <3>1
    <3>3. Cardinality(Positions(e)') = 1
      BY <3>2, FS_Singleton
    <3>4. /\ op[p].state = "PROCESSED" /\ entry[p].amount = op[p].cmd.amount
          /\ entry[p].after = op[p].result /\ op[p].cmd.kind # "LOSS"
          /\ W = op[p].cmd.wallet
      BY <1>2, CommitKnows DEF EntryConcludes
    <3>5. \A x \in Positions(e)' : x.wallet = W /\ x.seq = n
      BY <3>2
    <3>6. rows'[e] = op[p] /\ op[p] # None
      BY <2>3, CommitKnows
    <3>. QED BY <2>1, <3>3, <3>4, <3>5, <3>6 DEF AppliedAt
  <2>. QED BY <2>2, <2>3
<1>. QED BY <1>1, <1>2

\* An opening adds no entry of an operation.
LEMMA OpeningApplies ==
    ASSUME Memories, NEW e \in Ext, AppliedAt(e), NEW w \in Wallet, NEW pl \in Player,
           NEW u \in Currency, NEW b \in InitialBalance, OpenWallet(w, pl, u, b)
    PROVE  AppliedAt(e)' /\ Positions(e)' = Positions(e)
<1>1. /\ rows' = rows /\ ledger[w] = <<>>
      /\ \A v \in Wallet \ {w} : ledger'[v] = ledger[v]
      /\ \A i \in DOMAIN ledger'[w] : ledger'[w][i].tx # e
  BY OpenWalletFacts, OpeningAssumption DEF Memories
<1>2. \A i \in DOMAIN ledger[w] : ledger[w][i].tx # e
  BY <1>1
<1>3. Positions(e)' = Positions(e)
  BY <1>1, <1>2, PositionsKept
<1>4. \A x \in Positions(e) : ledger'[x.wallet][x.seq] = ledger[x.wallet][x.seq]
  BY <1>1, InPositions
<1>. QED BY <1>1, <1>3, <1>4, StillApplied

LEMMA AppliedInvariant == Spec => [](Memories /\ \A e \in Ext : AppliedAt(e))
<1>. DEFINE Applied == \A e \in Ext : AppliedAt(e)
<1>1. Init => Applied
  <2>1. ASSUME Init, NEW e \in Ext  PROVE AppliedAt(e)
    <3>1. \A x : x \notin Positions(e)
      BY <2>1, InPositions DEF Init
    <3>. QED BY <2>1, <3>1 DEF Init, AppliedAt
  <2>. QED BY <2>1
<1>2. Memories /\ Applied /\ [Next]_vars => Applied'
  <2>. SUFFICES ASSUME Memories, Applied, [Next]_vars, NEW e \in Ext  PROVE AppliedAt(e)'
    OBVIOUS
  <2>1. CASE rows' = rows /\ ledger' = ledger
    <3>1. Positions(e)' = Positions(e)
      BY <2>1, PositionsKept
    <3>. QED BY <2>1, <3>1, StillApplied
  <2>. QED
    BY <2>1, CommitApplies, OpeningApplies, StepsOfCalls, TablesKept DEF Memories, vars
<1>. QED BY <1>1, <1>2, KnownInvariant, PTL DEF Spec

\* An operation that was processed has exactly one ledger entry, of its amount,
\* in its wallet and with the balance its row tells, and one that was not has
\* none, whatever is repeated, resumed, retried or interrupted.
THEOREM MovesOnce == Spec => []AppliedOnce
<1>1. (\A e \in Ext : AppliedAt(e)) => AppliedOnce
  BY DEF AppliedAt, AppliedOnce
<1>. QED BY <1>1, AppliedInvariant, PTL

\* The events of operation e, spelled out.
Waiting == <<"WagerTransactionPendingReference">>

Ending(e) ==
    IF rows[e].state = "REJECTED" THEN <<"WagerTransactionRejected">>
    ELSE IF Positions(e) = {} THEN <<"WagerTransactionProcessed">>
    ELSE <<"WagerTransactionProcessed", "WalletBalanceChanged">>

StoryAt(e) ==
    IF rows[e] = None THEN events[e] = <<>>
    ELSE IF rows[e].state = "PENDING_REFERENCE" THEN events[e] = Waiting
    ELSE events[e] = Ending(e) \/ events[e] = Waiting \o Ending(e)

\* The events an outcome writes, by its state and whether it moved money.
LEMMA EventsByState ==
    ASSUME NEW t, NEW moved \in BOOLEAN
    PROVE  /\ EventsOf(t, moved) \in Seq(EventType)
           /\ t.state = "REJECTED" => EventsOf(t, moved) = <<"WagerTransactionRejected">>
           /\ t.state = "PROCESSED" /\ moved =>
                EventsOf(t, moved) = <<"WagerTransactionProcessed", "WalletBalanceChanged">>
           /\ t.state = "PROCESSED" /\ ~moved =>
                EventsOf(t, moved) = <<"WagerTransactionProcessed">>
           /\ t.state = "PENDING_REFERENCE" => EventsOf(t, moved) = Waiting
<1>1. /\ <<"WagerTransactionRejected">> \in Seq(EventType)
      /\ <<"WagerTransactionProcessed", "WalletBalanceChanged">> \in Seq(EventType)
      /\ <<"WagerTransactionProcessed">> \in Seq(EventType)
      /\ Waiting \in Seq(EventType)
  BY DEF EventType, Waiting
<1>. QED BY <1>1 DEF EventsOf, Waiting

\* A commit appends to the events of its operation only.
LEMMA CommitStory ==
    ASSUME Memories, \A e \in Ext : AppliedAt(e), NEW p \in Call, Commit(p),
           NEW e \in Ext, StoryAt(e)
    PROVE  StoryAt(e)'
<1>1. /\ events \in [Ext \cup Wallet -> Seq(EventType)]
      /\ events' = [events EXCEPT ![cmd[p].ext] = @ \o EventsOf(op[p], entry[p] # None)]
  BY DEF Commit, Memories, TypeInv, TypeOK
<1>2. CASE e # cmd[p].ext
  <2>1. events'[e] = events[e] /\ rows'[e] = rows[e]
    BY <1>1, <1>2, CommitKeeps DEF Memories
  <2>2. Positions(e)' = Positions(e)
    BY <1>2, CommitPositions, CommitFacts, PositionsKept DEF Memories
  <2>. QED BY <2>1, <2>2 DEF StoryAt, Ending
<1>3. CASE e = cmd[p].ext
  <2>. DEFINE told == EventsOf(op[p], entry[p] # None)
  <2>1. events'[e] = events[e] \o told
    BY <1>1, <1>3
  <2>2. rows'[e] = op[p] /\ op[p] # None
    BY <1>3, CommitKnows
  <2>3. Positions(e)' = {} <=> entry[p] = None
    <3>1. Positions(e) = {}
      BY <1>3, CommitKnows DEF AppliedAt
    <3>2. CASE entry[p] = None
      <4>1. ledger' = ledger
        BY <3>2, CommitFacts DEF Memories
      <4>. QED BY <3>1, <3>2, <4>1, PositionsKept
    <3>3. CASE entry[p] # None
      <4>1. Positions(e)' # {}
        BY <1>3, <3>3, CommitPositions
      <4>. QED BY <3>3, <4>1
    <3>. QED BY <3>2, <3>3
  <2>4. op[p].state # "PENDING_REFERENCE" => Ending(e)' = told
    <3>. SUFFICES ASSUME op[p].state # "PENDING_REFERENCE"  PROVE Ending(e)' = told
      OBVIOUS
    <3>1. CASE op[p].state = "REJECTED"
      BY <2>2, <3>1, EventsByState DEF Ending
    <3>2. CASE op[p].state = "PROCESSED"
      <4>1. CASE entry[p] = None
        BY <2>2, <2>3, <3>2, <4>1, EventsByState DEF Ending
      <4>2. CASE entry[p] # None
        BY <2>2, <2>3, <3>2, <4>2, EventsByState DEF Ending
      <4>. QED BY <4>1, <4>2
    <3>3. op[p].state = "PROCESSED" \/ op[p].state = "REJECTED"
      BY CommitKnows DEF OneConclusion, IsTerminal
    <3>. HIDE DEF told
    <3>. QED BY <3>1, <3>2, <3>3
  <2>5. op[p].state = "PENDING_REFERENCE" => fresh[p] /\ told = Waiting
    <3>1. op[p].state = "PENDING_REFERENCE" => fresh[p]
      <4>1. pc[p] = "commit" /\ OneConclusion(p)
        BY CommitKnows
      <4>. QED BY <4>1 DEF OneConclusion, IsTerminal
    <3>2. op[p].state = "PENDING_REFERENCE" => told = Waiting
      BY EventsByState
    <3>. QED BY <3>1, <3>2
  <2>6. told \in Seq(EventType)
    BY EventsByState
  <2>. HIDE DEF told
  <2>7. CASE rows[e] = None
    <3>1. events'[e] = told
      BY <2>1, <2>6, <2>7 DEF StoryAt
    <3>. QED BY <2>2, <2>4, <2>5, <3>1 DEF StoryAt
  <2>8. CASE rows[e] # None
    <3>1. events'[e] = Waiting \o told /\ ~fresh[p]
      BY <1>3, <2>1, <2>8, CommitKnows DEF StoryAt
    <3>. QED BY <2>2, <2>4, <2>5, <3>1 DEF StoryAt
  <2>. QED BY <2>7, <2>8
<1>. QED BY <1>2, <1>3

\* The outbox tells of each operation at most one wait and then one conclusion,
\* and of a change of balance exactly when the ledger has one, for every call,
\* retry and interruption.
THEOREM OutboxTellsAll == Spec => []EventsTellTheStory
<1>. DEFINE Story == \A e \in Ext : StoryAt(e)
            Applied == \A e \in Ext : AppliedAt(e)
<1>1. Init => Story
  BY DEF Init, StoryAt
<1>2. Memories /\ Applied /\ Story /\ [Next]_vars => Story'
  <2>. SUFFICES ASSUME Memories, Applied, Story, [Next]_vars, NEW e \in Ext  PROVE StoryAt(e)'
    OBVIOUS
  <2>1. ASSUME rows' = rows, events'[e] = events[e], Positions(e)' = Positions(e)
        PROVE  StoryAt(e)'
    BY <2>1 DEF StoryAt, Ending
  <2>2. CASE UNCHANGED <<rows, ledger, events>>
    BY <2>1, <2>2, PositionsKept
  <2>3. ASSUME NEW w \in Wallet, NEW pl \in Player, NEW u \in Currency,
               NEW b \in InitialBalance, OpenWallet(w, pl, u, b)
        PROVE  StoryAt(e)'
    BY <2>1, <2>3, OpeningApplies, OpenWalletFacts DEF Memories
  <2>. QED
    BY <2>2, <2>3, CommitStory, StepsOfCalls, TablesKept DEF Memories, vars
<1>3. Memories /\ Story => EventsTellTheStory
  <2>. SUFFICES ASSUME Memories, Story  PROVE EventsTellTheStory
    OBVIOUS
  <2>1. ASSUME NEW e \in Ext, rows[e] # None, rows[e].state = "PENDING_REFERENCE"
        PROVE  Waiting # <<>> /\ events[e] = Waiting \o <<>>
    BY <2>1 DEF StoryAt, Waiting
  <2>2. ASSUME NEW e \in Ext, rows[e] # None, rows[e].state # "PENDING_REFERENCE"
        PROVE  events[e] = <<>> \o Ending(e) \/ events[e] = Waiting \o Ending(e)
    BY <2>2 DEF StoryAt, Ending
  <2>. QED BY <2>1, <2>2 DEF EventsTellTheStory, Ending, StoryAt, Waiting
<1>. QED BY <1>1, <1>2, <1>3, AppliedInvariant, PTL DEF Spec

-----------------------------------------------------------------------------
(***************************************************************************)
(* The decision.  What a call has decided over the wallet it locked and    *)
(* the reference it read is still the verdict over the committed tables    *)
(* when it commits, unless its operation has been concluded by then, and   *)
(* then the table refuses the commit.                                      *)
(***************************************************************************)

\* The operation of p as the tables have it, and whether it can be concluded.
Stored(p) == rows[cmd[p].ext]
Latest(p) == IF Stored(p) = None THEN NewExternalTransaction(cmd[p]) ELSE Stored(p)
Unconcluded(p) == Stored(p) # None => ~IsTerminal(Stored(p).state)

\* The verdict over the committed tables.
CommittedVerdict(p) ==
    apply(cmd[p], wallets[cmd[p].wallet], RowOf(rows, cmd[p].ref),
          HasProcessedReversal(rows, cmd[p].ref))

\* What a call has decided is one of these.
Moving(p) ==
    LET v == CommittedVerdict(p)
        w == wallets[cmd[p].wallet]
    IN  /\ wal[p] # None /\ entry[p] # None /\ v.act = "MOVE"
        /\ wal[p] = ApplyMovement(w, v.direction, cmd[p].amount)
        /\ entry[p] = NewLedgerEntry(cmd[p].ext, v.direction, cmd[p].amount, w.balance)
        /\ op[p] = MarkAsProcessed(Latest(p), wal[p].balance, v.ref)

Concluding(p) ==
    /\ wal[p] # None /\ entry[p] = None /\ CommittedVerdict(p).act = "CONCLUDE"
    /\ op[p] = MarkAsProcessed(Latest(p), wallets[cmd[p].wallet].balance, None)

Refusing(p) ==
    LET v == CommittedVerdict(p)
    IN  /\ wal[p] # None /\ entry[p] = None /\ v.act = "REJECT"
        /\ op[p] = Reject(Latest(p), v.code, v.ref)

Parking(p) ==
    /\ wal[p] # None /\ entry[p] = None /\ fresh[p] /\ RequiresReference(cmd[p].kind)
    /\ op[p] = MarkAsPendingReference(NewExternalTransaction(cmd[p]))

Expiring(p) ==
    /\ wal[p] = None /\ entry[p] = None /\ Stored(p) # None
    /\ op[p] = Reject(Stored(p), "REFERENCE_NOT_FOUND", Stored(p).ref)

DecidedAs(p) ==
    pc[p] \in {"move", "update", "commit"} /\ Unconcluded(p) =>
        Moving(p) \/ Concluding(p) \/ Refusing(p) \/ Parking(p) \/ Expiring(p)

\* Before it decides, a call holds the operation as it is stored, and its
\* wallet is open.
ReadyAt(p) ==
    /\ pc[p] = "fkey" => fresh[p]
    /\ pc[p] = "insert" => op[p] = NewExternalTransaction(cmd[p])
    /\ fresh[p] /\ pc[p] \in {"fkey", "lock", "decide"} =>
         op[p] = NewExternalTransaction(cmd[p])
    /\ ~fresh[p] /\ pc[p] \in {"lock", "decide"} =>
         IsTerminal(Stored(p).state) \/ op[p] = Stored(p)
    /\ pc[p] \in {"lock", "decide"} => wallets[cmd[p].wallet] # None
    /\ pc[p] = "decide" => wal[p] # None

DecidesAt(p) == ReadyAt(p) /\ DecidedAs(p)

\* What is stored was sent by a provider, to a wallet that is open.
Sent ==
    /\ \A p \in Call : cmd[p] # None => cmd[p] \in Command
    /\ \A e \in Ext : rows[e] # None =>
         rows[e].cmd \in Command /\ wallets[rows[e].cmd.wallet] # None

\* A verdict but to park depends on a reference that has concluded, and on
\* its being reversed only if the reversal agrees with it.
LEMMA VerdictStands ==
    ASSUME NEW c, NEW w, NEW r, NEW s, NEW b \in BOOLEAN, NEW d \in BOOLEAN,
           r # None /\ IsTerminal(r.state) => s = r,
           b => d,
           RequiresReference(c.kind) /\ r # None /\ r.state = "PROCESSED" /\ agrees(c, r.cmd)
             => b = d,
           apply(c, w, r, b).act # "PARK"
    PROVE  apply(c, w, s, d) = apply(c, w, r, b)
<1>1. resolveReference(c, w, r, b).act # "PARK"
      => resolveReference(c, w, s, d) = resolveReference(c, w, r, b)
  <2>1. CASE ~RequiresReference(c.kind)
    BY <2>1 DEF resolveReference
  <2>2. CASE RequiresReference(c.kind) /\ (r = None \/ ~IsTerminal(r.state))
    BY <2>2 DEF resolveReference, Verdict
  <2>3. CASE RequiresReference(c.kind) /\ r # None /\ IsTerminal(r.state)
    <3>1. s = r
      BY <2>3
    <3>2. CASE r.state = "PROCESSED" /\ agrees(c, r.cmd)
      BY <2>3, <3>1, <3>2
    <3>3. CASE ~(r.state = "PROCESSED" /\ agrees(c, r.cmd))
      BY <2>3, <3>1, <3>3 DEF resolveReference
    <3>. QED BY <3>2, <3>3
  <2>. QED BY <2>1, <2>2, <2>3
<1>. QED BY <1>1 DEF apply

\* A movement of a reversal: the reference has been processed and not reversed,
\* agrees with it, and is the one that is kept.
LEMMA MovingReversal ==
    ASSUME NEW c, NEW w, NEW r, NEW b \in BOOLEAN, RequiresReference(c.kind),
           apply(c, w, r, b).act = "MOVE"
    PROVE  /\ r # None /\ r.state = "PROCESSED" /\ agrees(c, r.cmd) /\ ~b
           /\ apply(c, w, r, b).ref = c.ref
<1>1. \A d, ref : settle(c, w, d, ref).ref = ref
  BY DEF settle, Verdict
<1>2. apply(c, w, r, b) = resolveReference(c, w, r, b)
  BY DEF apply, Refuse, Verdict
<1>3. r # None /\ r.state = "PROCESSED" /\ agrees(c, r.cmd) /\ ~b
  BY <1>2 DEF resolveReference, Refuse, Verdict, IsTerminal
<1>4. resolveReference(c, w, r, b) = settle(c, w, movementOf(c, r.cmd), c.ref)
  BY <1>3 DEF resolveReference, IsTerminal
<1>. QED BY <1>1, <1>2, <1>3, <1>4

Decides == \A p \in Call : DecidesAt(p)

\* What a step of another must leave to q: its operation, unless that is
\* concluded; its wallet, if q holds it; and the verdict q relies on.
LeftTo(q) ==
    /\ pc[q] \in Inside =>
         \/ Stored(q)' = Stored(q)
         \/ Stored(q)' # None /\ IsTerminal(Stored(q)'.state)
    /\ wallets[cmd[q].wallet] # None => wallets'[cmd[q].wallet] # None
    /\ wal[q] # None => /\ wallets'[cmd[q].wallet] = wallets[cmd[q].wallet]
                        /\ CommittedVerdict(q).act # "PARK" =>
                             CommittedVerdict(q)' = CommittedVerdict(q)

LEMMA OthersDecide ==
    ASSUME NEW q \in Call, DecidesAt(q), Untouched(q), LeftTo(q)
    PROVE  DecidesAt(q)'
<1>1. /\ pc'[q] = pc[q] /\ cmd'[q] = cmd[q] /\ op'[q] = op[q] /\ entry'[q] = entry[q]
      /\ fresh'[q] = fresh[q] /\ wal'[q] = wal[q]
  BY DEF Untouched, SameCall
<1>2. ReadyAt(q)'
  BY <1>1 DEF DecidesAt, ReadyAt, LeftTo, Inside
<1>3. ASSUME pc'[q] \in {"move", "update", "commit"}, Unconcluded(q)'
      PROVE  (Moving(q) \/ Concluding(q) \/ Refusing(q) \/ Parking(q) \/ Expiring(q))'
  <2>1. Stored(q)' = Stored(q)
    BY <1>1, <1>3 DEF LeftTo, Unconcluded, Inside
  <2>2. Latest(q)' = Latest(q) /\ Unconcluded(q)
    BY <1>1, <1>3, <2>1 DEF Latest, Unconcluded
  <2>3. Moving(q) \/ Concluding(q) \/ Refusing(q) \/ Parking(q) \/ Expiring(q)
    BY <1>1, <1>3, <2>2 DEF DecidesAt, DecidedAs
  <2>4. Moving(q) => Moving(q)'
    BY <1>1, <2>2 DEF Moving, LeftTo
  <2>5. Concluding(q) => Concluding(q)'
    BY <1>1, <2>2 DEF Concluding, LeftTo
  <2>6. Refusing(q) => Refusing(q)'
    BY <1>1, <2>2 DEF Refusing, LeftTo
  <2>7. Parking(q) => Parking(q)'
    BY <1>1 DEF Parking
  <2>8. Expiring(q) => Expiring(q)'
    BY <1>1, <2>1 DEF Expiring
  <2>. QED BY <2>3, <2>4, <2>5, <2>6, <2>7, <2>8
<1>. QED BY <1>2, <1>3 DEF DecidesAt, DecidedAs

\* The outcome of a call that commits is one of the five.
LEMMA CommitDecides ==
    ASSUME Memories, Decides, NEW p \in Call, Commit(p)
    PROVE  /\ Moving(p) \/ Concluding(p) \/ Refusing(p) \/ Parking(p) \/ Expiring(p)
           /\ Unconcluded(p)
<1>1. pc[p] = "commit" /\ Unconcluded(p)
  BY CommitKnows DEF Unconcluded, Stored, IsTerminal
<1>. QED BY <1>1 DEF Decides, DecidesAt, DecidedAs

\* A call that commits a reversal which moved money: its reference agrees with
\* it and had not been reversed.
LEMMA CommitReverses ==
    ASSUME Memories, Decides, NEW p \in Call, Commit(p),
           op[p].state = "PROCESSED", RequiresReference(cmd[p].kind)
    PROVE  /\ entry[p] # None /\ wal[p] # None
           /\ cmd[p].ref \in Ext /\ op[p].ref = cmd[p].ref
           /\ agrees(cmd[p], rows[cmd[p].ref].cmd)
           /\ ~HasProcessedReversal(rows, cmd[p].ref)
<1>1. entry[p] # None
  BY CommitKnows DEF EntryConcludes, RequiresReference
<1>2. Moving(p)
  BY <1>1, CommitDecides DEF Concluding, Refusing, Parking, Expiring
<1>. DEFINE r == RowOf(rows, cmd[p].ref)
            b == HasProcessedReversal(rows, cmd[p].ref)
<1>3. b \in BOOLEAN
  BY DEF HasProcessedReversal
<1>4. apply(cmd[p], wallets[cmd[p].wallet], r, b).act = "MOVE"
  BY <1>2 DEF Moving, CommittedVerdict
<1>. HIDE DEF r, b
<1>5. /\ r # None /\ agrees(cmd[p], r.cmd) /\ ~b
      /\ apply(cmd[p], wallets[cmd[p].wallet], r, b).ref = cmd[p].ref
  BY <1>3, <1>4, MovingReversal
<1>6. cmd[p].ref # None /\ r = rows[cmd[p].ref]
  BY <1>5 DEF RowOf, r
<1>7. cmd[p].ref \in Ext
  BY <1>6, CommitKnows DEF WagerCommand
<1>8. op[p].ref = cmd[p].ref
  <2>1. op[p] = MarkAsProcessed(Latest(p), wal[p].balance, cmd[p].ref)
    BY <1>2, <1>5 DEF Moving, CommittedVerdict, r, b
  <2>2. Latest(p) \in TransactionRow
    BY CommitKnows, NewOperation DEF Latest, Stored, Memories, TypeInv, TypeOK
  <2>. QED BY <2>1, <2>2 DEF MarkAsProcessed, TransactionRow
<1>. QED BY <1>1, <1>2, <1>5, <1>6, <1>7, <1>8 DEF Moving, b

\* A commit leaves to the others what they rely on.
LEMMA CommitLeaves ==
    ASSUME Memories, Decides, HistoryKept, NEW p \in Call, Commit(p),
           NEW q \in Call, q # p, pc[q] # "idle"
    PROVE  LeftTo(q)
<1>1. /\ cmd[q] \in WagerCommand /\ cmd[q].ext \in Ext /\ cmd[q].wallet \in Wallet
      /\ cmd'[q] = cmd[q]
  BY Memory, CommitFacts DEF Memories
<1>2. ASSUME pc[q] \in Inside
      PROVE  \/ Stored(q)' = Stored(q)
             \/ Stored(q)' # None /\ IsTerminal(Stored(q)'.state)
  <2>1. CASE cmd[q].ext # cmd[p].ext
    BY <1>1, <2>1, CommitKeeps DEF Stored, Memories
  <2>2. CASE cmd[q].ext = cmd[p].ext
    <3>1. ~(fresh[p] /\ rows[cmd[p].ext] = None)
      BY <1>2, <2>2 DEF Memories, Owns, OwnsAt
    <3>2. ~fresh[p]
      BY <3>1, CommitKnows
    <3>3. IsTerminal(op[p].state)
      BY <3>2, CommitKnows DEF OneConclusion
    <3>. QED BY <1>1, <2>2, <3>3, CommitKnows DEF Stored
  <2>. QED BY <2>1, <2>2
<1>3. wallets[cmd[q].wallet] # None => wallets'[cmd[q].wallet] # None
  <2>1. entry[p] # None => wal[p] # None /\ wallets' = [wallets EXCEPT ![cmd[p].wallet] = wal[p]]
    BY CommitFacts, Memory DEF Memories, CallOKAt
  <2>2. entry[p] = None => wallets' = wallets
    BY CommitFacts DEF Memories
  <2>. QED BY <1>1, <2>1, <2>2 DEF Memories, TypeInv, TypeOK
<1>4. ASSUME wal[q] # None, entry[p] # None  PROVE cmd[q].wallet # cmd[p].wallet
  BY <1>4, Memory DEF Memories, Held, HeldAt, CallOKAt
<1>5. ASSUME wal[q] # None  PROVE wallets'[cmd[q].wallet] = wallets[cmd[q].wallet]
  <2>1. CASE entry[p] = None
    BY <2>1, CommitFacts DEF Memories
  <2>2. CASE entry[p] # None
    <3>1. cmd[q].wallet # cmd[p].wallet /\ wallets' = [wallets EXCEPT ![cmd[p].wallet] = wal[p]]
      BY <1>4, <1>5, <2>2, CommitFacts DEF Memories
    <3>. QED BY <1>1, <3>1 DEF Memories, TypeInv, TypeOK
  <2>. QED BY <2>1, <2>2
<1>6. ASSUME wal[q] # None, CommittedVerdict(q).act # "PARK"
      PROVE  CommittedVerdict(q)' = CommittedVerdict(q)
  <2>. DEFINE c == cmd[q]
              r == RowOf(rows, c.ref)
              s == RowOf(rows', c.ref)
              b == HasProcessedReversal(rows, c.ref)
              d == HasProcessedReversal(rows', c.ref)
              w == wallets[c.wallet]
  <2>1. b \in BOOLEAN /\ d \in BOOLEAN
    BY DEF HasProcessedReversal
  <2>2. c.ref \in Ext \cup {None}
    BY <1>1 DEF WagerCommand
  <2>3. r # None /\ IsTerminal(r.state) => s = r
    BY <2>2 DEF RowOf, HistoryKept
  <2>4. b => d
    <3>1. ASSUME NEW f \in Ext, IsSuccessfulReversalOf(rows[f], c.ref)
          PROVE  IsSuccessfulReversalOf(rows'[f], c.ref)
      <4>1. rows'[f] = rows[f]
        BY <3>1 DEF IsSuccessfulReversalOf, HistoryKept, IsTerminal
      <4>. QED BY <3>1, <4>1
    <3>. QED BY <3>1 DEF HasProcessedReversal
  <2>5. ASSUME d, ~b, r # None, agrees(c, r.cmd)  PROVE FALSE
    <3>1. PICK f \in Ext : IsSuccessfulReversalOf(rows'[f], c.ref) /\ rows'[f] # rows[f]
      BY <2>5 DEF HasProcessedReversal
    <3>2. f = cmd[p].ext /\ rows'[f] = op[p]
      BY <3>1, CommitKeeps DEF Memories
    <3>3. /\ op[p].state = "PROCESSED" /\ RequiresReference(cmd[p].kind) /\ op[p].ref = c.ref
      BY <3>1, <3>2, CommitKnows DEF IsSuccessfulReversalOf
    <3>4. entry[p] # None /\ c.ref = cmd[p].ref /\ cmd[p].ref \in Ext
          /\ agrees(cmd[p], rows[cmd[p].ref].cmd)
      BY <3>3, CommitReverses
    <3>5. r = rows[cmd[p].ref]
      BY <2>5, <3>4 DEF RowOf
    <3>6. cmd[p].wallet = c.wallet
      BY <2>5, <3>4, <3>5 DEF agrees
    <3>. QED BY <1>4, <1>6, <3>4, <3>6
  <2>6. apply(c, w, r, b).act # "PARK"
    BY <1>6 DEF CommittedVerdict
  <2>7. CommittedVerdict(q)' = apply(c, w, s, d)
    BY <1>1, <1>5, <1>6 DEF CommittedVerdict
  <2>. HIDE DEF c, r, s, b, d, w
  <2>8. apply(c, w, s, d) = apply(c, w, r, b)
    BY <2>1, <2>3, <2>4, <2>5, <2>6, VerdictStands
  <2>. QED BY <2>7, <2>8 DEF CommittedVerdict, c, w, r, b
<1>. QED BY <1>2, <1>3, <1>5, <1>6 DEF LeftTo

-----------------------------------------------------------------------------
\* A call without a transaction has decided nothing.
LEMMA NothingDecided ==
    ASSUME NEW p \in Call, pc'[p] \in {"idle", "register", "find", "expire", "reply"}, ~fresh'[p]
    PROVE  DecidesAt(p)'
BY DEF DecidesAt, ReadyAt, DecidedAs

LEMMA EndDecides ==
    ASSUME TypeInv, NEW p \in Call,
           \/ \E r : Answer(p, r)
           \/ \E e : Fail(p, e)
           \/ \E r : FinishUnchanged(p, r)
           \/ Conflict(p)
    PROVE  DecidesAt(p)'
<1>1. pc'[p] \in {"idle", "register", "find", "reply"} /\ ~fresh'[p]
  BY EndForgets, EndOutside
<1>. QED BY <1>1, NothingDecided

\* A step that changes no table and goes on with the same memory.
LEMMA SameDecision ==
    ASSUME TypeInv, Decides, NEW p \in Call, NEW step, Goto(p, step),
           UNCHANGED <<rows, wallets, cmd, op, entry, wal, fresh>>,
           \/ pc[p] = "move" /\ step = "update"
           \/ pc[p] = "update" /\ step = "commit"
    PROVE  DecidesAt(p)'
<1>1. pc'[p] = step /\ DecidedAs(p)
  BY GotoAt DEF Decides, DecidesAt
<1>2. DecidedAs(p)'
  <2>1. /\ Unconcluded(p)' = Unconcluded(p) /\ Latest(p)' = Latest(p)
        /\ CommittedVerdict(p)' = CommittedVerdict(p) /\ Stored(p)' = Stored(p)
    BY DEF Unconcluded, Stored, CommittedVerdict, Latest
  <2>2. /\ Moving(p)' = Moving(p) /\ Concluding(p)' = Concluding(p)
        /\ Refusing(p)' = Refusing(p)
    BY <2>1 DEF Moving, Concluding, Refusing
  <2>3. Parking(p)' = Parking(p) /\ Expiring(p)' = Expiring(p)
    BY <2>1 DEF Parking, Expiring
  <2>. QED BY <1>1, <2>1, <2>2, <2>3 DEF DecidedAs
<1>3. ReadyAt(p)'
  BY <1>1 DEF ReadyAt
<1>. QED BY <1>2, <1>3 DEF DecidesAt

\* The lookup leaves a new operation, or the stored one in a wallet that is open.
LEMMA FindDecides ==
    ASSUME Memories, Sent, NEW p \in Call, Find(p)
    PROVE  DecidesAt(p)'
<1>1. pc[p] = "find" /\ ~fresh[p] /\ cmd[p] \in WagerCommand /\ cmd[p].ext \in Ext
  BY Memory DEF Find, At, Memories, Owns, OwnsAt, Inside, CallOKAt
<1>. DEFINE stored == rows[cmd[p].ext]
            new == NewExternalTransaction(cmd[p])
<1>2. CASE /\ Goto(p, "insert") /\ op' = [op EXCEPT ![p] = new] /\ UNCHANGED <<cmd, fresh>>
  <2>. HIDE DEF new
  <2>1. pc'[p] = "insert" /\ op'[p] = new /\ ~fresh'[p]
    BY <1>1, <1>2, GotoAt DEF Memories, TypeInv, TypeOK
  <2>. QED BY <1>2, <2>1 DEF DecidesAt, ReadyAt, DecidedAs, new
<1>3. CASE /\ stored # None /\ PayloadHash(stored.cmd) = PayloadHash(cmd[p])
           /\ Goto(p, "lock") /\ op' = [op EXCEPT ![p] = stored]
           /\ UNCHANGED <<rows, wallets, cmd, fresh>>
  <2>1. pc'[p] = "lock" /\ op'[p] = stored /\ ~fresh'[p]
    BY <1>1, <1>3, GotoAt DEF Memories, TypeInv, TypeOK
  <2>2. wallets[cmd[p].wallet] # None
    BY <1>1, <1>3, SameHash, CommandAssumption DEF Sent
  <2>. QED BY <1>3, <2>1, <2>2 DEF DecidesAt, ReadyAt, DecidedAs, Stored
<1>4. CASE (\E e : Fail(p, e)) \/ (\E r : FinishUnchanged(p, r))
  BY <1>4, EndDecides DEF Memories
<1>. QED BY <1>2, <1>3, <1>4 DEF Find, tables

\* The insert, its foreign key and the lock keep the operation.
LEMMA LockDecides ==
    ASSUME Memories, Decides, NEW p \in Call, Insert(p) \/ ForeignKey(p) \/ LockByID(p)
    PROVE  DecidesAt(p)'
<1>0. TypeInv /\ ReadyAt(p) /\ OwnsAt(p)
  BY DEF Memories, Decides, DecidesAt, Owns
<1>1. CASE (\E e : Fail(p, e)) \/ Conflict(p)
  BY <1>1, EndDecides DEF Memories
<1>2. CASE /\ pc[p] = "insert" /\ Goto(p, "fkey") /\ fresh' = [fresh EXCEPT ![p] = TRUE]
           /\ UNCHANGED <<tables, cmd, op>>
  <2>1. pc'[p] = "fkey" /\ fresh'[p] /\ op'[p] = op[p] /\ cmd'[p] = cmd[p]
    BY <1>0, <1>2, GotoAt DEF TypeInv, TypeOK, tables
  <2>2. op[p] = NewExternalTransaction(cmd[p])
    BY <1>0, <1>2 DEF ReadyAt
  <2>. QED BY <2>1, <2>2 DEF DecidesAt, ReadyAt, DecidedAs
<1>3. CASE /\ pc[p] = "fkey" /\ Goto(p, "lock") /\ SatisfiesForeignKey(cmd[p])
           /\ UNCHANGED <<tables, cmd, op, fresh>>
  <2>1. fresh[p]
    BY <1>0, <1>3 DEF ReadyAt
  <2>. QED
    BY <1>0, <1>3, <2>1, GotoAt DEF DecidesAt, ReadyAt, DecidedAs, tables, SatisfiesForeignKey
<1>4. CASE LockByID(p)
  <2>1. /\ pc[p] = "lock" /\ pc'[p] = "decide" /\ wal'[p] = wallets[cmd[p].wallet]
        /\ UNCHANGED <<wallets, rows, cmd, op, fresh>>
    BY <1>0, <1>4, GotoAt DEF LockByID, At, TypeInv, TypeOK, tables
  <2>. QED BY <1>0, <2>1 DEF DecidesAt, ReadyAt, DecidedAs, Stored
<1>. QED BY <1>1, <1>2, <1>3, <1>4 DEF Insert, ForeignKey, At

\* What a call decides over is what is committed, and what it concludes is the
\* operation that is stored.
LEMMA DecidesOverCommitted ==
    ASSUME Memories, Decides, NEW p \in Call, pc[p] = "decide"
    PROVE  /\ wal[p] # None /\ entry[p] = None /\ wal[p] = wallets[cmd[p].wallet]
           /\ CommittedVerdict(p) = VerdictOf(p)
           /\ Unconcluded(p) => op[p] = Latest(p)
           /\ fresh[p] => op[p] = NewExternalTransaction(cmd[p])
<1>1. wal[p] # None /\ entry[p] = None /\ ReadyAt(p) /\ OwnsAt(p)
  BY Memory DEF Memories, Decides, DecidesAt, ReadyAt, CallOKAt, Owns
<1>2. wal[p] = wallets[cmd[p].wallet]
  BY <1>1 DEF Memories, Held, HeldAt
<1>3. CommittedVerdict(p) = VerdictOf(p)
  BY <1>2 DEF CommittedVerdict, VerdictOf
<1>4. fresh[p] => op[p] = NewExternalTransaction(cmd[p]) /\ Stored(p) = None
  BY <1>1 DEF ReadyAt, OwnsAt, Stored
<1>5. ~fresh[p] /\ Unconcluded(p) => op[p] = Stored(p) /\ Stored(p) # None
  BY <1>1 DEF ReadyAt, OwnsAt, Stored, Unconcluded, Inside
<1>. QED BY <1>1, <1>2, <1>3, <1>4, <1>5 DEF Latest

\* A call that has reached its outcome.
LEMMA Reached ==
    ASSUME TypeInv, NEW p \in Call, pc'[p] \in {"move", "update"},
           UNCHANGED <<rows, wallets, cmd, fresh>>,
           Unconcluded(p) =>
             (Moving(p) \/ Concluding(p) \/ Refusing(p) \/ Parking(p) \/ Expiring(p))'
    PROVE  DecidesAt(p)'
<1>1. ReadyAt(p)'
  BY DEF ReadyAt
<1>2. Unconcluded(p)' = Unconcluded(p)
  BY DEF Unconcluded, Stored
<1>. QED BY <1>1, <1>2 DEF DecidesAt, DecidedAs

\* A verdict that parks is one of a reversal.
LEMMA ParksReversals ==
    ASSUME NEW c, NEW w, NEW r, NEW b, apply(c, w, r, b).act = "PARK"
    PROVE  RequiresReference(c.kind)
<1>1. \A d, ref : settle(c, w, d, ref).act # "PARK"
  BY DEF settle, Verdict
<1>2. resolveReference(c, w, r, b).act = "PARK" => RequiresReference(c.kind)
  BY <1>1 DEF resolveReference
<1>. QED BY <1>2 DEF apply, Refuse, Verdict

\* The verdicts are decisions over the committed tables.
LEMMA VerdictDecides ==
    ASSUME Memories, Decides, NEW p \in Call,
           ParkNew(p) \/ RejectOp(p) \/ ConcludeLoss(p) \/ Settle(p)
    PROVE  DecidesAt(p)'
<1>. DEFINE v == VerdictOf(p)
            w == wallets[cmd[p].wallet]
<1>0. TypeInv /\ pc[p] = "decide"
  BY DEF Memories, ParkNew, RejectOp, ConcludeLoss, Settle, Decided
<1>1. /\ wal[p] # None /\ entry[p] = None /\ wal[p] = w
      /\ CommittedVerdict(p) = v /\ wal[p] \in WalletRow
      /\ Unconcluded(p) => op[p] = Latest(p)
      /\ fresh[p] => op[p] = NewExternalTransaction(cmd[p])
  BY <1>0, Memory, DecidesOverCommitted
<1>2. UNCHANGED <<rows, wallets, cmd, fresh>> /\ pc'[p] \in {"move", "update"}
  BY <1>0, GotoAt DEF ParkNew, RejectOp, ConcludeLoss, Settle, Outcome, tables
<1>3. CommittedVerdict(p)' = v /\ Latest(p)' = Latest(p)
  BY <1>1, <1>2 DEF CommittedVerdict, Latest, Stored
<1>4. CASE ParkNew(p)
  <2>1. fresh[p] /\ RequiresReference(cmd[p].kind)
    BY <1>0, <1>4, DecidedKnows, ParksReversals DEF ParkNew, Decided, VerdictOf, Memories
  <2>2. /\ op'[p] = MarkAsPendingReference(op[p]) /\ wal'[p] = wal[p] /\ entry'[p] = entry[p]
    BY <1>0, <1>4 DEF ParkNew, Outcome, TypeInv, TypeOK
  <2>3. Parking(p)'
    BY <1>1, <1>2, <2>1, <2>2 DEF Parking
  <2>. QED BY <1>0, <1>2, <2>3, Reached
<1>5. CASE RejectOp(p)
  <2>1. v.act = "REJECT" /\ op'[p] = Reject(op[p], v.code, v.ref)
        /\ wal'[p] = wal[p] /\ entry'[p] = entry[p]
    BY <1>0, <1>5 DEF RejectOp, Decided, Outcome, TypeInv, TypeOK
  <2>. HIDE DEF v
  <2>2. Unconcluded(p) => Refusing(p)'
    BY <1>1, <1>3, <2>1 DEF Refusing
  <2>. QED BY <1>0, <1>2, <2>2, Reached
<1>6. CASE ConcludeLoss(p)
  <2>1. v.act = "CONCLUDE" /\ op'[p] = MarkAsProcessed(op[p], wal[p].balance, None)
        /\ wal'[p] = wal[p] /\ entry'[p] = entry[p]
    BY <1>0, <1>6 DEF ConcludeLoss, Decided, Outcome, TypeInv, TypeOK
  <2>. HIDE DEF v
  <2>2. Unconcluded(p) => Concluding(p)'
    BY <1>1, <1>2, <1>3, <2>1 DEF Concluding
  <2>. QED BY <1>0, <1>2, <2>2, Reached
<1>7. CASE Settle(p)
  <2>. DEFINE moved == ApplyMovement(wal[p], v.direction, cmd[p].amount)
              n == NewLedgerEntry(cmd[p].ext, v.direction, cmd[p].amount, wal[p].balance)
              t == MarkAsProcessed(op[p], moved.balance, v.ref)
  <2>1. /\ v.act = "MOVE" /\ moved \in WalletRow /\ n \in LedgerEntry
    BY <1>0, <1>7, DecideFacts, MovementType DEF Settle, Decided
  <2>2. moved # None /\ n # None
    BY <2>1, RecordAssumption
  <2>3. /\ wal' = [wal EXCEPT ![p] = moved] /\ entry' = [entry EXCEPT ![p] = n]
        /\ op' = [op EXCEPT ![p] = t]
    BY <1>7 DEF Settle, Outcome
  <2>. HIDE DEF moved, n, t, v
  <2>4. wal'[p] = moved /\ entry'[p] = n /\ op'[p] = t
    BY <1>0, <2>3 DEF TypeInv, TypeOK
  <2>5. /\ moved = ApplyMovement(w, v.direction, cmd[p].amount)
        /\ n = NewLedgerEntry(cmd[p].ext, v.direction, cmd[p].amount, w.balance)
        /\ Unconcluded(p) => t = MarkAsProcessed(Latest(p), moved.balance, v.ref)
    BY <1>1 DEF moved, n, t
  <2>6. Unconcluded(p) => Moving(p)'
    BY <1>2, <1>3, <2>1, <2>2, <2>4, <2>5 DEF Moving
  <2>. QED BY <1>0, <1>2, <2>6, Reached
<1>. QED BY <1>4, <1>5, <1>6, <1>7

\* An expiry refuses the stored operation.
LEMMA ExpireDecides ==
    ASSUME Memories, Decides, NEW p \in Call, ExpireRow(p)
    PROVE  DecidesAt(p)'
<1>1. /\ pc[p] = "expire" /\ Stored(p) # None /\ wal[p] = None /\ entry[p] = None /\ TypeInv
  BY Memory DEF ExpireRow, At, CallOKAt, Memories, Stored
<1>. DEFINE t == Reject(Stored(p), "REFERENCE_NOT_FOUND", Stored(p).ref)
<1>2. CASE \E r : FinishUnchanged(p, r)
  BY <1>1, <1>2, EndDecides
<1>3. CASE Outcome(p, t) /\ Goto(p, "update") /\ UNCHANGED <<wal, entry>>
  <2>. HIDE DEF t
  <2>1. /\ pc'[p] = "update" /\ op'[p] = t /\ UNCHANGED <<rows, wallets, cmd, fresh>>
    BY <1>1, <1>3, GotoAt DEF Outcome, TypeInv, TypeOK, tables
  <2>2. Expiring(p)'
    BY <1>1, <1>3, <2>1 DEF Expiring, Stored, t
  <2>. QED BY <1>1, <2>1, <2>2, Reached
<1>. QED BY <1>2, <1>3 DEF ExpireRow, Stored

-----------------------------------------------------------------------------
\* An open wallet stays open.
LEMMA OpenStays ==
    ASSUME Memories, [Next]_vars, NEW w \in Wallet, wallets[w] # None
    PROVE  wallets'[w] # None
<1>1. CASE wallets' = wallets
  BY <1>1
<1>2. ASSUME NEW p \in Call, Commit(p)  PROVE wallets'[w] # None
  <2>1. CASE entry[p] = None
    BY <1>2, <2>1, CommitFacts DEF Memories
  <2>2. CASE entry[p] # None
    <3>1. wal[p] # None /\ wallets' = [wallets EXCEPT ![cmd[p].wallet] = wal[p]]
      BY <1>2, <2>2, CommitFacts, RecordAssumption DEF Memories
    <3>. QED BY <3>1 DEF Memories, TypeInv, TypeOK
  <2>. QED BY <2>1, <2>2
<1>3. ASSUME NEW v \in Wallet, NEW pl \in Player, NEW u \in Currency,
             NEW b \in InitialBalance, OpenWallet(v, pl, u, b)
      PROVE  wallets'[w] # None
  BY <1>3, OpenWalletFacts DEF Memories
<1>. QED BY <1>1, <1>2, <1>3, StepsOfCalls, TablesKept DEF Memories, vars

\* A call that commits does so in a wallet that is open, and stores the
\* operation of a command that was sent.
LEMMA CommitSent ==
    ASSUME Memories, Decides, Sent, NEW p \in Call, Commit(p)
    PROVE  cmd[p] \in Command /\ op[p].cmd \in Command /\ wallets[cmd[p].wallet] # None
<1>1. pc[p] = "commit" /\ cmd[p] # None /\ cmd[p] \in Command
  BY Memory, CommitKnows DEF Memories, CallOKAt, Sent
<1>2. CASE Stored(p) = None
  <2>1. wal[p] # None /\ op[p].cmd = Latest(p).cmd
    BY <1>2, CommitDecides DEF Moving, Concluding, Refusing, Parking, Expiring, Latest,
       MarkAsProcessed, Reject, MarkAsPendingReference, NewExternalTransaction
  <2>2. op[p].cmd = cmd[p]
    BY <1>2, <2>1 DEF Latest, NewExternalTransaction
  <2>. QED BY <1>1, <2>1, <2>2 DEF Memories, Held, HeldAt
<1>3. CASE Stored(p) # None
  <2>1. Stored(p).cmd = op[p].cmd /\ op[p].cmd.wallet = cmd[p].wallet /\ cmd[p].ext \in Ext
    BY <1>3, CommitKnows, CommitKeeps DEF Memories, Stored
  <2>. QED BY <1>1, <1>3, <2>1 DEF Sent, Stored
<1>. QED BY <1>2, <1>3

\* Commands come from providers, over HTTP, in messages or from a stored row.
LEMMA StartSends ==
    ASSUME Memories, Sent, NEW p \in Call, Start(p), NEW q \in Call, cmd'[q] # None
    PROVE  cmd'[q] \in Command
<1>1. ASSUME NEW c \in Command, NEW id, NEW step, Begin(p, c, id, step)
      PROVE  cmd'[q] \in Command
  BY <1>1 DEF Begin, Sent, Memories, TypeInv, TypeOK
<1>2. ASSUME NEW m \in Message, ExecuteFromMessage(p, m)  PROVE cmd'[q] \in Command
  BY <1>1, <1>2, MessageAssumption DEF ExecuteFromMessage
<1>3. ASSUME NEW e \in Ext, Expire(p, e)  PROVE cmd'[q] \in Command
  BY <1>1, <1>3 DEF Expire, Sent
<1>. QED BY <1>1, <1>2, <1>3 DEF Start, Execute

\* No other step gives a call a command.
LEMMA OthersSend ==
    ASSUME TypeInv, NEW p \in Call, Progress(p) \/ DeadlockVictim(p) \/ Interrupt(p),
           NEW q \in Call
    PROVE  cmd'[q] = cmd[q] \/ cmd'[q] = None
<1>1. ASSUME (\E r : Answer(p, r)) \/ (\E e : Fail(p, e)) \/ Conflict(p)
             \/ (\E r : FinishUnchanged(p, r))
      PROVE  cmd' = cmd
  BY <1>1 DEF Answer, Fail, Conflict, FinishUnchanged
<1>2. CASE DeadlockVictim(p) \/ Interrupt(p) \/ Overflow(p) \/ StayParked(p) \/ Commit(p)
  BY <1>1, <1>2 DEF DeadlockVictim, Interrupt, Overflow, StayParked, Commit
<1>3. CASE Register(p)
  BY <1>1, <1>3 DEF Register
<1>4. CASE Find(p)
  BY <1>1, <1>4 DEF Find
<1>5. CASE Insert(p) \/ ForeignKey(p)
  BY <1>1, <1>5 DEF Insert, ForeignKey
<1>6. CASE MoveBalance(p) \/ Update(p)
  BY <1>1, <1>6 DEF MoveBalance, Update
<1>7. CASE ExpireRow(p)
  BY <1>1, <1>7 DEF ExpireRow, Outcome
<1>8. CASE LockByID(p) \/ ParkNew(p) \/ RejectOp(p) \/ ConcludeLoss(p) \/ Settle(p)
  BY <1>8 DEF LockByID, ParkNew, RejectOp, ConcludeLoss, Settle, Outcome
<1>9. CASE Return(p)
  BY <1>9 DEF Return, TypeInv, TypeOK
<1>. QED BY <1>2, <1>3, <1>4, <1>5, <1>6, <1>7, <1>8, <1>9 DEF Progress

LEMMA SentKept ==
    ASSUME Memories, Decides, Sent, [Next]_vars
    PROVE  Sent'
<1>0. TypeInv
  BY DEF Memories
<1>1. ASSUME NEW q \in Call, cmd'[q] # None  PROVE cmd'[q] \in Command
  <2>1. CASE cmd' = cmd
    BY <1>1, <2>1 DEF Sent
  <2>2. ASSUME NEW p \in Call, Start(p) \/ Progress(p) \/ DeadlockVictim(p) \/ Interrupt(p)
        PROVE  cmd'[q] \in Command
    BY <1>0, <1>1, <2>2, StartSends, OthersSend DEF Sent
  <2>. QED BY <1>0, <2>1, <2>2, OpenWalletFacts DEF Next, vars, Memories
<1>2. ASSUME NEW e \in Ext, rows'[e] # None
      PROVE  rows'[e].cmd \in Command /\ wallets'[rows'[e].cmd.wallet] # None
  <2>1. rows'[e].cmd \in Command /\ wallets[rows'[e].cmd.wallet] # None
    <3>1. CASE rows' = rows
      BY <1>2, <3>1 DEF Sent
    <3>2. ASSUME NEW p \in Call, Commit(p)
          PROVE  rows'[e].cmd \in Command /\ wallets[rows'[e].cmd.wallet] # None
      <4>1. CASE e = cmd[p].ext
        BY <3>2, <4>1, CommitSent, CommitKnows
      <4>2. CASE e # cmd[p].ext
        BY <1>0, <1>2, <3>2, <4>2, CommitKeeps DEF Sent, Memories
      <4>. QED BY <4>1, <4>2
    <3>. QED BY <1>0, <3>1, <3>2, StepsOfCalls, TablesKept, OpenWalletFacts DEF Memories, vars
  <2>2. rows'[e].cmd.wallet \in Wallet
    BY <2>1, CommandAssumption DEF WagerCommand
  <2>. QED BY <2>1, <2>2, OpenStays
<1>. QED BY <1>1, <1>2 DEF Sent

\* The steps of a call but its commit.
LEMMA StepsDecide ==
    ASSUME Memories, Decides, Sent, NEW p \in Call,
           \/ Start(p) \/ DeadlockVictim(p) \/ Interrupt(p)
           \/ Progress(p) /\ ~Commit(p)
    PROVE  DecidesAt(p)'
<1>0. TypeInv /\ OwnsAt(p)
  BY DEF Memories, Owns
<1>1. CASE \/ \E r : Answer(p, r)
           \/ \E e : Fail(p, e)
           \/ \E r : FinishUnchanged(p, r)
           \/ Conflict(p)
  BY <1>0, <1>1, EndDecides
<1>2. CASE DeadlockVictim(p) \/ Interrupt(p) \/ Overflow(p) \/ StayParked(p)
  BY <1>1, <1>2 DEF DeadlockVictim, Interrupt, Overflow, StayParked
<1>3. CASE Register(p)
  <2>1. CASE pc[p] = "register" /\ Goto(p, "find") /\ fresh' = fresh
    BY <1>0, <2>1, GotoAt, NothingDecided DEF OwnsAt, Inside
  <2>. QED BY <1>1, <1>3, <2>1 DEF Register, At
<1>4. CASE Start(p)
  <2>1. ASSUME NEW c, NEW id, NEW step \in {"register", "find", "expire"}, Begin(p, c, id, step)
        PROVE  DecidesAt(p)'
    BY <1>0, <2>1, GotoAt, NothingDecided DEF Begin, OwnsAt, Inside
  <2>. QED BY <1>4, <2>1 DEF Start, Execute, ExecuteFromMessage, Expire
<1>5. CASE Return(p)
  BY <1>0, <1>5, GotoAt, NothingDecided DEF Return, OwnsAt, Inside
<1>6. CASE MoveBalance(p)
  BY <1>0, <1>1, <1>6, SameDecision DEF MoveBalance, At, tables
<1>7. CASE Update(p)
  BY <1>0, <1>1, <1>7, SameDecision DEF Update, At, tables
<1>8. CASE Find(p)
  BY <1>8, FindDecides
<1>9. CASE Insert(p) \/ ForeignKey(p) \/ LockByID(p)
  BY <1>9, LockDecides
<1>10. CASE ParkNew(p) \/ RejectOp(p) \/ ConcludeLoss(p) \/ Settle(p)
  BY <1>10, VerdictDecides
<1>11. CASE ExpireRow(p)
  BY <1>11, ExpireDecides
<1>. QED
  BY <1>2, <1>3, <1>4, <1>5, <1>6, <1>7, <1>8, <1>9, <1>10, <1>11 DEF Progress

LEMMA DecidesKept ==
    ASSUME Memories, Decides, Sent, [Next]_vars
    PROVE  Decides'
<1>. SUFFICES ASSUME NEW q \in Call  PROVE DecidesAt(q)'
  BY DEF Decides
<1>0. TypeInv /\ HistoryKept /\ DecidesAt(q)
  BY StepsKeepHistory DEF Memories, Decides
<1>1. ASSUME Untouched(q), pc[q] # "idle" => LeftTo(q)  PROVE DecidesAt(q)'
  <2>1. CASE pc[q] = "idle"
    BY <1>1, <2>1 DEF Untouched, SameCall, DecidesAt, ReadyAt, DecidedAs
  <2>. QED BY <1>0, <1>1, <2>1, OthersDecide
<1>2. ASSUME UNCHANGED <<rows, wallets>>, Untouched(q)  PROVE LeftTo(q)
  <2>1. cmd'[q] = cmd[q]
    BY <1>2 DEF Untouched, SameCall
  <2>. QED BY <1>2, <2>1 DEF LeftTo, Stored, CommittedVerdict
<1>3. CASE UNCHANGED vars
  BY <1>1, <1>2, <1>3 DEF vars, Untouched, SameCall
<1>4. ASSUME NEW w \in Wallet, NEW pl \in Player, NEW u \in Currency,
             NEW b \in InitialBalance, OpenWallet(w, pl, u, b)
      PROVE  DecidesAt(q)'
  <2>1. Untouched(q) /\ rows' = rows /\ cmd'[q] = cmd[q]
    BY <1>4 DEF OpenWallet, Untouched, SameCall
  <2>2. ASSUME pc[q] # "idle"  PROVE LeftTo(q)
    <3>1. cmd[q].wallet \in Wallet
      BY <1>0, <2>2, Memory DEF WagerCommand
    <3>2. wal[q] # None => wallets[cmd[q].wallet] # None
      BY DEF Memories, Held, HeldAt
    <3>3. wallets[cmd[q].wallet] # None => wallets'[cmd[q].wallet] = wallets[cmd[q].wallet]
      BY <1>4, <3>1, OpenWalletFacts DEF OpenWallet, Memories
    <3>. QED BY <2>1, <3>2, <3>3 DEF LeftTo, Stored, CommittedVerdict
  <2>. QED BY <1>1, <2>1, <2>2
<1>5. ASSUME NEW p \in Call, Commit(p)  PROVE DecidesAt(q)'
  <2>1. CASE q = p
    BY <1>0, <1>5, <2>1, EndDecides DEF Commit
  <2>. QED BY <1>0, <1>1, <1>5, <2>1, CommitFacts, CommitLeaves
<1>6. ASSUME NEW p \in Call,
             \/ Start(p) \/ DeadlockVictim(p) \/ Interrupt(p)
             \/ Progress(p) /\ ~Commit(p)
      PROVE  DecidesAt(q)'
  <2>1. CASE q = p
    BY <1>6, <2>1, StepsDecide
  <2>2. UNCHANGED <<rows, wallets>> /\ (q # p => Untouched(q))
    BY <1>0, <1>6, TablesKept, StepsKnow DEF Memories
  <2>. QED BY <1>1, <1>2, <2>1, <2>2
<1>. QED BY <1>3, <1>4, <1>5, <1>6, StepsOfCalls

\* The decisions stand throughout.
LEMMA DecisionsStand == Spec => [](Memories /\ Decides /\ Sent)
<1>1. Init => Decides /\ Sent
  BY DEF Init, Decides, DecidesAt, ReadyAt, DecidedAs, Sent
<1>. QED BY <1>1, KnownInvariant, DecidesKept, SentKept, PTL DEF Spec

-----------------------------------------------------------------------------
(***************************************************************************)
(* Reversals.                                                              *)
(***************************************************************************)

\* Operation e is a reversal that was processed.
Reversal(e) ==
    rows[e] # None /\ rows[e].state = "PROCESSED" /\ RequiresReference(rows[e].cmd.kind)

\* A reversal points at what its command names, and no other does.
ReversesAlone ==
    \A e \in Ext : Reversal(e) =>
        /\ rows[e].ref = rows[e].cmd.ref
        /\ \A f \in Ext \ {e} : Reversal(f) => rows[f].cmd.ref # rows[e].cmd.ref

LEMMA CommitReversesAlone ==
    ASSUME Memories, Decides, ReversesAlone, NEW p \in Call, Commit(p)
    PROVE  ReversesAlone'
<1>0. PICK tx \in Ext : tx = cmd[p].ext
  BY CommitKnows
<1>1. /\ rows'[tx] = op[p] /\ op[p].cmd.ref = cmd[p].ref
      /\ op[p].cmd.kind = cmd[p].kind
      /\ \A e \in Ext \ {tx} : rows'[e] = rows[e]
  BY <1>0, CommitKnows, CommitKeeps DEF Memories
<1>2. ASSUME Reversal(tx)'
      PROVE  /\ rows'[tx].ref = rows'[tx].cmd.ref
             /\ \A f \in Ext \ {tx} : Reversal(f)' => rows'[f].cmd.ref # rows'[tx].cmd.ref
  <2>1. op[p].state = "PROCESSED" /\ RequiresReference(cmd[p].kind)
    BY <1>1, <1>2 DEF Reversal
  <2>2. op[p].ref = cmd[p].ref /\ ~HasProcessedReversal(rows, cmd[p].ref)
    BY <2>1, CommitReverses
  <2>3. ASSUME NEW f \in Ext \ {tx}, Reversal(f)', rows'[f].cmd.ref = cmd[p].ref
        PROVE  FALSE
    <3>1. Reversal(f) /\ rows[f].cmd.ref = cmd[p].ref
      BY <1>1, <2>3 DEF Reversal
    <3>2. IsSuccessfulReversalOf(rows[f], cmd[p].ref)
      BY <3>1 DEF ReversesAlone, Reversal, IsSuccessfulReversalOf
    <3>. QED BY <2>2, <3>2 DEF HasProcessedReversal
  <2>. QED BY <1>1, <2>2, <2>3
<1>3. ASSUME NEW e \in Ext \ {tx}, Reversal(e)'
      PROVE  /\ rows'[e].ref = rows'[e].cmd.ref
             /\ \A f \in Ext \ {e} : Reversal(f)' => rows'[f].cmd.ref # rows'[e].cmd.ref
  <2>1. Reversal(e) /\ rows'[e] = rows[e]
    BY <1>1, <1>3 DEF Reversal
  <2>2. ASSUME NEW f \in Ext \ {e}, f # tx, Reversal(f)'
        PROVE  rows'[f].cmd.ref # rows'[e].cmd.ref
    <3>1. Reversal(f) /\ rows'[f] = rows[f]
      BY <1>1, <2>2 DEF Reversal
    <3>. QED BY <2>1, <3>1 DEF ReversesAlone
  <2>. QED BY <1>2, <1>3, <2>1, <2>2 DEF ReversesAlone
<1>. QED BY <1>2, <1>3 DEF ReversesAlone

\* The money of an operation is returned once, whatever the kinds of the
\* reversals that name it, the calls they come in and their retries: of two
\* that decided at once, over one wallet, the second sees the first.
THEOREM ReturnsOnce == Spec => []ReversedOnce
<1>1. Init => ReversesAlone
  BY DEF Init, ReversesAlone, Reversal
<1>2. Memories /\ Decides /\ ReversesAlone /\ [Next]_vars => ReversesAlone'
  <2>. SUFFICES ASSUME Memories, Decides, ReversesAlone, [Next]_vars  PROVE ReversesAlone'
    OBVIOUS
  <2>1. CASE rows' = rows
    BY <2>1 DEF ReversesAlone, Reversal
  <2>. QED
    BY <2>1, CommitReversesAlone, StepsOfCalls, TablesKept, OpenWalletFacts DEF Memories, vars
<1>3. ReversesAlone /\ (\A e \in Ext : AppliedAt(e)) => ReversedOnce
  <2>. SUFFICES ASSUME ReversesAlone, \A e \in Ext : AppliedAt(e)  PROVE ReversedOnce
    OBVIOUS
  <2>1. ASSUME NEW e \in Ext, Positions(e) # {}, RequiresReference(rows[e].cmd.kind)
        PROVE  Reversal(e)
    BY <2>1 DEF AppliedAt, Reversal
  <2>. QED BY <2>1 DEF ReversesAlone, ReversedOnce
<1>. QED BY <1>1, <1>2, <1>3, DecisionsStand, AppliedInvariant, PTL DEF Spec

-----------------------------------------------------------------------------
(***************************************************************************)
(* The sequential wallet.                                                  *)
(***************************************************************************)

\* Both specifications follow the same rules.
LEMMA SameRows ==
    /\ \A c : /\ Sequential!NewExternalTransaction(c) = NewExternalTransaction(c)
              /\ Sequential!PayloadHash(c) = PayloadHash(c)
    /\ \A t, b, r : /\ Sequential!MarkAsProcessed(t, b, r) = MarkAsProcessed(t, b, r)
                    /\ Sequential!Reject(t, b, r) = Reject(t, b, r)
    /\ \A t : Sequential!MarkAsPendingReference(t) = MarkAsPendingReference(t)
    /\ \A t, m : Sequential!EventsOf(t, m) = EventsOf(t, m)
    /\ \A x, d, a, b : Sequential!NewLedgerEntry(x, d, a, b) = NewLedgerEntry(x, d, a, b)
    /\ \A w, d, a : Sequential!ApplyMovement(w, d, a) = ApplyMovement(w, d, a)
    /\ \A k : Sequential!RequiresReference(k) <=> RequiresReference(k)
    /\ \A x : Sequential!IsTerminal(x) <=> IsTerminal(x)
    /\ Sequential!OpeningEvents = OpeningEvents
BY DEF Sequential!NewExternalTransaction, NewExternalTransaction,
   Sequential!PayloadHash, PayloadHash,
   Sequential!MarkAsProcessed, MarkAsProcessed, Sequential!Reject, Reject,
   Sequential!MarkAsPendingReference, MarkAsPendingReference,
   Sequential!EventsOf, EventsOf, Sequential!NewLedgerEntry, NewLedgerEntry,
   Sequential!BalanceAfter, BalanceAfter, Sequential!ApplyMovement, ApplyMovement,
   Sequential!RequiresReference, RequiresReference, Sequential!IsTerminal, IsTerminal,
   Sequential!OpeningEvents, OpeningEvents

LEMMA SameVerdicts ==
    ASSUME NEW c, NEW w, NEW r, NEW b
    PROVE  Sequential!apply(c, w, r, b) = apply(c, w, r, b)
<1>1. \A d, ref : Sequential!settle(c, w, d, ref) = settle(c, w, d, ref)
  BY DEF Sequential!settle, settle, Sequential!Verdict, Verdict,
     Sequential!insufficientFundsCode, insufficientFundsCode,
     Sequential!RequiresReference, RequiresReference
<1>2. \A d : Sequential!agrees(c, d) <=> agrees(c, d)
  BY DEF Sequential!agrees, agrees, Sequential!ReversibleKinds, ReversibleKinds
<1>3. \A d : Sequential!movementOf(c, d) = movementOf(c, d)
  BY DEF Sequential!movementOf, movementOf, Sequential!Opposite, Opposite,
     Sequential!DirectionOf, DirectionOf
<1>4. Sequential!DirectionOf(c.kind) = DirectionOf(c.kind)
  BY DEF Sequential!DirectionOf, DirectionOf
<1>5. \A x : Sequential!Refuse(x) = Refuse(x)
  BY DEF Sequential!Refuse, Refuse, Sequential!Verdict, Verdict
<1>6. Sequential!Verdict("PARK", None, None, None) = Verdict("PARK", None, None, None)
  BY DEF Sequential!Verdict, Verdict
<1>7. Sequential!resolveReference(c, w, r, b) = resolveReference(c, w, r, b)
  BY <1>1, <1>2, <1>3, <1>4, <1>5, <1>6, SameRows
  DEF Sequential!resolveReference, resolveReference
<1>. QED BY <1>5, <1>7 DEF Sequential!apply, apply

\* What a commit is of the sequential wallet: it stores one outcome of an
\* operation that was still open to one.
LEMMA CommitStoresOutcome ==
    ASSUME Memories, Decides, Sent, NEW p \in Call, Commit(p), NEW c \in Command, c = cmd[p],
           NEW t, t = op[p]
    PROVE  /\ Sequential!Unfinished(c)
           /\ Sequential!Current(c) = Latest(p)
           /\ Sequential!VerdictNow(c) = CommittedVerdict(p)
           /\ Sequential!Store(t, entry[p] # None)
<1>1. /\ pc[p] = "commit" /\ Unconcluded(p) /\ TypeInv /\ op[p].cmd.ext = c.ext
      /\ PayloadHash(op[p].cmd) = PayloadHash(c) /\ op[p] # None
  BY CommitDecides, CommitKnows, Memory
  DEF Memories, CallOKAt, Known, KnowsAt, SameOperation
<1>2. rows[c.ext] # None => PayloadHash(rows[c.ext].cmd) = PayloadHash(c)
  BY <1>1, CommitKeeps DEF Memories
<1>3. Sequential!Unfinished(c)
  BY <1>1, <1>2, SameRows DEF Sequential!Unfinished, Unconcluded, Stored
<1>4. Sequential!Current(c) = Latest(p)
  BY SameRows DEF Sequential!Current, Latest, Stored
<1>5. Sequential!VerdictNow(c) = CommittedVerdict(p)
  <2>1. Sequential!RowOf(rows, c.ref) = RowOf(rows, c.ref)
    BY DEF Sequential!RowOf, RowOf
  <2>2. Sequential!HasProcessedReversal(rows, c.ref) = HasProcessedReversal(rows, c.ref)
    BY SameRows DEF Sequential!HasProcessedReversal, HasProcessedReversal,
       Sequential!IsSuccessfulReversalOf, IsSuccessfulReversalOf
  <2>3. Sequential!VerdictNow(c) =
          Sequential!apply(c, wallets[c.wallet], RowOf(rows, c.ref), HasProcessedReversal(rows, c.ref))
    BY <2>1, <2>2 DEF Sequential!VerdictNow
  <2>. QED BY <2>3, SameVerdicts DEF CommittedVerdict
<1>6. Sequential!Store(t, entry[p] # None)
  BY <1>1, SameRows DEF Sequential!Store, Commit
<1>. QED BY <1>3, <1>4, <1>5, <1>6

\* Every commit is one step of the sequential wallet.
LEMMA CommitImplements ==
    ASSUME Memories, Decides, Sent, NEW p \in Call, Commit(p)
    PROVE  Sequential!Next
<1>1. PICK c \in Command : c = cmd[p]
  BY CommitSent
<1>2. PICK t : t = op[p]
  OBVIOUS
<1>3. /\ Sequential!Unfinished(c)
      /\ Sequential!Current(c) = Latest(p)
      /\ Sequential!VerdictNow(c) = CommittedVerdict(p)
      /\ Sequential!Store(t, entry[p] # None)
      /\ wallets[c.wallet] # None
  BY <1>1, <1>2, CommitStoresOutcome, CommitSent
<1>4. entry[p] = None => wallets' = wallets /\ ledger' = ledger /\ Sequential!Store(t, FALSE)
  <2>1. ASSUME entry[p] = None  PROVE Sequential!Store(t, FALSE)
    <3>1. (entry[p] # None) = FALSE
      BY <2>1
    <3>. QED BY <1>3, <3>1
  <2>. QED BY <2>1, CommitFacts DEF Memories
<1>5. CASE Moving(p)
  <2>. DEFINE v == CommittedVerdict(p)
              w == wallets[c.wallet]
  <2>1. /\ entry[p] # None /\ v.act = "MOVE"
        /\ wal[p] = ApplyMovement(w, v.direction, c.amount)
        /\ entry[p] = NewLedgerEntry(c.ext, v.direction, c.amount, w.balance)
        /\ t = MarkAsProcessed(Latest(p), wal[p].balance, v.ref)
    BY <1>1, <1>2, <1>5 DEF Moving
  <2>2. /\ wallets' = [wallets EXCEPT ![c.wallet] = wal[p]]
        /\ ledger' = [ledger EXCEPT ![c.wallet] = Append(@, entry[p])]
    BY <1>1, <2>1, CommitFacts DEF Memories
  <2>3. Sequential!Store(t, TRUE)
    <3>1. (entry[p] # None) = TRUE
      BY <2>1
    <3>. QED BY <1>3, <3>1
  <2>4. Sequential!Move(c)
    <3>. HIDE DEF v
    <3>1. Sequential!VerdictNow(c) = v
      BY <1>3 DEF v
    <3>. QED BY <1>3, <2>1, <2>2, <2>3, <3>1, SameRows DEF Sequential!Move
  <2>. QED BY <2>4 DEF Sequential!Next
<1>6. CASE Concluding(p)
  <2>1. /\ entry[p] = None /\ CommittedVerdict(p).act = "CONCLUDE"
        /\ t = MarkAsProcessed(Latest(p), wallets[c.wallet].balance, None)
    BY <1>1, <1>2, <1>6 DEF Concluding
  <2>2. Sequential!Conclude(c)
    BY <1>3, <1>4, <2>1, SameRows DEF Sequential!Conclude
  <2>. QED BY <2>2 DEF Sequential!Next
<1>7. CASE Refusing(p)
  <2>1. /\ entry[p] = None /\ CommittedVerdict(p).act = "REJECT"
        /\ t = Reject(Latest(p), CommittedVerdict(p).code, CommittedVerdict(p).ref)
    BY <1>2, <1>7 DEF Refusing
  <2>2. Sequential!Refused(c)
    BY <1>3, <1>4, <2>1, SameRows DEF Sequential!Refused
  <2>. QED BY <2>2 DEF Sequential!Next
<1>8. CASE Parking(p)
  <2>1. /\ entry[p] = None /\ fresh[p] /\ RequiresReference(c.kind)
        /\ t = MarkAsPendingReference(NewExternalTransaction(c))
    BY <1>1, <1>2, <1>8 DEF Parking
  <2>2. rows[c.ext] = None
    BY <1>1, <2>1 DEF Memories, Owns, OwnsAt
  <2>3. Sequential!Park(c)
    BY <1>4, <2>1, <2>2, SameRows DEF Sequential!Park
  <2>. QED BY <2>3 DEF Sequential!Next
<1>9. CASE Expiring(p)
  <2>1. c.ext \in Ext /\ rows[c.ext] # None /\ rows[c.ext].state = "PENDING_REFERENCE"
    BY <1>1, <1>9, CommitKnows DEF Expiring, Stored
  <2>2. entry[p] = None /\ t = Reject(rows[c.ext], "REFERENCE_NOT_FOUND", rows[c.ext].ref)
    BY <1>1, <1>2, <1>9 DEF Expiring, Stored
  <2>3. Sequential!Expire(c.ext)
    BY <1>4, <2>1, <2>2, SameRows DEF Sequential!Expire
  <2>. QED BY <2>1, <2>3 DEF Sequential!Next
<1>. QED BY <1>5, <1>6, <1>7, <1>8, <1>9, CommitDecides

\* The concurrent service is a sequential wallet: with any number of calls,
\* retries and crashes, every operation takes effect in one step, decided over
\* the wallet, the reference and the reversals it changes.  The decision was
\* made earlier, and the locks and the guards of the tables keep it true.
THEOREM ServiceIsSequential == Spec => ImplementsWalletLedger
<1>1. Init => Sequential!Init
  BY DEF Init, Sequential!Init
<1>2. Memories /\ Decides /\ Sent /\ [Next]_vars
      => [Sequential!Next]_<<wallets, rows, ledger, events>>
  <2>. SUFFICES ASSUME Memories, Decides, Sent, [Next]_vars
                PROVE  Sequential!Next \/ UNCHANGED <<wallets, rows, ledger, events>>
    OBVIOUS
  <2>1. ASSUME NEW w \in Wallet, NEW pl \in Player, NEW u \in Currency,
               NEW b \in InitialBalance, OpenWallet(w, pl, u, b)
        PROVE  Sequential!Next
    <3>1. Sequential!OpenWallet(w, pl, u, b)
      BY <2>1, SameRows DEF OpenWallet, Sequential!OpenWallet
    <3>. QED BY <3>1 DEF Sequential!Next
  <2>. QED
    BY <2>1, CommitImplements, StepsOfCalls, TablesKept DEF Memories, vars
<1>3. Sequential!vars = <<wallets, rows, ledger, events>>
  BY DEF Sequential!vars
<1>. QED
  BY <1>1, <1>2, <1>3, DecisionsStand, PTL DEF Spec, ImplementsWalletLedger, Sequential!Spec,
     Sequential!vars
=============================================================================
