------------------------- MODULE TransactionRecord --------------------------
(***************************************************************************)
(* The record of an operation in its four forms: the command a provider    *)
(* sent, the aggregate in memory, the row of wager_transactions and the    *)
(* events in the outbox.  Each form has validations of its own, and calls  *)
(* that hold an aggregate restored earlier, with an instant their own      *)
(* clock read, write rows others have read meanwhile.                      *)
(*                                                                         *)
(* The row locks are in WagerProcessing; here a call writes and commits in *)
(* one step, and is abandoned where it would have waited and lost.  Which  *)
(* outcome an operation has is decided there, so any outcome its kind      *)
(* allows may come.  Fail and FAILED are used by no code.                  *)
(***************************************************************************)
EXTENDS ProviderContract

CONSTANTS
    Call,        \* calls: requests, messages, resumed or expired waits
    Delivery,    \* what providers send: transport, key, trace, body
    Balance,     \* balances an operation may leave
    ReferenceId, \* the transaction the reference resolves to
    MaxInstant,  \* bound: instants are counted up to here, in half microseconds
    TooLong      \* the names that do not fit their column

ASSUME RecordAssumption ==
    /\ MaxInstant \in Nat /\ TooLong \subseteq Name
    /\ Balance \subseteq Nat /\ Null \notin Balance /\ ReferenceId # Null
    /\ \A d \in Delivery : d.key \in Text /\ IsBody(d.body)

VARIABLES
    table,  \* wager_transactions: the row of each external id
    mem,    \* per call: the aggregate it holds and the instant it read
    outbox  \* the events committed so far

vars == <<table, mem, outbox>>

Instant == 2..MaxInstant

State == {"PENDING", "PENDING_REFERENCE", "PROCESSED", "REJECTED"}
IsTerminal(state) == state \in {"PROCESSED", "REJECTED"}

\* The external id of an OPENING, which has none.  One of the wallets is opened.
Opening == Empty

Hash == {CanonicalHash(d.body) : d \in Delivery}
Trace == {d.trace : d \in Delivery} \cup {CorrelationOf(d.body) : d \in Delivery} \cup {NewId}

\* The fields of an aggregate, which are the columns of its row.
Record ==
    [ext: Text \cup {Null}, key: Text \cup {Null}, hash: Hash \cup {Null},
     ref: Text \cup {Null}, wallet: Wallet, kind: ExternalKind \cup {"OPENING"}, amount: Int,
     state: State, code: {Null, "refused"}, balance: Balance \cup {Null}, resolved: {Null, ReferenceId},
     created: Nat, updated: Nat]

-----------------------------------------------------------------------------
(* The aggregate. *)

AmountFits(kind, amount) == IF kind = "LOSS" THEN amount = 0 ELSE amount > 0

ReferenceFits(kind, ref) ==
    /\ RequiresReference(kind) => ~Blank(ref)
    /\ ~AcceptsReference(kind) => Blank(ref)

\* validateExternalMetadata.
Identified(t) == ~Blank(t.ext) /\ ~Blank(t.key) /\ t.hash # Null

Aggregate(ext, key, hash, ref, wallet, kind, amount, state, balance, now) ==
    [ext |-> ext, key |-> key, hash |-> hash, ref |-> ref, wallet |-> wallet, kind |-> kind,
     amount |-> amount, state |-> state, code |-> Null, balance |-> balance,
     resolved |-> Null, created |-> now, updated |-> now]

NewExternalTransaction(c, now) ==
    IF Identified(c) /\ AmountFits(c.kind, c.money) /\ ReferenceFits(c.kind, c.ref)
    THEN Aggregate(c.ext, c.key, c.hash, c.ref, c.wallet, c.kind, c.money, "PENDING", Null, now)
    ELSE Refused

NewOpeningTransaction(wallet, amount, now) ==
    IF AmountFits("OPENING", amount)
    THEN Aggregate(Opening, Empty, Null, Empty, wallet, "OPENING", amount, "PROCESSED", amount,
                   now)
    ELSE Refused

\* Mutant of touch: the instant is the one the call read.
touchAnyway(t, now) == [t EXCEPT !.updated = now]

\* The instant of a transition never moves back.
touch(t, now) == [t EXCEPT !.updated = IF now < @ THEN @ ELSE now]

ResolveReference(t, id, now) ==
    IF /\ ~IsTerminal(t.state) /\ AcceptsReference(t.kind) /\ t.ref # Empty
       /\ t.resolved \in {Null, id}
    THEN touch([t EXCEPT !.resolved = id], now)
    ELSE Refused

MarkAsProcessed(t, balance, now) ==
    IF /\ ~IsTerminal(t.state) /\ balance >= 0
       /\ RequiresReference(t.kind) => t.resolved # Null
    THEN touch([t EXCEPT !.state = "PROCESSED", !.balance = balance], now)
    ELSE Refused

Reject(t, code, now) ==
    IF IsTerminal(t.state) THEN Refused
    ELSE touch([t EXCEPT !.state = "REJECTED", !.code = code], now)

MarkAsPendingReference(t, now) ==
    IF ~IsTerminal(t.state) /\ AcceptsReference(t.kind) /\ t.ref # Empty
    THEN touch([t EXCEPT !.state = "PENDING_REFERENCE"], now)
    ELSE Refused

-----------------------------------------------------------------------------
(* The row. *)

\* A timestamptz holds whole microseconds.
Micros(instant) == instant - (instant % 2)

nullableText(t) == IF t = Empty THEN Null ELSE t
textOf(column) == IF column = Null THEN Empty ELSE column

\* What Insert and Update write for an aggregate.
Columns(t) ==
    [t EXCEPT !.ext = nullableText(@), !.key = nullableText(@), !.ref = nullableText(@),
              !.created = Micros(@), !.updated = Micros(@)]

\* The checks of the table, the widths of its columns apart.
Checked(row) ==
    /\ AmountFits(row.kind, row.amount)
    /\ IF row.kind = "OPENING" THEN {row.ext, row.key, row.hash} = {Null}
                               ELSE Null \notin {row.ext, row.key, row.hash}
    /\ RequiresReference(row.kind) => row.ref # Null
    /\ ~AcceptsReference(row.kind) => row.ref = Null
    /\ row.resolved # Null => row.ref # Null
    /\ row.state = "PROCESSED" /\ RequiresReference(row.kind) => row.resolved # Null
    /\ row.state = "PENDING_REFERENCE" => AcceptsReference(row.kind)
    /\ (row.state = "REJECTED") = (row.code # Null)
    /\ (row.state = "PROCESSED") = (row.balance # Null)
    /\ row.balance # Null => row.balance >= 0
    /\ row.updated >= row.created

Fits(row) == \A t \in {row.ext, row.key, row.ref} \ {Null} : t.name \notin TooLong

\* Mutant of validateRestoredOutcome: any conclusion needs its reference.
validateEveryOutcome(t) ==
    /\ t.resolved # Null => AcceptsReference(t.kind) /\ t.ref # Empty
    /\ (t.state = "REJECTED") = (t.code # Null)
    /\ (t.state = "PROCESSED") = (t.balance # Null)
    /\ IsTerminal(t.state) /\ RequiresReference(t.kind) => t.resolved # Null

validateRestoredOutcome(t) ==
    /\ t.resolved # Null => AcceptsReference(t.kind) /\ t.ref # Empty
    /\ (t.state = "REJECTED") = (t.code # Null)
    /\ (t.state = "PROCESSED") = (t.balance # Null)
    /\ t.state = "PROCESSED" =>
         t.balance >= 0 /\ (RequiresReference(t.kind) => t.resolved # Null)

\* validateRestoredOrigin.
validateRestoredOrigin(t) ==
    IF t.kind \in ExternalKind THEN Identified(t)
    ELSE t.ext = Empty /\ t.key = Empty /\ t.hash = Null

\* scanTransaction and RestoreTransaction.
Restore(row) ==
    LET t == [row EXCEPT !.ext = textOf(@), !.key = textOf(@), !.ref = textOf(@)]
    IN  IF /\ validateRestoredOrigin(t)
           /\ AmountFits(t.kind, t.amount) /\ ReferenceFits(t.kind, t.ref)
           /\ validateRestoredOutcome(t)
           /\ t.updated >= t.created
        THEN t ELSE Refused

\* The statement of Update lists only the columns of the outcome.
Updated(old, t) ==
    [old EXCEPT !.state = t.state, !.resolved = t.resolved, !.code = t.code,
                !.balance = t.balance, !.updated = Micros(t.updated)]

\* The guard trigger: what was concluded or resolved stays.
GuardUpdate(old, new) ==
    /\ ~IsTerminal(old.state)
    /\ old.resolved # Null => new.resolved = old.resolved

-----------------------------------------------------------------------------
(* The events. *)

TransactionEvent ==
    {"WagerTransactionProcessed", "WagerTransactionRejected", "WagerTransactionPendingReference"}
EventType == TransactionEvent \cup {"WalletBalanceChanged"}

aggregateFor(type) == IF type = "WalletBalanceChanged" THEN "Wallet" ELSE "WagerTransaction"

\* What the events say of an operation, and the events.
SubjectRecord ==
    [ext: Text, kind: ExternalKind \cup {"OPENING"}, money: Int, code: {Null, "refused"},
     balance: Balance \cup {Null}, resolved: {Null, ReferenceId}]
Envelope ==
    [type: EventType, aggregate: {"Wallet", "WagerTransaction"}, trace: Trace,
     data: SubjectRecord]

\* newEnvelope, version 1, for an identifier and an instant that are never zero.
newEnvelope(type, trace, data) ==
    IF trace = NilId THEN Refused
    ELSE [type |-> type, aggregate |-> aggregateFor(type), trace |-> trace, data |-> data]

\* newSubject and the payloads the events share.
Subject(t) ==
    [ext |-> t.ext, kind |-> t.kind, money |-> t.amount, code |-> t.code,
     balance |-> t.balance, resolved |-> t.resolved]

NewWagerTransactionProcessed(t, trace) ==
    IF t.state # "PROCESSED" \/ t.balance = Null THEN Refused
    ELSE newEnvelope("WagerTransactionProcessed", trace, Subject(t))

NewWagerTransactionRejected(t, trace) ==
    IF t.state # "REJECTED" \/ t.code = Null THEN Refused
    ELSE newEnvelope("WagerTransactionRejected", trace, Subject(t))

NewWagerTransactionPendingReference(t, trace) ==
    IF t.state # "PENDING_REFERENCE" \/ t.ref = Empty THEN Refused
    ELSE newEnvelope("WagerTransactionPendingReference", trace, Subject(t))

NewWalletBalanceChanged(t, trace) ==
    IF t.amount <= 0 THEN Refused
    ELSE newEnvelope("WalletBalanceChanged", trace, Subject(t))

\* What conclude, reject and park announce: a balance that changed, too.
Announced(t, trace) ==
    CASE t.state = "PROCESSED" ->
           {NewWagerTransactionProcessed(t, trace)}
             \cup (IF t.kind = "LOSS" THEN {} ELSE {NewWalletBalanceChanged(t, trace)})
      [] t.state = "REJECTED" -> {NewWagerTransactionRejected(t, trace)}
      [] t.state = "PENDING_REFERENCE" -> {NewWagerTransactionPendingReference(t, trace)}

\* Mutant of Save: every event is about the transaction.
SaveAboutTransaction(envelope) ==
    [envelope EXCEPT !.aggregate = "WagerTransaction"]

\* The row of an event holds its envelope as it is.
Save(envelope) == envelope

\* The checks of the publisher when it claims the row.
RestoreEnvelope(row) ==
    IF /\ row.type \in EventType /\ row.aggregate = aggregateFor(row.type)
       /\ row.trace # NilId /\ row.data # Null
    THEN row ELSE Refused

-----------------------------------------------------------------------------
(* The steps. *)

\* What a call holds in memory.
Held == [t: Record, now: Nat, fresh: BOOLEAN, trace: Trace]

\* The errors and the empty values are none of the records.
ASSUME NamesAssumption ==
    /\ Refused \notin Record \cup Envelope
    /\ Null \notin Record \cup SubjectRecord \cup Held \cup Hash \cup {"refused"}

\* The commands the deliveries become, those that are refused left out.
Command == {CommandOf(d) : d \in Delivery} \ {Refused}

Init ==
    /\ table = [e \in Text |-> Null]
    /\ mem = [p \in Call |-> Null]
    /\ outbox = {}

\* OpenWallet writes the row of the opening credit with its events, at the first
\* instant.
OpenWallet(wallet, amount) ==
    LET t == NewOpeningTransaction(wallet, amount, 2) IN
    /\ table[Opening] = Null
    /\ t # Refused /\ Checked(Columns(t))
    /\ table' = [table EXCEPT ![Opening] = Columns(t)]
    /\ outbox' = outbox \cup {Save(e) : e \in Announced(t, NewId)}
    /\ UNCHANGED mem

\* Mutant of Execute: whatever is stored under the name is resumed.
ExecuteAnyBody(p, c, now) ==
    LET fresh == table[c.ext] = Null
        t == IF fresh THEN NewExternalTransaction(c, now) ELSE Restore(table[c.ext])
    IN  /\ mem[p] = Null
        /\ t # Refused /\ ~IsTerminal(t.state)
        /\ mem' = [mem EXCEPT ![p] = [t |-> t, now |-> now, fresh |-> fresh, trace |-> c.trace]]
        /\ UNCHANGED <<table, outbox>>

\* record: the operation is created, or restored if it was stored unfinished.
\* Another body under its name is a conflict, a finished one a replay.
Execute(p, c, now) ==
    LET fresh == table[c.ext] = Null
        t == IF fresh THEN NewExternalTransaction(c, now) ELSE Restore(table[c.ext])
    IN  /\ mem[p] = Null
        /\ t # Refused /\ ~IsTerminal(t.state) /\ t.hash = c.hash
        /\ mem' = [mem EXCEPT ![p] = [t |-> t, now |-> now, fresh |-> fresh, trace |-> c.trace]]
        /\ UNCHANGED <<table, outbox>>

\* The resolver resumes a stored wait, or reads it to let it expire.
Resume(p, e, now) ==
    LET t == Restore(table[e]) IN
    /\ mem[p] = Null
    /\ table[e] # Null /\ table[e].state = "PENDING_REFERENCE"
    /\ t # Refused
    /\ mem' = [mem EXCEPT ![p] = [t |-> t, now |-> now, fresh |-> FALSE, trace |-> NewId]]
    /\ UNCHANGED <<table, outbox>>

\* The aggregates a call may end with: its instant is the one it read first.
Results(m) ==
    LET t == m.t
        resolved == IF RequiresReference(t.kind)
                    THEN ResolveReference(t, ReferenceId, m.now) ELSE t
    IN  {MarkAsProcessed(resolved, b, m.now) : b \in Balance}
          \cup {Reject(r, "refused", m.now) : r \in {t, resolved}}
          \cup (IF RequiresReference(t.kind) /\ t.state = "PENDING"
                THEN {MarkAsPendingReference(t, m.now)} ELSE {})

KeyFree(row) == \A e \in Text : table[e] # Null => table[e].key # row.key

\* Insert if the operation is new, then Update and the events, and the commit.
\* A call that loses to another one, or to a check, is abandoned.
Commit(p, t) ==
    LET m == mem[p]
        e == m.t.ext
        old == IF m.fresh THEN Columns(m.t) ELSE table[e]
        new == Updated(old, t)
    IN  /\ t # Refused
        /\ m.fresh => table[e] = Null /\ KeyFree(old) /\ Checked(old) /\ Fits(old)
        /\ GuardUpdate(old, new) /\ Checked(new)
        /\ Refused \notin Announced(t, m.trace)
        /\ table' = [table EXCEPT ![e] = new]
        /\ outbox' = outbox \cup {Save(v) : v \in Announced(t, m.trace)}
        /\ mem' = [mem EXCEPT ![p] = Null]

\* A conflict, a failed statement, a crash; or a wait that goes on.
Abandon(p) ==
    /\ mem[p] # Null
    /\ mem' = [mem EXCEPT ![p] = Null]
    /\ UNCHANGED <<table, outbox>>

Next ==
    \/ \E wallet \in Wallet, amount \in Balance : OpenWallet(wallet, amount)
    \/ \E p \in Call :
         \/ \E c \in Command, now \in Instant : Execute(p, c, now)
         \/ \E e \in Text, now \in Instant : Resume(p, e, now)
         \/ mem[p] # Null /\ \E t \in Results(mem[p]) : Commit(p, t)
         \/ Abandon(p)

Spec == Init /\ [][Next]_vars

-----------------------------------------------------------------------------
(***************************************************************************)
(* Properties.                                                             *)
(***************************************************************************)

Stored == {e \in Text : table[e] # Null}

\* What the contract and the domain let through is never refused further down:
\* whatever a call ends with, its transitions are allowed, the table takes its
\* rows, with clocks that disagree too, and its events can be built.  Only the
\* widths of the columns are checked by nobody before the table.
AcceptedMeansStorable ==
    \A p \in Call : mem[p] # Null =>
        LET m == mem[p]
            old == IF m.fresh THEN Columns(m.t) ELSE table[m.t.ext]
        IN  /\ m.fresh => Checked(old)
            /\ \A t \in Results(m) :
                 /\ t # Refused
                 /\ Checked(Updated(old, t))
                 /\ Refused \notin Announced(t, m.trace)

\* Every stored row can be read back, as what was written: no row blocks its
\* own replays or the resolver.
RowsRestore ==
    \A e \in Stored :
        Restore(table[e]) # Refused /\ Columns(Restore(table[e])) = table[e]

\* A call never works on another operation than its provider asked for: what it
\* finds unfinished under the name is the operation of its command, whichever
\* transport and whichever call stored it.  A body that gives one field twice is
\* left out: the hash does not keep the order that decides between the two.
GivenOnce(body) ==
    \A i, j \in DOMAIN body :
        body[i].key.field = body[j].key.field /\ body[i].key.field \in BodyField => i = j

Unambiguous == {h \in Hash : \A d \in Delivery : CanonicalHash(d.body) = h => GivenOnce(d.body)}

SameOperation(t, c) ==
    /\ t.wallet = c.wallet /\ t.kind = c.kind /\ t.amount = c.money
    /\ TrimSpace(t.ref) = TrimSpace(c.ref)

CallsWorkOnWhatWasAsked ==
    [][\A p \in Call : mem'[p] \notin {mem[p], Null} =>
          \A c \in Command :
             c.hash \in Unambiguous /\ ~SameOperation(mem'[p].t, c) =>
                 \A now \in Instant : ~Execute(p, c, now)]_vars

\* No committed event holds up its batch: the publisher can restore it, and it
\* says what the row of its operation says, although the row was written by the
\* last of several calls.
EventsCanBePublished ==
    \A v \in outbox :
        LET row == table[IF v.data.kind = "OPENING" THEN Opening ELSE v.data.ext] IN
        /\ RestoreEnvelope(v) = v
        /\ row # Null
        /\ v.type = "WagerTransactionPendingReference"
             \/ <<v.data.code, v.data.balance, v.data.resolved>>
                  = <<row.code, row.balance, row.resolved>>

-----------------------------------------------------------------------------
(***************************************************************************)
(* What the repository says of the program and the program does not do.    *)
(***************************************************************************)

\* "Two payloads hash to the same value when they describe the same operation,
\* whatever the order of their keys, their indentation or the transport that
\* carried them" (hash.go:55-58): the operation that is stored is sent again
\* only under its own hash.  A spelling the transports decode alike, of the name
\* of a field or of a UUID, and a field they ignore, make it another one.
SameOperationSameHash ==
    \A e \in Stored \ {Opening}, c \in Command :
        LET stored == [table[e] EXCEPT !.ref = textOf(@)]
        IN  c.ext = e /\ SameOperation(stored, c) => c.hash = stored.hash
=============================================================================
