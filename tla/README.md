# A verification project for the distributed wallet API

TLA+ models of the wallet service under `src/`, the TLC runs that check them on
small instances, and TLAPS proofs of the properties that matter most. File
names below are relative to `src/cmd/internal/` unless they begin with `src/`.

## 1. The system

A provider sends wagers (BET, WIN, LOSS, REFUND, ROLLBACK) over HTTP or over an
SQS FIFO queue. Every instance runs the same process against one PostgreSQL
database. Three kinds of loop run in each instance next to the HTTP server: the
consumer of the inbound queue, the outbox publisher and the reference resolver.

| Component | State | Operations | What makes it correct |
|---|---|---|---|
| Wager processing (`usecase/process-wager-transaction.go`, repositories) | tables `wallets`, `wager_transactions`, `wallet_ledger`; in memory the operation and the locked wallet | `Execute`, `ExecuteFromMessage`: find, insert, lock, decide, move, update, commit; up to 3 retries of a conflict | money moves exactly once per operation; one operation is reversed once; what is answered is stored |
| Wallet opening (`usecase/open-wallet.go`) | a wallet row, its opening credit | `Execute` | one wallet per player and currency, recorded from its first cent |
| Money and ledger (`domain/money.go`, `wallet.go`, `wallet-ledger-entry.go`) | int64 cents; append-only entries | add, subtract, negate, parse, print; debit, credit; append, replay | arithmetic is exact or refused; the entries form a chain that ends in the balance |
| Inbox (`infra/postgres/inbox-repository.go`) | message id and hash | `Register`, `Complete` | a message is handled together with its work or not at all |
| Reference expiry (`usecase/resume-pending-reference.go`) | parked rows | `Resume`, `Expire` | a parked reversal ends once |
| Reference resolver (`infra/worker/reference-resolver.go`, `pending-reference-store.go`) | claim, attempts, next attempt of a parked row | claim, resume, expire, reschedule, release | the retry budget holds and every wait ends |
| Outbox (`infra/postgres/outbox-repository.go`, `infra/worker/outbox-publisher.go`, `infra/messaging/publisher.go`) | an event per row, with claim, lease, attempts, publication | save, claim, send, confirm, reschedule | no event is lost, every event is delivered |
| Consumer (`infra/messaging/consumer.go`, `wager-handler.go`) | received batch, slots, shutdown | receive, dispatch, handle, delete, retry, release | nothing is deleted that was not committed; every message ends; one handler per message and order within a wallet (both broken: section 4) |
| Queries and reconciliation (`usecase/queries.go`, `infra/postgres/query-repository.go`) | a cursor the client holds; a snapshot | page the ledger; read balance and entries, replay and compare | a page skips nothing; a reconciliation reports no false difference |
| Contracts (`infra/http/dto.go`, `wagering-handler.go`, `events/inbound-message.go`, `pkg/idempotency/hash.go`) | none: a body becomes a command and a hash | decode, validate, trim, parse, hash | a call works on the operation it was asked for; one operation has one hash and one identity over both transports (it has not: section 4) |
| Record of an operation (`domain/wager-transaction.go`, `infra/postgres/transaction-repository.go`, `events/`, migrations) | aggregate, row, events | transitions, insert, update, restore, announce | what is accepted is stored, what is stored can be read back and published |
| Process (`di/module.go`, `src/cmd/server/main.go`, `infra/http/server.go`, `infra/postgres/pool.go`) | hooks, listener, pool, worker loops | start, rollback of a start, signal, stop | the pool outlives its users; a stop drains |
| Routing, authentication, configuration, metrics | none of their own | | see section 8 |

The components meet in the database. Processing writes the outbox and the
parked rows in its own SQL transaction; the publisher and the resolver find them
there, each under a lease, with one statement per step and no transaction that
spans two. The resolver resumes a row by calling the same flow as a provider
does. The consumer calls `ExecuteFromMessage` and deletes the message when it
returned.

What is hard: two calls that hold copies of one row; locks taken in an order
nobody wrote down (a foreign key takes one too); a crash or a lost answer
between any two statements; a lease or a visibility timeout that runs out while
its holder goes on; retries of what was already done; a reversal that arrives
before what it reverses; one operation spelled in two ways over two transports;
clocks that disagree; a shutdown in the middle of it all. `PROJECT.json` lists
each such hazard at its line with the properties that cover it.

## 2. Modules

| Module | Models | Uses |
|---|---|---|
| `WagerRules` | the rows, the kinds and the verdict on one operation, as pure operators | |
| `WalletLedger` | abstract: a sequential wallet, every operation one step | `WagerRules` |
| `WagerProcessing` | the calls, statement by statement, with their locks | `WagerRules`; implements `WalletLedger` |
| `Backoff` | the delay between attempts | |
| `OutboxDelivery` | outbox rows and publishers | `Backoff` |
| `ReferenceResolver` | parked rows and resolvers; `Resume` and `Expire` are one step each, which `WagerProcessing` justifies | `Backoff` |
| `InboundQueue` | the FIFO queue and its consumers; handling is one step, which `WagerProcessing` justifies | `Backoff` |
| `WalletMoney` | int64 money that wraps around, movements, entries, and the spelling of amounts, as pure operators | |
| `ProviderContract` | a body over HTTP or SQS, its command and its hash, as pure operators | extends `WalletMoney` |
| `TransactionRecord` | the operation as command, aggregate, row and events | extends `ProviderContract` |
| `ProcessLifetime` | start and stop of the process | |
| `LedgerReads` | a client that pages through a ledger and a reconciliation, while the calls write | extends `WagerProcessing` |
| `WagerProcessing_proofs`, `WagerHistory_proofs`, `LedgerReads_proofs` | theorems about `WagerProcessing` and `LedgerReads`, each built on the one before | |
| `TransactionRecord_proofs` | theorems about `TransactionRecord` and the operators of `ProviderContract` and `WalletMoney` | |
| `InboundQueue_proofs`, `OutboxDelivery_proofs`, `ReferenceResolver_proofs`, `ProcessLifetime_proofs` | theorems about the module they name | |
| `MC...` | instances for TLC | |

### WagerProcessing

The state is the five tables as they are committed, and per call the statement
it executes next (`pc`) and what it holds in memory (`op`, `wal`, `entry`). One
action is one statement, or the decision taken between two of them:

| `pc` | Action | Code |
|---|---|---|
| `register` | `Register` | `InboxRepository.Register`: waits for the same message id, then new, conflict or replay |
| `find` | `Find` | `record`: replay, payload conflict, resume of a parked row, or a new operation |
| `insert`, `fkey` | `Insert`, `ForeignKey` | `TransactionRepository.Insert`: the two unique keys, then the foreign key, which share-locks the wallet |
| `lock` | `LockByID` | `SELECT ... FOR UPDATE` of the wallet |
| `decide` | `StayParked`, `ParkNew`, `RejectOp`, `ConcludeLoss`, `Overflow`, `Settle` | `apply`, `resolveReference`, `settle`, `park`, `reject` |
| `move`, `update` | `MoveBalance`, `Update` | `UpdateBalance` and the ledger insert, then `Transactions.Update` with its trigger and the partial unique index |
| `commit` | `Commit` | the SQL transaction takes effect; its answer may be lost |
| `expire` | `ExpireRow` | `Expire` |

A statement waits while another call holds what it needs (`Blocks`). Locks are a
function of where a call is, so the model has no lock table. `DeadlockVictim` is
PostgreSQL ending one call of a cycle; `Interrupt` is a timeout, a crash or a
lost connection anywhere before the commit. The refinement `Sequential` hides
everything but the tables.

### LedgerReads

Every step of a call is a step of this module, `Write`, which also draws the
`seq` of a ledger entry where the entry is inserted (`drawn`) and makes it
visible where it is committed (`seqs`); a rollback leaves a gap. Between these
steps a client reads page after page (`walk`: the handler asks for one row more
than it shows), and a reconciliation reads the wallet and then the entries
(`audit`: the first read fixes the snapshot of the second). Reads take no lock.

### OutboxDelivery, ReferenceResolver

Both keep per row how far its instants lie from the database's `now()`, and
`Tick` moves the clock; so no absolute time is needed. `claims` is the batch a
worker goes through, `todo` the statement that comes next. A worker acts on its
claim whether or not it still has the lease, as the code does: no statement
compares `locked_by`.

### InboundQueue

A delivery is a message and its receive count, which is also its receipt
handle. `work` says who has a delivery and how far it is: waiting for a slot,
admitted (the loop has passed its check of the context), handling, then delete
or retry. The queue is external and modelled as the code uses it: FIFO per
group, a batch may hold several messages of a group, a visibility timeout that
starts at the receive, a redrive after `MaxReceiveCount` deliveries. Work that
has a slot starts at once, and what has run out of time returns at once.

### WalletMoney, ProviderContract, TransactionRecord

These follow one operation through its four forms. `WagerProcessing` abstracts
money to a bounded natural and an operation to what decides its outcome, and
takes for granted that sums are exact or refused, that a row can be read back
and that equal hashes mean equal operations; these modules say why it may.

`WalletMoney` computes in a two's complement of any width (`Top`), with the
overflow checks the code makes after the fact; a text is a sequence of digits and
marks. In `ProviderContract` a body is the sequence of its members. A member's
name is a field, or one the contract does not know, and the letter case it is
written in; a UUID has a spelling of its own; any member may be null or come
twice. Decoding into the struct (`Value`) takes the last value that is not null
whatever the spelling of the name; the hash (`CanonicalHash`) is computed over
the object with the names and values as received (`JSONObject`), less what is
null and the fields of the transport. Of a text there is what is left without its
outer spaces and whether it had any: HTTP trims (`toCommand`), a message is taken
as it is (`ParseInbound`), and the hash is computed before either. `TransactionRecord` has the guards of
the aggregate, the checks of the table, the guard trigger, what
`RestoreTransaction` and `RestoreEnvelope` demand, and calls that hold an
aggregate and the instant they read first, while others write. Instants are
half microseconds, since the column holds whole ones. A call writes and commits
in one step there; the locks are in `WagerProcessing`.

### ProcessLifetime

`Hooks` is the order in which constructors and invocations append to the
lifecycle. Fx is external and modelled as it is used: hooks start in order and
stop in reverse, it looks at the deadline before each, and `app.Stop` returns at
the deadline wherever the hooks are. Each worker and request is idle, working, or
working with a connection; the consumer's messages in flight count as one piece
of work. A process that is killed is in the other modules (`Crash`,
`Interrupt`).

## 3. Runs

Passing runs (states as TLC counts them):

| Run | Shows | Bounds |
|---|---|---|
| `operations` | types, the safety properties and the refinement of the sequential wallet | 2 calls, 1 wallet, a bet and two reversals that compete, a win that overflows, a loss, another player and currency; money up to 2 |
| `messages` | inbox and work commit together; every call ends (fairness below) | 2 calls, 2 message ids, one redelivered with another body, a reused key |
| `outbox` | types, no event lost, no confirmation undone; every event is delivered, and one the queue refuses for ever does not hold up another | 2 publishers, 2 events, one never accepted, batches of 1 |
| `resolver` | the budget holds, a conclusion stands, every wait ends | 2 workers, 1 reversal, both limits |
| `inbound` | types, nothing deleted that was not committed, a covered handling stays alone with its message; every message ends (fairness below) | 2 consumers with 1 slot each, batches of 2, 2 messages of one wallet, the first hopeless, a visibility of 3 ticks and a handler timeout of 2, 2 receives |
| `reads` | the history has no late entry, a page skips none, a reconciliation reports no difference that is not there | 2 calls of one wallet, pages of 1, 4 numbers |
| `records` | what is accepted is storable, rows restore, a call works on the operation it was asked for, committed events can be published | 2 calls, 16 deliveries over both transports, 3 instants, an opening credit |
| `lifetime` | the pool outlives its users, a clean exit leaves nothing, a stop drains | 3 workers, 2 requests |

`records` also evaluates, as assumptions of its module, the properties of the
pure operators of `WalletMoney`, which have no states: `ArithmeticIsExact` and
`MovementsMakeEntries` over every pair of 5 bit integers, `AmountsHaveOneSpelling`
over every text of up to 6 characters in base 2. All three are also proved, for
every width, base and length (section 6).

Why the bounds are enough. Two calls reach every pairwise race; that a third
call changes nothing for old copies of a row is proved (section 6). A bet, a
refund, a rollback of the same bet is the smallest set in which two reversals
compete; the balance bound of 2 lets a debit hit zero and a credit overflow.
Two publishers or workers, a lease of 1 or 2 ticks and one more tick of overdue
time let a lease run out between the claim and the send or the confirmation, be
taken over, and the first holder return; a batch of one is the hardest case for
an event that waits behind one the queue never accepts, and larger batches are
covered by the proofs. In `records` the deliveries are one bet, one refund, one
win and one loss, each in the spellings that some validation, the decoder or the
hash tells apart, the same refund for another wallet among them; three
instants let a call be earlier than, equal to and later than another by less and
more than the microsecond a column keeps. In `lifetime` two requests let one
arrive while another drains. `inbound` has what the code has under its defaults,
in small: a batch larger than the slots, so that a message waits for one, and a
visibility timeout longer than the handler timeout but not than the two together,
so that the wait uses it up, the message is received by the other consumer and the
first acts with a stale handle; two receives are a delivery and a redelivery
before the dead letter queue. `two_handlers` keeps the proportions of the
defaults (visibility of two handler timeouts), with batches of three over one
slot; `batch_order` has a batch of two and two slots.
Two calls and two pages are what it takes for an entry to appear behind a
cursor; four numbers leave room for a rollback. Attempts are counted up to a
cap at which the delay no longer grows (`MaxAttempts` of `OutboxDelivery`,
`AttemptCap` of `ReferenceResolver`); `Horizon` bounds how long an overdue row
is counted and `MaxSkew` how far a clock runs ahead. Symmetry is used over
calls and consumers, never in a liveness run. Only `lifetime`
switches deadlock checking off, because there the process does end; elsewhere a
system that stopped would be reported.

## 4. What the runs found

Each of these runs expects a violation of one sentence of the repository; the
finding in `PROJECT.json` quotes it.

| Run | What happens |
|---|---|
| `writers_queue` | two fresh operations of one wallet deadlock: the insert share-locks the wallet through its foreign key before the flow locks it for update. The victim is not retried |
| `two_handlers` | the visibility timeout starts at the receive and the handler timeout when a slot is free, so a message that waited for its slot becomes visible while it is handled, and a second consumer handles it too. `infra/messaging/consumer.go:146` says the shorter timeout prevents that; the defaults (`config/config.go:189-193`: batches of 10, 60 s, 30 s, 4 slots) do not, nor does what `validate` demands |
| `batch_order` | two messages of one wallet that are received in one batch are handled by two goroutines; the second commits before the first (`src/scripts/localstack/init-queues.sh:14` promises their order) |
| `one_hash` | a stored operation is sent again with a field the contract does not know, a name in another letter case or a UUID in another spelling; both transports decode it to the same operation, and it has another hash (`pkg/idempotency/hash.go:56` promises the same), so the replay is a conflict |

None of them loses or doubles money: `AppliedOnce` and `ReversedOnce` hold for
any calls, two handlers of one message and messages out of order included.

Two more disagreements are read off the code and have no run of their own:

- An operation over a wallet that does not exist, or has another currency, fails
  in the insert, on the foreign key
  (`src/migrations/000002_create_wager_transactions.up.sql:46`), before the lookup that would
  refuse it with `WALLET_NOT_FOUND` (`usecase/process-wager-transaction.go:169`,
  `domain/wager-transaction.go:175`); the test of that outcome uses a store
  without the foreign key. `WagerProcessing` has the statement (`ForeignKey`).
- A violation of unique (provider, idempotency key) becomes `ErrConcurrentUpdate`
  (`infra/postgres/transaction-repository.go:116`): a reused key is retried three
  times and answered as contention, 503, where `usecase/ports.go:39` and
  `src/ARCHITECTURE.md:146` promise a conflict, 409. `Insert` of `WagerProcessing` has it.

The models also contain, and their properties therefore tolerate, behaviours
that a reader of the comments in the code may not expect. They are consequences
of guards that are not there, and no property of the project forbids them:

- A batch is sent under one lease that nothing renews, so a second publisher can
  hold an event the first still has; the late one, which compares no
  `locked_by`, may then release the lease of the other.
- An event is due since its transaction began, so events of one wallet may be
  sent in another order than they were committed.
- A claim that leads to no attempt counts against the retry budget, and `Expire`
  does not look for the reference a last time.
- One hash, two identities: over HTTP an `externalTransactionId` is trimmed, over
  SQS it is not (`infra/http/wagering-handler.go:228`, `events/inbound-message.go:140`
  only refuses blank ones). The same body with outer spaces hashes alike and is
  stored under two names. A reference spelled `""` or `" "` is the same command
  as an absent one and hashes differently, as the other spellings of `one_hash` do.
- A body that gives one field twice, in two letter cases, is one operation or
  another by the order of the two; the hash sorts its names and does not tell them
  apart. `CallsWorkOnWhatWasAsked` leaves such bodies out (`Unambiguous`), and no
  others.
- A BET with a blank reference is accepted over HTTP and refused over SQS.
- A name longer than its column
  (`src/migrations/000002_create_wager_transactions.up.sql:23`) passes the contract and the
  aggregate and fails in the insert: an internal error over HTTP, the dead letter
  queue over SQS. `Fits` keeps such rows out and `AcceptedMeansStorable` is about
  the other checks of the table.
- A server whose `Serve` fails later is only logged, and the process goes on
  without its API (`ServeFails`).
- The workers are stopped before the server, under the one deadline; they may use
  it up, and then the requests that run get none of it.
- The reference of a WIN is stored and never resolved nor waited for.

## 5. Fairness

- `WagerProcessing`: each call's `Progress` is strongly fair, and the deadlock
  detector weakly. A call is a goroutine that executes its next statement;
  locks are granted again and again, and a call that waits is not overtaken
  for ever, since PostgreSQL queues the waiters. `Interrupt` is never assumed.
- `OutboxDelivery`, `ReferenceResolver`: time passes; a statement or send that
  is tried again and again succeeds in the end (outages end), per event. It has
  to be per event: a claim leaves `next_attempt_at` alone, so an event whose
  publisher stops every time before it is sent remains first of every batch.
  For the resolver, resuming may fail for ever and the wait still ends.
  With two publishers the fairness is of their cooperation: that one of them,
  whichever, claims and sends, never that a particular one does.
- `InboundQueue`: time passes, what runs ends, a stopped instance starts again,
  and a message that can be received again and again is received.
- `ProcessLifetime`: transactions end, work is finite, a loop whose context is
  cancelled returns, Fx goes on. No signal has to come and no deadline to pass.

## 6. Proofs

TLAPS proves, for any number of calls, wallets, commands, workers, messages and
events and any bound:

| Theorem | States |
|---|---|
| `TypeCorrect` | `Spec => []TypeOK`, with the invariant that what is held in memory belongs to the call's command |
| `NeverStale` | `Spec => []NoStaleDecision` |
| `LedgerReconciles` | `Spec => []LedgerExplainsBalance` |
| `ConcludedForGood` | `Spec => TerminalForGood` |
| `AnswersLast` | `Spec => []AnswersAreDurable` |
| `HandledIsRecorded` | `Spec => []HandledMeansRecorded` |
| `MovesOnce` | `Spec => []AppliedOnce` |
| `OutboxTellsAll` | `Spec => []EventsTellTheStory` |
| `ReturnsOnce` | `Spec => []ReversedOnce` |
| `ServiceIsSequential` | `Spec => ImplementsWalletLedger`: the concurrent service implements the sequential wallet |
| `InboundTypes` | `Spec => []TypeOK` of `InboundQueue`: no receive count or delay leaves its range |
| `NothingLost` | `Spec => []DeletedMeansRecorded`, for any batch, slots, timeouts and receive counts |
| `HandlingKeepsMessage` | `Spec => CoveredUntilDone`: once a message is hidden for as long as its handling may last, it stays so, for any settings |
| `TypeCorrect` of `OutboxDelivery_proofs` | `Spec => []TypeOK` |
| `NothingConfirmedUnsent` | `Spec => []ConfirmedMeansSent` |
| `ConfirmationIsFinal` | `Spec => ConfirmationStands` |
| `ResolverTypes` | `Spec => []TypeOK` of `ReferenceResolver` |
| `BudgetHolds` | `Spec => []LookedForWithinLimit`, with claims held past their lease |
| `RefusalIsEarned` | `Spec => []RefusedOnlyAfterBudget` |
| `ConclusionIsFinal` | `Spec => ConclusionStands` |
| `PoolIsOutlived` | `Spec => []PoolOutlivesItsUsers` |
| `CleanExitIsClean` | `Spec => []CleanExitLeavesNothing` |
| `HistoryReadsInOrder` | `SpecReads => []HistoryInOrder` |
| `PagesAreComplete` | `SpecReads => []PagesMissNothing`, for any limit and any length of the ledger |
| `ReconciliationAgrees` | `SpecReads => []ReconciliationIsConsistent` |
| `RecordsAreSound` | `Spec => []Records`, the inductive invariant of `TransactionRecord` |
| `RowsAreReadBack` | `Spec => []RowsRestore` |
| `AcceptedIsStorable` | `Spec => []AcceptedMeansStorable` |
| `EventsArePublishable` | `Spec => []EventsCanBePublished` |
| `CallsWorkOnTheirOperation` | `Spec => CallsWorkOnWhatWasAsked`, for every body the transports decode that gives no field twice |
| `MoneyIsExact` | `ArithmeticIsExact`: the overflow checks miss nothing and refuse nothing else, for any width |
| `MovementsAreEntries` | `MovementsMakeEntries`: what a wallet accepts, its ledger does |
| `OneSpelling` | two texts that `ParseMoney` accepts for one amount are equal, for any base, width and length |

The theorems about `WagerProcessing` and `LedgerReads` rest on the named
assumptions of `WagerRules` and `WagerProcessing` only: money is a natural bound,
`None` and `Opening` are no identifiers, no wallet is named as an operation is
(both index the outbox), commands and messages are well formed; and those about
reads on `ReadAssumption`, that a page has room for an entry.
Those about `InboundQueue` rest on
`InboundAssumption`, the bounds `config.validate` enforces, and on
`ShiftAssumption`, that the powers of two up to 64 are natural numbers; those
about `OutboxDelivery` on its own `ShiftAssumption`, of the powers up to
`MaxAttempts`, and on `RowAssumption`, that `Nobody` is no row; those about
`ReferenceResolver` on the same two, up to `AttemptCap`.
Those about `TransactionRecord` rest on `ContractAssumption`, `NothingAssumption`
and `NamesAssumption`, that the values that stand for a missing field, a refusal
or no row are none of the others; on `RecordAssumption`, that deliveries are
bodies the transports decode (`IsBody`) with a text for a key; and those about
money on `WidthAssumption`, `MoneyNames` and `TextAssumption`. The prover knows
neither of exponentiation nor that a model value is no record; TLC evaluates all
of these.

`TypeOK` is not inductive. `settle` moves money only if the debit is covered
and the credit fits, and that is known at the decision, while the balance is
written at the commit; so the type proof carries along, per value of `pc`, what
a call holds by then. `NoStaleDecision` needs in addition that a call holds a
wallet exactly from `lock` on, and that two calls cannot hold the same wallet
(`Blocks`); then a commit of one call leaves the wallet of every other as it was.
`LedgerExplainsBalance` follows, because an entry starts from the balance its
call read, and by `NoStaleDecision` that is still the balance of the row, which
is what the last entry left. `TerminalForGood` needs that between `update`,
where the trigger looks at the state, and `commit` nobody else writes the row
(`HoldsRow`, `HoldsUnique`).

The history of an operation (`WagerHistory_proofs`) is proved in two layers.
`Known` says what a call has in memory: the operation it holds has the payload of
its command and is the one that is stored; from the decision on it is concluded
or parked for the first time; and its entry is the movement it concludes with.
With `ConcludedForGood` this makes a commit the one conclusion of its operation,
so its entry is the only one (`MovesOnce`), its events follow at most one wait
(`OutboxTellsAll`), and whoever is answered reads what is stored (`AnswersLast`).
`Decides` says that the decision a call took at `decide`, over the wallet it
locked and the reference it read without a lock, is still the verdict over the
committed tables at the commit, unless its operation has been concluded
meanwhile, and then the trigger refuses it. The wallet cannot change, because it
is locked. The reference cannot, because only a concluded one leads to a verdict
other than parking (`VerdictStands`), and a concluded one stays. That nobody
reversed it meanwhile holds because another reversal that agrees with it is one
of the same wallet, which is locked (`CommitLeaves`). From this follow
`ReturnsOnce`, without the unique index of reversals, and, with one action of
the sequential wallet for each outcome of a commit (`CommitImplements`),
`ServiceIsSequential`.

`DeletedMeansRecorded` needs `DeleteAfterCommit`: work that
has come to the delete has been committed, whoever else has the message by
then; so it does not matter whether the handle it deletes with is stale.
`ConfirmedMeansSent` is alike: a publisher that has come to the confirmation has
sent, whoever holds the lease by then. `LookedForWithinLimit` needs an account of
the claims (`Counted`): a claim carries the number the row had counted when it was
made and allows at most one try, so the tries made and the claims that still allow
one are together no more than what the row counts, nor than the limit.
`CoveredUntilDone` holds step by step: a tick takes one from the handling and one from
the visibility; a message that is hidden is not received; and a receipt handle is
honoured only for the delivery that got it, so what others release, retry or
delete with theirs does not reach it.

The two promises that the code breaks (`two_handlers`, `batch_order`) would be kept by
other settings, and `InboundQueue_proofs` says by which. `OneAtATimeKeepsOrder`:
with `MaxMessages = 1` what is received has nothing of its group before it in the
queue, so a wallet keeps its order, whatever the slots and timeouts.
`TimeForTheBatch`: with `(MaxMessages + 1) * HandlerTimeout <= VisibilityTimeout` no
message has two handlers, since a message that waits stays hidden for as long as
everything that waits with it may take, one after the other, on top of what is
running. Neither says anything of the settings `validate` accepts otherwise.

`HistoryInOrder` adds to the invariant of `NeverStale` that the number a call drew
is above all those of its wallet (`Numbered`): it is drawn while the wallet is held.
`PagesMissNothing` follows by the cursor: what is committed between two pages
is above it. `ReconciliationIsConsistent` is `LedgerExplainsBalance` of the snapshot,
and that a chain replays to its last balance (`Explains`).

`Records` says of a row, of an aggregate in memory and of an event what its
constructor established: each transition of the aggregate keeps it
(`OutcomeOfCall`), and what is written from it passes the table, is restored as
it was (`SoundRowRestores`) and announces events that can be built. That calls
hold old aggregates does no harm, since what identifies an operation never
changes in its row (`CallFits`), the guard trigger keeps a conclusion, and `touch`
never goes back below the creation, whatever clock it reads. Each row is the one of
an accepted command, so `CallsWorkOnWhatWasAsked` is about two bodies: from the object
that is hashed every business field can be read back, since the last member of a
name is the member a field is filled from when no field is given twice
(`HashedValue`), and so equal hashes are equal operations (`HashIdentifies`).

`PoolOutlivesItsUsers` needs to know how far
the hooks are: a worker loop or a listener exists only while its hook is
started, a hook is left only when what it waits for is gone or the deadline has
passed, and after the deadline no further hook is entered.
`MoneyIsExact` is a case distinction on the sign of the second operand, because
that is what the checks look at.

Three proofs need induction over data: the replay of a ledger, the
value of a sequence of digits, and the least of a set of waiting messages. The
induction theorems of the library that take a predicate are out of reach; the
least element of a set of natural numbers (`LeastNatural`) is not, so these proofs
go by the least counterexample, and the definitions they are about are recursive
functions.

Left to TLC: liveness (`CallsEnd`, `EveryEventDelivered`, `EveryWaitEnds`,
`EveryMessageEnds`, `StopsDrain`), since fairness and ENABLED are beyond the
prover. Every other property of the passing runs is proved.

## 7. Plan

1. Done: the calls and the sequential wallet they implement, both workers, the
   inbound queue, the reads, money, contracts and records, the life of the
   process, and the theorems above.
2. Prove next: that the steps `ReferenceResolver` and `InboundQueue` take at once
   for a call are what the theorems about `WagerProcessing` allow.
3. Model next, if a use for it comes up: the composition of `InboundQueue` with
   `WagerProcessing`, where the handling of a message is a call of several steps.

## 8. What is not modelled, and why

- HTTP routing, the shape of answers, the encoding of cursors, the health probes,
  authentication, metrics and the generated API documentation change no state
  of the system. Of the queries only those that relate two reads are modelled.
- Reading the configuration is left out; of `validate` the bounds are the
  assumptions of the modules that rest on them. It does not demand that
  `HandlerTimeout`, the reference `ClaimLease` or a base delay be positive, nor
  that a base delay be below its cap, and the modules do not assume it where
  their properties do not need it.
- Identifiers are opaque and SHA-256 is injective. Indentation and escapes of a body
  and what is nested in its members are gone from the start; of `money` there is
  the amount, and the spellings of a name or a UUID stand for its letter cases
  and formats.
- `FAILED`, `Fail` and `RecordFailure` are used by no code, and an inbox row
  that is in progress is never visible, since it commits only completed.
- Clocks: in the workers the database's `now()` is one clock. `MaxSkew` models an
  `occurred_at` that is ahead of it; the difference between two instances that
  compare `created_at` moves the deadline by its amount and nothing else. In
  `TransactionRecord` every call reads an instant of its own.
- Delays are counted in ticks. In the code a shift that wraps around is caught by
  `delay <= 0` or exceeds the cap, but for bases within a few nanoseconds of a
  multiple of 2^32.
- `ReplayLedgerBalance` is used on ordered entries. Its comment says they need not
  be ordered, which holds up to an intermediate overflow.
