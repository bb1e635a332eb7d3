--------------------------- MODULE OutboxDelivery ---------------------------
(***************************************************************************)
(* The delivery of the outbox: OutboxPublisher workers of several          *)
(* instances claim committed events under a lease, send them to the queue  *)
(* and confirm or reschedule them, each with a statement of its own.       *)
(*                                                                         *)
(* Every instant the code compares is the database's now(), so a row keeps *)
(* how far in the future its columns lie: wait for next_attempt_at, lease  *)
(* for locked_until, ahead for occurred_at (the only one an instance's own *)
(* clock wrote), and Tick moves the clock.  Sending is modelled by whether *)
(* the queue has accepted the event, not by how many copies it holds.      *)
(*                                                                         *)
(* Left out: the payload, last_error, metrics, and corrupted rows, which   *)
(* the guard trigger and the checks of Save keep out.                      *)
(***************************************************************************)
EXTENDS Backoff, FiniteSets

CONSTANTS
    Event,          \* event identifiers, as event_id orders them
    Publisher,      \* publisher workers, one per instance
    Rejected,       \* events the queue never accepts
    BatchSize,      \* OUTBOX_BATCH_SIZE
    ClaimLease,     \* OUTBOX_CLAIM_LEASE
    RetryBaseDelay, \* OUTBOX_RETRY_BASE_DELAY
    RetryMaxDelay,  \* OUTBOX_RETRY_MAX_DELAY
    MaxSkew,        \* bound: how far an instance's clock runs ahead
    Horizon,        \* bound: how long overdue an event is counted
    MaxAttempts,    \* bound: attempts counted, the delay no longer grows there
    Nobody          \* no publisher, no event

ASSUME DeliveryAssumption ==
    /\ Event \subseteq Nat /\ Rejected \subseteq Event
    /\ {BatchSize, ClaimLease, RetryBaseDelay, MaxAttempts} \subseteq Nat \ {0}
    /\ {RetryMaxDelay, MaxSkew, Horizon} \subseteq Nat
    /\ Nobody \notin Event \cup Publisher

VARIABLES
    outbox,   \* table outbox: the row of each event, Nobody before it commits
    sent,     \* the events the queue has accepted
    claims,   \* per publisher and event, the attempt it claimed and has not
              \* finished, 0 for none
    current,  \* the event it is delivering
    todo      \* the statement that comes next for current

vars == <<outbox, sent, claims, current, todo>>

Row == [wait: -Horizon..RetryMaxDelay, lease: 0..ClaimLease,
        lockedBy: Publisher \cup {Nobody}, attempts: 0..MaxAttempts,
        ahead: 0..MaxSkew, published: BOOLEAN]

\* The shifts of backoffDelay and what a row is, which the provers do not compute.
ASSUME ShiftAssumption == \A n \in 0..MaxAttempts : 2 ^ n \in Nat
ASSUME RowAssumption == Nobody \notin Row

Saved == {e \in Event : outbox[e] # Nobody}

Batch(p) == {e \in Event : claims[p][e] > 0}

\* The rows a claim may take: unpublished, due, and not under a lease.
Due ==
    {e \in Saved : /\ ~outbox[e].published
                   /\ outbox[e].wait <= 0
                   /\ outbox[e].lease = 0}

Init ==
    /\ outbox = [e \in Event |-> Nobody]
    /\ sent = {}
    /\ claims = [p \in Publisher |-> [e \in Event |-> 0]]
    /\ current = [p \in Publisher |-> Nobody]
    /\ todo = [p \in Publisher |-> "none"]

\* OutboxRepository.Save, seen when its transaction commits: the event is due
\* since that transaction began.
Save(e) ==
    /\ outbox[e] = Nobody
    /\ \E ahead \in 0..MaxSkew, age \in 0..Horizon :
          outbox' = [outbox EXCEPT ![e] =
              [wait |-> -age, lease |-> 0, lockedBy |-> Nobody, attempts |-> 0,
               ahead |-> ahead, published |-> FALSE]]
    /\ UNCHANGED <<sent, claims, current, todo>>

\* runOnce claims again when it has gone through its batch.
Idle(p) == Batch(p) = {}

Attempt(e) == Least(outbox[e].attempts + 1, MaxAttempts)

\* ORDER BY next_attempt_at, event_id.
Before(e, f) ==
    \/ outbox[e].wait < outbox[f].wait
    \/ outbox[e].wait = outbox[f].wait /\ e < f

\* The UPDATE of ClaimPending: one statement, the longest due first.
Lease(p, taken) ==
    /\ Idle(p)
    /\ taken # {}
    /\ Cardinality(taken) = Least(BatchSize, Cardinality(Due))
    /\ \A e \in taken, f \in Due \ taken : Before(e, f)
    /\ outbox' = [e \in Event |->
          IF e \in taken
          THEN [outbox[e] EXCEPT !.lockedBy = p, !.lease = ClaimLease, !.attempts = Attempt(e)]
          ELSE outbox[e]]

\* ClaimPending, and the batch runOnce goes through.
ClaimPending(p, taken) ==
    /\ Lease(p, taken)
    /\ claims' = [claims EXCEPT ![p] = [e \in Event |-> IF e \in taken THEN Attempt(e) ELSE 0]]
    /\ UNCHANGED <<sent, current, todo>>

\* The answer of the claim is lost: the rows are leased and nobody has them.
ClaimLost(p, taken) ==
    /\ Lease(p, taken)
    /\ UNCHANGED <<sent, claims, current, todo>>

\* deliver takes the next event of the batch.
Deliver(p, e, accepted, statement) ==
    /\ current[p] = Nobody
    /\ e \in Batch(p)
    /\ sent' = IF accepted THEN sent \cup {e} ELSE sent
    /\ current' = [current EXCEPT ![p] = e]
    /\ todo' = [todo EXCEPT ![p] = statement]
    /\ UNCHANGED <<outbox, claims>>

\* The queue accepts the event.
PublishAccepted(p, e) == e \notin Rejected /\ Deliver(p, e, TRUE, "confirm")

\* Publish returns an error, and the queue may have accepted the event all
\* the same.
PublishFailed(p, e) ==
    \E accepted \in BOOLEAN :
        /\ accepted => e \notin Rejected
        /\ Deliver(p, e, accepted, "reschedule")

\* current is finished, in whichever way.
Finish(p) ==
    /\ claims' = [claims EXCEPT ![p][current[p]] = 0]
    /\ current' = [current EXCEPT ![p] = Nobody]
    /\ todo' = [todo EXCEPT ![p] = "none"]
    /\ UNCHANGED sent

Unpublished(e) == ~outbox[e].published

\* Mutant of MarkPublished: an event whose publication failed is confirmed.
MarkPublishedAnyway(p) ==
    LET e == current[p] IN
    /\ todo[p] # "none"
    /\ outbox' = [outbox EXCEPT ![e].published = TRUE, ![e].lockedBy = Nobody, ![e].lease = 0]
    /\ Finish(p)

\* MarkPublished: a second confirmation matches no row, and the table refuses
\* a confirmation that is earlier than the event.
MarkPublished(p) ==
    LET e == current[p] IN
    /\ todo[p] = "confirm"
    /\ Unpublished(e) => outbox[e].ahead = 0
    /\ outbox' = IF Unpublished(e)
                 THEN [outbox EXCEPT ![e].published = TRUE,
                                     ![e].lockedBy = Nobody, ![e].lease = 0]
                 ELSE outbox
    /\ Finish(p)

\* Mutants of Reschedule: a published row is not spared, and the next attempt
\* is not put off.
RescheduleAnyRow(p) ==
    LET e == current[p] IN
    /\ todo[p] = "reschedule"
    /\ outbox' = [outbox EXCEPT ![e].wait = backoffDelay(claims[p][e], RetryBaseDelay, RetryMaxDelay),
                                ![e].lockedBy = Nobody, ![e].lease = 0]
    /\ Finish(p)

RescheduleAtOnce(p) ==
    LET e == current[p] IN
    /\ todo[p] = "reschedule"
    /\ outbox' = IF Unpublished(e)
                 THEN [outbox EXCEPT ![e].lockedBy = Nobody, ![e].lease = 0]
                 ELSE outbox
    /\ Finish(p)

\* reschedule: the row is released, whoever holds it by now, and put off by
\* the attempt this publisher claimed.
Reschedule(p) ==
    LET e == current[p] IN
    /\ todo[p] = "reschedule"
    /\ outbox' = IF Unpublished(e)
                 THEN [outbox EXCEPT ![e].wait = backoffDelay(claims[p][e], RetryBaseDelay, RetryMaxDelay),
                                     ![e].lockedBy = Nobody, ![e].lease = 0]
                 ELSE outbox
    /\ Finish(p)

\* The statement fails: the claim is left to its lease.
StatementFails(p) ==
    /\ todo[p] # "none"
    /\ UNCHANGED outbox
    /\ Finish(p)

\* A crash or a shutdown: what is claimed stays claimed.
Stop(p) ==
    /\ ~Idle(p)
    /\ claims' = [claims EXCEPT ![p] = [e \in Event |-> 0]]
    /\ current' = [current EXCEPT ![p] = Nobody]
    /\ todo' = [todo EXCEPT ![p] = "none"]
    /\ UNCHANGED <<outbox, sent>>

Down(n, floor) == IF n > floor THEN n - 1 ELSE floor

\* now() advances.
Tick ==
    /\ outbox' = [e \in Event |->
          IF e \in Saved /\ Unpublished(e)
          THEN [outbox[e] EXCEPT !.wait = Down(@, -Horizon), !.lease = Down(@, 0),
                                 !.ahead = Down(@, 0)]
          ELSE outbox[e]]
    /\ UNCHANGED <<sent, claims, current, todo>>

Next ==
    \/ \E e \in Event : Save(e)
    \/ \E p \in Publisher :
         \/ \E taken \in SUBSET Due : ClaimPending(p, taken) \/ ClaimLost(p, taken)
         \/ \E e \in Event : PublishAccepted(p, e) \/ PublishFailed(p, e)
         \/ MarkPublished(p) \/ Reschedule(p) \/ StatementFails(p) \/ Stop(p)
    \/ Tick

Spec == Init /\ [][Next]_vars

\* Fairness.  Time passes, and the publishers run for ever: what some publisher
\* is able to do again and again, some publisher does in the end.  It is
\* fairness of the publishers together, for nothing keeps one of them from being
\* first each time.  It is strong, since outages end and a publisher is not
\* stopped every time before it tries, and it is per event: a claim leaves
\* next_attempt_at alone, so an event that nobody ever gets to send, or to
\* reschedule, stays the first of every batch.
ClaimOf(p, e) == \E taken \in SUBSET Due : e \in taken /\ ClaimPending(p, taken)

Fairness ==
    /\ WF_vars(Tick)
    /\ \A e \in Event :
         /\ SF_vars(\E p \in Publisher : ClaimOf(p, e))
         /\ SF_vars(\E p \in Publisher : PublishAccepted(p, e))
         /\ SF_vars(\E p \in Publisher : e \in Rejected /\ PublishFailed(p, e))
         /\ SF_vars(\E p \in Publisher : current[p] = e /\ MarkPublished(p))
         /\ SF_vars(\E p \in Publisher : current[p] = e /\ Reschedule(p))

FairSpec == Spec /\ Fairness

-----------------------------------------------------------------------------
(***************************************************************************)
(* Properties.                                                             *)
(***************************************************************************)

\* Every row and every publisher holds values of its type.
TypeOK ==
    /\ outbox \in [Event -> Row \cup {Nobody}]
    /\ sent \subseteq Event
    /\ claims \in [Publisher -> [Event -> 0..MaxAttempts]]
    /\ current \in [Publisher -> Event \cup {Nobody}]
    /\ todo \in [Publisher -> {"none", "confirm", "reschedule"}]

\* No event is lost: whatever fails, stops or is taken over in the middle of
\* a delivery, a row is confirmed only when the queue has the event.
ConfirmedMeansSent == \A e \in Saved : outbox[e].published => e \in sent

\* A publisher that is late cannot undo the confirmation of a faster one: a
\* published row never changes again.
ConfirmationStands ==
    [][\A e \in Saved : outbox[e].published => outbox'[e] = outbox[e]]_outbox

\* Every committed event is delivered and confirmed in the end, over crashes,
\* lost claims, failed confirmations and a clock that runs ahead, and an
\* event the queue never accepts does not hold up the others.
EveryEventDelivered ==
    \A e \in Event \ Rejected :
        outbox[e] # Nobody ~> outbox[e] # Nobody /\ outbox[e].published
=============================================================================
