---------------------------- MODULE InboundQueue ----------------------------
(***************************************************************************)
(* The inbound queue and its consumers: batches are received, each message *)
(* waits for a slot, a goroutine handles it, and what was committed is     *)
(* deleted.  A shutdown, a crash, a lost answer or a failed call leaves    *)
(* the message to the visibility timeout and to the redrive policy.        *)
(*                                                                         *)
(* The queue itself is external.  It is FIFO per group, its visibility     *)
(* timeout starts at the receive, it honours the handle of the last        *)
(* delivery while that one lasts, and it moves a message aside after       *)
(* MaxReceiveCount deliveries.  A delivery is a message and its receive    *)
(* count, which is also its receipt handle.                                *)
(*                                                                         *)
(* What handling a message does is WagerProcessing; here it is recorded or *)
(* it is not, once and for all, since the inbox recognises a repetition.   *)
(***************************************************************************)
EXTENDS Backoff, FiniteSets

CONSTANTS
    Message,           \* messages, numbered in the order they were sent
    Group,             \* the group of a message: its wallet
    Hopeless,          \* messages the contract refuses, whenever handled
    Consumer,          \* consumers, one per instance
    MaxMessages,       \* CONSUMER_MAX_MESSAGES
    Concurrency,       \* CONSUMER_CONCURRENCY
    VisibilityTimeout, \* CONSUMER_VISIBILITY_TIMEOUT
    HandlerTimeout,    \* CONSUMER_HANDLER_TIMEOUT
    MaxReceiveCount,   \* maxReceiveCount of the redrive policy
    Nobody             \* no consumer

ASSUME InboundAssumption ==
    /\ Message \subseteq Nat /\ Hopeless \subseteq Message
    /\ DOMAIN Group = Message
    /\ {MaxMessages, Concurrency, VisibilityTimeout, HandlerTimeout, MaxReceiveCount}
         \subseteq Nat \ {0}
    /\ HandlerTimeout < VisibilityTimeout
    /\ Nobody \notin Consumer

\* The shifts of retryDelay, which the provers do not compute.
ASSUME ShiftAssumption == \A n \in 0..6 : 2 ^ n \in Nat

VARIABLES
    queue,    \* per message: where it is, how long it stays hidden, receives
    work,     \* per delivery: who has it, how far, and the time it has left
    stopping, \* the consumers whose context is cancelled
    recorded  \* the messages whose handling was committed

vars == <<queue, work, stopping, recorded>>

Delivery == Message \X (1..MaxReceiveCount)
Stage == {"none", "waiting", "admitted", "handling", "delete", "retry"}
NoWork == [by |-> Nobody, stage |-> "none", left |-> 0]

Init ==
    /\ queue = [m \in Message |-> [place |-> "producer", hidden |-> 0, received |-> 0]]
    /\ work = [d \in Delivery |-> NoWork]
    /\ stopping = {}
    /\ recorded = {}

-----------------------------------------------------------------------------
(* The queue. *)

Send(m) ==
    /\ queue[m].place = "producer"
    /\ \A k \in Message : k < m => queue[k].place # "producer"
    /\ queue' = [queue EXCEPT ![m].place = "queue"]
    /\ UNCHANGED <<work, stopping, recorded>>

Queued(m) == queue[m].place = "queue"
Visible(m) == Queued(m) /\ queue[m].hidden = 0
Ahead(m) == {k \in Message : k < m /\ Group[k] = Group[m] /\ Queued(k)}

\* What one receive may return: of each group the oldest messages, unless one
\* of the group is in flight.
Receivable(batch) ==
    /\ batch # {} /\ IsFiniteSet(batch)
    /\ Cardinality(batch) <= MaxMessages
    /\ \A m \in batch :
         /\ Visible(m)
         /\ queue[m].received < MaxReceiveCount
         /\ Ahead(m) \subseteq batch

Hand(batch) ==
    [m \in Message |->
        IF m \in batch
        THEN [queue[m] EXCEPT !.hidden = VisibilityTimeout, !.received = @ + 1]
        ELSE queue[m]]

\* The redrive policy.
Redrive(m) ==
    /\ Visible(m)
    /\ Ahead(m) = {}
    /\ queue[m].received = MaxReceiveCount
    /\ queue' = [queue EXCEPT ![m].place = "dead letter"]
    /\ UNCHANGED <<work, stopping, recorded>>

\* The handle of a delivery is good until the message is visible again.
Honoured(d) ==
    LET m == d[1] IN Queued(m) /\ queue[m].hidden > 0 /\ queue[m].received = d[2]

-----------------------------------------------------------------------------
(* The consumer. *)

At(c, stages) == {d \in Delivery : work[d].by = c /\ work[d].stage \in stages}
Undispatched(c) == At(c, {"waiting", "admitted"})
InFlight(c) == At(c, {"handling", "delete", "retry"})

\* The loop of Run fetches when the last batch is dispatched.
Fetches(c) == c \notin stopping /\ Undispatched(c) = {}

Receive(c, batch) ==
    /\ Fetches(c)
    /\ Receivable(batch)
    /\ queue' = Hand(batch)
    /\ work' = [d \in Delivery |->
          IF d[1] \in batch /\ d[2] = queue[d[1]].received + 1
          THEN [by |-> c, stage |-> "waiting", left |-> 0]
          ELSE work[d]]
    /\ UNCHANGED <<stopping, recorded>>

\* The answer of a receive is lost.
ReceiveFails(c, batch) ==
    /\ Fetches(c)
    /\ Receivable(batch)
    /\ queue' = Hand(batch)
    /\ UNCHANGED <<work, stopping, recorded>>

\* The next of the batch: the groups come in any order.
IsNext(d) ==
    LET c == work[d].by IN
    /\ work[d].stage = "waiting"
    /\ \A e \in At(c, {"waiting"}) : Group[e[1]] = Group[d[1]] => d[1] <= e[1]
    /\ At(c, {"admitted"}) = {}

\* Mutant of HasSlot: a slot too few.
HasSlotButOne(d) ==
    LET c == work[d].by IN
    /\ c \notin stopping /\ IsNext(d)
    /\ Cardinality(InFlight(c)) + 1 < Concurrency

HasSlot(d) ==
    LET c == work[d].by IN
    /\ \/ c \notin stopping /\ IsNext(d)
       \/ work[d].stage = "admitted"
    /\ Cardinality(InFlight(c)) < Concurrency

\* Mutant of Start: the handling is bounded by the visibility timeout.
StartUntilVisible(d) ==
    /\ HasSlot(d)
    /\ work' = [work EXCEPT ![d].stage = "handling", ![d].left = VisibilityTimeout]
    /\ UNCHANGED <<queue, stopping, recorded>>

\* A goroutine starts when a slot is free, and its timeout with it.
Start(d) ==
    /\ HasSlot(d)
    /\ work' = [work EXCEPT ![d].stage = "handling", ![d].left = HandlerTimeout]
    /\ UNCHANGED <<queue, stopping, recorded>>

\* The delivery d is over.
Leave(d) == work' = [work EXCEPT ![d] = NoWork]

\* Mutant of Release: what is being handled is handed back, too.
ReleaseInFlight(d) ==
    /\ work[d].by \in stopping
    /\ (IsNext(d) /\ Leave(d)) \/ (work[d].stage = "handling" /\ UNCHANGED work)
    /\ queue' = [queue EXCEPT ![d[1]].hidden = IF Honoured(d) THEN 0 ELSE @]
    /\ UNCHANGED <<stopping, recorded>>

\* A shutdown finds messages that are not dispatched: they are handed back,
\* if the call works.
Release(d) ==
    /\ work[d].by \in stopping
    /\ IsNext(d)
    /\ Leave(d)
    /\ \/ queue' = [queue EXCEPT ![d[1]].hidden = IF Honoured(d) THEN 0 ELSE @]
       \/ UNCHANGED queue
    /\ UNCHANGED <<stopping, recorded>>

Goes(d, stage) == work' = [work EXCEPT ![d].stage = stage]

\* Handle returns nil: committed now, or recognised by the inbox.
Handled(d) ==
    /\ work[d].stage = "handling"
    /\ work[d].left > 0
    /\ d[1] \notin Hopeless
    /\ recorded' = recorded \cup {d[1]}
    /\ Goes(d, "delete")
    /\ UNCHANGED <<queue, stopping>>

\* Mutant of HandlingFails: a failure is taken for a success.
FailsAsHandled(d) ==
    /\ work[d].stage = "handling"
    /\ Goes(d, "delete")
    /\ UNCHANGED <<queue, stopping, recorded>>

\* Handle fails or runs out of time; its commit may have taken effect.
HandlingFails(d) ==
    /\ work[d].stage = "handling"
    /\ Goes(d, "retry")
    /\ \/ UNCHANGED recorded
       \/ d[1] \notin Hopeless /\ recorded' = recorded \cup {d[1]}
    /\ UNCHANGED <<queue, stopping>>

\* Handle returns a permanent error: the message is left where it is.
Refused(d) ==
    /\ work[d].stage = "handling"
    /\ work[d].left > 0
    /\ d[1] \in Hopeless
    /\ Leave(d)
    /\ UNCHANGED <<queue, stopping, recorded>>

\* delete: within the time of the handling, with a handle that may be stale.
\* Whatever fails, the message comes back.
Delete(d) ==
    /\ work[d].stage = "delete"
    /\ Leave(d)
    /\ \/ /\ work[d].left > 0 /\ Honoured(d)
          /\ queue' = [queue EXCEPT ![d[1]].place = "deleted", ![d[1]].hidden = 0]
       \/ UNCHANGED queue
    /\ UNCHANGED <<stopping, recorded>>

\* The wait before another delivery, in seconds.
retryDelay(received) == Least(2 ^ Least(received - 1, 6), VisibilityTimeout)

\* changeVisibility after a transient failure, under the same conditions.
Retry(d) ==
    /\ work[d].stage = "retry"
    /\ Leave(d)
    /\ \/ /\ work[d].left > 0 /\ Honoured(d)
          /\ queue' = [queue EXCEPT ![d[1]].hidden = retryDelay(d[2])]
       \/ UNCHANGED queue
    /\ UNCHANGED <<stopping, recorded>>

\* The context of Run is cancelled.  The loop may just have found it alive and
\* be waiting for a slot for the next message of the batch.
Shutdown(c) ==
    /\ c \notin stopping
    /\ stopping' = stopping \cup {c}
    /\ \/ UNCHANGED work
       \/ \E d \in At(c, {"waiting"}) : IsNext(d) /\ Goes(d, "admitted")
    /\ UNCHANGED <<queue, recorded>>

\* Run returns when its goroutines have, and the instance starts again.
Restart(c) ==
    /\ c \in stopping
    /\ Undispatched(c) \cup InFlight(c) = {}
    /\ stopping' = stopping \ {c}
    /\ UNCHANGED <<queue, work, recorded>>

\* A crash, or a shutdown that missed its deadline.
Crash(c) ==
    /\ Undispatched(c) \cup InFlight(c) # {}
    /\ work' = [d \in Delivery |-> IF work[d].by = c THEN NoWork ELSE work[d]]
    /\ stopping' = stopping \ {c}
    /\ UNCHANGED <<queue, recorded>>

Down(n) == IF n > 0 THEN n - 1 ELSE 0

\* A second passes.  What has run out of time returns at once, and what has a
\* slot starts at once.
Tick ==
    /\ \A d \in Delivery : ~HasSlot(d)
    /\ \A d \in Delivery : work[d].stage \in {"handling", "delete", "retry"} => work[d].left > 0
    /\ queue' = [m \in Message |-> [queue[m] EXCEPT !.hidden = Down(@)]]
    /\ work' = [d \in Delivery |-> [work[d] EXCEPT !.left = Down(@)]]
    /\ UNCHANGED <<stopping, recorded>>

Next ==
    \/ \E m \in Message : Send(m) \/ Redrive(m)
    \/ \E c \in Consumer :
         \/ \E batch \in SUBSET Message : Receive(c, batch) \/ ReceiveFails(c, batch)
         \/ Shutdown(c) \/ Restart(c) \/ Crash(c)
    \/ \E d \in Delivery :
         \/ Start(d) \/ Release(d) \/ Handled(d) \/ HandlingFails(d) \/ Refused(d)
         \/ Delete(d) \/ Retry(d)
    \/ Tick

Spec == Init /\ [][Next]_vars

\* Fairness.  Time passes and what is running ends.  A message that can be
\* received again and again is received by someone: several consumers poll
\* and stop all the time, so that fairness is strong.
ReceiveOf(m) ==
    \E c \in Consumer, batch \in SUBSET Message : m \in batch /\ Receive(c, batch)

Ends(d) == HandlingFails(d) \/ Refused(d) \/ Delete(d) \/ Retry(d) \/ Release(d)

Fairness ==
    /\ WF_vars(Tick)
    /\ \A m \in Message : SF_vars(ReceiveOf(m)) /\ SF_vars(Redrive(m))
    /\ \A c \in Consumer : WF_vars(Restart(c))
    /\ \A d \in Delivery : SF_vars(Start(d)) /\ WF_vars(Ends(d))

FairSpec == Spec /\ Fairness

-----------------------------------------------------------------------------
(***************************************************************************)
(* Properties.                                                             *)
(***************************************************************************)

\* Messages, deliveries and consumers hold values of their types: no message
\* is hidden for longer than the visibility timeout.
TypeOK ==
    /\ queue \in [Message -> [place: {"producer", "queue", "deleted", "dead letter"},
                              hidden: 0..VisibilityTimeout, received: 0..MaxReceiveCount]]
    /\ work \in [Delivery -> [by: Consumer \cup {Nobody}, stage: Stage, left: 0..HandlerTimeout]]
    /\ stopping \subseteq Consumer
    /\ recorded \subseteq Message

\* Deletes come after commits, whatever delivery they belong to.
DeleteAfterCommit == \A d \in Delivery : work[d].stage = "delete" => d[1] \in recorded

\* No operation is lost between the queue and the database: a message is
\* deleted only when its handling was committed, whatever crashed, timed out
\* or was delivered twice in between (consumer.go:3-5).
DeletedMeansRecorded == \A m \in Message : queue[m].place = "deleted" => m \in recorded

\* Every message that was sent ends deleted or in the dead letter queue: it
\* neither circulates for ever nor stays behind a message that does.
EveryMessageEnds ==
    \A m \in Message : Queued(m) ~> queue[m].place \in {"deleted", "dead letter"}

\* A handling that has time left.
Works(d) == work[d].stage = "handling" /\ work[d].left > 0

\* The message of a delivery stays hidden for as long as its handling may last.
Covered(d) ==
    /\ Queued(d[1])
    /\ queue[d[1]].received = d[2]
    /\ queue[d[1]].hidden >= work[d].left

\* What the visibility timeout does give (consumer.go:145-150): a message that
\* is hidden for as long as its handling may last stays so until the handling
\* ends, whatever other consumers receive, shut down or do with the handles of
\* earlier deliveries; nobody else is handed the message meanwhile.
CoveredUntilDone ==
    [][\A d \in Delivery : Works(d) /\ Covered(d) /\ Works(d)' => Covered(d)']_vars

-----------------------------------------------------------------------------
(***************************************************************************)
(* What the repository says of the program and the program does not do.    *)
(***************************************************************************)

\* "The timeout is shorter than the visibility timeout, which is what keeps a
\* second consumer from picking up a message still being worked on"
\* (consumer.go:146-148): no two handlers that still have time work on one
\* message.  But the visibility timeout starts at the receive, and the other
\* when a slot is free.
OneHandlerPerMessage ==
    \A d, e \in Delivery : d # e /\ d[1] = e[1] => ~(Works(d) /\ Works(e))

\* "Operations over one wallet are handled in the order they were sent"
\* (init-queues.sh:14-15), those in the dead letter queue apart.  But a batch
\* may hold several messages of a wallet, and each has a goroutine of its own.
HandledInOrder ==
    \A k, m \in Message :
        k < m /\ Group[k] = Group[m] /\ m \in recorded =>
            k \in recorded \/ queue[k].place = "dead letter"
=============================================================================
