------------------------- MODULE InboundQueue_proofs -------------------------
(***************************************************************************)
(* Type correctness of InboundQueue, that no message is deleted before its *)
(* handling was committed, and that a message hidden for as long as its    *)
(* handling may last stays so, for any number of consumers and messages    *)
(* and any batch, slots, timeouts and receive counts: also those for which *)
(* a message has two handlers and is deleted with a stale handle.  Then    *)
(* the settings that would keep two promises of the documents, which the   *)
(* settings of the code do not: order within a group, and one handler per  *)
(* message.                                                                *)
(***************************************************************************)
EXTENDS InboundQueue, FiniteSetTheorems, TLAPS

Place == {"producer", "queue", "deleted", "dead letter"}
Entry == [place: Place, hidden: 0..VisibilityTimeout, received: 0..MaxReceiveCount]
Work == [by: Consumer \cup {Nobody}, stage: Stage, left: 0..HandlerTimeout]

Inv == TypeOK /\ DeletedMeansRecorded /\ DeleteAfterCommit

-----------------------------------------------------------------------------
LEMMA NoWorkType == NoWork \in Work
BY InboundAssumption DEF NoWork, Work, Stage

\* The wait before another delivery never exceeds the visibility timeout.
LEMMA RetryDelayType ==
    ASSUME NEW n \in 1..MaxReceiveCount PROVE retryDelay(n) \in 0..VisibilityTimeout
<1>1. Least(n - 1, 6) \in 0..6
  BY InboundAssumption DEF Least
<1>2. 2 ^ Least(n - 1, 6) \in Nat
  BY <1>1, ShiftAssumption
<1> DEFINE power == 2 ^ Least(n - 1, 6)
<1>3. power \in Nat
  BY <1>2
<1> HIDE DEF power
<1>4. Least(power, VisibilityTimeout) \in 0..VisibilityTimeout
  BY <1>3, InboundAssumption DEF Least
<1> QED BY <1>4 DEF retryDelay, power

LEMMA DownType == ASSUME NEW max \in Nat, NEW n \in 0..max PROVE Down(n) \in 0..max
BY DEF Down

-----------------------------------------------------------------------------
LEMMA TypeInit == Init => TypeOK
<1> SUFFICES ASSUME Init PROVE TypeOK
  OBVIOUS
<1>1. queue \in [Message -> Entry]
  BY InboundAssumption DEF Init, Entry, Place
<1>2. work \in [Delivery -> Work]
  BY NoWorkType DEF Init
<1> QED BY <1>1, <1>2 DEF Init, TypeOK, Entry, Place, Work

\* Each step of the queue or of a consumer keeps the types.
LEMMA TypeStep == TypeOK /\ [Next]_vars => TypeOK'
<1> SUFFICES ASSUME TypeOK, [Next]_vars PROVE TypeOK'
  OBVIOUS
<1>q. queue \in [Message -> Entry]
  BY DEF TypeOK, Entry, Place
<1>w. work \in [Delivery -> Work]
  BY DEF TypeOK, Work
<1>r. stopping \subseteq Consumer /\ recorded \subseteq Message
  BY DEF TypeOK
<1>g. ASSUME queue' \in [Message -> Entry], work' \in [Delivery -> Work],
             stopping' \subseteq Consumer, recorded' \subseteq Message
      PROVE TypeOK'
  BY <1>g DEF TypeOK, Entry, Place, Work
<1>d. \A d \in Delivery : d[1] \in Message /\ d[2] \in 1..MaxReceiveCount
  BY DEF Delivery
<1>1. ASSUME NEW m \in Message, Send(m) PROVE TypeOK'
  <2>1. queue' \in [Message -> Entry]
    BY <1>1, <1>q DEF Send, Entry, Place
  <2> QED BY <2>1, <1>1, <1>w, <1>r, <1>g DEF Send
<1>2. ASSUME NEW m \in Message, Redrive(m) PROVE TypeOK'
  <2>1. queue' \in [Message -> Entry]
    BY <1>2, <1>q DEF Redrive, Entry, Place
  <2> QED BY <2>1, <1>2, <1>w, <1>r, <1>g DEF Redrive
<1>h. ASSUME NEW batch \in SUBSET Message, Receivable(batch) PROVE Hand(batch) \in [Message -> Entry]
  <2>1. ASSUME NEW m \in batch
        PROVE [queue[m] EXCEPT !.hidden = VisibilityTimeout, !.received = @ + 1] \in Entry
    <3>1. m \in Message /\ queue[m] \in Entry
      BY <1>q
    <3>2. queue[m].received < MaxReceiveCount
      BY <2>1, <1>h DEF Receivable
    <3>3. VisibilityTimeout \in 0..VisibilityTimeout
      BY InboundAssumption
    <3>4. queue[m].received + 1 \in 0..MaxReceiveCount
      BY <3>1, <3>2, InboundAssumption DEF Entry
    <3> QED BY <3>1, <3>3, <3>4 DEF Entry
  <2> QED BY <2>1, <1>q DEF Hand
<1>3. ASSUME NEW c \in Consumer, NEW batch \in SUBSET Message, Receive(c, batch) PROVE TypeOK'
  <2>1. queue' \in [Message -> Entry]
    BY <1>3, <1>h DEF Receive
  <2>2. [by |-> c, stage |-> "waiting", left |-> 0] \in Work
    BY InboundAssumption DEF Work, Stage
  <2>3. work' \in [Delivery -> Work]
    BY <1>3, <1>w, <2>2 DEF Receive
  <2> QED BY <2>1, <2>3, <1>3, <1>r, <1>g DEF Receive
<1>4. ASSUME NEW c \in Consumer, NEW batch \in SUBSET Message, ReceiveFails(c, batch) PROVE TypeOK'
  BY <1>4, <1>h, <1>w, <1>r, <1>g DEF ReceiveFails
<1>5. ASSUME NEW c \in Consumer, Shutdown(c) PROVE TypeOK'
  <2>1. work' \in [Delivery -> Work]
    <3>1. CASE UNCHANGED work
      BY <3>1, <1>w
    <3>2. ASSUME NEW d \in At(c, {"waiting"}), Goes(d, "admitted") PROVE work' \in [Delivery -> Work]
      BY <3>2, <1>w DEF Goes, At, Work, Stage
    <3> QED BY <3>1, <3>2, <1>5 DEF Shutdown
  <2> QED BY <2>1, <1>5, <1>q, <1>r, <1>g DEF Shutdown
<1>6. ASSUME NEW c \in Consumer, Restart(c) PROVE TypeOK'
  BY <1>6, <1>q, <1>w, <1>r, <1>g DEF Restart
<1>7. ASSUME NEW c \in Consumer, Crash(c) PROVE TypeOK'
  <2>1. work' \in [Delivery -> Work]
    BY <1>7, <1>w, NoWorkType DEF Crash
  <2> QED BY <2>1, <1>7, <1>q, <1>r, <1>g DEF Crash
<1>l. ASSUME NEW d \in Delivery, Leave(d) PROVE work' \in [Delivery -> Work]
  BY <1>l, <1>w, NoWorkType DEF Leave
<1>s. ASSUME NEW d \in Delivery, NEW stage \in Stage, Goes(d, stage) PROVE work' \in [Delivery -> Work]
  BY <1>s, <1>w DEF Goes, Work
<1>8. ASSUME NEW d \in Delivery, Start(d) PROVE TypeOK'
  <2>1. work' \in [Delivery -> Work]
    <3>1. "handling" \in Stage /\ HandlerTimeout \in 0..HandlerTimeout
      BY InboundAssumption DEF Stage
    <3>2. [work[d] EXCEPT !.stage = "handling", !.left = HandlerTimeout] \in Work
      BY <3>1, <1>w DEF Work
    <3>3. work' = [work EXCEPT ![d] = [work[d] EXCEPT !.stage = "handling", !.left = HandlerTimeout]]
      BY <1>8, <1>w DEF Start, Work
    <3> QED BY <3>2, <3>3, <1>w
  <2> QED BY <2>1, <1>8, <1>q, <1>r, <1>g DEF Start
<1>9. ASSUME NEW d \in Delivery, Release(d) PROVE TypeOK'
  <2>1. queue' \in [Message -> Entry]
    BY <1>9, <1>q, <1>d, InboundAssumption DEF Release, Entry
  <2> QED BY <2>1, <1>9, <1>l, <1>r, <1>g DEF Release
<1>10. ASSUME NEW d \in Delivery, Handled(d) PROVE TypeOK'
  <2>1. work' \in [Delivery -> Work]
    BY <1>10, <1>s DEF Handled, Stage
  <2> QED BY <2>1, <1>10, <1>q, <1>r, <1>d, <1>g DEF Handled
<1>11. ASSUME NEW d \in Delivery, HandlingFails(d) PROVE TypeOK'
  <2>1. work' \in [Delivery -> Work]
    BY <1>11, <1>s DEF HandlingFails, Stage
  <2> QED BY <2>1, <1>11, <1>q, <1>r, <1>d, <1>g DEF HandlingFails
<1>12. ASSUME NEW d \in Delivery, Refused(d) PROVE TypeOK'
  BY <1>12, <1>l, <1>q, <1>r, <1>g DEF Refused
<1>13. ASSUME NEW d \in Delivery, Delete(d) PROVE TypeOK'
  <2>1. queue' \in [Message -> Entry]
    <3> DEFINE m == d[1]
               gone == [queue[m] EXCEPT !.place = "deleted", !.hidden = 0]
    <3>1. m \in Message /\ gone \in Entry
      <4>1. m \in Message /\ queue[m] \in Entry
        BY <1>q, <1>d
      <4>2. "deleted" \in Place /\ 0 \in 0..VisibilityTimeout
        BY InboundAssumption DEF Place
      <4> QED BY <4>1, <4>2 DEF Entry
    <3>2. queue' = [queue EXCEPT ![m] = gone] \/ UNCHANGED queue
      <4>1. UNCHANGED queue \/
              queue' = [queue EXCEPT ![m].place = "deleted", ![m].hidden = 0]
        BY <1>13 DEF Delete
      <4>2. [queue EXCEPT ![m].place = "deleted", ![m].hidden = 0] = [queue EXCEPT ![m] = gone]
        BY <1>q, <3>1 DEF Entry
      <4> QED BY <4>1, <4>2
    <3> QED BY <3>1, <3>2, <1>q
  <2> QED BY <2>1, <1>13, <1>l, <1>r, <1>g DEF Delete
<1>14. ASSUME NEW d \in Delivery, Retry(d) PROVE TypeOK'
  <2>1. retryDelay(d[2]) \in 0..VisibilityTimeout
    BY <1>d, RetryDelayType
  <2>2. queue' \in [Message -> Entry]
    BY <2>1, <1>14, <1>q, <1>d DEF Retry, Entry
  <2> QED BY <2>2, <1>14, <1>l, <1>r, <1>g DEF Retry
<1>15. ASSUME Tick PROVE TypeOK'
  <2>1. \A m \in Message : [queue[m] EXCEPT !.hidden = Down(@)] \in Entry
    BY <1>q, DownType, InboundAssumption DEF Entry
  <2>2. \A d \in Delivery : [work[d] EXCEPT !.left = Down(@)] \in Work
    BY <1>w, DownType, InboundAssumption DEF Work
  <2> QED BY <2>1, <2>2, <1>15, <1>r, <1>g DEF Tick
<1>16. ASSUME UNCHANGED vars PROVE TypeOK'
  BY <1>16, <1>q, <1>w, <1>r, <1>g DEF vars
<1> QED BY <1>1, <1>2, <1>3, <1>4, <1>5, <1>6, <1>7, <1>8, <1>9, <1>10, <1>11, <1>12, <1>13,
           <1>14, <1>15, <1>16 DEF Next

\* Messages, deliveries and consumers hold values of their types: no message
\* is hidden for longer than the visibility timeout, whatever retryDelay says.
THEOREM InboundTypes == Spec => []TypeOK
BY TypeInit, TypeStep, PTL DEF Spec

-----------------------------------------------------------------------------
LEMMA InvInit == Init => Inv
<1> SUFFICES ASSUME Init PROVE Inv
  OBVIOUS
<1>1. DeletedMeansRecorded
  BY DEF Init, DeletedMeansRecorded
<1>2. DeleteAfterCommit
  BY DEF Init, DeleteAfterCommit, NoWork
<1> QED BY <1>1, <1>2, TypeInit DEF Inv

\* Only Handled leads to a delete and only Delete deletes; nothing is ever
\* taken back from what was committed.
LEMMA InvStep == Inv /\ [Next]_vars => Inv'
<1> SUFFICES ASSUME Inv, [Next]_vars PROVE Inv'
  OBVIOUS
<1>t. TypeOK'
  BY TypeStep DEF Inv
<1>q. queue \in [Message -> Entry] /\ work \in [Delivery -> Work]
  BY DEF Inv, TypeOK, Entry, Place, Work
<1>i. DeletedMeansRecorded /\ DeleteAfterCommit
  BY DEF Inv
<1>d. \A d \in Delivery : d[1] \in Message
  BY DEF Delivery
<1>k. recorded \subseteq recorded'
  BY DEF Next, vars, Send, Redrive, Receive, ReceiveFails, Shutdown, Restart, Crash, Start, Release,
     Handled, HandlingFails, Refused, Delete, Retry, Tick
\* What a step has to show: where a message is newly deleted it is recorded,
\* and where a delivery newly waits for its delete.
<1>g. ASSUME \A m \in Message : queue'[m].place = "deleted" => queue[m].place = "deleted" \/ m \in recorded',
             \A d \in Delivery : work'[d].stage = "delete" => work[d].stage = "delete" \/ d[1] \in recorded'
      PROVE Inv'
  BY <1>g, <1>t, <1>i, <1>k DEF Inv, DeletedMeansRecorded, DeleteAfterCommit
<1>p. ASSUME UNCHANGED queue
      PROVE \A m \in Message : queue'[m].place = "deleted" => queue[m].place = "deleted" \/ m \in recorded'
  BY <1>p
<1>w. ASSUME UNCHANGED work
      PROVE \A d \in Delivery : work'[d].stage = "delete" => work[d].stage = "delete" \/ d[1] \in recorded'
  BY <1>w
<1>l. ASSUME NEW d \in Delivery, Leave(d)
      PROVE \A e \in Delivery : work'[e].stage = "delete" => work[e].stage = "delete" \/ e[1] \in recorded'
  BY <1>l, <1>q DEF Leave, NoWork
<1>s. ASSUME NEW d \in Delivery, NEW stage, Goes(d, stage), stage # "delete"
      PROVE \A e \in Delivery : work'[e].stage = "delete" => work[e].stage = "delete" \/ e[1] \in recorded'
  BY <1>s, <1>q DEF Goes, Work
<1>1. ASSUME NEW m \in Message, Send(m) \/ Redrive(m) PROVE Inv'
  <2>1. \A k \in Message : queue'[k].place = "deleted" => queue[k].place = "deleted"
    BY <1>1, <1>q DEF Send, Redrive, Entry
  <2> QED BY <2>1, <1>1, <1>w, <1>g DEF Send, Redrive
<1>h. ASSUME NEW batch, queue' = Hand(batch)
      PROVE \A m \in Message : queue'[m].place = "deleted" => queue[m].place = "deleted"
  BY <1>h, <1>q DEF Hand, Entry
<1>2. ASSUME NEW c \in Consumer, NEW batch \in SUBSET Message, Receive(c, batch) PROVE Inv'
  <2>1. \A d \in Delivery : work'[d].stage = "delete" => work[d].stage = "delete"
    BY <1>2 DEF Receive
  <2>2. \A m \in Message : queue'[m].place = "deleted" => queue[m].place = "deleted"
    BY <1>2, <1>h DEF Receive
  <2> QED BY <2>1, <2>2, <1>g
<1>3. ASSUME NEW c \in Consumer, NEW batch \in SUBSET Message, ReceiveFails(c, batch) PROVE Inv'
  <2>1. \A m \in Message : queue'[m].place = "deleted" => queue[m].place = "deleted"
    BY <1>3, <1>h DEF ReceiveFails
  <2> QED BY <2>1, <1>3, <1>w, <1>g DEF ReceiveFails
<1>4. ASSUME NEW c \in Consumer, Shutdown(c) PROVE Inv'
  <2>1. \A d \in Delivery : work'[d].stage = "delete" => work[d].stage = "delete" \/ d[1] \in recorded'
    <3>1. CASE UNCHANGED work
      BY <3>1, <1>w
    <3>2. ASSUME NEW d \in At(c, {"waiting"}), Goes(d, "admitted")
          PROVE \A e \in Delivery : work'[e].stage = "delete" => work[e].stage = "delete" \/ e[1] \in recorded'
      <4>1. d \in Delivery
        BY DEF At
      <4> QED BY <4>1, <3>2, <1>s
    <3> QED BY <3>1, <3>2, <1>4 DEF Shutdown
  <2> QED BY <2>1, <1>4, <1>p, <1>g DEF Shutdown
<1>5. ASSUME NEW c \in Consumer, Restart(c) PROVE Inv'
  BY <1>5, <1>p, <1>w, <1>g DEF Restart
<1>6. ASSUME NEW c \in Consumer, Crash(c) PROVE Inv'
  <2>1. \A d \in Delivery : work'[d].stage = "delete" => work[d].stage = "delete"
    BY <1>6 DEF Crash, NoWork
  <2> QED BY <2>1, <1>6, <1>p, <1>g DEF Crash
<1>7. ASSUME NEW d \in Delivery, Start(d) PROVE Inv'
  <2>1. \A e \in Delivery : work'[e].stage = "delete" => work[e].stage = "delete"
    BY <1>7, <1>q DEF Start, Work
  <2> QED BY <2>1, <1>7, <1>p, <1>g DEF Start
<1>8. ASSUME NEW d \in Delivery, Release(d) PROVE Inv'
  <2>1. \A m \in Message : queue'[m].place = "deleted" => queue[m].place = "deleted"
    BY <1>8, <1>q DEF Release, Entry
  <2> QED BY <2>1, <1>8, <1>l, <1>g DEF Release
<1>9. ASSUME NEW d \in Delivery, Handled(d) PROVE Inv'
  <2>1. d[1] \in recorded'
    BY <1>9 DEF Handled
  <2>2. \A e \in Delivery \ {d} : work'[e] = work[e]
    BY <1>9, <1>q DEF Handled, Goes
  <2> QED BY <2>1, <2>2, <1>9, <1>p, <1>g DEF Handled
<1>10. ASSUME NEW d \in Delivery, HandlingFails(d) PROVE Inv'
  BY <1>10, <1>p, <1>s, <1>g DEF HandlingFails
<1>11. ASSUME NEW d \in Delivery, Refused(d) PROVE Inv'
  BY <1>11, <1>p, <1>l, <1>g DEF Refused
<1>12. ASSUME NEW d \in Delivery, Delete(d) PROVE Inv'
  <2>1. d[1] \in recorded
    BY <1>12, <1>i DEF Delete, DeleteAfterCommit
  <2>2. \A m \in Message \ {d[1]} : queue'[m] = queue[m]
    BY <1>12, <1>q DEF Delete
  <2> QED BY <2>1, <2>2, <1>12, <1>k, <1>l, <1>g DEF Delete
<1>13. ASSUME NEW d \in Delivery, Retry(d) PROVE Inv'
  <2>1. \A m \in Message : queue'[m].place = "deleted" => queue[m].place = "deleted"
    BY <1>13, <1>q DEF Retry, Entry
  <2> QED BY <2>1, <1>13, <1>l, <1>g DEF Retry
<1>14. ASSUME Tick PROVE Inv'
  <2>1. \A m \in Message : queue'[m].place = queue[m].place
    BY <1>14, <1>q DEF Tick, Entry
  <2>2. \A d \in Delivery : work'[d].stage = work[d].stage
    BY <1>14, <1>q DEF Tick, Work
  <2> QED BY <2>1, <2>2, <1>g
<1>15. ASSUME UNCHANGED vars PROVE Inv'
  BY <1>15, <1>p, <1>w, <1>g DEF vars
<1> QED BY <1>1, <1>2, <1>3, <1>4, <1>5, <1>6, <1>7, <1>8, <1>9, <1>10, <1>11, <1>12, <1>13, <1>14,
           <1>15 DEF Next

\* No operation is lost between the queue and the database: a message is
\* deleted only when its handling was committed, whatever crashed, timed out
\* or was delivered twice in between (consumer.go:3-5).
THEOREM NothingLost == Spec => []DeletedMeansRecorded
<1>1. Spec => []Inv
  BY InvInit, InvStep, PTL DEF Spec
<1>2. Inv => DeletedMeansRecorded
  BY DEF Inv
<1> QED BY <1>1, <1>2, PTL

-----------------------------------------------------------------------------
\* Two deliveries of one message that both own it are one.
LEMMA OneOwner ==
    ASSUME NEW d \in Delivery, NEW e \in Delivery, d[1] = e[1],
           queue[d[1]].received = d[2], queue[e[1]].received = e[2]
    PROVE  d = e
BY DEF Delivery

\* A step keeps what covers a handling that goes on.
LEMMA CoveredStep ==
    ASSUME TypeOK, [Next]_vars, NEW d \in Delivery, Works(d), Covered(d), Works(d)'
    PROVE  Covered(d)'
<1>q. queue \in [Message -> Entry] /\ work \in [Delivery -> Work]
  BY DEF TypeOK, Entry, Place, Work
<1>d. /\ d[1] \in Message
      /\ work[d].left \in Nat /\ queue[d[1]].hidden \in Nat /\ queue[d[1]].received \in Nat
  <2>1. d[1] \in Message
    BY DEF Delivery
  <2>2. {VisibilityTimeout, HandlerTimeout, MaxReceiveCount} \subseteq Nat
    BY InboundAssumption
  <2>3. queue[d[1]].hidden \in Nat /\ queue[d[1]].received \in Nat
    BY <1>q, <2>1, <2>2 DEF Entry
  <2>4. work[d].left \in Nat
    BY <1>q, <2>2 DEF Work
  <2>. QED BY <2>1, <2>3, <2>4
<1> PICK m \in Message : m = d[1]
  BY <1>d
<1>c. /\ queue[m].place = "queue" /\ queue[m].received = d[2]
      /\ queue[m].hidden >= work[d].left /\ queue[m].hidden > 0
      /\ work[d].stage = "handling"
  <2>1. queue[m].place = "queue" /\ queue[m].received = d[2] /\ queue[m].hidden >= work[d].left
    BY DEF Covered, Queued
  <2>2. work[d].left > 0 /\ work[d].stage = "handling"
    BY DEF Works
  <2>3. queue[m].hidden > 0
    BY <2>1, <2>2, <1>d
  <2>. QED BY <2>1, <2>2, <2>3
<1>g. ASSUME queue'[m] = queue[m], work'[d] = work[d]  PROVE Covered(d)'
  BY <1>g DEF Covered, Queued
\* The step ends or moves on another delivery, whose handle, if it is honoured,
\* is that of another message.
<1>o. ASSUME NEW e \in Delivery, e # d, Honoured(e)  PROVE e[1] # m
  BY <1>o, <1>c, OneOwner DEF Honoured
<1>l. ASSUME NEW e \in Delivery, Leave(e)  PROVE e # d /\ work'[d] = work[d]
  BY <1>l, <1>q DEF Leave, Works, NoWork
<1>s. ASSUME NEW e \in Delivery, NEW stage, Goes(e, stage), stage # "handling"
      PROVE  e # d /\ work'[d] = work[d]
  BY <1>s, <1>q DEF Goes, Works, Work
<1>1. ASSUME NEW k \in Message, Send(k) \/ Redrive(k)  PROVE Covered(d)'
  <2>1. k # m
    <3>1. queue[k].place = "producer" \/ queue[k].hidden = 0
      BY <1>1 DEF Send, Redrive, Visible
    <3>2. ~(queue[m].place = "producer" \/ queue[m].hidden = 0)
      BY <1>c, <1>d
    <3>. QED BY <3>1, <3>2
  <2>2. queue'[m] = queue[m] /\ work'[d] = work[d]
    BY <1>1, <1>q, <2>1 DEF Send, Redrive
  <2>. QED BY <2>2, <1>g
<1>2. ASSUME NEW c \in Consumer, NEW batch \in SUBSET Message,
             Receive(c, batch) \/ ReceiveFails(c, batch)
      PROVE  Covered(d)'
  <2>1. m \notin batch
    BY <1>2, <1>c DEF Receive, ReceiveFails, Receivable, Visible
  <2>2. queue'[m] = queue[m]
    BY <1>2, <2>1 DEF Receive, ReceiveFails, Hand
  <2>3. work'[d] = work[d]
    BY <1>2, <2>1 DEF Receive, ReceiveFails
  <2>. QED BY <2>2, <2>3, <1>g
<1>3. ASSUME NEW c \in Consumer, Shutdown(c)  PROVE Covered(d)'
  <2>1. UNCHANGED queue
    BY <1>3 DEF Shutdown
  <2>2. CASE UNCHANGED work
    BY <2>1, <2>2, <1>g
  <2>3. ASSUME NEW e \in Delivery, Goes(e, "admitted")  PROVE Covered(d)'
    BY <2>1, <2>3, <1>s, <1>g
  <2>. QED BY <1>3, <2>2, <2>3 DEF Shutdown, At
<1>4. ASSUME NEW c \in Consumer, Restart(c) \/ Crash(c)  PROVE Covered(d)'
  <2>1. UNCHANGED queue
    BY <1>4 DEF Restart, Crash
  <2>2. work'[d] = work[d] \/ work'[d] = NoWork
    BY <1>4 DEF Restart, Crash
  <2>3. work'[d] = work[d]
    BY <2>2 DEF Works, NoWork
  <2>. QED BY <2>1, <2>3, <1>g
<1>5. ASSUME NEW e \in Delivery, Start(e)  PROVE Covered(d)'
  <2>1. UNCHANGED queue /\ e # d
    BY <1>5, <1>c DEF Start, HasSlot, IsNext
  <2>2. work'[d] = work[d]
    BY <1>5, <2>1, <1>q DEF Start
  <2>. QED BY <2>1, <2>2, <1>g
<1>6. ASSUME NEW e \in Delivery, Handled(e) \/ HandlingFails(e)  PROVE Covered(d)'
  <2>1. UNCHANGED queue /\ (Goes(e, "delete") \/ Goes(e, "retry"))
    BY <1>6 DEF Handled, HandlingFails
  <2>. QED BY <2>1, <1>s, <1>g
<1>7. ASSUME NEW e \in Delivery, Refused(e)  PROVE Covered(d)'
  BY <1>7, <1>l, <1>g DEF Refused
<1>8. ASSUME NEW e \in Delivery, Release(e) \/ Delete(e) \/ Retry(e)  PROVE Covered(d)'
  <2>1. e # d /\ work'[d] = work[d]
    BY <1>8, <1>l DEF Release, Delete, Retry
  <2>2. PICK k \in Message : k = e[1]
    BY DEF Delivery
  <2>3. k = m => ~Honoured(e)
    BY <2>1, <2>2, <1>o
  <2>4. \/ UNCHANGED queue
        \/ Honoured(e) /\ queue' = [queue EXCEPT ![k].place = "deleted", ![k].hidden = 0]
        \/ Honoured(e) /\ queue' = [queue EXCEPT ![k].hidden = retryDelay(e[2])]
        \/ queue' = [queue EXCEPT ![k].hidden = IF Honoured(e) THEN 0 ELSE @]
    BY <1>8, <2>2 DEF Release, Delete, Retry
  <2>5. CASE k # m
    <3>1. queue'[m] = queue[m]
      BY <2>4, <2>5, <1>q
    <3>. QED BY <3>1, <2>1, <1>g
  <2>6. CASE k = m
    <3>1. \/ UNCHANGED queue
          \/ queue' = [queue EXCEPT ![k].hidden = @]
      BY <2>3, <2>4, <2>6
    <3>2. queue'[m] = queue[m]
      BY <3>1, <1>q DEF Entry
    <3>. QED BY <3>2, <2>1, <1>g
  <2>. QED BY <2>5, <2>6
<1>9. CASE Tick
  <2>1. /\ queue'[m] = [queue[m] EXCEPT !.hidden = Down(@)]
        /\ work'[d] = [work[d] EXCEPT !.left = Down(@)]
    BY <1>9 DEF Tick
  <2>2. /\ queue'[m].place = "queue" /\ queue'[m].received = d[2]
        /\ queue'[m].hidden = Down(queue[m].hidden)
        /\ work'[d].left = Down(work[d].left)
    BY <2>1, <1>c, <1>q DEF Entry, Work
  <2>3. Down(queue[m].hidden) >= Down(work[d].left)
    BY <1>c, <1>d DEF Down
  <2>. QED BY <2>2, <2>3 DEF Covered, Queued
<1>10. ASSUME UNCHANGED vars  PROVE Covered(d)'
  BY <1>10, <1>g DEF vars
<1>. QED BY <1>1, <1>2, <1>3, <1>4, <1>5, <1>6, <1>7, <1>8, <1>9, <1>10 DEF Next

\* What the visibility timeout does give (consumer.go:145-150), whatever the
\* settings and however many consumers receive, crash, stop or act on the handles
\* of earlier deliveries: a message hidden for as long as its handling may last
\* stays so until the handling ends.
THEOREM HandlingKeepsMessage == Spec => CoveredUntilDone
<1>1. TypeOK /\ [Next]_vars =>
        [\A d \in Delivery : Works(d) /\ Covered(d) /\ Works(d)' => Covered(d)']_vars
  BY CoveredStep
<1>. QED BY <1>1, InboundTypes, PTL DEF Spec, CoveredUntilDone

-----------------------------------------------------------------------------
(***************************************************************************)
(* What receiving one message at a time is enough for.                     *)
(***************************************************************************)

LEMMA BatchOfOne ==
    ASSUME MaxMessages = 1, NEW batch \in SUBSET Message, Receivable(batch)
    PROVE  \E m \in Message :
              /\ batch = {m} /\ Visible(m) /\ Ahead(m) = {}
              /\ queue[m].received < MaxReceiveCount
<1>1. PICK m \in batch : TRUE
  BY DEF Receivable
<1>2. IsFiniteSet(batch) /\ Cardinality(batch) <= 1
  BY DEF Receivable
<1>3. batch = {m}
  <2>. SUFFICES ASSUME NEW k \in batch, k # m  PROVE FALSE
    BY <1>1
  <2>1. {k, m} \subseteq batch
    BY <1>1
  <2>2. IsFiniteSet({k, m}) /\ Cardinality({k, m}) = 2
    <3>1. IsFiniteSet({m}) /\ Cardinality({m}) = 1
      BY FS_Singleton
    <3>2. Cardinality({m} \cup {k}) = 2 /\ IsFiniteSet({m} \cup {k})
      BY <3>1, FS_AddElement
    <3>3. {m} \cup {k} = {k, m}
      OBVIOUS
    <3>. QED BY <3>2, <3>3
  <2>3. Cardinality({k, m}) <= Cardinality(batch) /\ Cardinality(batch) \in Nat
    BY <1>2, <2>1, FS_Subset, FS_CardinalityType
  <2>. QED BY <1>2, <2>2, <2>3
<1>4. Visible(m) /\ Ahead(m) \subseteq {m} /\ queue[m].received < MaxReceiveCount
  BY <1>1, <1>3 DEF Receivable
<1>5. m \notin Ahead(m)
  BY InboundAssumption DEF Ahead
<1>. QED BY <1>1, <1>3, <1>4, <1>5

\* What was ever received has nothing to do before it, in its group.
Before(m) == {k \in Message : k < m /\ Group[k] = Group[m]}

OrderInv ==
    /\ \A m \in Message : queue[m].place # "producer" =>
         \A k \in Message : k < m => queue[k].place # "producer"
    /\ \A d \in Delivery : work[d].stage # "none" => queue[d[1]].received > 0
    /\ \A m \in recorded : queue[m].received > 0
    /\ \A m \in Message : queue[m].received > 0 =>
         /\ queue[m].place # "producer"
         /\ \A k \in Before(m) : k \in recorded \/ queue[k].place = "dead letter"

\* A step that receives nothing and sends nothing.
LEMMA OrderUntouched ==
    ASSUME OrderInv, recorded' \subseteq Message, recorded \subseteq recorded',
           \A m \in Message :
              /\ queue'[m].received = queue[m].received
              /\ (queue'[m].place = "producer") = (queue[m].place = "producer")
              /\ queue[m].place = "dead letter" => queue'[m].place = "dead letter",
           \A d \in Delivery : work'[d].stage # "none" => work[d].stage # "none",
           \A m \in recorded' : m \in recorded \/ \E d \in Delivery : d[1] = m /\ work[d].stage # "none"
    PROVE  OrderInv'
<1>d. \A d \in Delivery : d[1] \in Message
  BY DEF Delivery
<1>1. \A m \in Message : queue'[m].place # "producer" =>
         \A k \in Message : k < m => queue'[k].place # "producer"
  BY DEF OrderInv
<1>2. \A d \in Delivery : work'[d].stage # "none" => queue'[d[1]].received > 0
  BY <1>d DEF OrderInv
<1>3. \A m \in recorded' : queue'[m].received > 0
  <2>. SUFFICES ASSUME NEW m \in recorded'  PROVE queue'[m].received > 0
    OBVIOUS
  <2>1. m \in Message /\ queue'[m].received = queue[m].received
    OBVIOUS
  <2>2. CASE m \in recorded
    BY <2>1, <2>2 DEF OrderInv
  <2>3. CASE \E d \in Delivery : d[1] = m /\ work[d].stage # "none"
    <3>1. PICK d \in Delivery : d[1] = m /\ work[d].stage # "none"
      BY <2>3
    <3>2. queue[d[1]].received > 0
      BY <3>1 DEF OrderInv
    <3>. QED BY <2>1, <3>1, <3>2
  <2>. QED BY <2>2, <2>3
<1>4. \A m \in Message : queue'[m].received > 0 =>
         /\ queue'[m].place # "producer"
         /\ \A k \in Before(m) : k \in recorded' \/ queue'[k].place = "dead letter"
  BY DEF OrderInv, Before
<1>. QED BY <1>1, <1>2, <1>3, <1>4 DEF OrderInv

\* What a receive of one message finds before it is concluded: it was sent
\* earlier, and what is not queued any more was deleted, hence recorded, or moved
\* aside.
LEMMA OrderReceived ==
    ASSUME TypeOK, DeletedMeansRecorded, OrderInv,
           NEW m \in Message, Visible(m), Ahead(m) = {}, queue' = Hand({m}),
           UNCHANGED recorded,
           \A d \in Delivery : work'[d].stage # "none" => work[d].stage # "none" \/ d[1] = m
    PROVE  OrderInv'
<1>q. queue \in [Message -> Entry]
  BY DEF TypeOK, Entry, Place
<1>d. \A d \in Delivery : d[1] \in Message
  BY DEF Delivery
<1>1. /\ \A k \in Message : queue'[k].place = queue[k].place
      /\ \A k \in Message \ {m} : queue'[k].received = queue[k].received
      /\ queue'[m].received = queue[m].received + 1
  BY <1>q DEF Hand, Entry
<1>2. queue[m].received \in Nat /\ queue[m].place = "queue"
  BY <1>q, InboundAssumption DEF Entry, Visible, Queued
<1>3. queue'[m].received > 0
  BY <1>1, <1>2
<1>4. \A k \in Before(m) : k \in recorded \/ queue[k].place = "dead letter"
  <2>. SUFFICES ASSUME NEW k \in Before(m)
                PROVE  k \in recorded \/ queue[k].place = "dead letter"
    OBVIOUS
  <2>1. k \in Message /\ k < m /\ Group[k] = Group[m]
    BY DEF Before
  <2>2. queue[k].place # "producer"
    BY <1>2, <2>1 DEF OrderInv
  <2>3. queue[k].place # "queue"
    BY <2>1 DEF Ahead, Queued
  <2>4. queue[k].place \in Place
    BY <1>q, <2>1 DEF Entry
  <2>. QED BY <2>1, <2>2, <2>3, <2>4 DEF Place, DeletedMeansRecorded
<1>5. \A k \in Message : queue'[k].place # "producer" =>
         \A j \in Message : j < k => queue'[j].place # "producer"
  BY <1>1 DEF OrderInv
<1>6. \A d \in Delivery : work'[d].stage # "none" => queue'[d[1]].received > 0
  BY <1>1, <1>3, <1>d DEF OrderInv
<1>7. \A k \in recorded' : queue'[k].received > 0
  BY <1>1, <1>3 DEF OrderInv, TypeOK
<1>8. ASSUME NEW k \in Message, queue'[k].received > 0
      PROVE  /\ queue'[k].place # "producer"
             /\ \A j \in Before(k) : j \in recorded' \/ queue'[j].place = "dead letter"
  <2>0. \A j \in Before(k) : j \in Message
    BY DEF Before
  <2>1. CASE k = m
    BY <1>1, <1>2, <1>4, <2>0, <2>1
  <2>2. CASE k # m
    BY <1>1, <1>8, <2>0, <2>2 DEF OrderInv
  <2>. QED BY <2>1, <2>2
<1>. QED BY <1>5, <1>6, <1>7, <1>8 DEF OrderInv

LEMMA OrderStep ==
    ASSUME MaxMessages = 1, Inv, OrderInv, [Next]_vars
    PROVE  OrderInv'
<1>q. queue \in [Message -> Entry] /\ work \in [Delivery -> Work]
  BY DEF Inv, TypeOK, Entry, Place, Work
<1>t. TypeOK' /\ TypeOK /\ DeletedMeansRecorded
  BY TypeStep DEF Inv
<1>r. recorded' \subseteq Message
  BY <1>t DEF TypeOK
<1>d. \A d \in Delivery : d[1] \in Message
  BY DEF Delivery
<1> DEFINE Calm == \A m \in Message :
              /\ queue'[m].received = queue[m].received
              /\ (queue'[m].place = "producer") = (queue[m].place = "producer")
              /\ queue[m].place = "dead letter" => queue'[m].place = "dead letter"
           Idle == \A d \in Delivery : work'[d].stage # "none" => work[d].stage # "none"
<1>g. ASSUME Calm, Idle, UNCHANGED recorded  PROVE OrderInv'
  BY <1>g, <1>r, OrderUntouched
<1>h. ASSUME Calm, Idle, NEW d \in Delivery, work[d].stage # "none",
             recorded' = recorded \cup {d[1]}
      PROVE  OrderInv'
  BY <1>h, <1>r, OrderUntouched
<1>p. ASSUME UNCHANGED queue  PROVE Calm
  BY <1>p
<1>c. ASSUME \A m \in Message : /\ queue'[m].received = queue[m].received
                               /\ queue'[m].place = queue[m].place
      PROVE  Calm
  BY <1>c
<1>e. ASSUME NEW m \in Message, NEW n, queue' = [queue EXCEPT ![m].hidden = n]  PROVE Calm
  <2>1. \A k \in Message : queue'[k].received = queue[k].received /\ queue'[k].place = queue[k].place
    BY <1>e, <1>q DEF Entry
  <2>. QED BY <2>1, <1>c
<1>w. ASSUME UNCHANGED work  PROVE Idle
  BY <1>w
<1>l. ASSUME NEW d \in Delivery, Leave(d)  PROVE Idle
  BY <1>l, <1>q DEF Leave, NoWork
<1>s. ASSUME NEW d \in Delivery, NEW stage, Goes(d, stage), work[d].stage # "none"  PROVE Idle
  BY <1>s, <1>q DEF Goes, Work
<1>1. ASSUME NEW m \in Message, Send(m)  PROVE OrderInv'
  <2>1. /\ queue[m].place = "producer"
        /\ \A k \in Message : k < m => queue[k].place # "producer"
        /\ queue' = [queue EXCEPT ![m].place = "queue"]
        /\ UNCHANGED <<work, recorded>>
    BY <1>1 DEF Send
  <2>2. /\ \A k \in Message : queue'[k].received = queue[k].received
        /\ \A k \in Message \ {m} : queue'[k].place = queue[k].place
        /\ queue'[m].place = "queue"
    BY <1>q, <2>1 DEF Entry
  <2>3. ASSUME NEW k \in Message, queue'[k].place # "producer",
               NEW j \in Message, j < k
        PROVE  queue'[j].place # "producer"
    <3>1. CASE k = m
      BY <2>1, <2>2, <2>3, <3>1, InboundAssumption
    <3>2. CASE k # m
      <4>1. queue[j].place # "producer"
        BY <2>2, <2>3, <3>2 DEF OrderInv
      <4>. QED BY <2>2, <4>1
    <3>. QED BY <3>1, <3>2
  <2>4. \A d \in Delivery : work'[d].stage # "none" => queue'[d[1]].received > 0
    BY <1>d, <2>1, <2>2 DEF OrderInv
  <2>5. \A k \in recorded' : queue'[k].received > 0
    BY <1>r, <2>1, <2>2 DEF OrderInv
  <2>6. ASSUME NEW k \in Message, queue'[k].received > 0
        PROVE  /\ queue'[k].place # "producer"
               /\ \A j \in Before(k) : j \in recorded' \/ queue'[j].place = "dead letter"
    <3>1. /\ queue[k].place # "producer"
          /\ \A j \in Before(k) : j \in recorded \/ queue[j].place = "dead letter"
      BY <2>2, <2>6 DEF OrderInv
    <3>2. \A j \in Before(k) : j \in Message
      BY DEF Before
    <3>. QED BY <2>1, <2>2, <3>1, <3>2
  <2>. QED BY <2>3, <2>4, <2>5, <2>6 DEF OrderInv
<1>2. ASSUME NEW m \in Message, Redrive(m)  PROVE OrderInv'
  <2>1. Calm
    BY <1>2, <1>q DEF Redrive, Visible, Queued, Entry
  <2>. QED BY <1>2, <1>g, <1>w, <2>1 DEF Redrive
<1>3. ASSUME NEW c \in Consumer, NEW batch \in SUBSET Message, Receive(c, batch)  PROVE OrderInv'
  <2>1. PICK m \in Message : batch = {m} /\ Visible(m) /\ Ahead(m) = {}
    BY <1>3, BatchOfOne DEF Receive
  <2>2. \A d \in Delivery : work'[d].stage # "none" => work[d].stage # "none" \/ d[1] = m
    BY <1>3, <2>1 DEF Receive
  <2>. QED BY <1>3, <1>t, <2>1, <2>2, OrderReceived DEF Receive
<1>4. ASSUME NEW c \in Consumer, NEW batch \in SUBSET Message, ReceiveFails(c, batch)  PROVE OrderInv'
  <2>1. PICK m \in Message : batch = {m} /\ Visible(m) /\ Ahead(m) = {}
    BY <1>4, BatchOfOne DEF ReceiveFails
  <2>. QED BY <1>4, <1>t, <2>1, OrderReceived DEF ReceiveFails
<1>5. ASSUME NEW c \in Consumer, Shutdown(c)  PROVE OrderInv'
  <2>1. Idle
    <3>1. ASSUME NEW d \in At(c, {"waiting"}), Goes(d, "admitted")  PROVE Idle
      <4>1. d \in Delivery /\ work[d].stage # "none"
        BY DEF At
      <4>. QED BY <3>1, <4>1, <1>s
    <3>. QED BY <1>5, <1>w, <3>1 DEF Shutdown
  <2>. QED BY <1>5, <1>g, <1>p, <2>1 DEF Shutdown
<1>6. ASSUME NEW c \in Consumer, Restart(c)  PROVE OrderInv'
  BY <1>6, <1>g, <1>p, <1>w DEF Restart
<1>7. ASSUME NEW c \in Consumer, Crash(c)  PROVE OrderInv'
  <2>1. Idle
    BY <1>7 DEF Crash, NoWork
  <2>. QED BY <1>7, <1>g, <1>p, <2>1 DEF Crash
<1>8. ASSUME NEW d \in Delivery, Start(d)  PROVE OrderInv'
  <2>1. work[d].stage # "none"
    BY <1>8 DEF Start, HasSlot, IsNext
  <2>2. Idle
    BY <1>8, <1>q, <2>1 DEF Start, Work
  <2>. QED BY <1>8, <1>g, <1>p, <2>2 DEF Start
<1>9. ASSUME NEW d \in Delivery, Release(d)  PROVE OrderInv'
  <2>1. Calm
    <3>1. \/ UNCHANGED queue
          \/ queue' = [queue EXCEPT ![d[1]].hidden = IF Honoured(d) THEN 0 ELSE queue[d[1]].hidden]
      BY <1>9, <1>q, <1>d DEF Release
    <3>. QED BY <3>1, <1>d, <1>e, <1>p
  <2>. QED BY <1>9, <1>g, <1>l, <2>1 DEF Release
<1>10. ASSUME NEW d \in Delivery, Handled(d)  PROVE OrderInv'
  <2>1. Calm /\ Idle
    BY <1>10, <1>p, <1>s DEF Handled
  <2>. QED BY <1>10, <1>h, <2>1 DEF Handled
<1>11. ASSUME NEW d \in Delivery, HandlingFails(d)  PROVE OrderInv'
  <2>1. Calm /\ Idle
    BY <1>11, <1>p, <1>s DEF HandlingFails
  <2>. QED BY <1>11, <1>g, <1>h, <2>1 DEF HandlingFails
<1>12. ASSUME NEW d \in Delivery, Refused(d)  PROVE OrderInv'
  BY <1>12, <1>g, <1>l, <1>p DEF Refused
<1>13. ASSUME NEW d \in Delivery, Delete(d)  PROVE OrderInv'
  <2>1. Calm
    <3>1. CASE UNCHANGED queue
      BY <3>1, <1>p
    <3>2. CASE Honoured(d) /\ queue' = [queue EXCEPT ![d[1]].place = "deleted", ![d[1]].hidden = 0]
      <4>1. queue[d[1]].place = "queue" /\ d[1] \in Message
        BY <3>2, <1>d DEF Honoured, Queued
      <4>2. /\ \A m \in Message \ {d[1]} : queue'[m] = queue[m]
            /\ queue'[d[1]].place = "deleted" /\ queue'[d[1]].received = queue[d[1]].received
        BY <3>2, <4>1, <1>q DEF Entry
      <4>. QED BY <4>1, <4>2
    <3>. QED BY <1>13, <3>1, <3>2 DEF Delete
  <2>. QED BY <1>13, <1>g, <1>l, <2>1 DEF Delete
<1>14. ASSUME NEW d \in Delivery, Retry(d)  PROVE OrderInv'
  <2>1. Calm
    <3>1. UNCHANGED queue \/ queue' = [queue EXCEPT ![d[1]].hidden = retryDelay(d[2])]
      BY <1>14 DEF Retry
    <3>. QED BY <3>1, <1>d, <1>e, <1>p
  <2>. QED BY <1>14, <1>g, <1>l, <2>1 DEF Retry
<1>15. ASSUME Tick  PROVE OrderInv'
  <2>1. Calm
    <3>1. queue' = [m \in Message |-> [queue[m] EXCEPT !.hidden = Down(@)]]
      BY <1>15 DEF Tick
    <3>. QED BY <3>1, <1>q, <1>c DEF Entry
  <2>2. Idle
    BY <1>15, <1>q DEF Tick, Work
  <2>. QED BY <1>15, <1>g, <2>1, <2>2 DEF Tick
<1>16. ASSUME UNCHANGED vars  PROVE OrderInv'
  BY <1>16, <1>g, <1>p, <1>w DEF vars
<1>. QED BY <1>1, <1>2, <1>3, <1>4, <1>5, <1>6, <1>7, <1>8, <1>9, <1>10, <1>11, <1>12, <1>13,
           <1>14, <1>15, <1>16 DEF Next

\* With batches of one message, the operations of a wallet are handled in the
\* order they were sent, however many consumers, slots and lost answers there are
\* and whatever the timeouts: a receive of one message finds none of its group
\* ahead of it, so all that were sent before are recorded or moved aside.
THEOREM OneAtATimeKeepsOrder ==
    ASSUME MaxMessages = 1
    PROVE  Spec => []HandledInOrder
<1>1. Init => Inv /\ OrderInv
  <2>. SUFFICES ASSUME Init  PROVE Inv /\ OrderInv
    OBVIOUS
  <2>d. \A d \in Delivery : d[1] \in Message
    BY DEF Delivery
  <2>1. /\ \A m \in Message : queue[m].place = "producer" /\ queue[m].received = 0
        /\ \A d \in Delivery : work[d].stage = "none"
        /\ recorded = {}
    BY DEF Init, NoWork
  <2>2. \A m \in Message : ~(queue[m].received > 0)
    BY <2>1
  <2>3. OrderInv
    BY <2>1, <2>2, <2>d DEF OrderInv
  <2>. QED BY <2>3, InvInit
<1>2. Inv /\ OrderInv /\ [Next]_vars => (Inv /\ OrderInv)'
  BY InvStep, OrderStep
<1>3. Inv /\ OrderInv => HandledInOrder
  BY DEF Inv, TypeOK, OrderInv, HandledInOrder, Before
<1>. QED BY <1>1, <1>2, <1>3, PTL DEF Spec

-----------------------------------------------------------------------------
(***************************************************************************)
(* What a visibility timeout of a batch of handlings, and one more, is      *)
(* enough for.                                                             *)
(***************************************************************************)

\* A set of naturals has a least element.
LEMMA LeastNatural ==
    ASSUME NEW S \in SUBSET Nat, S # {}
    PROVE  \E m \in S : \A k \in S : m <= k
<1>1. PICK m \in S : \A k \in S : ~(<<k, m>> \in OpToRel(<, Nat))
  BY NatLessThanWellFounded, WFMin
<1>2. \A k \in S : k \in Nat /\ m \in Nat /\ ~(k < m)
  BY <1>1 DEF OpToRel
<1>. QED BY <1>2

LEMMA TimesMonotone ==
    ASSUME NEW h \in Nat, NEW a \in Nat, NEW b \in Nat, a <= b
    PROVE  h * a \in Nat /\ h * b \in Nat /\ h * a <= h * b
<1>1. PICK k \in Nat : b = a + k
  <2>1. b - a \in Nat /\ b = a + (b - a)
    OBVIOUS
  <2>. QED BY <2>1
<1>2. h * b = h * a + h * k
  BY <1>1
<1>3. h * a \in Nat /\ h * k \in Nat
  OBVIOUS
<1>. QED BY <1>2, <1>3

\* A delivery whose handling may still start: it is in a batch that is being
\* dispatched, or was admitted before the shutdown.
Pending(d) ==
    \/ work[d].stage = "admitted"
    \/ work[d].stage = "waiting" /\ work[d].by \notin stopping

\* The delivery is the last one of its message.
Owns(d) == Queued(d[1]) /\ queue[d[1]].received = d[2]

Running == {"handling", "delete", "retry"}
Fetched == {"waiting", "admitted"}

\* The time c needs, one at a time, for what it has not dispatched.
Load(c) == HandlerTimeout * Cardinality(Undispatched(c))

\* A message stays hidden as long as its handling has time; and one that waits
\* for a slot, until all that wait with it have been handled, its own handling
\* included, after the one that runs.
HandlerInv ==
    /\ \A d \in Delivery : Works(d) => Owns(d) /\ queue[d[1]].hidden >= work[d].left
    /\ \A d \in Delivery : Pending(d) => Owns(d) /\ queue[d[1]].hidden >= Load(work[d].by)
    /\ \A d, e \in Delivery :
         Pending(d) /\ work[e].stage \in Running /\ work[e].by = work[d].by =>
            queue[d[1]].hidden >= Load(work[d].by) + work[e].left
    /\ \A c \in Consumer \cup {Nobody} : IsFiniteSet(Undispatched(c))

\* Work that is taken away is a lighter load.
LEMMA LighterLoad ==
    ASSUME NEW c, NEW S, IsFiniteSet(Undispatched(c)), S \subseteq Undispatched(c)
    PROVE  /\ IsFiniteSet(S) /\ Load(c) \in Nat
           /\ HandlerTimeout * Cardinality(S) <= Load(c)
<1>1. IsFiniteSet(S) /\ Cardinality(S) <= Cardinality(Undispatched(c))
  BY FS_Subset
<1>2. Cardinality(S) \in Nat /\ Cardinality(Undispatched(c)) \in Nat
  BY <1>1, FS_CardinalityType
<1>3. HandlerTimeout \in Nat
  BY InboundAssumption
<1>. QED BY <1>1, <1>2, <1>3, TimesMonotone DEF Load

\* What may still start is part of the load.
LEMMA PendingLoad ==
    ASSUME TypeOK, HandlerInv, NEW d \in Delivery, Pending(d)
    PROVE  /\ d \in Undispatched(work[d].by)
           /\ IsFiniteSet(Undispatched(work[d].by))
           /\ Load(work[d].by) \in Nat /\ Load(work[d].by) >= HandlerTimeout
<1> DEFINE c == work[d].by
<1>1. c \in Consumer \cup {Nobody}
  BY DEF TypeOK
<1>2. d \in Undispatched(c)
  BY DEF Pending, Undispatched, At
<1>3. IsFiniteSet(Undispatched(c))
  BY <1>1 DEF HandlerInv
<1>4. {d} \subseteq Undispatched(c) /\ Cardinality({d}) = 1
  BY <1>2, FS_Singleton
<1> HIDE DEF c
<1>5. Load(c) \in Nat /\ HandlerTimeout * Cardinality({d}) <= Load(c)
  BY <1>3, <1>4, LighterLoad
<1>6. HandlerTimeout * Cardinality({d}) = HandlerTimeout
  BY <1>4, InboundAssumption
<1>. QED BY <1>2, <1>3, <1>5, <1>6 DEF c

\* A step that starts nothing and leaves the messages of what runs or may start.
LEMMA HandlerUntouched ==
    ASSUME TypeOK, TypeOK', HandlerInv,
           \A d \in Delivery : Works(d)' => Works(d) /\ work'[d].left = work[d].left,
           \A d \in Delivery : Pending(d)' => Pending(d) /\ work'[d].by = work[d].by,
           \A d \in Delivery : work'[d].stage \in Running =>
              /\ work[d].stage \in Running
              /\ work'[d].by = work[d].by /\ work'[d].left = work[d].left,
           \A d \in Delivery : work'[d].stage \in Fetched =>
              work[d].stage \in Fetched /\ work'[d].by = work[d].by,
           \A d \in Delivery : Works(d)' \/ Pending(d)' => queue'[d[1]] = queue[d[1]]
    PROVE  HandlerInv'
<1>1. ASSUME NEW d \in Delivery, Works(d)'
      PROVE  Owns(d)' /\ queue'[d[1]].hidden >= work'[d].left
  BY <1>1 DEF HandlerInv, Owns, Queued
<1>c. ASSUME NEW c \in Consumer \cup {Nobody}
      PROVE  /\ IsFiniteSet(Undispatched(c)')
             /\ Load(c) \in Nat /\ Load(c)' \in Nat /\ Load(c)' <= Load(c)
  <2>1. IsFiniteSet(Undispatched(c))
    BY DEF HandlerInv
  <2>2. Undispatched(c)' \subseteq Undispatched(c)
    BY DEF Undispatched, At, Fetched
  <2>3. /\ IsFiniteSet(Undispatched(c)') /\ Load(c) \in Nat
        /\ HandlerTimeout * Cardinality(Undispatched(c)') <= Load(c)
    BY <2>1, <2>2, LighterLoad
  <2>4. HandlerTimeout * Cardinality(Undispatched(c)') \in Nat
    BY <2>3, FS_CardinalityType, InboundAssumption
  <2>. QED BY <2>3, <2>4 DEF Load
<1>t. /\ \A d \in Delivery : work[d].by \in Consumer \cup {Nobody} /\ work[d].left \in Nat
      /\ \A m \in Message : queue[m].hidden \in Nat
      /\ \A d \in Delivery : d[1] \in Message
  <2>1. HandlerTimeout \in Nat /\ VisibilityTimeout \in Nat
    BY InboundAssumption
  <2>2. work \in [Delivery -> Work] /\ queue \in [Message -> Entry]
    BY DEF TypeOK, Work, Entry, Place
  <2>3. \A d \in Delivery : work[d].by \in Consumer \cup {Nobody} /\ work[d].left \in Nat
    BY <2>1, <2>2 DEF Work
  <2>4. \A m \in Message : queue[m].hidden \in Nat
    BY <2>1, <2>2 DEF Entry
  <2>. QED BY <2>3, <2>4 DEF Delivery
<1>2. ASSUME NEW d \in Delivery, Pending(d)'
      PROVE  Owns(d)' /\ queue'[d[1]].hidden >= Load(work[d].by)'
  <2>1. Pending(d) /\ work'[d].by = work[d].by /\ queue'[d[1]] = queue[d[1]]
    BY <1>2
  <2>2. PICK c \in Consumer \cup {Nobody} : c = work[d].by
    BY <1>t
  <2>3. Owns(d) /\ queue[d[1]].hidden >= Load(c)
    BY <2>1, <2>2 DEF HandlerInv
  <2>4. queue'[d[1]].hidden >= Load(c)'
    BY <2>1, <2>3, <1>c, <1>t
  <2>5. Load(work[d].by)' = Load(c)'
    BY <2>1, <2>2
  <2>. QED BY <2>1, <2>3, <2>4, <2>5 DEF Owns, Queued
<1>3. ASSUME NEW d \in Delivery, NEW e \in Delivery,
             Pending(d)', work'[e].stage \in Running, work'[e].by = work'[d].by
      PROVE  queue'[d[1]].hidden >= Load(work[d].by)' + work'[e].left
  <2>1. /\ Pending(d) /\ work'[d].by = work[d].by
        /\ work[e].stage \in Running /\ work[e].by = work[d].by
    BY <1>3
  <2>2. queue'[d[1]] = queue[d[1]] /\ work'[e].left = work[e].left
    BY <1>3
  <2>3. PICK c \in Consumer \cup {Nobody} : c = work[d].by
    BY <1>t
  <2>4. queue[d[1]].hidden >= Load(c) + work[e].left
    BY <2>1, <2>3 DEF HandlerInv
  <2>5. queue'[d[1]].hidden >= Load(c)' + work'[e].left
    BY <2>2, <2>4, <1>c, <1>t
  <2>6. Load(work[d].by)' = Load(c)'
    BY <2>1, <2>3
  <2>. QED BY <2>5, <2>6
<1>. QED BY <1>1, <1>2, <1>3, <1>c DEF HandlerInv

LEMMA HandlerStep ==
    ASSUME (MaxMessages + 1) * HandlerTimeout <= VisibilityTimeout,
           TypeOK, HandlerInv, [Next]_vars
    PROVE  HandlerInv'
<1>q. queue \in [Message -> Entry] /\ work \in [Delivery -> Work] /\ stopping \subseteq Consumer
  BY DEF TypeOK, Entry, Place, Work
<1>t. TypeOK'
  BY TypeStep
<1>d. \A d \in Delivery : d[1] \in Message /\ d[2] \in Nat
  BY DEF Delivery
<1>n. HandlerTimeout \in Nat \ {0} /\ VisibilityTimeout \in Nat \ {0} /\ Concurrency \in Nat \ {0}
  BY InboundAssumption
<1>h. /\ \A m \in Message : queue[m].hidden \in Nat /\ queue[m].received \in Nat
      /\ \A d \in Delivery : work[d].left \in Nat /\ work[d].by \in Consumer \cup {Nobody}
  BY <1>q, <1>n, InboundAssumption DEF Entry, Work
<1> DEFINE Busy == \A d \in Delivery :
              /\ Works(d)' => Works(d) /\ work'[d].left = work[d].left
              /\ work'[d].stage \in Running =>
                    /\ work[d].stage \in Running
                    /\ work'[d].by = work[d].by /\ work'[d].left = work[d].left
              /\ work'[d].stage \in Fetched =>
                    work[d].stage \in Fetched /\ work'[d].by = work[d].by
           Waits == \A d \in Delivery : Pending(d)' => Pending(d) /\ work'[d].by = work[d].by
           Kept == \A d \in Delivery : Works(d)' \/ Pending(d)' => queue'[d[1]] = queue[d[1]]
<1>g. ASSUME Busy, Waits, Kept  PROVE HandlerInv'
  BY <1>g, <1>t, HandlerUntouched
\* What is hidden for a handling that runs or may start is not visible.
<1>v. ASSUME NEW d \in Delivery, Works(d) \/ Pending(d)  PROVE Queued(d[1]) /\ ~Visible(d[1])
  <2>1. CASE Works(d)
    <3>1. work[d].left > 0 /\ Queued(d[1]) /\ queue[d[1]].hidden >= work[d].left
      BY <2>1 DEF HandlerInv, Works, Owns
    <3>. QED BY <3>1, <1>d, <1>h DEF Visible
  <2>2. CASE Pending(d)
    <3>1. Queued(d[1]) /\ queue[d[1]].hidden >= Load(work[d].by)
      BY <2>2 DEF HandlerInv, Owns
    <3>2. Load(work[d].by) \in Nat /\ Load(work[d].by) >= HandlerTimeout
      BY <2>2, PendingLoad
    <3>. QED BY <3>1, <3>2, <1>n, <1>h, <1>d DEF Visible
  <2>. QED BY <1>v, <2>1, <2>2
\* The end of a delivery whose handle is good: no other one owns the message.
<1>o. ASSUME NEW d \in Delivery, Honoured(d), Leave(d), UNCHANGED stopping,
             NEW e \in Delivery, Works(e)' \/ Pending(e)'
      PROVE  e[1] # d[1]
  <2>1. e # d
    BY <1>o, <1>q DEF Leave, Works, Pending, NoWork
  <2>2. work'[e] = work[e]
    BY <1>o, <1>q, <2>1 DEF Leave
  <2>3. Works(e) \/ Pending(e)
    BY <1>o, <2>2 DEF Works, Pending
  <2>4. queue[e[1]].received = e[2]
    BY <2>3 DEF HandlerInv, Owns
  <2>5. queue[d[1]].received = d[2]
    BY <1>o DEF Honoured
  <2>. QED BY <2>1, <2>4, <2>5, OneOwner
<1>p. ASSUME UNCHANGED queue  PROVE Kept
  BY <1>p
<1>w. ASSUME UNCHANGED work, stopping \subseteq stopping'  PROVE Busy /\ Waits
  BY <1>w DEF Works, Pending
<1>l. ASSUME NEW d \in Delivery, Leave(d), UNCHANGED stopping  PROVE Busy /\ Waits
  <2>1. ASSUME NEW e \in Delivery  PROVE work'[e] = work[e] \/ work'[e] = NoWork
    BY <1>l, <1>q DEF Leave
  <2>2. NoWork.stage = "none"
    BY DEF NoWork
  <2>3. Busy
    BY <2>1, <2>2 DEF Works, Running, Fetched
  <2>4. Waits
    BY <1>l, <2>1, <2>2 DEF Pending
  <2>. QED BY <2>3, <2>4
<1>s. ASSUME NEW d \in Delivery, NEW stage \in {"delete", "retry"}, Goes(d, stage),
             work[d].stage = "handling", UNCHANGED stopping
      PROVE  Busy /\ Waits
  <2>1. \A e \in Delivery \ {d} : work'[e] = work[e]
    BY <1>s, <1>q DEF Goes
  <2>2. work'[d].stage = stage /\ work'[d].by = work[d].by /\ work'[d].left = work[d].left
    BY <1>s, <1>q DEF Goes, Work
  <2>3. Busy
    BY <1>s, <2>1, <2>2 DEF Works, Running, Fetched
  <2>4. Waits
    BY <1>s, <2>1, <2>2 DEF Pending
  <2>. QED BY <2>3, <2>4
<1>1. ASSUME NEW m \in Message, Send(m) \/ Redrive(m)  PROVE HandlerInv'
  <2>1. UNCHANGED <<work, stopping>> /\ \A k \in Message \ {m} : queue'[k] = queue[k]
    BY <1>1, <1>q DEF Send, Redrive
  <2>2. queue[m].place # "queue" \/ Visible(m)
    BY <1>1 DEF Send, Redrive
  <2>3. Kept
    <3>. SUFFICES ASSUME NEW d \in Delivery, Works(d)' \/ Pending(d)'
                  PROVE  queue'[d[1]] = queue[d[1]]
      OBVIOUS
    <3>1. Works(d) \/ Pending(d)
      BY <2>1 DEF Works, Pending
    <3>2. d[1] # m
      BY <3>1, <1>v, <2>2 DEF Queued
    <3>. QED BY <3>2, <2>1, <1>d
  <2>. QED BY <2>1, <2>3, <1>w, <1>g
<1>c. ASSUME NEW batch \in SUBSET Message, Receivable(batch), queue' = Hand(batch),
             NEW d \in Delivery, Works(d) \/ Pending(d)
      PROVE  queue'[d[1]] = queue[d[1]]
  <2>1. d[1] \notin batch
    BY <1>c, <1>v DEF Receivable
  <2>. QED BY <1>c, <1>d, <2>1 DEF Hand
\* A batch is received when the last one is dispatched, and hidden for as many
\* handlings as it has messages and one more.
<1>2. ASSUME NEW c \in Consumer, NEW batch \in SUBSET Message, Receive(c, batch)  PROVE HandlerInv'
  <2>1. /\ Receivable(batch) /\ UNCHANGED stopping /\ queue' = Hand(batch)
        /\ Undispatched(c) = {}
    BY <1>2 DEF Receive, Fetches
  <2> DEFINE new == {d \in Delivery : d[1] \in batch /\ d[2] = queue[d[1]].received + 1}
  <2>2. work' = [d \in Delivery |->
          IF d[1] \in batch /\ d[2] = queue[d[1]].received + 1
          THEN [by |-> c, stage |-> "waiting", left |-> 0]
          ELSE work[d]]
    BY <1>2 DEF Receive
  <2>3. ASSUME NEW d \in Delivery
        PROVE  /\ d \in new => work'[d].by = c /\ work'[d].stage = "waiting"
               /\ d \notin new => work'[d] = work[d]
    BY <2>2
  <2>4. ASSUME NEW d \in new
        PROVE  Owns(d)' /\ queue'[d[1]].hidden = VisibilityTimeout
    <3>1. d[1] \in batch /\ d[1] \in Message /\ d[2] = queue[d[1]].received + 1
      OBVIOUS
    <3>2. queue[d[1]].place = "queue"
      BY <2>1, <3>1 DEF Receivable, Visible, Queued
    <3>3. queue'[d[1]] = [queue[d[1]] EXCEPT !.hidden = VisibilityTimeout, !.received = @ + 1]
      BY <2>1, <3>1 DEF Hand
    <3>. QED BY <3>1, <3>2, <3>3, <1>q DEF Entry, Owns, Queued
  <2>5. /\ IsFiniteSet(new) /\ Cardinality(new) \in Nat
        /\ HandlerTimeout * Cardinality(new) \in Nat
        /\ HandlerTimeout * Cardinality(new) + HandlerTimeout <= VisibilityTimeout
    <3> DEFINE message == [d \in new |-> d[1]]
    <3>1. message \in Injection(new, batch)
      <4>1. message \in [new -> batch]
        OBVIOUS
      <4>2. ASSUME NEW d \in new, NEW e \in new, d[1] = e[1]  PROVE d = e
        BY <4>2 DEF Delivery
      <4>. QED BY <4>1, <4>2 DEF Injection, IsInjective
    <3>2. IsFiniteSet(batch) /\ Cardinality(batch) <= MaxMessages /\ Cardinality(batch) \in Nat
      BY <2>1, FS_CardinalityType DEF Receivable
    <3> HIDE DEF message, new
    <3>3. IsFiniteSet(new) /\ Cardinality(new) <= Cardinality(batch)
      BY <3>1, <3>2, FS_Injection
    <3>4. PICK k \in Nat : k = Cardinality(new)
      BY <3>3, FS_CardinalityType
    <3>5. k <= MaxMessages /\ MaxMessages \in Nat
      BY <3>2, <3>3, <3>4, InboundAssumption
    <3>6. /\ HandlerTimeout * k \in Nat /\ HandlerTimeout * MaxMessages \in Nat
          /\ HandlerTimeout * k <= HandlerTimeout * MaxMessages
      BY <3>5, <1>n, TimesMonotone
    <3>7. (MaxMessages + 1) * HandlerTimeout = HandlerTimeout * MaxMessages + HandlerTimeout
      BY <3>5, <1>n
    <3>. QED BY <3>3, <3>4, <3>6, <3>7, <1>n
  <2>6. Undispatched(c)' = new
    <3>1. ASSUME NEW d \in Delivery
          PROVE  (work'[d].by = c /\ work'[d].stage \in {"waiting", "admitted"}) <=> d \in new
      <4>1. CASE d \in new
        BY <4>1, <2>3
      <4>2. CASE d \notin new
        <5>1. ~(work[d].by = c /\ work[d].stage \in {"waiting", "admitted"})
          BY <2>1 DEF Undispatched, At
        <5>. QED BY <4>2, <5>1, <2>3
      <4>. QED BY <4>1, <4>2
    <3>2. new \subseteq Delivery
      OBVIOUS
    <3> HIDE DEF new
    <3>. QED BY <3>1, <3>2 DEF Undispatched, At
  <2> HIDE DEF new
  <2>7. Load(c)' \in Nat /\ Load(c)' + HandlerTimeout <= VisibilityTimeout
    BY <2>5, <2>6 DEF Load
  <2>8. ASSUME NEW x \in (Consumer \cup {Nobody}) \ {c}
        PROVE  IsFiniteSet(Undispatched(x)') /\ Load(x) \in Nat /\ Load(x)' \in Nat /\ Load(x)' <= Load(x)
    <3>1. IsFiniteSet(Undispatched(x))
      BY DEF HandlerInv
    <3>2. Undispatched(x)' \subseteq Undispatched(x)
      BY <2>3 DEF Undispatched, At
    <3>3. /\ IsFiniteSet(Undispatched(x)') /\ Load(x) \in Nat
          /\ HandlerTimeout * Cardinality(Undispatched(x)') <= Load(x)
      BY <3>1, <3>2, LighterLoad
    <3>4. HandlerTimeout * Cardinality(Undispatched(x)') \in Nat
      BY <3>3, FS_CardinalityType, <1>n
    <3>. QED BY <3>3, <3>4 DEF Load
  <2>9. ASSUME NEW d \in Delivery, d \notin new, Works(d)' \/ Pending(d)'
        PROVE  /\ work'[d] = work[d] /\ (Works(d)' => Works(d)) /\ (Pending(d)' => Pending(d))
               /\ queue'[d[1]] = queue[d[1]]
    <3>1. work'[d] = work[d]
      BY <2>3, <2>9
    <3>2. (Works(d)' => Works(d)) /\ (Pending(d)' => Pending(d))
      BY <3>1, <2>1 DEF Works, Pending
    <3>. QED BY <2>9, <3>1, <3>2, <2>1, <1>c
  <2>10. ASSUME NEW d \in Delivery, d \notin new, Pending(d)'
         PROVE  work[d].by \in (Consumer \cup {Nobody}) \ {c} /\ Pending(d)
    <3>1. Pending(d)
      BY <2>9, <2>10
    <3>2. d \in Undispatched(work[d].by)
      BY <3>1, PendingLoad
    <3>. QED BY <3>1, <3>2, <2>1, <1>h
  <2>11. ASSUME NEW d \in Delivery, Works(d)'
         PROVE  Owns(d)' /\ queue'[d[1]].hidden >= work'[d].left
    <3>1. d \notin new
      BY <2>3, <2>11 DEF Works
    <3>2. Works(d) /\ queue'[d[1]] = queue[d[1]] /\ work'[d] = work[d]
      BY <2>11, <3>1, <2>9
    <3>. QED BY <3>2 DEF HandlerInv, Owns, Queued
  <2>12. ASSUME NEW d \in Delivery, Pending(d)'
         PROVE  Owns(d)' /\ queue'[d[1]].hidden >= Load(work[d].by)'
    <3>1. CASE d \in new
      <4>1. Load(work[d].by)' = Load(c)'
        BY <3>1, <2>3
      <4>. QED BY <3>1, <4>1, <2>4, <2>7, <1>n
    <3>2. CASE d \notin new
      <4>1. /\ work'[d] = work[d] /\ Pending(d) /\ queue'[d[1]] = queue[d[1]]
        BY <2>12, <3>2, <2>9
      <4>2. PICK x \in (Consumer \cup {Nobody}) \ {c} : x = work[d].by
        BY <2>12, <3>2, <2>10
      <4>3. Owns(d) /\ queue[d[1]].hidden >= Load(x)
        BY <4>1, <4>2 DEF HandlerInv
      <4>4. queue'[d[1]].hidden >= Load(x)'
        BY <4>1, <4>3, <2>8, <1>h, <1>d
      <4>5. Load(work[d].by)' = Load(x)'
        BY <4>1, <4>2
      <4>. QED BY <4>1, <4>3, <4>4, <4>5 DEF Owns, Queued
    <3>. QED BY <3>1, <3>2
  <2>13. ASSUME NEW d \in Delivery, NEW e \in Delivery,
                Pending(d)', work'[e].stage \in Running, work'[e].by = work'[d].by
         PROVE  queue'[d[1]].hidden >= Load(work[d].by)' + work'[e].left
    <3>1. e \notin new
      BY <2>3, <2>13 DEF Running
    <3>2. work'[e] = work[e]
      BY <3>1, <2>3
    <3>3. CASE d \in new
      <4>1. work[e].left \in 0..HandlerTimeout
        BY <1>q DEF Work
      <4>2. Load(work[d].by)' = Load(c)'
        BY <3>3, <2>3
      <4>. QED BY <3>2, <3>3, <4>1, <4>2, <2>4, <2>7, <1>n
    <3>4. CASE d \notin new
      <4>1. /\ work'[d] = work[d] /\ Pending(d) /\ queue'[d[1]] = queue[d[1]]
        BY <2>13, <3>4, <2>9
      <4>2. PICK x \in (Consumer \cup {Nobody}) \ {c} : x = work[d].by
        BY <2>13, <3>4, <2>10
      <4>3. queue[d[1]].hidden >= Load(x) + work[e].left
        BY <2>13, <3>2, <4>1, <4>2 DEF HandlerInv
      <4>4. queue'[d[1]].hidden >= Load(x)' + work'[e].left
        BY <3>2, <4>1, <4>3, <2>8, <1>h, <1>d
      <4>5. Load(work[d].by)' = Load(x)'
        BY <4>1, <4>2
      <4>. QED BY <4>4, <4>5
    <3>. QED BY <3>3, <3>4
  <2>14. ASSUME NEW x \in Consumer \cup {Nobody}  PROVE IsFiniteSet(Undispatched(x)')
    BY <2>5, <2>6, <2>8
  <2>. QED BY <2>11, <2>12, <2>13, <2>14 DEF HandlerInv
<1>3. ASSUME NEW c \in Consumer, NEW batch \in SUBSET Message, ReceiveFails(c, batch)  PROVE HandlerInv'
  <2>1. Receivable(batch)
    BY <1>3 DEF ReceiveFails
  <2>2. UNCHANGED <<work, stopping>> /\ queue' = Hand(batch)
    BY <1>3 DEF ReceiveFails
  <2>3. Kept
    <3>. SUFFICES ASSUME NEW d \in Delivery, Works(d)' \/ Pending(d)'
                  PROVE  queue'[d[1]] = queue[d[1]]
      OBVIOUS
    <3>1. Works(d) \/ Pending(d)
      BY <2>2 DEF Works, Pending
    <3>. QED BY <3>1, <2>1, <2>2, <1>c
  <2>. QED BY <2>2, <2>3, <1>w, <1>g
<1>4. ASSUME NEW c \in Consumer, Shutdown(c)  PROVE HandlerInv'
  <2>1. Busy /\ Waits
    <3>1. ASSUME NEW d \in At(c, {"waiting"}), Goes(d, "admitted")  PROVE Busy /\ Waits
      <4>1. d \in Delivery /\ work[d].stage = "waiting" /\ work[d].by = c
        BY DEF At
      <4>2. Pending(d)
        BY <1>4, <4>1 DEF Shutdown, Pending
      <4>3. \A e \in Delivery \ {d} : work'[e] = work[e]
        BY <3>1, <4>1, <1>q DEF Goes
      <4>4. work'[d].stage = "admitted" /\ work'[d].by = work[d].by
        BY <3>1, <4>1, <1>q DEF Goes, Work
      <4>5. Busy
        BY <4>1, <4>3, <4>4 DEF Works, Running, Fetched
      <4>6. Waits
        BY <1>4, <4>2, <4>3, <4>4 DEF Shutdown, Pending
      <4>. QED BY <4>5, <4>6
    <3>. QED BY <1>4, <1>w, <3>1 DEF Shutdown
  <2>. QED BY <1>4, <1>g, <1>p, <2>1 DEF Shutdown
<1>5. ASSUME NEW c \in Consumer, Restart(c)  PROVE HandlerInv'
  <2>1. UNCHANGED work /\ stopping' = stopping \ {c} /\ Undispatched(c) = {}
    BY <1>5 DEF Restart
  <2>2. Busy
    BY <2>1 DEF Works
  <2>3. Waits
    BY <2>1 DEF Pending, Undispatched, At
  <2>. QED BY <1>5, <1>g, <1>p, <2>2, <2>3 DEF Restart
<1>6. ASSUME NEW c \in Consumer, Crash(c)  PROVE HandlerInv'
  <2>1. /\ \A d \in Delivery : work'[d] = IF work[d].by = c THEN NoWork ELSE work[d]
        /\ stopping' = stopping \ {c}
    BY <1>6 DEF Crash
  <2>2. NoWork.stage = "none"
    BY DEF NoWork
  <2>3. Busy
    BY <2>1, <2>2 DEF Works, Running, Fetched
  <2>4. Waits
    BY <2>1, <2>2 DEF Pending
  <2>. QED BY <1>6, <1>g, <1>p, <2>3, <2>4 DEF Crash
<1>7. ASSUME NEW d \in Delivery, Release(d)  PROVE HandlerInv'
  <2>1. Leave(d) /\ UNCHANGED stopping
    BY <1>7 DEF Release
  <2>2. UNCHANGED queue \/ (Honoured(d) /\ \A m \in Message \ {d[1]} : queue'[m] = queue[m])
    <3>1. CASE Honoured(d)
      BY <1>7, <3>1, <1>q DEF Release
    <3>2. CASE ~Honoured(d)
      <4>1. CASE queue' = [queue EXCEPT ![d[1]].hidden = IF Honoured(d) THEN 0 ELSE @]
        <5>1. queue' = [queue EXCEPT ![d[1]].hidden = queue[d[1]].hidden]
          BY <3>2, <4>1, <1>q, <1>d
        <5>2. d[1] \in Message
          BY <1>d
        <5>. QED BY <5>1, <5>2, <1>q DEF Entry
      <4>. QED BY <1>7, <4>1 DEF Release
    <3>. QED BY <3>1, <3>2
  <2>3. Kept
    BY <2>1, <2>2, <1>d, <1>o
  <2>. QED BY <2>1, <2>3, <1>l, <1>g
<1>8. ASSUME NEW d \in Delivery, Handled(d)  PROVE HandlerInv'
  BY <1>8, <1>g, <1>p, <1>s DEF Handled
<1>9. ASSUME NEW d \in Delivery, HandlingFails(d)  PROVE HandlerInv'
  BY <1>9, <1>g, <1>p, <1>s DEF HandlingFails
<1>10. ASSUME NEW d \in Delivery, Refused(d)  PROVE HandlerInv'
  BY <1>10, <1>g, <1>l, <1>p DEF Refused
<1>11. ASSUME NEW d \in Delivery, Delete(d) \/ Retry(d)  PROVE HandlerInv'
  <2>1. Leave(d) /\ UNCHANGED stopping
    BY <1>11 DEF Delete, Retry
  <2>2. UNCHANGED queue \/ (Honoured(d) /\ \A m \in Message \ {d[1]} : queue'[m] = queue[m])
    <3>1. CASE Delete(d)
      BY <3>1, <1>q DEF Delete
    <3>2. CASE Retry(d)
      BY <3>2, <1>q DEF Retry
    <3>. QED BY <1>11, <3>1, <3>2
  <2>3. Kept
    BY <2>1, <2>2, <1>d, <1>o
  <2>. QED BY <2>1, <2>3, <1>l, <1>g
\* What starts has its message for as long as its handling may take.
<1>13. ASSUME NEW d \in Delivery, Start(d)  PROVE HandlerInv'
  <2>1. UNCHANGED <<queue, stopping>> /\ HasSlot(d)
    BY <1>13 DEF Start
  <2>2. Pending(d) /\ work[d].stage \in Fetched
    BY <2>1 DEF HasSlot, IsNext, Pending, Fetched
  <2>3. \A e \in Delivery \ {d} : work'[e] = work[e]
    BY <1>13, <1>q DEF Start
  <2>4. work'[d].stage = "handling" /\ work'[d].by = work[d].by /\ work'[d].left = HandlerTimeout
    BY <1>13, <1>q DEF Start, Work
  <2>5. PICK c \in Consumer \cup {Nobody} : c = work[d].by
    BY <1>h
  <2>6. /\ d \in Undispatched(c) /\ IsFiniteSet(Undispatched(c))
        /\ Load(c) \in Nat /\ Load(c) >= HandlerTimeout
    BY <2>2, <2>5, PendingLoad
  <2>7. IsFiniteSet(Undispatched(c)') /\ Load(c)' \in Nat /\ Load(c) = Load(c)' + HandlerTimeout
    <3>1. Undispatched(c)' = Undispatched(c) \ {d}
      BY <2>3, <2>4 DEF Undispatched, At
    <3>2. PICK k \in Nat : k = Cardinality(Undispatched(c))
      BY <2>6, FS_CardinalityType
    <3>3. /\ IsFiniteSet(Undispatched(c) \ {d})
          /\ Cardinality(Undispatched(c) \ {d}) = k - 1 /\ Cardinality(Undispatched(c) \ {d}) \in Nat
      BY <2>6, <3>2, FS_RemoveElement, FS_CardinalityType
    <3>4. PICK j \in Nat : j = k - 1
      BY <3>3
    <3>5. HandlerTimeout * k = HandlerTimeout * j + HandlerTimeout /\ HandlerTimeout * j \in Nat
      BY <3>2, <3>4, <1>n
    <3>6. Load(c) = HandlerTimeout * k /\ Load(c)' = HandlerTimeout * j
      BY <3>1, <3>2, <3>3, <3>4 DEF Load
    <3>. QED BY <3>1, <3>3, <3>5, <3>6
  <2>8. ASSUME NEW x \in (Consumer \cup {Nobody}) \ {c}
        PROVE  Undispatched(x)' = Undispatched(x) /\ Load(x)' = Load(x)
    <3>1. Undispatched(x)' = Undispatched(x)
      BY <2>3, <2>4, <2>5, <2>8 DEF Undispatched, At
    <3>. QED BY <3>1 DEF Load
  <2>9. ASSUME NEW e \in Delivery, Works(e)'
        PROVE  Owns(e)' /\ queue'[e[1]].hidden >= work'[e].left
    <3>1. CASE e = d
      <4>1. Owns(d) /\ queue[d[1]].hidden >= Load(c)
        BY <2>2, <2>5 DEF HandlerInv
      <4>. QED BY <2>1, <2>4, <2>6, <3>1, <4>1, <1>n, <1>h, <1>d DEF Owns, Queued
    <3>2. CASE e # d
      <4>1. work'[e] = work[e] /\ Works(e)
        BY <2>3, <2>9, <3>2 DEF Works
      <4>. QED BY <2>1, <4>1 DEF HandlerInv, Owns, Queued
    <3>. QED BY <3>1, <3>2
  <2>10. ASSUME NEW e \in Delivery, Pending(e)'
         PROVE  e # d /\ work'[e] = work[e] /\ Pending(e)
    <3>1. e # d
      BY <2>4, <2>10 DEF Pending
    <3>2. work'[e] = work[e]
      BY <2>3, <3>1
    <3>. QED BY <2>1, <2>10, <3>1, <3>2 DEF Pending
  <2>11. ASSUME NEW e \in Delivery, Pending(e)'
         PROVE  Owns(e)' /\ queue'[e[1]].hidden >= Load(work[e].by)'
    <3>1. Pending(e) /\ work'[e] = work[e]
      BY <2>10, <2>11
    <3>2. PICK x \in Consumer \cup {Nobody} : x = work[e].by
      BY <1>h
    <3>3. Owns(e) /\ queue[e[1]].hidden >= Load(x)
      BY <3>1, <3>2 DEF HandlerInv
    <3>4. queue'[e[1]].hidden >= Load(x)'
      <4>1. CASE x = c
        BY <2>1, <2>7, <3>3, <4>1, <1>n, <1>h, <1>d
      <4>2. CASE x # c
        BY <2>1, <2>8, <3>3, <4>2
      <4>. QED BY <4>1, <4>2
    <3>5. Load(work[e].by)' = Load(x)'
      BY <3>1, <3>2
    <3>. QED BY <2>1, <3>3, <3>4, <3>5 DEF Owns, Queued
  <2>12. ASSUME NEW e \in Delivery, NEW f \in Delivery,
                Pending(e)', work'[f].stage \in Running, work'[f].by = work'[e].by
         PROVE  queue'[e[1]].hidden >= Load(work[e].by)' + work'[f].left
    <3>1. e # d /\ work'[e] = work[e] /\ Pending(e)
      BY <2>10, <2>12
    <3>2. PICK x \in Consumer \cup {Nobody} : x = work[e].by
      BY <1>h
    <3>3. queue'[e[1]].hidden >= Load(x)' + work'[f].left
      <4>1. CASE f = d
        <5>1. x = c
          BY <2>4, <2>5, <2>12, <3>1, <3>2, <4>1
        <5>2. queue[e[1]].hidden >= Load(x)
          BY <3>1, <3>2 DEF HandlerInv
        <5>. QED BY <2>1, <2>4, <2>7, <4>1, <5>1, <5>2, <1>n
      <4>2. CASE f # d
        <5>1. work'[f] = work[f]
          BY <2>3, <4>2
        <5>2. queue[e[1]].hidden >= Load(x) + work[f].left
          BY <2>12, <3>1, <3>2, <5>1 DEF HandlerInv
        <5>3. CASE x = c
          BY <2>1, <2>7, <5>1, <5>2, <5>3, <1>n, <1>h, <1>d
        <5>4. CASE x # c
          BY <2>1, <2>8, <5>1, <5>2, <5>4
        <5>. QED BY <5>3, <5>4
      <4>. QED BY <4>1, <4>2
    <3>4. Load(work[e].by)' = Load(x)'
      BY <3>1, <3>2
    <3>. QED BY <3>3, <3>4
  <2>13. ASSUME NEW x \in Consumer \cup {Nobody}  PROVE IsFiniteSet(Undispatched(x)')
    BY <2>7, <2>8 DEF HandlerInv
  <2>. QED BY <2>9, <2>11, <2>12, <2>13 DEF HandlerInv
\* A second is taken from both sides.  What waits has something to wait for.
<1>14. ASSUME Tick  PROVE HandlerInv'
  <2>1. \A m \in Message :
           /\ queue'[m].place = queue[m].place /\ queue'[m].received = queue[m].received
           /\ queue'[m].hidden = Down(queue[m].hidden)
    BY <1>14, <1>q DEF Tick, Entry
  <2>2. \A d \in Delivery :
           /\ work'[d].by = work[d].by /\ work'[d].stage = work[d].stage
           /\ work'[d].left = Down(work[d].left)
    BY <1>14, <1>q DEF Tick, Work
  <2>3. UNCHANGED stopping
    BY <1>14 DEF Tick
  <2>4. ASSUME NEW d \in Delivery  PROVE Pending(d)' = Pending(d) /\ Owns(d)' = Owns(d)
    BY <1>d, <2>1, <2>2, <2>3 DEF Pending, Owns, Queued
  <2>5. ASSUME NEW d \in Delivery, work[d].stage \in Running  PROVE work[d].left > 0
    BY <1>14, <2>5 DEF Tick, Running
  <2>6. ASSUME NEW d \in Delivery, Works(d)'
        PROVE  Owns(d)' /\ queue'[d[1]].hidden >= work'[d].left
    <3>1. work[d].stage = "handling" /\ work[d].left > 0
      BY <2>2, <2>5, <2>6 DEF Works, Running
    <3>2. Owns(d) /\ queue[d[1]].hidden >= work[d].left
      BY <3>1 DEF HandlerInv, Works
    <3>3. Down(queue[d[1]].hidden) >= Down(work[d].left)
      BY <3>2, <1>d, <1>h DEF Down
    <3>. QED BY <2>1, <2>2, <2>4, <3>2, <3>3, <1>d
  <2>7. ASSUME NEW d \in Delivery, Pending(d)
        PROVE  \E e \in Delivery : work[e].stage \in Running /\ work[e].by = work[d].by
    <3>. DEFINE c == work[d].by
    <3>1. ~HasSlot(d)
      BY <1>14 DEF Tick
    <3>2. CASE work[d].stage = "admitted"
      <4>1. ~(Cardinality(InFlight(c)) < Concurrency)
        BY <3>1, <3>2 DEF HasSlot
      <4>2. InFlight(c) # {}
        BY <4>1, <1>n, FS_EmptySet
      <4>. QED BY <4>2 DEF InFlight, At, Running
    <3>3. CASE work[d].stage = "waiting" /\ c \notin stopping
      <4>1. CASE At(c, {"admitted"}) # {}
        <5>1. PICK a \in Delivery : work[a].by = c /\ work[a].stage = "admitted"
          BY <4>1 DEF At
        <5>2. ~HasSlot(a)
          BY <1>14 DEF Tick
        <5>3. ~(Cardinality(InFlight(c)) < Concurrency)
          BY <5>1, <5>2 DEF HasSlot
        <5>4. InFlight(c) # {}
          BY <5>3, <1>n, FS_EmptySet
        <5>. QED BY <5>4 DEF InFlight, At, Running
      <4>2. CASE At(c, {"admitted"}) = {}
        <5>1. d \in At(c, {"waiting"})
          BY <3>3 DEF At
        <5>2. PICK a \in At(c, {"waiting"}) : \A e \in At(c, {"waiting"}) : a[1] <= e[1]
          <6> DEFINE numbers == {e[1] : e \in At(c, {"waiting"})}
          <6>1. numbers \in SUBSET Nat /\ numbers # {}
            BY <5>1, <1>d, InboundAssumption DEF At
          <6>2. PICK n \in numbers : \A k \in numbers : n <= k
            BY <6>1, LeastNatural
          <6>. QED BY <6>2
        <5>3. a \in Delivery /\ work[a].by = c /\ work[a].stage = "waiting"
          BY DEF At
        <5>4. IsNext(a)
          BY <4>2, <5>2, <5>3 DEF IsNext
        <5>5. ~HasSlot(a)
          BY <1>14, <5>3 DEF Tick
        <5>6. ~(Cardinality(InFlight(c)) < Concurrency)
          BY <3>3, <5>3, <5>4, <5>5 DEF HasSlot
        <5>7. InFlight(c) # {}
          BY <5>6, <1>n, FS_EmptySet
        <5>. QED BY <5>7 DEF InFlight, At, Running
      <4>. QED BY <4>1, <4>2
    <3>. QED BY <2>7, <3>2, <3>3 DEF Pending
  <2>8. ASSUME NEW c  PROVE Undispatched(c)' = Undispatched(c) /\ Load(c)' = Load(c)
    <3>1. Undispatched(c)' = Undispatched(c)
      BY <2>2 DEF Undispatched, At
    <3>. QED BY <3>1 DEF Load
  <2>9. ASSUME NEW d \in Delivery, Pending(d),
               NEW e \in Delivery, work[e].stage \in Running, work[e].by = work[d].by
        PROVE  /\ queue'[d[1]].hidden >= Load(work[d].by)'
               /\ queue'[d[1]].hidden >= Load(work[d].by)' + work'[e].left
    <3>1. PICK load \in Nat : load = Load(work[d].by)
      BY <2>9, PendingLoad
    <3>2. queue[d[1]].hidden >= load + work[e].left /\ work[e].left > 0
      BY <2>5, <2>9, <3>1 DEF HandlerInv
    <3>3. queue[d[1]].hidden \in Nat /\ work[e].left \in Nat /\ d[1] \in Message
      BY <1>h, <1>d
    <3>4. queue'[d[1]].hidden = queue[d[1]].hidden - 1 /\ work'[e].left = work[e].left - 1
      BY <2>1, <2>2, <3>2, <3>3 DEF Down
    <3>5. Load(work[d].by)' = load
      <4>1. PICK c : c = work[d].by
        OBVIOUS
      <4>2. Load(work[d].by)' = Load(c)'
        BY <2>2, <4>1
      <4>. QED BY <2>8, <3>1, <4>1, <4>2
    <3>. QED BY <3>1, <3>2, <3>3, <3>4, <3>5
  <2>10. ASSUME NEW d \in Delivery, Pending(d)'
         PROVE  Owns(d)' /\ queue'[d[1]].hidden >= Load(work[d].by)'
    <3>1. Pending(d)
      BY <2>4, <2>10
    <3>2. Owns(d)
      BY <3>1 DEF HandlerInv
    <3>3. PICK e \in Delivery : work[e].stage \in Running /\ work[e].by = work[d].by
      BY <3>1, <2>7
    <3>. QED BY <3>1, <3>2, <3>3, <2>4, <2>9
  <2>11. ASSUME NEW d \in Delivery, NEW e \in Delivery,
                Pending(d)', work'[e].stage \in Running, work'[e].by = work'[d].by
         PROVE  queue'[d[1]].hidden >= Load(work[d].by)' + work'[e].left
    BY <2>2, <2>4, <2>9, <2>11
  <2>12. ASSUME NEW c \in Consumer \cup {Nobody}  PROVE IsFiniteSet(Undispatched(c)')
    BY <2>8 DEF HandlerInv
  <2>. QED BY <2>6, <2>10, <2>11, <2>12 DEF HandlerInv
<1>12. ASSUME UNCHANGED vars  PROVE HandlerInv'
  BY <1>12, <1>g, <1>p, <1>w DEF vars
<1>. QED BY <1>1, <1>2, <1>3, <1>4, <1>5, <1>6, <1>7, <1>8, <1>9, <1>10, <1>11, <1>12, <1>13, <1>14
        DEF Next

\* No second handler picks up a message still being worked on (consumer.go:
\* 147-149) when the visibility timeout covers as many handlings as a batch has
\* messages and one more, the wait for a slot, however many consumers and slots
\* there are, and whatever crashes, stops or is lost.
THEOREM TimeForTheBatch ==
    ASSUME (MaxMessages + 1) * HandlerTimeout <= VisibilityTimeout
    PROVE  Spec => []OneHandlerPerMessage
<1>1. Init => TypeOK /\ HandlerInv
  <2>. SUFFICES ASSUME Init  PROVE TypeOK /\ HandlerInv
    OBVIOUS
  <2>1. \A d \in Delivery : work[d].stage = "none"
    BY DEF Init, NoWork
  <2>2. ASSUME NEW c  PROVE Undispatched(c) = {}
    BY <2>1 DEF Undispatched, At
  <2>3. HandlerInv
    BY <2>1, <2>2, FS_EmptySet DEF HandlerInv, Works, Pending
  <2>. QED BY <2>3, TypeInit
<1>2. TypeOK /\ HandlerInv /\ [Next]_vars => (TypeOK /\ HandlerInv)'
  BY TypeStep, HandlerStep
<1>3. HandlerInv => OneHandlerPerMessage
  <2>. SUFFICES ASSUME HandlerInv, NEW d \in Delivery, NEW e \in Delivery,
                       d[1] = e[1], Works(d), Works(e)
                PROVE  d = e
    BY DEF OneHandlerPerMessage
  <2>1. queue[d[1]].received = d[2] /\ queue[e[1]].received = e[2]
    BY DEF HandlerInv, Owns
  <2>. QED BY <2>1, OneOwner
<1>. QED BY <1>1, <1>2, <1>3, PTL DEF Spec

=============================================================================
