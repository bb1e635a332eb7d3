------------------------- MODULE OutboxDelivery_proofs -------------------------
(***************************************************************************)
(* A confirmed event is one the queue has, and its row never changes       *)
(* again, for any events, publishers, leases and delays.  The invariant    *)
(* follows what a publisher carries between its statements: what it works  *)
(* on is a committed event, and when a confirmation comes next the queue   *)
(* has accepted it, whoever has leased the row meanwhile.                  *)
(***************************************************************************)
EXTENDS OutboxDelivery, TLAPS

Carried ==
    /\ \A p \in Publisher, e \in Event : claims[p][e] > 0 => e \in Saved
    /\ \A p \in Publisher : todo[p] # "none" => current[p] \in Saved
    /\ \A p \in Publisher : todo[p] = "confirm" => current[p] \in sent

IInv == TypeOK /\ Carried /\ ConfirmedMeansSent

\* A delay is never negative and never beyond its cap.
LEMMA DelayType ==
  ASSUME NEW n \in 0..MaxAttempts
  PROVE  backoffDelay(n, RetryBaseDelay, RetryMaxDelay) \in 0..RetryMaxDelay
<1> DEFINE shift == (IF n < 1 THEN 1 ELSE n) - 1
<1>1. shift \in 0..MaxAttempts
  BY DeliveryAssumption
<1>2. 2 ^ shift \in Nat
  BY <1>1, ShiftAssumption
<1> DEFINE power == 2 ^ shift
<1>3. power \in Nat
  BY <1>2
<1> HIDE DEF power
<1>4. RetryBaseDelay * power \in Nat
  BY <1>3, DeliveryAssumption
<1>5. Least(RetryBaseDelay * power, RetryMaxDelay) \in 0..RetryMaxDelay
  BY <1>4, DeliveryAssumption DEF Least
<1> QED BY <1>5 DEF backoffDelay, power

-----------------------------------------------------------------------------
(* Rows. *)

LEMMA RowsAreRows ==
    ASSUME TypeOK, NEW e \in Saved
    PROVE  outbox[e] \in Row /\ e \in Event
  BY DEF TypeOK, Saved

\* A table that differs from the old one by rows for rows has the same events,
\* and keeps what is confirmed when no row becomes published.
LEMMA RowsForRows ==
    ASSUME IInv, outbox' \in [Event -> Row \cup {Nobody}],
           \A e \in Event : (outbox'[e] = Nobody) <=> (outbox[e] = Nobody)
    PROVE  Saved' = Saved
  BY DEF Saved

LEMMA LeaseIsRows ==
    ASSUME IInv, NEW p \in Publisher, NEW taken \in SUBSET Due, Lease(p, taken)
    PROVE  /\ outbox' \in [Event -> Row \cup {Nobody}]
           /\ Saved' = Saved
           /\ \A e \in Saved : outbox'[e].published = outbox[e].published
           /\ \A e \in Saved : outbox[e].published => outbox'[e] = outbox[e]
           /\ \A e \in taken : Attempt(e) \in 1..MaxAttempts
<1>1. taken \subseteq Saved /\ \A e \in taken : ~outbox[e].published
  BY DEF Due
<1>2. \A e \in Saved : outbox[e] \in Row /\ e \in Event
  BY RowsAreRows DEF IInv
<1>3. \A e \in taken : Attempt(e) \in 1..MaxAttempts
  BY <1>1, <1>2, DeliveryAssumption DEF Attempt, Least, Row
<1>4. ASSUME NEW e \in taken
      PROVE  LET r == [outbox[e] EXCEPT !.lockedBy = p, !.lease = ClaimLease,
                                        !.attempts = Attempt(e)]
             IN  r \in Row /\ r.published = outbox[e].published
  <2>1. ClaimLease \in 0..ClaimLease /\ Attempt(e) \in 0..MaxAttempts /\ outbox[e] \in Row
    BY <1>1, <1>2, <1>3, DeliveryAssumption
  <2> QED
    BY <2>1 DEF Row
<1>5. \A e \in Event : outbox'[e] = IF e \in taken
        THEN [outbox[e] EXCEPT !.lockedBy = p, !.lease = ClaimLease, !.attempts = Attempt(e)]
        ELSE outbox[e]
  BY DEF Lease
<1>6. outbox' \in [Event -> Row \cup {Nobody}]
  BY <1>4, <1>5 DEF IInv, TypeOK, Lease
<1>7. \A e \in Event : (outbox'[e] = Nobody) <=> (outbox[e] = Nobody)
  BY <1>1, <1>4, <1>5, RowAssumption DEF Saved
<1> QED
  BY <1>1, <1>2, <1>3, <1>4, <1>5, <1>6, <1>7, RowsForRows

\* A statement that writes the row of current, and what it writes is a row.
LEMMA RowWritten ==
    ASSUME IInv, NEW e \in Saved, NEW r \in Row, outbox' = [outbox EXCEPT ![e] = r]
    PROVE  /\ outbox' \in [Event -> Row \cup {Nobody}]
           /\ Saved' = Saved
           /\ outbox'[e] = r /\ \A f \in Event \ {e} : outbox'[f] = outbox[f]
<1>1. outbox \in [Event -> Row \cup {Nobody}] /\ e \in Event /\ outbox[e] # Nobody
  BY DEF IInv, TypeOK, Saved
<1>2. /\ outbox' \in [Event -> Row \cup {Nobody}]
      /\ outbox'[e] = r /\ \A f \in Event \ {e} : outbox'[f] = outbox[f]
  BY <1>1
<1> QED
  BY <1>1, <1>2, RowAssumption, RowsForRows

-----------------------------------------------------------------------------
(* Each action. *)

LEMMA SaveHolds ==
    ASSUME IInv, NEW e \in Event, Save(e)
    PROVE  IInv' /\ \A f \in Saved : outbox'[f] = outbox[f]
<1>1. PICK ahead \in 0..MaxSkew, age \in 0..Horizon :
        outbox' = [outbox EXCEPT ![e] =
              [wait |-> -age, lease |-> 0, lockedBy |-> Nobody, attempts |-> 0,
               ahead |-> ahead, published |-> FALSE]]
  BY DEF Save
<1> DEFINE r == [wait |-> -age, lease |-> 0, lockedBy |-> Nobody, attempts |-> 0,
                 ahead |-> ahead, published |-> FALSE]
<1>2. r \in Row /\ ~r.published
  BY DeliveryAssumption DEF Row
<1> HIDE DEF r
<1>3. /\ outbox \in [Event -> Row \cup {Nobody}] /\ outbox[e] = Nobody
      /\ UNCHANGED <<sent, claims, current, todo>>
  BY DEF IInv, TypeOK, Save
<1>4. outbox' = [outbox EXCEPT ![e] = r]
  BY <1>1 DEF r
<1>5. outbox' \in [Event -> Row \cup {Nobody}] /\ outbox'[e] = r
      /\ \A f \in Event \ {e} : outbox'[f] = outbox[f]
  BY <1>2, <1>3, <1>4
<1>6. Saved' = Saved \cup {e} /\ e \notin Saved
  BY <1>2, <1>3, <1>5, RowAssumption DEF Saved
<1>7. TypeOK'
  BY <1>3, <1>5 DEF IInv, TypeOK
<1>8. Carried'
  BY <1>3, <1>6 DEF IInv, Carried
<1>9. ConfirmedMeansSent'
  BY <1>2, <1>3, <1>5, <1>6 DEF IInv, ConfirmedMeansSent, Saved
<1> QED
  BY <1>5, <1>6, <1>7, <1>8, <1>9 DEF IInv, Saved

LEMMA ClaimHolds ==
    ASSUME IInv, NEW p \in Publisher, NEW taken \in SUBSET Due,
           ClaimPending(p, taken) \/ ClaimLost(p, taken)
    PROVE  IInv' /\ \A f \in Saved : outbox[f].published => outbox'[f] = outbox[f]
<1>1. Lease(p, taken)
  BY DEF ClaimPending, ClaimLost
<1>2. /\ outbox' \in [Event -> Row \cup {Nobody}] /\ Saved' = Saved
      /\ \A e \in Saved : outbox'[e].published = outbox[e].published
      /\ \A e \in Saved : outbox[e].published => outbox'[e] = outbox[e]
      /\ \A e \in taken : Attempt(e) \in 1..MaxAttempts
  BY <1>1, LeaseIsRows
<1>3. UNCHANGED <<sent, current, todo>> /\ taken \subseteq Saved
  BY DEF ClaimPending, ClaimLost, Due
<1>4. /\ claims' \in [Publisher -> [Event -> 0..MaxAttempts]]
      /\ \A q \in Publisher, e \in Event : claims'[q][e] > 0 => claims[q][e] > 0 \/ e \in taken
  <2>1. CASE claims' = claims
    BY <2>1 DEF IInv, TypeOK
  <2>2. CASE ClaimPending(p, taken)
    <3> DEFINE batch == [e \in Event |-> IF e \in taken THEN Attempt(e) ELSE 0]
    <3>1. batch \in [Event -> 0..MaxAttempts] /\ \A e \in Event : batch[e] > 0 => e \in taken
      BY <1>2, DeliveryAssumption
    <3>2. claims' = [claims EXCEPT ![p] = batch]
      BY <2>2 DEF ClaimPending
    <3> HIDE DEF batch
    <3> QED
      BY <3>1, <3>2 DEF IInv, TypeOK
  <2> QED
    BY <2>1, <2>2 DEF ClaimLost
<1>5. TypeOK'
  BY <1>2, <1>3, <1>4 DEF IInv, TypeOK
<1>6. Carried'
  BY <1>2, <1>3, <1>4 DEF IInv, Carried
<1>7. ConfirmedMeansSent'
  BY <1>2, <1>3 DEF IInv, ConfirmedMeansSent
<1> QED
  BY <1>2, <1>5, <1>6, <1>7 DEF IInv

LEMMA DeliverHolds ==
    ASSUME IInv, NEW p \in Publisher, NEW e \in Event,
           PublishAccepted(p, e) \/ PublishFailed(p, e)
    PROVE  IInv' /\ outbox' = outbox
<1>1. PICK accepted \in BOOLEAN, statement \in {"confirm", "reschedule"} :
        Deliver(p, e, accepted, statement) /\ (statement = "confirm" => accepted)
  BY DEF PublishAccepted, PublishFailed
<1>2. /\ UNCHANGED <<outbox, claims>> /\ e \in Saved
      /\ sent \subseteq sent' /\ sent' \subseteq Event /\ (accepted => e \in sent')
      /\ current' = [current EXCEPT ![p] = e]
      /\ todo' = [todo EXCEPT ![p] = statement]
  BY <1>1 DEF Deliver, Batch, IInv, TypeOK, Carried
<1>3. TypeOK'
  BY <1>2 DEF IInv, TypeOK
<1>4. Carried'
  BY <1>1, <1>2 DEF IInv, TypeOK, Carried, Saved
<1>5. ConfirmedMeansSent'
  BY <1>2 DEF IInv, ConfirmedMeansSent, Saved
<1> QED
  BY <1>2, <1>3, <1>4, <1>5 DEF IInv

\* Finish drops what the publisher carried, whatever its statement wrote.
LEMMA FinishHolds ==
    ASSUME IInv, NEW p \in Publisher, Finish(p), todo[p] # "none",
           outbox' \in [Event -> Row \cup {Nobody}], Saved' = Saved, ConfirmedMeansSent'
    PROVE  IInv'
<1>1. /\ current[p] \in Event
      /\ claims' = [claims EXCEPT ![p][current[p]] = 0]
      /\ current' = [current EXCEPT ![p] = Nobody]
      /\ todo' = [todo EXCEPT ![p] = "none"] /\ sent' = sent
  BY DEF Finish, IInv, Carried, Saved
<1>2. /\ claims' \in [Publisher -> [Event -> 0..MaxAttempts]]
      /\ \A q \in Publisher, e \in Event : claims'[q][e] > 0 => claims[q][e] > 0
  BY <1>1, DeliveryAssumption DEF IInv, TypeOK
<1>3. TypeOK'
  BY <1>1, <1>2 DEF IInv, TypeOK
<1>4. Carried'
  BY <1>1, <1>2 DEF IInv, TypeOK, Carried
<1> QED
  BY <1>3, <1>4 DEF IInv

LEMMA MarkHolds ==
    ASSUME IInv, NEW p \in Publisher, MarkPublished(p)
    PROVE  IInv' /\ \A f \in Saved : outbox[f].published => outbox'[f] = outbox[f]
<1> DEFINE e == current[p]
           r == [outbox[e] EXCEPT !.published = TRUE, !.lockedBy = Nobody, !.lease = 0]
<1>1. Finish(p) /\ todo[p] = "confirm" /\ e \in Saved /\ e \in sent /\ sent' = sent
  BY DEF MarkPublished, Finish, IInv, Carried
<1>2. CASE outbox[e].published
  <2>1. outbox' = outbox
    BY <1>2 DEF MarkPublished, Unpublished
  <2>2. ConfirmedMeansSent' /\ Saved' = Saved
    BY <1>1, <2>1 DEF IInv, ConfirmedMeansSent, Saved
  <2> QED
    BY <1>1, <2>1, <2>2, FinishHolds DEF IInv, TypeOK
<1>3. CASE ~outbox[e].published
  <2>1. r \in Row
    <3>1. outbox[e] \in Row
      BY <1>1, RowsAreRows DEF IInv
    <3>2. 0 \in 0..ClaimLease
      BY DeliveryAssumption
    <3> QED
      BY <3>1, <3>2 DEF Row
  <2>2. outbox' = [outbox EXCEPT ![e] = r]
    <3>1. outbox' = [outbox EXCEPT ![e].published = TRUE, ![e].lockedBy = Nobody, ![e].lease = 0]
      BY <1>3 DEF MarkPublished, Unpublished
    <3> QED
      BY <1>1, <3>1 DEF IInv, TypeOK, Saved
  <2> HIDE DEF r
  <2>3. /\ outbox' \in [Event -> Row \cup {Nobody}] /\ Saved' = Saved
        /\ \A f \in Event \ {e} : outbox'[f] = outbox[f]
    BY <1>1, <2>1, <2>2, RowWritten
  <2>4. ConfirmedMeansSent'
    BY <1>1, <2>3 DEF IInv, ConfirmedMeansSent, Saved
  <2> QED
    BY <1>1, <1>3, <2>3, <2>4, FinishHolds DEF Saved
<1> QED
  BY <1>2, <1>3

LEMMA RescheduleHolds ==
    ASSUME IInv, NEW p \in Publisher, Reschedule(p)
    PROVE  IInv' /\ \A f \in Saved : outbox[f].published => outbox'[f] = outbox[f]
<1> DEFINE e == current[p]
           delay == backoffDelay(claims[p][e], RetryBaseDelay, RetryMaxDelay)
           r == [outbox[e] EXCEPT !.wait = delay, !.lockedBy = Nobody, !.lease = 0]
<1>1. Finish(p) /\ todo[p] = "reschedule" /\ e \in Saved /\ sent' = sent
  BY DEF Reschedule, Finish, IInv, Carried
<1>2. CASE outbox[e].published
  <2>1. outbox' = outbox
    BY <1>2 DEF Reschedule, Unpublished
  <2>2. ConfirmedMeansSent' /\ Saved' = Saved
    BY <1>1, <2>1 DEF IInv, ConfirmedMeansSent, Saved
  <2> QED
    BY <1>1, <2>1, <2>2, FinishHolds DEF IInv, TypeOK
<1>3. CASE ~outbox[e].published
  <2>1. delay \in -Horizon..RetryMaxDelay
    <3>1. claims[p][e] \in 0..MaxAttempts
      BY <1>1, RowsAreRows DEF IInv, TypeOK
    <3>2. delay \in 0..RetryMaxDelay
      BY <3>1, DelayType
    <3> HIDE DEF delay
    <3> QED
      BY <3>2, DeliveryAssumption
  <2>2. outbox' = [outbox EXCEPT ![e] = r]
    <3>1. outbox' = [outbox EXCEPT ![e].wait = delay, ![e].lockedBy = Nobody, ![e].lease = 0]
      BY <1>3 DEF Reschedule, Unpublished
    <3> HIDE DEF delay
    <3> QED
      BY <1>1, <3>1 DEF IInv, TypeOK, Saved
  <2> HIDE DEF delay
  <2>3. r \in Row /\ r.published = outbox[e].published
    <3>1. outbox[e] \in Row
      BY <1>1, RowsAreRows DEF IInv
    <3>2. 0 \in 0..ClaimLease
      BY DeliveryAssumption
    <3> QED
      BY <2>1, <3>1, <3>2 DEF Row
  <2> HIDE DEF r
  <2>4. /\ outbox' \in [Event -> Row \cup {Nobody}] /\ Saved' = Saved
        /\ outbox'[e] = r /\ \A f \in Event \ {e} : outbox'[f] = outbox[f]
    BY <1>1, <2>2, <2>3, RowWritten
  <2>5. ConfirmedMeansSent'
    BY <1>1, <1>3, <2>3, <2>4 DEF IInv, ConfirmedMeansSent, Saved
  <2> QED
    BY <1>1, <1>3, <2>4, <2>5, FinishHolds DEF Saved
<1> QED
  BY <1>2, <1>3

LEMMA FailureHolds ==
    ASSUME IInv, NEW p \in Publisher, StatementFails(p) \/ Stop(p)
    PROVE  IInv' /\ outbox' = outbox
<1>1. CASE StatementFails(p)
  <2>1. outbox' = outbox /\ Finish(p) /\ todo[p] # "none" /\ sent' = sent
    BY <1>1 DEF StatementFails, Finish
  <2>2. ConfirmedMeansSent' /\ Saved' = Saved
    BY <2>1 DEF IInv, ConfirmedMeansSent, Saved
  <2> QED
    BY <2>1, <2>2, FinishHolds DEF IInv, TypeOK
<1>2. CASE Stop(p)
  <2>1. /\ UNCHANGED <<outbox, sent>>
        /\ claims' = [claims EXCEPT ![p] = [e \in Event |-> 0]]
        /\ current' = [current EXCEPT ![p] = Nobody]
        /\ todo' = [todo EXCEPT ![p] = "none"]
    BY <1>2 DEF Stop
  <2>2. TypeOK'
    <3>1. [e \in Event |-> 0] \in [Event -> 0..MaxAttempts]
      BY DeliveryAssumption
    <3> QED
      BY <2>1, <3>1 DEF IInv, TypeOK
  <2>3. Carried'
    BY <2>1 DEF IInv, TypeOK, Carried, Saved
  <2>4. ConfirmedMeansSent'
    BY <2>1 DEF IInv, ConfirmedMeansSent, Saved
  <2> QED
    BY <2>1, <2>2, <2>3, <2>4 DEF IInv
<1> QED
  BY <1>1, <1>2

LEMMA TickHolds ==
    ASSUME IInv, Tick
    PROVE  IInv' /\ \A f \in Saved : outbox[f].published => outbox'[f] = outbox[f]
<1>1. UNCHANGED <<sent, claims, current, todo>>
  BY DEF Tick
<1>2. ASSUME NEW e \in Saved
      PROVE  LET r == [outbox[e] EXCEPT !.wait = Down(@, -Horizon), !.lease = Down(@, 0),
                                        !.ahead = Down(@, 0)]
             IN  r \in Row /\ r.published = outbox[e].published
  <2>1. outbox[e] \in Row
    BY RowsAreRows DEF IInv
  <2>2. /\ Down(outbox[e].wait, -Horizon) \in -Horizon..RetryMaxDelay
        /\ Down(outbox[e].lease, 0) \in 0..ClaimLease
        /\ Down(outbox[e].ahead, 0) \in 0..MaxSkew
    BY <2>1, DeliveryAssumption DEF Down, Row
  <2> QED
    BY <2>1, <2>2 DEF Row
<1>3. \A e \in Event : outbox'[e] = IF e \in Saved /\ Unpublished(e)
        THEN [outbox[e] EXCEPT !.wait = Down(@, -Horizon), !.lease = Down(@, 0),
                               !.ahead = Down(@, 0)]
        ELSE outbox[e]
  BY DEF Tick
<1>4. outbox' \in [Event -> Row \cup {Nobody}]
  BY <1>2, <1>3 DEF IInv, TypeOK, Tick
<1>5. \A e \in Event : (outbox'[e] = Nobody) <=> (outbox[e] = Nobody)
  <2>1. Nobody \notin Row
    BY RowAssumption
  <2>2. ASSUME NEW e \in Event, e \in Saved, Unpublished(e)
        PROVE  outbox'[e] # Nobody /\ outbox[e] # Nobody
    BY <1>2, <1>3, <2>1, <2>2 DEF Saved
  <2>3. ASSUME NEW e \in Event, ~(e \in Saved /\ Unpublished(e))
        PROVE  outbox'[e] = outbox[e]
    BY <1>3, <2>3
  <2> QED
    BY <2>2, <2>3
<1>6. Saved' = Saved
  BY <1>4, <1>5, RowsForRows
<1>7. \A e \in Saved : outbox'[e].published = outbox[e].published
  BY <1>2, <1>3 DEF Saved
<1>8. TypeOK' /\ Carried'
  BY <1>1, <1>4, <1>6 DEF IInv, TypeOK, Carried
<1>9. ConfirmedMeansSent'
  BY <1>1, <1>6, <1>7 DEF IInv, ConfirmedMeansSent
<1> QED
  BY <1>3, <1>8, <1>9 DEF IInv, Saved, Unpublished

-----------------------------------------------------------------------------
(* The specification. *)

LEMMA InitHolds == Init => IInv
<1> SUFFICES ASSUME Init PROVE IInv
  OBVIOUS
<1>1. Saved = {}
  BY DEF Init, Saved
<1>2. TypeOK
  <2>1. [e \in Event |-> 0] \in [Event -> 0..MaxAttempts]
    BY DeliveryAssumption
  <2> QED
    BY <2>1 DEF Init, TypeOK
<1>3. Carried
  BY DEF Init, Carried
<1> QED
  BY <1>1, <1>2, <1>3 DEF IInv, ConfirmedMeansSent

Stands == \A e \in Saved : outbox[e].published => outbox'[e] = outbox[e]

LEMMA StepHolds == IInv /\ [Next]_vars => IInv' /\ Stands
<1> SUFFICES ASSUME IInv, [Next]_vars
             PROVE  IInv' /\ Stands
  OBVIOUS
<1>1. CASE UNCHANGED vars
  BY <1>1 DEF vars, IInv, TypeOK, Carried, ConfirmedMeansSent, Saved, Stands
<1>2. ASSUME NEW e \in Event, Save(e) PROVE IInv' /\ Stands
  BY <1>2, SaveHolds DEF Stands
<1>3. ASSUME NEW p \in Publisher, NEW taken \in SUBSET Due,
             ClaimPending(p, taken) \/ ClaimLost(p, taken)
      PROVE  IInv' /\ Stands
  BY <1>3, ClaimHolds DEF Stands
<1>4. ASSUME NEW p \in Publisher, NEW e \in Event,
             PublishAccepted(p, e) \/ PublishFailed(p, e)
      PROVE  IInv' /\ Stands
  BY <1>4, DeliverHolds DEF Stands
<1>5. ASSUME NEW p \in Publisher, MarkPublished(p) PROVE IInv' /\ Stands
  BY <1>5, MarkHolds DEF Stands
<1>6. ASSUME NEW p \in Publisher, Reschedule(p) PROVE IInv' /\ Stands
  BY <1>6, RescheduleHolds DEF Stands
<1>7. ASSUME NEW p \in Publisher, StatementFails(p) \/ Stop(p) PROVE IInv' /\ Stands
  BY <1>7, FailureHolds DEF Stands
<1>8. CASE Tick
  BY <1>8, TickHolds DEF Stands
<1> QED
  BY <1>1, <1>2, <1>3, <1>4, <1>5, <1>6, <1>7, <1>8 DEF Next

LEMMA AlwaysIInv == Spec => []IInv
  BY InitHolds, StepHolds, PTL DEF Spec

\* Type correctness, with the delays within their cap.
THEOREM TypeCorrect == Spec => []TypeOK
<1>1. IInv => TypeOK
  BY DEF IInv
<1> QED
  BY <1>1, AlwaysIInv, PTL

\* Whatever fails, stops or is taken over, a confirmed event is in the queue.
THEOREM NothingConfirmedUnsent == Spec => []ConfirmedMeansSent
<1>1. IInv => ConfirmedMeansSent
  BY DEF IInv
<1> QED
  BY <1>1, AlwaysIInv, PTL

\* No publisher, however late, changes a row that was confirmed.
THEOREM ConfirmationIsFinal == Spec => ConfirmationStands
<1>1. IInv /\ [Next]_vars => [Stands]_outbox
  BY StepHolds
<1> QED
  BY <1>1, AlwaysIInv, PTL DEF Spec, ConfirmationStands, Stands
=============================================================================
