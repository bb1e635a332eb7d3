------------------------ MODULE ReferenceResolver_proofs ------------------------
(***************************************************************************)
(* The retry budget of a parked reversal, for any workers, claims and      *)
(* limits.  Every try uses up a claim, and the number of a claim is what   *)
(* the row counted when it was made: so the tries made and the tries that  *)
(* claims still allow never exceed what the row has counted, whoever holds *)
(* a claim and however many are lost.  No statement touches a row that has *)
(* concluded.                                                              *)
(***************************************************************************)
EXTENDS ReferenceResolver, FiniteSetTheorems, TLAPS

Budget(row) ==
    \/ MaxAttempts > 0 /\ row.attempts > MaxAttempts
    \/ TTL > 0 /\ row.age > TTL

\* The workers whose claim of r allows a try that was not made.
Untried(r) == {w \in Worker : claims[w][r] \in 1..MaxAttempts /\ todo[w].row # r}

Counted(r) ==
    /\ IsFiniteSet(Untried(r))
    /\ tries[r] + Cardinality(Untried(r)) <= Least(rows[r].attempts, MaxAttempts)

Belong ==
    /\ \A w \in Worker, r \in Reversal :
         claims[w][r] > 0 => r \in Stored /\ claims[w][r] <= rows[r].attempts
    /\ \A w \in Worker : todo[w] # Nothing => todo[w].row \in Batch(w)

Refused == \A r \in Waiting : ~rows[r].notFound

Spent ==
    MaxAttempts > 0 =>
        /\ \A r \in Stored : Counted(r)
        /\ \A r \in Reversal \ Stored : tries[r] = 0

IInv == TypeOK /\ Belong /\ Refused /\ RefusedOnlyAfterBudget /\ Spent

\* What every step but a parking does to the rows.
RowsKept ==
    /\ rows' \in [Reversal -> Row \cup {Nobody}]
    /\ \A r \in Reversal \ Stored : rows'[r] = rows[r]
    /\ \A r \in Stored \ Waiting : rows'[r] = rows[r]
    /\ \A r \in Waiting :
         /\ rows'[r] \in Row /\ rows'[r].attempts >= rows[r].attempts
         /\ rows'[r].notFound => rows'[r].state # "PENDING_REFERENCE" /\ Budget(rows'[r])

\* What every step does to a row that has concluded.
Stands == \A r \in Stored \ Waiting : rows'[r] = rows[r]

-----------------------------------------------------------------------------
(* Rows. *)

\* A delay is never negative and never beyond its cap.
LEMMA DelayType ==
  ASSUME NEW n \in 0..AttemptCap
  PROVE  backoffDelay(n, RetryBaseDelay, RetryMaxDelay) \in 0..RetryMaxDelay
<1> DEFINE shift == (IF n < 1 THEN 1 ELSE n) - 1
<1>1. shift \in 0..AttemptCap
  BY ResolverAssumption
<1>2. 2 ^ shift \in Nat
  BY <1>1, ShiftAssumption
<1> DEFINE power == 2 ^ shift
<1>3. power \in Nat
  BY <1>2
<1> HIDE DEF power
<1>4. RetryBaseDelay * power \in Nat
  BY <1>3, ResolverAssumption
<1>5. Least(RetryBaseDelay * power, RetryMaxDelay) \in 0..RetryMaxDelay
  BY <1>4, ResolverAssumption DEF Least
<1> QED BY <1>5 DEF backoffDelay, power

LEMMA StoredRows ==
    ASSUME TypeOK, NEW r \in Stored
    PROVE  rows[r] \in Row /\ r \in Reversal
  BY DEF TypeOK, Stored

LEMMA RowsKeptFacts ==
    ASSUME IInv, RowsKept
    PROVE  /\ Stored' = Stored
           /\ \A r \in Stored : rows'[r] \in Row /\ rows'[r].attempts >= rows[r].attempts
           /\ Refused' /\ RefusedOnlyAfterBudget' /\ Stands
<1>1. \A r \in Stored : rows[r] \in Row /\ rows[r].attempts \in Nat
  BY StoredRows, ResolverAssumption DEF IInv, Row
<1>2. \A r \in Stored : rows'[r] \in Row /\ rows'[r].attempts >= rows[r].attempts
  BY <1>1 DEF RowsKept
<1>3. Stored' = Stored
  BY <1>2, RowAssumption DEF RowsKept, Stored
<1>4. Refused'
  BY <1>3 DEF RowsKept, Refused, Waiting
<1>5. RefusedOnlyAfterBudget'
  BY <1>3 DEF RowsKept, IInv, RefusedOnlyAfterBudget, Budget
<1> QED
  BY <1>2, <1>3, <1>4, <1>5 DEF RowsKept, Stands

LEMMA NoRow == ASSUME IInv, rows' = rows PROVE RowsKept
<1>1. \A r \in Waiting : r \in Stored /\ ~rows[r].notFound
  BY DEF IInv, Refused, Waiting
<1>2. \A r \in Waiting : rows[r] \in Row /\ rows[r].attempts \in Nat
  BY <1>1, StoredRows, ResolverAssumption DEF IInv, Row
<1> QED
  BY <1>1, <1>2 DEF RowsKept, IInv, TypeOK

LEMMA OneRow ==
    ASSUME IInv, NEW r \in Waiting, NEW row \in Row, row.attempts >= rows[r].attempts,
           row.notFound => row.state # "PENDING_REFERENCE" /\ Budget(row),
           rows' = [rows EXCEPT ![r] = row]
    PROVE  RowsKept
<1>1. r \in Stored /\ r \in Reversal
  BY DEF Waiting, Stored
<1>2. rows' \in [Reversal -> Row \cup {Nobody}] /\ rows'[r] = row
      /\ \A s \in Reversal \ {r} : rows'[s] = rows[s]
  BY <1>1 DEF IInv, TypeOK
<1>3. \A s \in Waiting : s \in Stored /\ ~rows[s].notFound
  BY DEF IInv, Refused, Waiting
<1>4. \A s \in Waiting : s \in Reversal /\ rows[s] \in Row /\ rows[s].attempts \in Nat
  BY <1>3, StoredRows, ResolverAssumption DEF IInv, Row
<1> QED
  BY <1>1, <1>2, <1>3, <1>4 DEF RowsKept, Stored

\* A call that found the reference concludes the row.
LEMMA ConcludedKeeps == ASSUME IInv, NEW r \in Waiting, Concluded(r) PROVE RowsKept
<1>1. PICK state \in {"PROCESSED", "REJECTED"} : rows' = [rows EXCEPT ![r].state = state]
  BY DEF Concluded
<1> DEFINE row == [rows[r] EXCEPT !.state = state]
<1>2. rows[r] \in Row /\ ~rows[r].notFound /\ r \in Reversal
  BY StoredRows DEF IInv, Refused, Waiting
<1>3. row \in Row /\ row.attempts = rows[r].attempts /\ ~row.notFound
  BY <1>2 DEF Row
<1>4. row.attempts >= rows[r].attempts
  BY <1>2, <1>3, ResolverAssumption DEF Row
<1>5. rows' = [rows EXCEPT ![r] = row]
  BY <1>1, <1>2 DEF IInv, TypeOK
<1> HIDE DEF row
<1> QED
  BY <1>3, <1>4, <1>5, OneRow

\* A worker whose claim has used up the budget refuses the row.
LEMMA ExpireRowKeeps ==
    ASSUME IInv, NEW w \in Worker, NEW r \in Reversal, Turn(w, r), exhausted(w, r), ExpireRow(r)
    PROVE  RowsKept
<1>1. CASE r \notin Waiting
  BY <1>1, NoRow DEF ExpireRow
<1>2. CASE r \in Waiting
  <2> DEFINE row == [rows[r] EXCEPT !.state = "REJECTED", !.notFound = TRUE]
  <2>1. rows[r] \in Row /\ claims[w][r] <= rows[r].attempts /\ claims[w][r] \in 0..AttemptCap
    BY <1>2, StoredRows DEF IInv, TypeOK, Belong, Turn, Batch, Waiting
  <2>2. /\ row \in Row /\ row.attempts = rows[r].attempts /\ row.age = rows[r].age
        /\ row.state = "REJECTED"
    BY <2>1 DEF Row
  <2>3. row.attempts >= rows[r].attempts /\ Budget(row)
    BY <2>1, <2>2, ResolverAssumption DEF Row, Budget, exhausted
  <2>4. rows' = [rows EXCEPT ![r] = row]
    BY <1>2 DEF ExpireRow, IInv, TypeOK
  <2> HIDE DEF row
  <2> QED
    BY <1>2, <2>2, <2>3, <2>4, OneRow
<1> QED
  BY <1>1, <1>2

-----------------------------------------------------------------------------
(* Claims. *)

LEMMA CountKept ==
    ASSUME IInv, RowsKept, MaxAttempts > 0, NEW r \in Stored,
           tries'[r] = tries[r], Untried(r)' \subseteq Untried(r)
    PROVE  Counted(r)'
<1>1. IsFiniteSet(Untried(r)) /\ tries[r] + Cardinality(Untried(r)) <= Least(rows[r].attempts, MaxAttempts)
  BY DEF IInv, Spent, Counted
<1>2. IsFiniteSet(Untried(r)') /\ Cardinality(Untried(r)') <= Cardinality(Untried(r))
  BY <1>1, FS_Subset
<1>3. Cardinality(Untried(r)) \in Nat /\ Cardinality(Untried(r)') \in Nat
  BY <1>1, <1>2, FS_CardinalityType
<1>4. /\ r \in Reversal /\ rows[r].attempts \in Nat /\ rows'[r].attempts \in Nat
      /\ rows'[r].attempts >= rows[r].attempts
  BY StoredRows, RowsKeptFacts, ResolverAssumption DEF IInv, Row
<1>5. tries[r] \in Nat
  BY <1>4, ResolverAssumption DEF IInv, TypeOK
<1>6. tries[r] + Cardinality(Untried(r)') <= Least(rows'[r].attempts, MaxAttempts)
  BY <1>1, <1>2, <1>3, <1>4, <1>5, ResolverAssumption DEF Least
<1> QED
  BY <1>2, <1>6 DEF Counted

\* Claims are finished, dropped or taken in hand, and nothing is tried.
LEMMA WorkKept ==
    ASSUME IInv, RowsKept, arrived' = arrived, tries' = tries,
           claims' \in [Worker -> [Reversal -> 0..AttemptCap]],
           todo' \in [Worker -> [do: {"nothing", "reschedule", "release"},
                                 row: Reversal \cup {Nobody}]],
           \A w \in Worker, r \in Reversal : claims'[w][r] \in {0, claims[w][r]},
           \A w \in Worker : todo'[w] # Nothing =>
               todo'[w].row \in Reversal /\ claims'[w][todo'[w].row] > 0,
           \A w \in Worker, r \in Reversal :
               claims'[w][r] > 0 /\ todo'[w].row # r => todo[w].row # r
    PROVE  IInv' /\ Stands
<1>1. /\ Stored' = Stored
      /\ \A r \in Stored : rows'[r] \in Row /\ rows'[r].attempts >= rows[r].attempts
      /\ Refused' /\ RefusedOnlyAfterBudget' /\ Stands
  BY RowsKeptFacts
<1>2. TypeOK'
  BY DEF IInv, TypeOK, RowsKept
<1>3. Belong'
  <2>1. ASSUME NEW w \in Worker, NEW r \in Reversal, claims'[w][r] > 0
        PROVE  r \in Stored' /\ claims'[w][r] <= rows'[r].attempts
    <3>1. claims'[w][r] = claims[w][r] /\ r \in Stored /\ claims[w][r] <= rows[r].attempts
      BY <2>1 DEF IInv, Belong
    <3>2. claims[w][r] \in Nat /\ rows[r].attempts \in Nat /\ rows'[r].attempts \in Nat
      BY <1>1, <3>1, StoredRows, ResolverAssumption DEF IInv, TypeOK, Row
    <3> QED
      BY <1>1, <3>1, <3>2
  <2>2. \A w \in Worker : todo'[w] # Nothing => todo'[w].row \in Batch(w)'
    BY DEF Batch
  <2> QED
    BY <2>1, <2>2 DEF Belong
<1>4. Spent'
  <2>1. ASSUME NEW r \in Reversal
        PROVE  Untried(r)' \subseteq Untried(r)
    <3> SUFFICES ASSUME NEW w \in Worker, claims'[w][r] \in 1..MaxAttempts, todo'[w].row # r
                 PROVE  claims[w][r] \in 1..MaxAttempts /\ todo[w].row # r
      BY DEF Untried
    <3>1. claims'[w][r] > 0
      BY ResolverAssumption
    <3> QED
      BY <2>1, <3>1
  <2> QED
    BY <1>1, <2>1, CountKept, StoredRows DEF IInv, Spent
<1> QED
  BY <1>1, <1>2, <1>3, <1>4 DEF IInv

\* A statement ends the work on a row.
LEMMA FinishKept ==
    ASSUME IInv, RowsKept, NEW w \in Worker, NEW r \in Reversal, Finish(w, r),
           arrived' = arrived, tries' = tries,
           todo[w] # Nothing => todo[w].row = r
    PROVE  IInv' /\ Stands
<1>1. claims' = [claims EXCEPT ![w][r] = 0] /\ todo' = [todo EXCEPT ![w] = Nothing]
  BY DEF Finish
<1>2. Nothing \in [do: {"nothing", "reschedule", "release"}, row: Reversal \cup {Nobody}]
      /\ Nothing.row = Nobody
  BY DEF Nothing
<1>3. claims' \in [Worker -> [Reversal -> 0..AttemptCap]]
  BY <1>1, ResolverAssumption DEF IInv, TypeOK
<1>4. todo' \in [Worker -> [do: {"nothing", "reschedule", "release"}, row: Reversal \cup {Nobody}]]
  BY <1>1, <1>2 DEF IInv, TypeOK
<1>5. \A v \in Worker, s \in Reversal :
        claims'[v][s] = IF v = w /\ s = r THEN 0 ELSE claims[v][s]
  BY <1>1 DEF IInv, TypeOK
<1>6. \A v \in Worker : todo'[v] = IF v = w THEN Nothing ELSE todo[v]
  BY <1>1 DEF IInv, TypeOK
<1>7. \A v \in Worker : todo'[v] # Nothing =>
        todo'[v].row \in Reversal /\ claims'[v][todo'[v].row] > 0
  BY <1>5, <1>6 DEF IInv, Belong, Batch
<1>8. ASSUME NEW v \in Worker, NEW s \in Reversal, claims'[v][s] > 0, todo'[v].row # s
      PROVE  todo[v].row # s
  <2>1. CASE v # w
    BY <1>6, <1>8, <2>1
  <2>2. CASE v = w
    <3>1. s # r
      BY <1>5, <1>8, <2>2
    <3>2. todo[w] = Nothing \/ todo[w].row = r
      OBVIOUS
    <3> QED
      BY <1>2, <2>2, <3>1, <3>2, ResolverAssumption
  <2> QED
    BY <2>1, <2>2
<1> QED
  BY <1>3, <1>4, <1>5, <1>7, <1>8, WorkKept

-----------------------------------------------------------------------------
(* Each action. *)

LEMMA ParkHolds == ASSUME IInv, NEW r \in Reversal, Park(r) PROVE IInv' /\ Stands
<1> DEFINE row == [state |-> "PENDING_REFERENCE", notFound |-> FALSE, wait |-> Never,
                   lease |-> 0, attempts |-> 0, age |-> 0]
<1>1. row \in Row /\ ~row.notFound /\ row.attempts = 0
  <2>1. Never \in Never..RetryMaxDelay /\ 0 \in 0..ClaimLease /\ 0 \in 0..AttemptCap
        /\ 0 \in 0..(TTL + 1)
    BY ResolverAssumption DEF Never
  <2> QED
    BY <2>1 DEF Row
<1>2. rows[r] = Nobody /\ rows' = [rows EXCEPT ![r] = row]
      /\ UNCHANGED <<arrived, claims, todo, tries>>
  BY DEF Park
<1> HIDE DEF row
<1>3. /\ rows' \in [Reversal -> Row \cup {Nobody}] /\ rows'[r] = row
      /\ \A s \in Reversal \ {r} : rows'[s] = rows[s]
  BY <1>1, <1>2 DEF IInv, TypeOK
<1>4. r \notin Stored /\ Stored' = Stored \cup {r}
  BY <1>1, <1>2, <1>3, RowAssumption DEF Stored
<1>5. \A s \in Stored : rows'[s] = rows[s]
  BY <1>3, <1>4 DEF Stored
<1>6. TypeOK'
  BY <1>2, <1>3 DEF IInv, TypeOK
<1>7. \A w \in Worker : claims[w][r] = 0
  BY <1>4, ResolverAssumption DEF IInv, TypeOK, Belong
<1>8. Belong'
  BY <1>2, <1>4, <1>5 DEF IInv, Belong, Batch
<1>9. Refused' /\ RefusedOnlyAfterBudget'
  BY <1>1, <1>3, <1>4, <1>5 DEF IInv, Refused, RefusedOnlyAfterBudget, Waiting
<1>10. Spent'
  <2>1. ASSUME MaxAttempts > 0, NEW s \in Stored PROVE Counted(s)'
    <3>1. Counted(s)
      BY <2>1 DEF IInv, Spent
    <3>2. Untried(s)' = Untried(s)
      BY <1>2 DEF Untried
    <3> QED
      BY <1>2, <1>5, <3>1, <3>2 DEF Counted
  <2>2. ASSUME MaxAttempts > 0 PROVE Counted(r)'
    <3>1. Untried(r)' = {}
      BY <1>2, <1>7 DEF Untried
    <3>2. tries'[r] = 0
      BY <1>2, <1>4, <2>2 DEF IInv, Spent
    <3>3. IsFiniteSet({}) /\ Cardinality({}) = 0
      BY FS_EmptySet
    <3>4. 0 + 0 <= Least(0, MaxAttempts)
      BY ResolverAssumption DEF Least
    <3> QED
      BY <1>1, <1>3, <3>1, <3>2, <3>3, <3>4 DEF Counted
  <2> QED
    BY <1>2, <1>4, <2>1, <2>2 DEF IInv, Spent
<1> QED
  BY <1>5, <1>6, <1>8, <1>9, <1>10 DEF IInv, Stands

LEMMA ProviderHolds ==
    ASSUME IInv, NEW r \in Reversal, Arrive(r) \/ Redeliver(r) PROVE IInv' /\ Stands
<1>1. CASE Arrive(r)
  <2>1. rows' = rows /\ claims' = claims /\ todo' = todo /\ tries' = tries
        /\ arrived' \subseteq Reversal
    BY <1>1 DEF Arrive, IInv, TypeOK
  <2> QED
    BY <2>1 DEF IInv, TypeOK, Belong, Batch, Refused, RefusedOnlyAfterBudget, Spent, Counted,
               Untried, Stored, Waiting, Stands
<1>2. CASE Redeliver(r)
  <2>1. RowsKept /\ UNCHANGED <<arrived, claims, todo, tries>>
    BY <1>2, ConcludedKeeps DEF Redeliver
  <2> QED
    BY <2>1, WorkKept DEF IInv, TypeOK, Belong, Batch
<1> QED
  BY <1>1, <1>2

\* A claim counts in the row before it counts for the worker.
LEMMA ClaimHolds ==
    ASSUME IInv, NEW w \in Worker, NEW taken \in SUBSET Due, NEW received \in BOOLEAN,
           ClaimDue(w, taken, received)
    PROVE  IInv' /\ Stands
<1>1. UNCHANGED <<arrived, todo, tries>>
  BY DEF ClaimDue
<1>2. \A r \in taken : r \in Waiting /\ r \in Stored /\ r \in Reversal /\ rows[r] \in Row
                       /\ ~rows[r].notFound
  BY StoredRows DEF Due, Waiting, IInv, Refused
<1>3. \A r \in taken : /\ Attempt(r) \in 0..AttemptCap /\ Attempt(r) >= rows[r].attempts
                       /\ rows[r].attempts \in 0..AttemptCap
                       /\ Attempt(r) <= MaxAttempts => Attempt(r) = rows[r].attempts + 1
  BY <1>2, ResolverAssumption DEF Attempt, Least, Row
<1>4. \A r \in Reversal : rows'[r] = IF r \in taken
        THEN [rows[r] EXCEPT !.lease = ClaimLease, !.attempts = Attempt(r)] ELSE rows[r]
  BY DEF ClaimDue
<1>5. ASSUME NEW r \in taken
      PROVE  rows'[r] \in Row /\ rows'[r].attempts = Attempt(r) /\ ~rows'[r].notFound
  <2>1. ClaimLease \in 0..ClaimLease
    BY ResolverAssumption
  <2>2. rows'[r] = [rows[r] EXCEPT !.lease = ClaimLease, !.attempts = Attempt(r)]
    BY <1>2, <1>4
  <2> QED
    BY <1>2, <1>3, <2>1, <2>2 DEF Row
<1>6. rows' \in [Reversal -> Row \cup {Nobody}]
  BY <1>4, <1>5 DEF IInv, TypeOK, ClaimDue
<1>7. RowsKept
  <2>1. ASSUME NEW r \in Waiting
        PROVE  rows'[r] \in Row /\ rows'[r].attempts >= rows[r].attempts /\ ~rows'[r].notFound
    <3>1. r \in Reversal /\ r \in Stored /\ rows[r] \in Row /\ ~rows[r].notFound
      BY StoredRows DEF Waiting, IInv, Refused
    <3>2. rows[r].attempts \in Nat
      BY <3>1, ResolverAssumption DEF Row
    <3>3. CASE r \in taken
      BY <1>3, <1>5, <3>3
    <3>4. CASE r \notin taken
      <4>1. rows'[r] = rows[r]
        BY <1>4, <3>1, <3>4
      <4> QED
        BY <3>1, <3>2, <4>1
    <3> QED
      BY <3>3, <3>4
  <2>2. \A r \in Reversal \ Waiting : rows'[r] = rows[r]
    BY <1>2, <1>4
  <2> QED
    BY <1>6, <2>1, <2>2 DEF RowsKept, Waiting, Stored
<1>8. /\ Stored' = Stored /\ Refused' /\ RefusedOnlyAfterBudget' /\ Stands
      /\ \A r \in Stored : rows'[r] \in Row /\ rows'[r].attempts >= rows[r].attempts
  BY <1>7, RowsKeptFacts
<1> DEFINE batch == [r \in Reversal |-> IF received /\ r \in taken THEN Attempt(r) ELSE 0]
<1>9. batch \in [Reversal -> 0..AttemptCap]
  BY <1>3, ResolverAssumption
<1>10. claims' = [claims EXCEPT ![w] = batch]
  BY DEF ClaimDue
<1>11. /\ claims' \in [Worker -> [Reversal -> 0..AttemptCap]]
       /\ \A r \in Reversal : claims'[w][r] = IF received /\ r \in taken THEN Attempt(r) ELSE 0
       /\ \A v \in Worker \ {w} : claims'[v] = claims[v]
  BY <1>9, <1>10 DEF IInv, TypeOK
<1>12. todo[w] = Nothing
  BY DEF ClaimDue, IInv, Belong
<1>13. TypeOK'
  BY <1>1, <1>6, <1>11 DEF IInv, TypeOK
<1>14. Belong'
  <2>1. ASSUME NEW v \in Worker, NEW r \in Reversal, claims'[v][r] > 0
        PROVE  r \in Stored' /\ claims'[v][r] <= rows'[r].attempts
    <3>1. CASE v = w
      <4>1. r \in taken /\ claims'[v][r] = Attempt(r)
        BY <1>11, <2>1, <3>1, ResolverAssumption
      <4> QED
        <5>1. rows'[r].attempts = Attempt(r) /\ Attempt(r) \in Nat
          BY <1>3, <1>5, <4>1
        <5> QED
          BY <1>2, <1>8, <4>1, <5>1
    <3>2. CASE v # w
      <4>1. claims'[v][r] = claims[v][r] /\ r \in Stored /\ claims[v][r] <= rows[r].attempts
        BY <1>11, <2>1, <3>2 DEF IInv, Belong
      <4>2. claims[v][r] \in Nat /\ rows[r].attempts \in Nat /\ rows'[r].attempts \in Nat
        BY <1>8, <4>1, StoredRows, ResolverAssumption DEF IInv, TypeOK, Row
      <4> QED
        BY <1>8, <4>1, <4>2
    <3> QED
      BY <3>1, <3>2
  <2>2. ASSUME NEW v \in Worker, todo'[v] # Nothing PROVE todo'[v].row \in Batch(v)'
    <3>1. v # w /\ todo[v].row \in Batch(v)
      BY <1>1, <1>12, <2>2 DEF IInv, Belong
    <3> QED
      BY <1>1, <1>11, <3>1 DEF Batch
  <2> QED
    BY <2>1, <2>2 DEF Belong
<1>15. Spent'
  <2>1. ASSUME MaxAttempts > 0, NEW r \in Stored PROVE Counted(r)'
    <3>1. r \in Reversal
      BY StoredRows DEF IInv
    <3>2. Untried(r)' \subseteq Untried(r) \cup {w}
      BY <1>1, <1>11, <3>1 DEF Untried
    <3>3. CASE ~(r \in taken /\ Attempt(r) <= MaxAttempts)
      <4>1. w \notin Untried(r)'
        BY <1>3, <1>11, <3>1, <3>3, ResolverAssumption DEF Untried
      <4> QED
        BY <1>1, <1>7, <2>1, <3>2, <4>1, CountKept
    <3>4. CASE r \in taken /\ Attempt(r) <= MaxAttempts
      <4>1. rows'[r].attempts = rows[r].attempts + 1 /\ rows'[r].attempts <= MaxAttempts
            /\ rows[r].attempts \in Nat
        BY <1>2, <1>3, <1>5, <3>4
      <4>2. IsFiniteSet(Untried(r))
            /\ tries[r] + Cardinality(Untried(r)) <= Least(rows[r].attempts, MaxAttempts)
        BY <2>1 DEF IInv, Spent, Counted
      <4>3. IsFiniteSet(Untried(r) \cup {w})
            /\ Cardinality(Untried(r) \cup {w}) \in {Cardinality(Untried(r)), Cardinality(Untried(r)) + 1}
        BY <4>2, FS_AddElement
      <4>4. IsFiniteSet(Untried(r)')
            /\ Cardinality(Untried(r)') <= Cardinality(Untried(r) \cup {w})
        BY <3>2, <4>3, FS_Subset
      <4>5. {Cardinality(Untried(r)), Cardinality(Untried(r)'), tries[r]} \subseteq Nat
            /\ Cardinality(Untried(r) \cup {w}) \in Nat
        BY <3>1, <4>2, <4>3, <4>4, FS_CardinalityType, ResolverAssumption DEF IInv, TypeOK
      <4>6. tries[r] + Cardinality(Untried(r)') <= Least(rows'[r].attempts, MaxAttempts)
        BY <4>1, <4>2, <4>3, <4>4, <4>5, ResolverAssumption DEF Least
      <4> QED
        BY <1>1, <4>4, <4>6 DEF Counted
    <3> QED
      BY <3>3, <3>4
  <2> QED
    BY <1>1, <1>8, <2>1 DEF IInv, Spent
<1> QED
  BY <1>8, <1>13, <1>14, <1>15 DEF IInv

\* A try uses up the claim it is made under.
LEMMA TryHolds ==
    ASSUME IInv, RowsKept, NEW w \in Worker, NEW r \in Reversal,
           NEW statement \in {"reschedule", "release"},
           Turn(w, r), ~exhausted(w, r), Then(w, r, statement), Try(r),
           UNCHANGED <<arrived, claims>>
    PROVE  IInv' /\ Stands
<1>1. /\ Stored' = Stored /\ Refused' /\ RefusedOnlyAfterBudget' /\ Stands
      /\ \A s \in Stored : rows'[s] \in Row /\ rows'[s].attempts >= rows[s].attempts
  BY RowsKeptFacts
<1>2. /\ todo' = [todo EXCEPT ![w] = [do |-> statement, row |-> r]]
      /\ tries' = [tries EXCEPT ![r] = Least(tries[r] + 1, AttemptCap)]
      /\ todo[w] = Nothing /\ claims[w][r] > 0
  BY DEF Then, Try, Turn, Batch
<1>3. /\ todo' \in [Worker -> [do: {"nothing", "reschedule", "release"},
                               row: Reversal \cup {Nobody}]]
      /\ todo'[w].row = r /\ \A v \in Worker \ {w} : todo'[v] = todo[v]
  BY <1>2 DEF IInv, TypeOK
<1>4. /\ tries' \in [Reversal -> 0..AttemptCap] /\ tries'[r] <= tries[r] + 1
      /\ \A s \in Reversal \ {r} : tries'[s] = tries[s]
  <2>1. tries[r] \in 0..AttemptCap /\ Least(tries[r] + 1, AttemptCap) \in 0..AttemptCap
        /\ Least(tries[r] + 1, AttemptCap) <= tries[r] + 1
    BY ResolverAssumption DEF IInv, TypeOK, Least
  <2> QED
    BY <1>2, <2>1 DEF IInv, TypeOK
<1>5. TypeOK'
  BY <1>3, <1>4 DEF IInv, TypeOK, RowsKept
<1>6. Belong'
  <2>1. ASSUME NEW v \in Worker, NEW s \in Reversal, claims[v][s] > 0
        PROVE  s \in Stored /\ claims[v][s] <= rows'[s].attempts
    <3>1. s \in Stored /\ claims[v][s] <= rows[s].attempts
      BY <2>1 DEF IInv, Belong
    <3>2. claims[v][s] \in Nat /\ rows[s].attempts \in Nat /\ rows'[s].attempts \in Nat
      BY <1>1, <3>1, StoredRows, ResolverAssumption DEF IInv, TypeOK, Row
    <3> QED
      BY <1>1, <3>1, <3>2
  <2>2. \A v \in Worker : todo'[v] # Nothing => todo'[v].row \in Batch(v)
    BY <1>2, <1>3 DEF IInv, Belong, Batch
  <2> QED
    BY <1>1, <2>1, <2>2 DEF Belong, Batch
<1>7. ASSUME NEW s \in Reversal PROVE Untried(s)' \subseteq Untried(s)
  <2> SUFFICES ASSUME NEW v \in Worker, claims[v][s] \in 1..MaxAttempts, todo'[v].row # s
               PROVE  todo[v].row # s
    BY DEF Untried
  <2>1. Nothing.row = Nobody /\ Nobody # s
    BY ResolverAssumption DEF Nothing
  <2> QED
    BY <1>2, <1>3, <2>1
<1>8. Spent'
  <2>1. ASSUME MaxAttempts > 0, NEW s \in Stored, s # r PROVE Counted(s)'
    BY <1>4, <1>7, <2>1, CountKept, StoredRows DEF IInv
  <2>2. ASSUME MaxAttempts > 0 PROVE Counted(r)'
    <3>1. r \in Stored /\ claims[w][r] \in 1..MaxAttempts
      BY <1>2, <2>2, ResolverAssumption DEF IInv, TypeOK, Belong, exhausted
    <3>2. Nothing.row = Nobody /\ Nobody # r
      BY ResolverAssumption DEF Nothing
    <3>3. w \in Untried(r) /\ w \notin Untried(r)'
      BY <1>2, <1>3, <3>1, <3>2 DEF Untried
    <3>4. IsFiniteSet(Untried(r))
          /\ tries[r] + Cardinality(Untried(r)) <= Least(rows[r].attempts, MaxAttempts)
      BY <2>2, <3>1 DEF IInv, Spent, Counted
    <3>5. IsFiniteSet(Untried(r) \ {w})
          /\ Cardinality(Untried(r) \ {w}) = Cardinality(Untried(r)) - 1
      BY <3>3, <3>4, FS_RemoveElement
    <3>6. Untried(r)' \subseteq Untried(r) \ {w}
      BY <1>7, <3>3
    <3>7. IsFiniteSet(Untried(r)')
          /\ Cardinality(Untried(r)') <= Cardinality(Untried(r) \ {w})
      BY <3>5, <3>6, FS_Subset
    <3>8. /\ Cardinality(Untried(r)) \in Nat /\ Cardinality(Untried(r)') \in Nat
          /\ Cardinality(Untried(r) \ {w}) \in Nat
          /\ tries[r] \in Nat /\ tries'[r] \in Nat
      BY <1>4, <3>4, <3>5, <3>7, FS_CardinalityType, ResolverAssumption DEF IInv, TypeOK
    <3>9. rows[r].attempts \in Nat /\ rows'[r].attempts \in Nat
          /\ rows'[r].attempts >= rows[r].attempts
      BY <1>1, <3>1, StoredRows, ResolverAssumption DEF IInv, Row
    <3>10. tries'[r] + Cardinality(Untried(r)') <= Least(rows'[r].attempts, MaxAttempts)
      BY <1>4, <3>4, <3>5, <3>7, <3>8, <3>9, ResolverAssumption DEF Least
    <3> QED
      BY <3>7, <3>10 DEF Counted
  <2>3. r \in Stored
    BY <1>2 DEF IInv, Belong
  <2> QED
    BY <1>1, <1>4, <2>1, <2>2, <2>3 DEF IInv, Spent
<1> QED
  BY <1>1, <1>5, <1>6, <1>8 DEF IInv

LEMMA ResumeHolds ==
    ASSUME IInv, NEW w \in Worker, NEW r \in Reversal,
           ResumeConcludes(w, r) \/ ResumeStaysParked(w, r) \/ ResumeFails(w, r)
    PROVE  IInv' /\ Stands
<1>1. RowsKept
  BY NoRow, ConcludedKeeps DEF ResumeConcludes, ResumeStaysParked, ResumeFails
<1>2. PICK statement \in {"reschedule", "release"} :
        /\ Turn(w, r) /\ ~exhausted(w, r) /\ Then(w, r, statement) /\ Try(r)
        /\ UNCHANGED <<arrived, claims>>
  BY DEF ResumeConcludes, ResumeStaysParked, ResumeFails
<1> QED
  BY <1>1, <1>2, TryHolds

LEMMA ExpireHolds ==
    ASSUME IInv, NEW w \in Worker, NEW r \in Reversal, Expire(w, r) \/ ExpireFails(w, r)
    PROVE  IInv' /\ Stands
<1>1. RowsKept
  BY NoRow, ExpireRowKeeps DEF Expire, ExpireFails
<1>2. CASE Expire(w, r)
  BY <1>1, <1>2, FinishKept DEF Expire, Turn
<1>3. CASE ExpireFails(w, r)
  <2>1. /\ todo' = [todo EXCEPT ![w] = [do |-> "reschedule", row |-> r]]
        /\ UNCHANGED <<arrived, claims, tries>>
        /\ todo[w] = Nothing /\ claims[w][r] > 0
    BY <1>3 DEF ExpireFails, Then, Turn, Batch
  <2>2. /\ todo' \in [Worker -> [do: {"nothing", "reschedule", "release"},
                                 row: Reversal \cup {Nobody}]]
        /\ todo'[w].row = r /\ \A v \in Worker \ {w} : todo'[v] = todo[v]
    BY <2>1 DEF IInv, TypeOK
  <2>3. \A v \in Worker : todo'[v] # Nothing =>
          todo'[v].row \in Reversal /\ claims'[v][todo'[v].row] > 0
    BY <2>1, <2>2 DEF IInv, Belong, Batch
  <2>4. ASSUME NEW v \in Worker, NEW s \in Reversal, claims'[v][s] > 0, todo'[v].row # s
        PROVE  todo[v].row # s
    <3>1. Nothing.row = Nobody /\ Nobody # s
      BY ResolverAssumption DEF Nothing
    <3> QED
      BY <2>1, <2>2, <2>4, <3>1
  <2>5. claims' \in [Worker -> [Reversal -> 0..AttemptCap]]
    BY <2>1 DEF IInv, TypeOK
  <2> QED
    BY <1>1, <2>1, <2>2, <2>3, <2>4, <2>5, WorkKept
<1> QED
  BY <1>2, <1>3

LEMMA RescheduleHolds ==
    ASSUME IInv, NEW w \in Worker, Reschedule(w) \/ Release(w) PROVE IInv' /\ Stands
<1> DEFINE r == todo[w].row
           delay == backoffDelay(claims[w][r], RetryBaseDelay, RetryMaxDelay)
<1>1. todo[w] # Nothing /\ Finish(w, r) /\ UNCHANGED <<arrived, tries>>
  BY DEF Reschedule, Release, Nothing
<1>2. r \in Reversal /\ claims[w][r] \in 0..AttemptCap
  BY <1>1 DEF IInv, TypeOK, Belong, Batch
<1>3. delay \in 0..RetryMaxDelay
  BY <1>2, DelayType
<1> HIDE DEF delay
<1>4. RowsKept
  <2>1. CASE r \notin Waiting
    BY <2>1, NoRow DEF Reschedule, Release
  <2>2. CASE r \in Waiting
    <3>1. rows[r] \in Row /\ ~rows[r].notFound /\ rows[r].attempts \in Nat
      BY <2>2, StoredRows, ResolverAssumption DEF IInv, Refused, Waiting, Row
    <3>2. delay \in Never..RetryMaxDelay /\ 0 \in 0..ClaimLease
      BY <1>3, ResolverAssumption DEF Never
    <3>3. CASE Reschedule(w)
      <4> DEFINE row == [rows[r] EXCEPT !.lease = 0, !.wait = delay]
      <4>1. row \in Row /\ ~row.notFound /\ row.attempts = rows[r].attempts
        BY <3>1, <3>2 DEF Row
      <4>2. rows' = [rows EXCEPT ![r].lease = 0, ![r].wait = delay]
        BY <2>2, <3>3 DEF Reschedule, delay
      <4>3. rows' = [rows EXCEPT ![r] = row]
        BY <1>2, <4>2 DEF IInv, TypeOK
      <4> HIDE DEF row
      <4>4. row.attempts >= rows[r].attempts
        BY <3>1, <4>1
      <4> QED
        BY <2>2, <4>1, <4>3, <4>4, OneRow
    <3>4. CASE Release(w)
      <4> DEFINE row == [rows[r] EXCEPT !.lease = 0]
      <4>1. row \in Row /\ ~row.notFound /\ row.attempts = rows[r].attempts
        BY <3>1, <3>2 DEF Row
      <4>2. rows' = [rows EXCEPT ![r] = row]
        BY <1>2, <2>2, <3>4 DEF Release, IInv, TypeOK
      <4> HIDE DEF row
      <4>3. row.attempts >= rows[r].attempts
        BY <3>1, <4>1
      <4> QED
        BY <2>2, <4>1, <4>2, <4>3, OneRow
    <3> QED
      BY <3>3, <3>4
  <2> QED
    BY <2>1, <2>2
<1> QED
  BY <1>1, <1>2, <1>4, FinishKept

LEMMA FailureHolds ==
    ASSUME IInv, NEW w \in Worker, StatementFails(w) \/ Stop(w) PROVE IInv' /\ Stands
<1>1. RowsKept /\ UNCHANGED <<arrived, tries>>
  BY NoRow DEF StatementFails, Stop
<1>2. CASE StatementFails(w)
  <2>1. todo[w].row \in Reversal /\ Finish(w, todo[w].row)
    BY <1>2 DEF StatementFails, IInv, Belong, Batch
  <2> QED
    BY <1>1, <2>1, FinishKept
<1>3. CASE Stop(w)
  <2>1. /\ claims' = [claims EXCEPT ![w] = [r \in Reversal |-> 0]]
        /\ todo' = [todo EXCEPT ![w] = Nothing]
    BY <1>3 DEF Stop
  <2>2. /\ Nothing \in [do: {"nothing", "reschedule", "release"}, row: Reversal \cup {Nobody}]
        /\ [r \in Reversal |-> 0] \in [Reversal -> 0..AttemptCap]
    BY ResolverAssumption DEF Nothing
  <2>3. /\ claims' \in [Worker -> [Reversal -> 0..AttemptCap]]
        /\ todo' \in [Worker -> [do: {"nothing", "reschedule", "release"},
                                 row: Reversal \cup {Nobody}]]
        /\ \A r \in Reversal : claims'[w][r] = 0
        /\ \A v \in Worker \ {w} : claims'[v] = claims[v] /\ todo'[v] = todo[v]
        /\ todo'[w] = Nothing
    BY <2>1, <2>2 DEF IInv, TypeOK
  <2>4. \A v \in Worker, r \in Reversal : claims'[v][r] \in {0, claims[v][r]}
    BY <2>3
  <2>5. \A v \in Worker : todo'[v] # Nothing =>
          todo'[v].row \in Reversal /\ claims'[v][todo'[v].row] > 0
    BY <2>3 DEF IInv, Belong, Batch
  <2>6. \A v \in Worker, r \in Reversal :
          claims'[v][r] > 0 /\ todo'[v].row # r => todo[v].row # r
    BY <2>3
  <2> QED
    BY <1>1, <2>3, <2>4, <2>5, <2>6, WorkKept
<1> QED
  BY <1>2, <1>3

LEMMA TickHolds == ASSUME IInv, Tick PROVE IInv' /\ Stands
<1>1. \A r \in Reversal : rows'[r] = IF r \in Waiting
        THEN [rows[r] EXCEPT !.wait = IF @ = Never THEN Never ELSE Down(@, -Horizon),
                             !.lease = Down(@, 0), !.age = Least(@ + 1, TTL + 1)]
        ELSE rows[r]
  BY DEF Tick
<1>2. ASSUME NEW r \in Waiting
      PROVE  rows'[r] \in Row /\ ~rows'[r].notFound /\ rows'[r].attempts >= rows[r].attempts
  <2>1. r \in Reversal /\ rows[r] \in Row /\ ~rows[r].notFound /\ rows[r].attempts \in Nat
    BY StoredRows, ResolverAssumption DEF IInv, Refused, Waiting, Row
  <2> DEFINE wait == IF rows[r].wait = Never THEN Never ELSE Down(rows[r].wait, -Horizon)
             lease == Down(rows[r].lease, 0)
             age == Least(rows[r].age + 1, TTL + 1)
  <2>2. wait \in Never..RetryMaxDelay
    BY <2>1, ResolverAssumption DEF Row, Never, Down
  <2>3. lease \in 0..ClaimLease /\ age \in 0..(TTL + 1)
    BY <2>1, ResolverAssumption DEF Row, Down, Least
  <2>4. rows'[r] = [rows[r] EXCEPT !.wait = wait, !.lease = lease, !.age = age]
    BY <1>1, <2>1
  <2> HIDE DEF wait, lease, age
  <2>5. rows'[r] \in Row /\ rows'[r].notFound = rows[r].notFound
        /\ rows'[r].attempts = rows[r].attempts
    BY <2>1, <2>2, <2>3, <2>4 DEF Row
  <2> QED
    BY <2>1, <2>5
<1>3. rows' \in [Reversal -> Row \cup {Nobody}]
  <2>1. \A r \in Reversal : rows'[r] \in Row \cup {Nobody}
    BY <1>1, <1>2 DEF IInv, TypeOK
  <2> QED
    BY <2>1 DEF Tick
<1>4. RowsKept
  BY <1>1, <1>2, <1>3 DEF RowsKept, Waiting, Stored
<1>5. UNCHANGED <<arrived, claims, todo, tries>>
  BY DEF Tick
<1> QED
  BY <1>4, <1>5, WorkKept DEF IInv, TypeOK, Belong, Batch

-----------------------------------------------------------------------------
(* The specification. *)

LEMMA InitHolds == Init => IInv
<1> SUFFICES ASSUME Init PROVE IInv
  OBVIOUS
<1>1. Stored = {} /\ Waiting = {}
  BY DEF Init, Stored, Waiting
<1>2. TypeOK
  <2>1. /\ [r \in Reversal |-> 0] \in [Reversal -> 0..AttemptCap]
        /\ Nothing \in [do: {"nothing", "reschedule", "release"}, row: Reversal \cup {Nobody}]
    BY ResolverAssumption DEF Nothing
  <2> QED
    BY <2>1 DEF Init, TypeOK
<1>3. Belong
  BY DEF Init, Belong
<1> QED
  BY <1>1, <1>2, <1>3 DEF Init, IInv, Refused, RefusedOnlyAfterBudget, Spent

LEMMA StepHolds == IInv /\ [Next]_vars => IInv' /\ Stands
<1> SUFFICES ASSUME IInv, [Next]_vars PROVE IInv' /\ Stands
  OBVIOUS
<1>1. CASE UNCHANGED vars
  BY <1>1 DEF vars, IInv, TypeOK, Belong, Batch, Refused, RefusedOnlyAfterBudget, Spent,
              Counted, Untried, Stored, Waiting, Stands
<1>2. ASSUME NEW r \in Reversal, Park(r) PROVE IInv' /\ Stands
  BY <1>2, ParkHolds
<1>3. ASSUME NEW r \in Reversal, Arrive(r) \/ Redeliver(r) PROVE IInv' /\ Stands
  BY <1>3, ProviderHolds
<1>4. ASSUME NEW w \in Worker, NEW taken \in SUBSET Due, NEW received \in BOOLEAN,
             ClaimDue(w, taken, received)
      PROVE  IInv' /\ Stands
  BY <1>4, ClaimHolds
<1>5. ASSUME NEW w \in Worker, NEW r \in Reversal, Resolve(w, r) PROVE IInv' /\ Stands
  BY <1>5, ResumeHolds, ExpireHolds DEF Resolve
<1>6. ASSUME NEW w \in Worker, Reschedule(w) \/ Release(w) PROVE IInv' /\ Stands
  BY <1>6, RescheduleHolds
<1>7. ASSUME NEW w \in Worker, StatementFails(w) \/ Stop(w) PROVE IInv' /\ Stands
  BY <1>7, FailureHolds
<1>8. CASE Tick
  BY <1>8, TickHolds
<1> QED
  BY <1>1, <1>2, <1>3, <1>4, <1>5, <1>6, <1>7, <1>8 DEF Next

LEMMA AlwaysIInv == Spec => []IInv
  BY InitHolds, StepHolds, PTL DEF Spec

\* Type correctness: rows, claims and what workers do next.
THEOREM ResolverTypes == Spec => []TypeOK
<1>1. IInv => TypeOK
  BY DEF IInv
<1> QED
  BY <1>1, AlwaysIInv, PTL

\* A reference is looked for at most MaxAttempts times.
THEOREM BudgetHolds == Spec => []LookedForWithinLimit
<1>1. IInv => LookedForWithinLimit
  <2> SUFFICES ASSUME IInv, MaxAttempts > 0, NEW r \in Reversal PROVE tries[r] <= MaxAttempts
    BY DEF LookedForWithinLimit
  <2>1. CASE r \in Stored
    <3>1. Cardinality(Untried(r)) \in Nat
          /\ tries[r] + Cardinality(Untried(r)) <= Least(rows[r].attempts, MaxAttempts)
      BY <2>1, FS_CardinalityType DEF IInv, Spent, Counted
    <3>2. tries[r] \in Nat /\ rows[r].attempts \in Nat
      BY <2>1, StoredRows, ResolverAssumption DEF IInv, TypeOK, Row
    <3> QED
      BY <3>1, <3>2, ResolverAssumption DEF Least
  <2>2. CASE r \notin Stored
    BY <2>2, ResolverAssumption DEF IInv, Spent
  <2> QED
    BY <2>1, <2>2
<1> QED
  BY <1>1, AlwaysIInv, PTL

\* A reversal is refused for want of its reference only when a limit has passed.
THEOREM RefusalIsEarned == Spec => []RefusedOnlyAfterBudget
<1>1. IInv => RefusedOnlyAfterBudget
  BY DEF IInv
<1> QED
  BY <1>1, AlwaysIInv, PTL

\* No worker, however late, changes a row that has concluded.
THEOREM ConclusionIsFinal == Spec => ConclusionStands
<1>1. IInv /\ [Next]_vars => [Stands]_rows
  BY StepHolds
<1> QED
  BY <1>1, AlwaysIInv, PTL DEF Spec, ConclusionStands, Stands
=============================================================================
