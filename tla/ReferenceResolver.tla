-------------------------- MODULE ReferenceResolver --------------------------
(***************************************************************************)
(* The workers that retry reversals parked in PENDING_REFERENCE.  Each     *)
(* claims due rows under a lease, resumes them or gives up on them, and    *)
(* then reschedules or releases its claim.                                 *)
(*                                                                         *)
(* Resume and Expire are the calls of WagerProcessing, which shows that a  *)
(* call is atomic and that a concluded row never changes; here each is one *)
(* step.  A row keeps how far its columns lie from now(): wait for         *)
(* reference_next_attempt_at, lease for reference_locked_until, age for    *)
(* created_at.                                                             *)
(*                                                                         *)
(* Left out: the difference between the clocks of two instances, and the   *)
(* owner of a claim, which no statement compares.                          *)
(***************************************************************************)
EXTENDS Backoff, FiniteSets

CONSTANTS
    Reversal,       \* parked transactions, as their ids are ordered
    Worker,         \* resolver workers, one per instance
    BatchSize,      \* REFERENCE_BATCH_SIZE
    ClaimLease,     \* REFERENCE_CLAIM_LEASE
    RetryBaseDelay, \* REFERENCE_RETRY_BASE_DELAY
    RetryMaxDelay,  \* REFERENCE_RETRY_MAX_DELAY
    MaxAttempts,    \* REFERENCE_MAX_ATTEMPTS, 0 for no limit
    TTL,            \* REFERENCE_TTL, 0 for no limit
    Horizon,        \* bound: how long overdue a row is counted
    AttemptCap,     \* bound: attempts counted, above MaxAttempts
    Nobody          \* no row

ASSUME ResolverAssumption ==
    /\ Reversal \subseteq Nat
    /\ {BatchSize, ClaimLease, RetryBaseDelay} \subseteq Nat \ {0}
    /\ RetryMaxDelay \in Nat
    /\ {MaxAttempts, TTL, Horizon} \subseteq Nat
    /\ AttemptCap \in Nat /\ AttemptCap > MaxAttempts
    /\ Nobody \notin Reversal

\* config.validate: a pending reference needs a bound.
ASSUME BoundAssumption == MaxAttempts > 0 \/ TTL > 0

VARIABLES
    rows,     \* the parked transactions, Nobody before they are stored
    arrived,  \* reversals whose reference has concluded
    claims,   \* per worker and row, the attempt it claimed and has not
              \* finished, 0 for none
    todo,     \* per worker, the statement that comes next, and its row
    tries     \* history: how often each reversal was really tried

vars == <<rows, arrived, claims, todo, tries>>

\* A NULL next attempt comes before every other.
Never == -Horizon - 1

Row == [state: {"PENDING_REFERENCE", "PROCESSED", "REJECTED"},
        notFound: BOOLEAN, wait: Never..RetryMaxDelay, lease: 0..ClaimLease,
        attempts: 0..AttemptCap, age: 0..(TTL + 1)]

\* The shifts of backoffDelay and what a row is, which the provers do not compute.
ASSUME ShiftAssumption == \A n \in 0..AttemptCap : 2 ^ n \in Nat
ASSUME RowAssumption == Nobody \notin Row

Nothing == [do |-> "nothing", row |-> Nobody]

Stored == {r \in Reversal : rows[r] # Nobody}
Waiting == {r \in Stored : rows[r].state = "PENDING_REFERENCE"}
Batch(w) == {r \in Reversal : claims[w][r] > 0}

Init ==
    /\ rows = [r \in Reversal |-> Nobody]
    /\ arrived = {}
    /\ claims = [w \in Worker |-> [r \in Reversal |-> 0]]
    /\ todo = [w \in Worker |-> Nothing]
    /\ tries = [r \in Reversal |-> 0]

\* A reversal is parked, its retry columns at their defaults.
Park(r) ==
    /\ rows[r] = Nobody
    /\ rows' = [rows EXCEPT ![r] =
          [state |-> "PENDING_REFERENCE", notFound |-> FALSE, wait |-> Never,
           lease |-> 0, attempts |-> 0, age |-> 0]]
    /\ UNCHANGED <<arrived, claims, todo, tries>>

\* The transaction r reverses concludes.
Arrive(r) ==
    /\ arrived' = arrived \cup {r}
    /\ UNCHANGED <<rows, claims, todo, tries>>

\* Row r concluded by a call that found its reference.
Concluded(r) ==
    \E state \in {"PROCESSED", "REJECTED"} : rows' = [rows EXCEPT ![r].state = state]

\* The provider sends the reversal again and the call concludes it.
Redeliver(r) ==
    /\ r \in Waiting \cap arrived
    /\ Concluded(r)
    /\ UNCHANGED <<arrived, claims, todo, tries>>

-----------------------------------------------------------------------------
\* Mutant of Due: a next attempt of NULL is not due.
DueAtAnInstant ==
    {r \in Waiting : rows[r].wait \in -Horizon..0 /\ rows[r].lease = 0}

\* The rows a claim may take.
Due == {r \in Waiting : rows[r].wait <= 0 /\ rows[r].lease = 0}

\* ORDER BY reference_next_attempt_at NULLS FIRST, id.
Before(r, s) ==
    \/ rows[r].wait < rows[s].wait
    \/ rows[r].wait = rows[s].wait /\ r < s

\* Mutant of Attempt: each claim starts counting again.
AttemptUncounted(r) == 1

Attempt(r) == Least(rows[r].attempts + 1, AttemptCap)

\* The UPDATE of ClaimDue.  Its answer, or the read of the rows that follows
\* it, may be lost, and then nobody works on them.
ClaimDue(w, taken, received) ==
    /\ Batch(w) = {}
    /\ taken # {}
    /\ Cardinality(taken) = Least(BatchSize, Cardinality(Due))
    /\ \A r \in taken, s \in Due \ taken : Before(r, s)
    /\ rows' = [r \in Reversal |->
          IF r \in taken THEN [rows[r] EXCEPT !.lease = ClaimLease, !.attempts = Attempt(r)]
          ELSE rows[r]]
    /\ claims' = [claims EXCEPT ![w] =
          [r \in Reversal |-> IF received /\ r \in taken THEN Attempt(r) ELSE 0]]
    /\ UNCHANGED <<arrived, todo, tries>>

\* Mutant of exhausted: the last attempt is not made.
exhaustedEarly(w, r) == MaxAttempts > 0 /\ claims[w][r] >= MaxAttempts

\* The budget ran out: either limit ends the wait.
exhausted(w, r) ==
    \/ MaxAttempts > 0 /\ claims[w][r] > MaxAttempts
    \/ TTL > 0 /\ rows[r].age > TTL

\* resolve of row r comes next.
Turn(w, r) == todo[w] = Nothing /\ r \in Batch(w)

Then(w, r, statement) == todo' = [todo EXCEPT ![w] = [do |-> statement, row |-> r]]

Finish(w, r) ==
    /\ claims' = [claims EXCEPT ![w][r] = 0]
    /\ todo' = [todo EXCEPT ![w] = Nothing]

Try(r) == tries' = [tries EXCEPT ![r] = Least(@ + 1, AttemptCap)]

\* Resume goes through the ordinary flow and answers a state that is not
\* PENDING_REFERENCE: somebody has concluded the row, or this call does.
ResumeConcludes(w, r) ==
    /\ Turn(w, r) /\ ~exhausted(w, r)
    /\ \/ r \notin Waiting /\ UNCHANGED rows
       \/ r \in Waiting \cap arrived /\ Concluded(r)
    /\ Then(w, r, "release")
    /\ Try(r)
    /\ UNCHANGED <<arrived, claims>>

\* The reference is still missing: the operation stays parked.
ResumeStaysParked(w, r) ==
    /\ Turn(w, r) /\ ~exhausted(w, r)
    /\ r \in Waiting \ arrived
    /\ Then(w, r, "reschedule")
    /\ Try(r)
    /\ UNCHANGED <<rows, arrived, claims>>

\* Resume returns an error, and its commit may have taken effect.
ResumeFails(w, r) ==
    /\ Turn(w, r) /\ ~exhausted(w, r)
    /\ UNCHANGED rows \/ (r \in Waiting \cap arrived /\ Concluded(r))
    /\ Then(w, r, "reschedule")
    /\ Try(r)
    /\ UNCHANGED <<arrived, claims>>

\* Mutant of ExpireRow: a conclusion reached meanwhile is not looked at.
ExpireAnyRow(r) ==
    rows' = [rows EXCEPT ![r].state = "REJECTED", ![r].notFound = TRUE]

\* expire refuses a row that is still parked, and leaves a concluded one.
ExpireRow(r) ==
    IF r \in Waiting
    THEN rows' = [rows EXCEPT ![r].state = "REJECTED", ![r].notFound = TRUE]
    ELSE UNCHANGED rows

Expire(w, r) ==
    /\ Turn(w, r) /\ exhausted(w, r)
    /\ ExpireRow(r)
    /\ Finish(w, r)
    /\ UNCHANGED <<arrived, tries>>

\* expire returns an error, and its commit may have taken effect.
ExpireFails(w, r) ==
    /\ Turn(w, r) /\ exhausted(w, r)
    /\ UNCHANGED rows \/ ExpireRow(r)
    /\ Then(w, r, "reschedule")
    /\ UNCHANGED <<arrived, claims, tries>>

\* Reschedule releases a parked row, whoever holds it by now.
Reschedule(w) ==
    LET r == todo[w].row IN
    /\ todo[w].do = "reschedule"
    /\ rows' = IF r \in Waiting
               THEN [rows EXCEPT ![r].lease = 0, ![r].wait =
                        backoffDelay(claims[w][r], RetryBaseDelay, RetryMaxDelay)]
               ELSE rows
    /\ Finish(w, r)
    /\ UNCHANGED <<arrived, tries>>

\* Release drops the claim of a row that is still parked.
Release(w) ==
    LET r == todo[w].row IN
    /\ todo[w].do = "release"
    /\ rows' = IF r \in Waiting THEN [rows EXCEPT ![r].lease = 0] ELSE rows
    /\ Finish(w, r)
    /\ UNCHANGED <<arrived, tries>>

\* The statement fails: the claim is left to its lease.
StatementFails(w) ==
    /\ todo[w] # Nothing
    /\ Finish(w, todo[w].row)
    /\ UNCHANGED <<rows, arrived, tries>>

\* A crash or a shutdown: what is claimed stays claimed.
Stop(w) ==
    /\ Batch(w) # {}
    /\ claims' = [claims EXCEPT ![w] = [r \in Reversal |-> 0]]
    /\ todo' = [todo EXCEPT ![w] = Nothing]
    /\ UNCHANGED <<rows, arrived, tries>>

Down(n, floor) == IF n > floor THEN n - 1 ELSE floor

\* now() advances.
Tick ==
    /\ rows' = [r \in Reversal |->
          IF r \in Waiting
          THEN [rows[r] EXCEPT !.wait = IF @ = Never THEN Never ELSE Down(@, -Horizon),
                               !.lease = Down(@, 0), !.age = Least(@ + 1, TTL + 1)]
          ELSE rows[r]]
    /\ UNCHANGED <<arrived, claims, todo, tries>>

Resolve(w, r) ==
    \/ ResumeConcludes(w, r) \/ ResumeStaysParked(w, r) \/ ResumeFails(w, r)
    \/ Expire(w, r) \/ ExpireFails(w, r)

Next ==
    \/ \E r \in Reversal : Park(r) \/ Arrive(r) \/ Redeliver(r)
    \/ \E w \in Worker :
         \/ \E taken \in SUBSET Due, received \in BOOLEAN : ClaimDue(w, taken, received)
         \/ \E r \in Reversal : Resolve(w, r)
         \/ Reschedule(w) \/ Release(w) \/ StatementFails(w) \/ Stop(w)
    \/ Tick

Spec == Init /\ [][Next]_vars

\* Fairness.  Run loops for ever and time passes.  A claim is received and an
\* expiry committed once in a while, however often they fail or the worker
\* stops: that is strong fairness.  Resume need never succeed.
ClaimOf(w, r) == \E taken \in SUBSET Due : r \in taken /\ ClaimDue(w, taken, TRUE)

Fairness ==
    /\ WF_vars(Tick)
    /\ \A w \in Worker :
         /\ WF_vars(Reschedule(w) \/ Release(w) \/ StatementFails(w))
         /\ \A r \in Reversal :
              /\ SF_vars(ClaimOf(w, r))
              /\ WF_vars(Resolve(w, r))
              /\ SF_vars(Expire(w, r))

FairSpec == Spec /\ Fairness

-----------------------------------------------------------------------------
(***************************************************************************)
(* Properties.                                                             *)
(***************************************************************************)

\* Every row and every worker holds values of its type.
TypeOK ==
    /\ rows \in [Reversal -> Row \cup {Nobody}]
    /\ arrived \subseteq Reversal
    /\ claims \in [Worker -> [Reversal -> 0..AttemptCap]]
    /\ todo \in [Worker -> [do: {"nothing", "reschedule", "release"},
                            row: Reversal \cup {Nobody}]]
    /\ tries \in [Reversal -> 0..AttemptCap]

\* MaxAttempts bounds how many times a reference is looked for, over crashes,
\* takeovers of a claim and workers that act on a claim they have lost.
LookedForWithinLimit ==
    MaxAttempts > 0 => \A r \in Reversal : tries[r] <= MaxAttempts

\* A reversal is refused for want of its reference only when one of the two
\* limits has passed, whichever worker refuses it and however old its claim.
RefusedOnlyAfterBudget ==
    \A r \in Stored : rows[r].notFound =>
        \/ MaxAttempts > 0 /\ rows[r].attempts > MaxAttempts
        \/ TTL > 0 /\ rows[r].age > TTL

\* A conclusion stands: neither a late worker nor the release of a claim
\* touches a row that has concluded, its retry columns included.
ConclusionStands ==
    [][\A r \in Stored \ Waiting : rows'[r] = rows[r]]_rows

\* Every wait ends, whether or not the reference ever arrives, although
\* resuming may always fail and the retry columns start as NULL.
EveryWaitEnds == \A r \in Reversal : r \in Waiting ~> r \in Stored \ Waiting
=============================================================================
