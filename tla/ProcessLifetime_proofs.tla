------------------------ MODULE ProcessLifetime_proofs ------------------------
(***************************************************************************)
(* The pool outlives its users and a clean exit leaves nothing behind, for *)
(* any number of requests.  The invariant says what is left at each point  *)
(* of the stop: while the deadline has not passed, a worker whose hook was *)
(* gone through has returned, and once the server's was, no request is     *)
(* left; the hook of the pool, the first one, is entered only then.        *)
(***************************************************************************)
EXTENDS ProcessLifetime, TLAPS

\* What each phase says of the hooks and of the pool.
PhaseOK ==
    /\ phase = "building" =>
         /\ started = 0 /\ ~inHook /\ ~expired /\ ~failed
         /\ pool = "none" /\ loops = {} /\ ~listening
    /\ phase \in {"starting", "running"} =>
         ~inHook /\ ~expired /\ ~failed /\ pool = "open"
    /\ phase = "running" => started = 5
    /\ phase = "stopping" =>
         /\ pool # "none"
         /\ pool = "closed" <=> started = 0
         /\ pool = "closing" <=> started = 1 /\ inHook
         /\ started = 0 => ~inHook

\* Work belongs to a loop that runs, or was taken while the server listened.
WorkOK ==
    /\ \A w \in Worker : stage[w] # "idle" => w \in loops
    /\ listening => started >= 2 /\ ~(started = 2 /\ inHook)
    /\ expired \/ started >= 2 \/ \A r \in Request : stage[r] = "idle"
    /\ expired \/ \A i \in 3..5 : Hooks[i] \in loops => i <= started

IInv ==
    /\ TypeOK /\ PhaseOK /\ WorkOK
    /\ phase \in {"starting", "running", "stopping"} /\ pool \in {"closing", "closed"} =>
         loops = {} /\ ~listening /\ \A u \in User : stage[u] = "idle"
    /\ CleanExitLeavesNothing

LEMMA HooksAre ==
    /\ Len(Hooks) = 5
    /\ Hooks[1] = "pool" /\ Hooks[2] = "http"
    /\ Hooks[3] = "outbox-publisher" /\ Hooks[4] = "reference-resolver"
    /\ Hooks[5] = "sqs-consumer"
    /\ Worker = {Hooks[3], Hooks[4], Hooks[5]}
    /\ Hooks[1] \notin Worker /\ Hooks[2] \notin Worker
<1>1. /\ Hooks[1] = "pool" /\ Hooks[2] = "http"
      /\ Hooks[3] = "outbox-publisher" /\ Hooks[4] = "reference-resolver"
      /\ Hooks[5] = "sqs-consumer"
  BY DEF Hooks
<1>2. Len(Hooks) = 5
  BY DEF Hooks
<1> QED
  BY <1>1, <1>2 DEF Worker

LEMMA InitHolds == Init => IInv
<1> SUFFICES ASSUME Init PROVE IInv
  OBVIOUS
<1>1. \A u \in User : stage[u] = "idle"
  BY DEF Init
<1>2. TypeOK
  <2>1. stage \in [User -> {"idle", "working", "holding"}]
    BY DEF Init
  <2>2. started \in 0..Len(Hooks)
    BY HooksAre DEF Init
  <2> QED
    BY <2>1, <2>2 DEF Init, TypeOK
<1>3. PhaseOK
  BY DEF Init, PhaseOK
<1>4. WorkOK
  BY <1>1 DEF Init, WorkOK, User
<1> QED
  BY <1>2, <1>3, <1>4 DEF Init, IInv, CleanExitLeavesNothing

LEMMA StartsHold ==
    ASSUME IInv, Build \/ BuildFails \/ StartHook \/ StartFails \/ Started
    PROVE  IInv'
<1>1. CASE Build
  BY <1>1, HooksAre DEF Build, IInv, TypeOK, PhaseOK, WorkOK, CleanExitLeavesNothing, Busy
<1>2. CASE BuildFails
  BY <1>2, HooksAre DEF BuildFails, IInv, TypeOK, PhaseOK, WorkOK, CleanExitLeavesNothing, Busy
<1>3. CASE StartHook
  BY <1>3, HooksAre DEF StartHook, IInv, TypeOK, PhaseOK, WorkOK, CleanExitLeavesNothing, Busy
<1>4. CASE StartFails
  BY <1>4, HooksAre DEF StartFails, IInv, TypeOK, PhaseOK, WorkOK, CleanExitLeavesNothing, Busy
<1>5. CASE Started
  BY <1>5, HooksAre DEF Started, IInv, TypeOK, PhaseOK, WorkOK, CleanExitLeavesNothing, Busy
<1> QED
  BY <1>1, <1>2, <1>3, <1>4, <1>5

LEMMA WorkHolds ==
    ASSUME IInv, NEW u \in User, Take(u) \/ Acquire(u) \/ Release(u) \/ Finish(u)
    PROVE  IInv'
<1>1. PICK from, to \in {"idle", "working", "holding"} : Stage(u, from, to)
  BY DEF Take, Acquire, Release, Finish
<1>2. /\ UNCHANGED <<phase, started, inHook, failed, expired, code, pool, listening, loops, cancelled>>
      /\ stage' = [stage EXCEPT ![u] = to] /\ stage \in [User -> {"idle", "working", "holding"}]
      /\ stage[u] = from /\ Alive
  BY <1>1 DEF Stage, fx, IInv, TypeOK
<1>3. /\ stage' \in [User -> {"idle", "working", "holding"}] /\ stage'[u] = to
      /\ \A v \in User \ {u} : stage'[v] = stage[v]
  BY <1>2
<1>4. \/ stage[u] # "idle"
      \/ u \in Worker /\ u \in loops
      \/ u \notin Worker /\ listening
  BY <1>2 DEF Take, Acquire, Release, Finish, Stage
<1>5. TypeOK' /\ PhaseOK'
  BY <1>2, <1>3 DEF IInv, TypeOK, PhaseOK
<1>6. WorkOK'
  BY <1>2, <1>3, <1>4, RequestAssumption DEF IInv, WorkOK, User
<1>7. pool \notin {"closing", "closed"}
  BY <1>2, <1>4 DEF IInv, Alive
<1> QED
  BY <1>2, <1>5, <1>6, <1>7 DEF IInv, Alive, CleanExitLeavesNothing

LEMMA ReturnsHold ==
    ASSUME IInv, ServeFails \/ \E w \in Worker : LoopReturns(w)
    PROVE  IInv'
<1>1. CASE ServeFails
  BY <1>1 DEF ServeFails, Alive, fx, IInv, TypeOK, PhaseOK, WorkOK, CleanExitLeavesNothing, Busy
<1>2. CASE \E w \in Worker : LoopReturns(w)
  <2>1. PICK w \in Worker : LoopReturns(w)
    BY <1>2
  <2>2. /\ UNCHANGED <<phase, started, inHook, failed, expired, code, pool, listening, cancelled, stage>>
        /\ loops' = loops \ {w} /\ stage[w] = "idle" /\ Alive /\ w \in loops
    BY <2>1 DEF LoopReturns, fx
  <2>3. TypeOK' /\ PhaseOK'
    BY <2>2 DEF IInv, TypeOK, PhaseOK, Alive
  <2>4. WorkOK'
    BY <2>2 DEF IInv, WorkOK
  <2> QED
    BY <2>2, <2>3, <2>4 DEF IInv, Alive, CleanExitLeavesNothing
<1> QED
  BY <1>1, <1>2

LEMMA StopsHold ==
    ASSUME IInv, Signal \/ EnterHook \/ HookReturns \/ Deadline \/ Exit
    PROVE  IInv'
<1>1. CASE Signal
  BY <1>1, HooksAre DEF Signal, IInv, TypeOK, PhaseOK, WorkOK, CleanExitLeavesNothing, Busy
<1>2. CASE EnterHook
  BY <1>2, HooksAre
     DEF EnterHook, Cancels, IInv, TypeOK, PhaseOK, WorkOK, CleanExitLeavesNothing, Busy, User
<1>3. CASE HookReturns
  <2>1. /\ UNCHANGED <<phase, failed, expired, code, listening, loops, cancelled, stage>>
        /\ phase = "stopping" /\ inHook /\ inHook' = FALSE /\ started \in 1..5 /\ started' = started - 1
        /\ pool' = IF Hooks[started] = "pool" THEN "closed" ELSE pool
        /\ Concluded(Hooks[started])
    BY <1>3, HooksAre DEF HookReturns, IInv, TypeOK, PhaseOK
  <2>2. Hooks[started] = "pool" <=> started = 1
    BY <2>1, HooksAre
  <2>3. TypeOK' /\ PhaseOK'
    <3>1. pool' = IF started = 1 THEN "closed" ELSE pool
      BY <2>1, <2>2
    <3>2. started' \in 0..Len(Hooks)
      BY <2>1, HooksAre
    <3>3. TypeOK'
      BY <2>1, <3>1, <3>2 DEF IInv, TypeOK
    <3>4. PhaseOK'
      BY <2>1, <3>1 DEF IInv, PhaseOK
    <3> QED
      BY <3>3, <3>4
  <2>4. started \in 3..5 => expired \/ Hooks[started] \notin loops
    BY <2>1, HooksAre DEF Concluded
  <2>5. started = 2 => expired \/ \A r \in Request : stage[r] = "idle"
    BY <2>1, HooksAre DEF Concluded, Busy, User
  <2>6. WorkOK'
    BY <2>1, <2>4, <2>5 DEF IInv, WorkOK
  <2> QED
    BY <2>1, <2>2, <2>3, <2>6 DEF IInv, CleanExitLeavesNothing, PhaseOK
<1>4. CASE Deadline
  BY <1>4, HooksAre DEF Deadline, IInv, TypeOK, PhaseOK, WorkOK, CleanExitLeavesNothing, Busy
<1>5. CASE Exit
  BY <1>5, HooksAre DEF Exit, IInv, TypeOK, PhaseOK, WorkOK, CleanExitLeavesNothing, Busy
<1> QED
  BY <1>1, <1>2, <1>3, <1>4, <1>5

LEMMA StepHolds == IInv /\ [Next]_vars => IInv'
<1> SUFFICES ASSUME IInv, [Next]_vars
             PROVE  IInv'
  OBVIOUS
<1>1. CASE UNCHANGED vars
  BY <1>1 DEF vars, fx, IInv, TypeOK, PhaseOK, WorkOK, CleanExitLeavesNothing, Busy
<1>2. CASE Next
  BY <1>2, StartsHold, WorkHolds, ReturnsHold, StopsHold DEF Next
<1> QED
  BY <1>1, <1>2

LEMMA AlwaysIInv == Spec => []IInv
  BY InitHolds, StepHolds, PTL DEF Spec

\* Whatever the number of requests and the order of the events, the pool is closed
\* only when no loop runs, no request is served and none can come.
THEOREM PoolIsOutlived == Spec => []PoolOutlivesItsUsers
<1>1. IInv => PoolOutlivesItsUsers
  BY DEF IInv, PoolOutlivesItsUsers, Alive, Busy
<1> QED
  BY <1>1, AlwaysIInv, PTL

\* A stop that goes through all its hooks leaves nothing running or open.
THEOREM CleanExitIsClean == Spec => []CleanExitLeavesNothing
<1>1. IInv => CleanExitLeavesNothing
  BY DEF IInv
<1> QED
  BY <1>1, AlwaysIInv, PTL
=============================================================================
