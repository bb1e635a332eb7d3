--------------------------- MODULE ProcessLifetime ---------------------------
(***************************************************************************)
(* The life of the process: what is built and started in which order, and  *)
(* how a signal, or a start that fails, takes it down again.  Fx owns the  *)
(* order: it runs the OnStart hooks in the order they were appended, and   *)
(* the OnStop hooks of those that started in reverse, under one deadline.  *)
(*                                                                         *)
(* The users of the pool are the three workers, for whatever they have in  *)
(* hand, and the requests of the API; what their work does is in the other *)
(* modules.  A process that is killed is there as well.                    *)
(***************************************************************************)
EXTENDS Integers, Sequences

CONSTANT Request  \* requests of the API, each of which may come again

VARIABLES
    phase,     \* "building", "starting", "running", "stopping" or "exited"
    started,   \* how many hooks have been started and not stopped
    inHook,    \* whether the OnStop of the last of them runs
    failed,    \* whether the start failed
    expired,   \* whether the deadline of the stop has passed
    code,      \* the exit code
    pool,      \* "none", "open", "closing" or "closed"
    listening, \* whether the server accepts requests
    loops,     \* the workers whose loop runs
    cancelled, \* the workers whose context is cancelled
    stage      \* per user: "idle", "working" or "holding" a connection

fx == <<phase, started, inHook, failed, expired, code>>
vars == <<fx, pool, listening, loops, cancelled, stage>>

Worker == {"outbox-publisher", "reference-resolver", "sqs-consumer"}
User == Worker \cup Request

ASSUME RequestAssumption == Request \cap Worker = {}

\* Mutant of Hooks: the pool is appended when the workers ask for it.
HooksPoolLast == <<"http", "outbox-publisher", "reference-resolver", "sqs-consumer", "pool">>

\* The hooks in the order the constructors and invocations append them.
Hooks == <<"pool", "http", "outbox-publisher", "reference-resolver", "sqs-consumer">>

Busy == {u \in User : stage[u] # "idle"}
Holding == {u \in User : stage[u] = "holding"}

TypeOK ==
    /\ phase \in {"building", "starting", "running", "stopping", "exited"}
    /\ started \in 0..Len(Hooks)
    /\ inHook \in BOOLEAN /\ failed \in BOOLEAN /\ expired \in BOOLEAN
    /\ code \in {0, 1}
    /\ pool \in {"none", "open", "closing", "closed"}
    /\ listening \in BOOLEAN
    /\ loops \subseteq Worker /\ cancelled \subseteq Worker
    /\ stage \in [User -> {"idle", "working", "holding"}]

Init ==
    /\ phase = "building" /\ started = 0 /\ inHook = FALSE
    /\ failed = FALSE /\ expired = FALSE /\ code = 0
    /\ pool = "none" /\ listening = FALSE
    /\ loops = {} /\ cancelled = {}
    /\ stage = [u \in User |-> "idle"]

-----------------------------------------------------------------------------
(* The start. *)

\* fx.New: the pool answers its ping, and so does the identity provider.
Build ==
    /\ phase = "building"
    /\ phase' = "starting" /\ pool' = "open"
    /\ UNCHANGED <<started, inHook, failed, expired, code, listening, loops, cancelled, stage>>

\* One of them does not, or the configuration is refused: the process exits.
BuildFails ==
    /\ phase = "building"
    /\ phase' = "exited" /\ code' = 1
    /\ pool' \in {"none", "closed", "open"}
    /\ UNCHANGED <<started, inHook, failed, expired, listening, loops, cancelled, stage>>

\* The next OnStart: the pool has none, Server.Start opens the listener before it
\* returns, a worker gets a goroutine.
StartHook ==
    LET h == Hooks[started + 1] IN
    /\ phase = "starting" /\ started < Len(Hooks)
    /\ started' = started + 1
    /\ listening' = (listening \/ h = "http")
    /\ loops' = loops \cup ({h} \cap Worker)
    /\ UNCHANGED <<phase, inHook, failed, expired, code, pool, cancelled, stage>>

\* The port is taken: what was started is rolled back.
StartFails ==
    /\ phase = "starting" /\ started < Len(Hooks) /\ Hooks[started + 1] = "http"
    /\ phase' = "stopping" /\ failed' = TRUE
    /\ UNCHANGED <<started, inHook, expired, code, pool, listening, loops, cancelled, stage>>

Started ==
    /\ phase = "starting" /\ started = Len(Hooks)
    /\ phase' = "running"
    /\ UNCHANGED <<started, inHook, failed, expired, code, pool, listening, loops, cancelled,
                   stage>>

-----------------------------------------------------------------------------
(* The work. *)

Alive == phase \in {"starting", "running", "stopping"}

Stage(u, from, to) ==
    /\ Alive /\ stage[u] = from
    /\ stage' = [stage EXCEPT ![u] = to]
    /\ UNCHANGED <<fx, pool, listening, loops, cancelled>>

\* A loop takes work while its context is not cancelled, the server a request
\* while it listens.
Take(u) ==
    /\ IF u \in Worker THEN u \in loops \ cancelled ELSE listening
    /\ Stage(u, "idle", "working")

\* A statement or a transaction on a connection of the pool.
Acquire(u) == pool = "open" /\ Stage(u, "working", "holding")
Release(u) == Stage(u, "holding", "working")
Finish(u) == Stage(u, "working", "idle")

\* Run returns when its context is cancelled, after the work in its hands.
LoopReturns(w) ==
    /\ Alive
    /\ w \in loops \cap cancelled /\ stage[w] = "idle"
    /\ loops' = loops \ {w}
    /\ UNCHANGED <<fx, pool, listening, cancelled, stage>>

\* Serve fails: it is logged, and the process goes on without its API.
ServeFails ==
    /\ Alive /\ listening
    /\ listening' = FALSE
    /\ UNCHANGED <<fx, pool, loops, cancelled, stage>>

-----------------------------------------------------------------------------
(* The stop. *)

\* SIGINT or SIGTERM.
Signal ==
    /\ phase = "running"
    /\ phase' = "stopping"
    /\ UNCHANGED <<started, inHook, failed, expired, code, pool, listening, loops, cancelled,
                   stage>>

\* Mutant of Cancels: a worker is waited for and never told.
CancelsNothing(h) == {}

\* The context an OnStop cancels.
Cancels(h) == {h} \cap Worker

\* Fx enters the next OnStop, unless the deadline has passed: the context of a
\* worker is cancelled, the listener closed, the pool closed for new work.
EnterHook ==
    LET h == Hooks[started] IN
    /\ phase = "stopping" /\ ~inHook /\ ~expired /\ started > 0
    /\ inHook' = TRUE
    /\ cancelled' = cancelled \cup Cancels(h)
    /\ listening' = (listening /\ h # "http")
    /\ pool' = IF h = "pool" THEN "closing" ELSE pool
    /\ UNCHANGED <<phase, started, failed, expired, code, loops, stage>>

\* Mutant of Concluded: the server is closed, not shut down.
ConcludedAtOnce(h) ==
    \/ h = "http"
    \/ h \in Worker /\ (h \notin loops \/ expired)
    \/ h = "pool" /\ Holding = {}

\* What an OnStop waits for: runWorker for the loop or the deadline, Shutdown for
\* the requests or the deadline, Close for every connection.
Concluded(h) ==
    \/ h \in Worker /\ (h \notin loops \/ expired)
    \/ h = "http" /\ (Busy \cap Request = {} \/ expired)
    \/ h = "pool" /\ Holding = {}

HookReturns ==
    LET h == Hooks[started] IN
    /\ phase = "stopping" /\ inHook /\ Concluded(h)
    /\ inHook' = FALSE /\ started' = started - 1
    /\ pool' = IF h = "pool" THEN "closed" ELSE pool
    /\ UNCHANGED <<phase, failed, expired, code, listening, loops, cancelled, stage>>

Deadline ==
    /\ phase = "stopping" /\ ~expired
    /\ expired' = TRUE
    /\ UNCHANGED <<phase, started, inHook, failed, code, pool, listening, loops, cancelled, stage>>

\* app.Stop returned: after every hook, or at the deadline wherever they are.
Exit ==
    /\ phase = "stopping"
    /\ phase' = "exited"
    /\ \/ expired /\ code' = 1
       \/ started = 0 /\ code' = IF failed THEN 1 ELSE 0
    /\ UNCHANGED <<started, inHook, failed, expired, pool, listening, loops, cancelled, stage>>

-----------------------------------------------------------------------------
Next ==
    \/ Build \/ BuildFails \/ StartHook \/ StartFails \/ Started
    \/ \E u \in User : Take(u) \/ Acquire(u) \/ Release(u) \/ Finish(u)
    \/ \E w \in Worker : LoopReturns(w)
    \/ ServeFails
    \/ Signal \/ EnterHook \/ HookReturns \/ Deadline \/ Exit

Spec == Init /\ [][Next]_vars

\* Transactions end and work is finite, loops that are told return, and Fx goes on
\* with its hooks.  Nobody has to send a signal, and no deadline has to pass.
Fairness ==
    /\ \A u \in User : WF_vars(Release(u)) /\ SF_vars(Finish(u))
    /\ \A w \in Worker : WF_vars(LoopReturns(w))
    /\ WF_vars(EnterHook) /\ WF_vars(HookReturns) /\ WF_vars(Exit)

FairSpec == Spec /\ Fairness

-----------------------------------------------------------------------------
(***************************************************************************)
(* Properties.                                                             *)
(***************************************************************************)

\* The pool is closed "after the workers have stopped, never while one of them
\* is still holding a connection" (di/module.go:111-113), nor while a request
\* is served; however late each of them is.
PoolOutlivesItsUsers ==
    Alive /\ pool \in {"closing", "closed"} => loops = {} /\ Busy = {} /\ ~listening

\* A stop that got through its hooks, after a failed start too, has left nothing
\* behind; only one that the deadline cut leaves work to other instances.
CleanExitLeavesNothing ==
    phase = "exited" /\ (code = 0 \/ (failed /\ ~expired)) =>
        loops = {} /\ Busy = {} /\ ~listening /\ pool = "closed"

\* The hooks wait for nothing that is stopped already and for nobody who was not
\* told: as long as work ends, a stop gets to its end without the deadline, with
\* requests still coming while the workers drain.
StopsDrain == (phase = "stopping") ~> (phase = "exited" \/ expired)
=============================================================================
