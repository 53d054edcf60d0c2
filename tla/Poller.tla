------------------------------- MODULE Poller -------------------------------
(***************************************************************************)
(* The analyser process: the lifespan that opens the pool and starts the   *)
(* background poller, the loop coroutine, the worker thread that runs its  *)
(* passes, the LISTEN connection that wakes it, the shutdown, and crashes  *)
(* followed by a restart.  The database outlives the process.              *)
(*                                                                         *)
(* Coroutines run between awaits without interruption; the thread and the  *)
(* database run at any time.  Events commit in the order of ingest_seq     *)
(* here (Analysis has the general case), so a number says which of them    *)
(* are committed and which examined.                                       *)
(***************************************************************************)
EXTENDS Naturals

CONSTANTS
    Limit,              \* batch_size
    RecentErrorLimit,   \* RECENT_ERROR_LIMIT
    MaxEvents,          \* bound: events of a behaviour
    MaxFaults,          \* bound: passes that fail in a row
    MaxCrashes          \* bound: processes that die or cannot start

ASSUME PollerAssumption ==
    /\ Limit \in Nat \ {0}
    /\ RecentErrorLimit \in Nat \ {0}
    /\ MaxEvents \in Nat
    /\ MaxFaults \in Nat
    /\ MaxCrashes \in Nat

VARIABLES
    committed,  \* events 1..committed are visible
    cursor,     \* analysis_cursor: events 1..cursor are behind it
    examined,   \* events 1..examined have been behind it
    left,       \* what transactions of dead processes may still write to it
    life,       \* progress of the lifespan
    crashes,    \* processes that died so far
    loop,       \* where _loop is suspended
    thread,     \* the pass in the executor, and how far it is
    target,     \* the cursor the pass has read, then the last event of its batch
    result,     \* outcome of the pass: short, full or failed
    failures,   \* PollerState.consecutive_failures
    errors,     \* length of PollerState.recent_errors
    wakeup,     \* the asyncio.Event of the listener
    listener,   \* where _run is suspended
    link,       \* the LISTEN session: down, subscribed or dead (half open)
    pending     \* a notification is on its way

dbVars == <<committed, cursor, examined, left>>
lifeVars == <<life, crashes>>
passVars == <<thread, target, result>>
stateVars == <<failures, errors>>
listenVars == <<wakeup, listener, link, pending>>
vars == <<dbVars, lifeVars, loop, passVars, stateVars, listenVars>>

(* PollerState.running, the poller_running of GET /healthz.                *)
Running == life = "serving"

PoolOpen == life \in {"serving", "loop", "listener", "pool"}

-----------------------------------------------------------------------------
Init ==
    /\ committed = 0 /\ cursor = 0 /\ examined = 0 /\ left = {}
    /\ life = "starting" /\ crashes = 0
    /\ loop = "none"
    /\ thread = "none" /\ target = 0 /\ result = "short"
    /\ failures = 0 /\ errors = 0
    /\ wakeup = FALSE /\ listener = "none" /\ link = "down" /\ pending = FALSE

(* db.open() returns and start() is called, with a listener or without.    *)
Start ==
    /\ life = "starting"
    /\ life' = "serving"
    /\ loop' = "created"
    /\ listener' \in {"dialling", "none"}
    /\ UNCHANGED <<dbVars, crashes, passVars, stateVars, wakeup, link, pending>>

-----------------------------------------------------------------------------
(* Ingestion.                                                              *)

(* An event commits; the trigger's NOTIFY reaches a subscribed session.    *)
CommitEvent ==
    /\ committed < MaxEvents
    /\ committed' = committed + 1
    /\ pending' = (pending \/ link = "subscribed")
    /\ UNCHANGED <<cursor, examined, left, lifeVars, loop, passVars, stateVars,
                   wakeup, listener, link>>

-----------------------------------------------------------------------------
(* The pass, run_once in a worker thread.                                  *)

Smaller(m, n) == IF m < n THEN m ELSE n
Larger(m, n) == IF m < n THEN n ELSE m

GetCursor ==
    /\ thread = "reading" /\ PoolOpen
    /\ target' = cursor
    /\ thread' = "fetching"
    /\ UNCHANGED <<dbVars, lifeVars, loop, result, stateVars, listenVars>>

(* The batch behind the cursor as it was read, if there is one.            *)
FetchBatch ==
    /\ thread = "fetching" /\ PoolOpen
    /\ target' = Smaller(committed, target + Limit)
    /\ result' = IF target' - target = Limit THEN "full" ELSE "short"
    /\ thread' = IF target' = target THEN "done" ELSE "read"
    /\ UNCHANGED <<dbVars, lifeVars, loop, stateVars, listenVars>>

BeginWrite ==
    /\ thread = "read" /\ PoolOpen
    /\ thread' = "writing"
    /\ UNCHANGED <<dbVars, lifeVars, loop, target, result, stateVars, listenVars>>

MoveCursor(n) ==
    /\ cursor' = n
    /\ examined' = Larger(examined, n)
    /\ UNCHANGED committed

(* A transaction that has its connection commits although the pool closes. *)
CommitPass ==
    /\ thread = "writing"
    /\ MoveCursor(target)
    /\ thread' = "done"
    /\ UNCHANGED <<left, lifeVars, loop, target, result, stateVars, listenVars>>

(* failures counts the failed passes in a row: it is the bound on faults.  *)
(* A closed pool refuses the next connection.                              *)
PassFails ==
    /\ \/ thread \in {"reading", "fetching", "read", "writing"} /\ failures < MaxFaults
       \/ thread \in {"reading", "fetching", "read"} /\ ~PoolOpen
    /\ result' = "failed"
    /\ thread' = "done"
    /\ UNCHANGED <<dbVars, lifeVars, loop, target, stateVars, listenVars>>

-----------------------------------------------------------------------------
(* The loop coroutine.                                                     *)

BeginPass ==
    /\ loop' = "pass"
    /\ thread' = "reading"
    /\ UNCHANGED <<target, result>>

FirstPass ==
    /\ Running /\ loop = "created"
    /\ BeginPass
    /\ UNCHANGED <<dbVars, lifeVars, stateVars, listenVars>>

(* Mutant of Remember: recent_errors is not cut back.                      *)
RememberAll == errors' = errors + 1

(* recent_errors keeps its last entries.                                   *)
Remember == errors' = Smaller(errors + 1, RecentErrorLimit)

(* Mutant of AfterFailure: the exception escapes and the task is over.     *)
AfterFailureEscapes == loop' = "none"

(* The loop sleeps for its backoff; notifications do not cut it short.     *)
AfterFailure == loop' = "backoff"

PassFailed ==
    /\ Running /\ loop = "pass" /\ thread = "done" /\ result = "failed"
    /\ failures' = failures + 1
    /\ Remember
    /\ AfterFailure
    /\ thread' = "none"
    /\ UNCHANGED <<dbVars, lifeVars, target, result, listenVars>>

(* Mutant of AwaitWork: the flag is cleared before the wait, not after it. *)
AwaitWorkCleared ==
    /\ loop' = "waiting"
    /\ wakeup' = FALSE
    /\ UNCHANGED <<listener, link, pending>>

(* _wait_for_work: nothing is cleared on the way in.                       *)
AwaitWork ==
    /\ loop' = "waiting"
    /\ UNCHANGED listenVars

PassSucceeded ==
    /\ Running /\ loop = "pass" /\ thread = "done"
    /\ failures' = 0
    /\ errors' = 0
    /\ \/ result = "full" /\ BeginPass /\ UNCHANGED listenVars
       \/ result = "short" /\ AwaitWork /\ thread' = "none" /\ UNCHANGED <<target, result>>
    /\ UNCHANGED <<dbVars, lifeVars>>

BackoffEnds ==
    /\ Running /\ loop = "backoff"
    /\ BeginPass
    /\ UNCHANGED <<dbVars, lifeVars, stateVars, listenVars>>

(* wait() returns True, clears the flag, and the next pass starts with no  *)
(* await in between.                                                       *)
Notified ==
    /\ Running /\ loop = "waiting" /\ wakeup
    /\ wakeup' = FALSE
    /\ BeginPass
    /\ UNCHANGED <<dbVars, lifeVars, stateVars, listener, link, pending>>

(* wait() times out; a flag set at that very moment stays set.             *)
IntervalEnds ==
    /\ Running /\ loop = "waiting"
    /\ BeginPass
    /\ UNCHANGED <<dbVars, lifeVars, stateVars, listenVars>>

-----------------------------------------------------------------------------
(* The listener coroutine.                                                 *)

ListenStep ==
    UNCHANGED <<dbVars, lifeVars, loop, passVars, stateVars>>

(* The server executes LISTEN.                                             *)
Subscribe ==
    /\ listener = "dialling" /\ link = "down"
    /\ link' = "subscribed"
    /\ ListenStep /\ UNCHANGED <<wakeup, listener, pending>>

(* LISTEN has returned: whatever was committed before is worth a wakeup.   *)
Subscribed ==
    /\ listener = "dialling" /\ link # "down"
    /\ listener' = "listening"
    /\ wakeup' = TRUE
    /\ ListenStep /\ UNCHANGED <<link, pending>>

Deliver ==
    /\ listener = "listening" /\ pending
    /\ wakeup' = TRUE
    /\ pending' = FALSE
    /\ ListenStep /\ UNCHANGED <<listener, link>>

(* The connection is gone; the client has not noticed.                     *)
LinkDies ==
    /\ link = "subscribed"
    /\ link' = "dead"
    /\ pending' = FALSE
    /\ ListenStep /\ UNCHANGED <<wakeup, listener>>

(* The connection cannot be opened, or is found broken: sleep and redial.  *)
ListenFails ==
    /\ \/ listener = "dialling"
       \/ listener = "listening" /\ link = "dead"
    /\ listener' = "sleeping"
    /\ link' = "down"
    /\ pending' = FALSE
    /\ ListenStep /\ UNCHANGED wakeup

Redial ==
    /\ listener = "sleeping"
    /\ listener' = "dialling"
    /\ ListenStep /\ UNCHANGED <<wakeup, link, pending>>

-----------------------------------------------------------------------------
(* The shutdown: stop() cancels the loop and waits for it, then the        *)
(* listener; then the pool is closed and the process ends.                 *)

Stop ==
    /\ Running
    /\ life' = "loop"
    /\ UNCHANGED <<dbVars, crashes, loop, passVars, stateVars, listenVars>>

(* Mutant of LoopCancelled: the task waits for its worker thread.          *)
LoopCancelledAfterPass ==
    /\ life = "loop"
    /\ thread \in {"none", "done"}
    /\ loop' = "none"
    /\ life' = "listener"
    /\ UNCHANGED <<dbVars, crashes, passVars, stateVars, listenVars>>

(* Mutant of LoopCancelled: the task is cancelled and not waited for.      *)
LoopCancelledUnawaited ==
    /\ life = "loop"
    /\ life' = "listener"
    /\ UNCHANGED <<dbVars, crashes, loop, passVars, stateVars, listenVars>>

(* The cancellation reaches the task wherever it is suspended.  The thread *)
(* of a pass cannot be cancelled: it runs on, and nobody reads its result. *)
LoopCancelled ==
    /\ life = "loop"
    /\ loop' = "none"
    /\ life' = "listener"
    /\ UNCHANGED <<dbVars, crashes, passVars, stateVars, listenVars>>

ListenerCancelled ==
    /\ life = "listener"
    /\ listener' = "none"
    /\ link' = "down"
    /\ pending' = FALSE
    /\ life' = "pool"
    /\ UNCHANGED <<dbVars, crashes, loop, passVars, stateVars, wakeup>>

(* db.close() waits for nobody.                                            *)
ClosePool ==
    /\ life = "pool"
    /\ life' = "closed"
    /\ UNCHANGED <<dbVars, crashes, loop, passVars, stateVars, listenVars>>

(* A process keeps nothing: the next one starts as the first did.          *)
ProcessEnds ==
    /\ life' = "down"
    /\ loop' = "none"
    /\ thread' = "none" /\ target' = 0 /\ result' = "short"
    /\ failures' = 0 /\ errors' = 0
    /\ wakeup' = FALSE /\ listener' = "none" /\ link' = "down" /\ pending' = FALSE

(* The interpreter joins the thread of an abandoned pass before it ends.   *)
Exit ==
    /\ life = "closed" /\ thread \in {"none", "done"}
    /\ ProcessEnds
    /\ UNCHANGED <<dbVars, crashes>>

-----------------------------------------------------------------------------
(* Crashes: the process dies, or db.open() fails and the lifespan with it. *)
(* A COMMIT that was on its way may still be executed.                     *)
Crash ==
    /\ life # "down" /\ crashes < MaxCrashes
    /\ crashes' = crashes + 1
    /\ left' = left \cup (IF thread = "writing" THEN {target} ELSE {})
    /\ ProcessEnds
    /\ UNCHANGED <<committed, cursor, examined>>

LeftBehind ==
    /\ \E n \in left :
         /\ left' = left \ {n}
         /\ MoveCursor(n) \/ UNCHANGED <<committed, cursor, examined>>
    /\ UNCHANGED <<lifeVars, loop, passVars, stateVars, listenVars>>

(* restart: unless-stopped; after a shutdown, whenever it is started again *)
Restart ==
    /\ life = "down"
    /\ life' = "starting"
    /\ UNCHANGED <<dbVars, crashes, loop, passVars, stateVars, listenVars>>

-----------------------------------------------------------------------------
Pass == GetCursor \/ FetchBatch \/ BeginWrite \/ CommitPass

Coroutine == FirstPass \/ PassFailed \/ PassSucceeded \/ Notified

Timer == BackoffEnds \/ IntervalEnds

Listen == Subscribe \/ Subscribed \/ Deliver \/ LinkDies \/ ListenFails \/ Redial

Stopping == LoopCancelled \/ ListenerCancelled \/ ClosePool

Next ==
    \/ Start
    \/ CommitEvent
    \/ Pass
    \/ PassFails
    \/ Coroutine
    \/ Timer
    \/ Listen
    \/ Stop
    \/ Stopping
    \/ Exit
    \/ Crash
    \/ LeftBehind
    \/ Restart

Spec == Init /\ [][Next]_vars

(* The event loop resumes what it can and its timers fire; a process that  *)
(* starts gets its connections.  A pass that does not fail comes to its    *)
(* end while the service runs; one that stop() leaves behind may hang.     *)
(* Nothing is assumed of the listener: the interval alone has to be        *)
(* enough.                                                                 *)
FairSpec ==
    /\ Spec
    /\ WF_vars(Start) /\ WF_vars(Coroutine) /\ WF_vars(Timer) /\ WF_vars(Stopping)
    /\ WF_vars(Running /\ Pass)

-----------------------------------------------------------------------------
(* Properties.                                                             *)

(* Every variable keeps its type; recent_errors stays within its limit and *)
(* is empty exactly when the last pass succeeded.                          *)
TypeOK ==
    /\ committed \in 0 .. MaxEvents
    /\ examined \in 0 .. committed /\ cursor \in 0 .. examined
    /\ left \subseteq 1 .. committed
    /\ life \in {"starting", "serving", "loop", "listener", "pool", "closed", "down"}
    /\ crashes \in 0 .. MaxCrashes
    /\ loop \in {"none", "created", "pass", "backoff", "waiting"}
    /\ thread \in {"none", "reading", "fetching", "read", "writing", "done"}
    /\ target \in 0 .. committed
    /\ result \in {"short", "full", "failed"}
    /\ failures \in 0 .. MaxFaults
    /\ errors = Smaller(failures, RecentErrorLimit)
    /\ wakeup \in BOOLEAN
    /\ listener \in {"none", "dialling", "listening", "sleeping"}
    /\ link \in {"down", "subscribed", "dead"}
    /\ pending \in BOOLEAN

(* A poller that says it is running has a loop, whatever its passes did    *)
(* ("a crashed poller would leave the service up and apparently healthy"), *)
(* and no loop outlives the pool its passes need.                          *)
LoopLives ==
    /\ Running => loop # "none"
    /\ ~PoolOpen => loop = "none" /\ listener = "none"

(* The loop never sleeps through work while its subscription is alive: if  *)
(* it waits with the flag clear and no notification on its way, nothing is *)
(* left that was not examined.                                             *)
NeverSleepsThroughWork ==
    /\ loop = "waiting" /\ ~wakeup
    /\ listener = "listening" /\ link = "subscribed" /\ ~pending
    => examined = committed

(* "A missed notification costs latency, never correctness": the cursor    *)
(* passes a committed event in the end, whatever becomes of notifications, *)
(* of passes that dead processes left behind and move it back, and of the  *)
(* process itself, unless it stays down or is being stopped.               *)
EventuallyExamined ==
    \A n \in 1 .. MaxEvents :
        committed >= n ~> cursor >= n \/ life \notin {"starting", "serving"}

(* The shutdown closes the pool even if the pass under way hangs in the    *)
(* database, or the process dies on the way.                               *)
StopReturns == (life = "loop") ~> (life \in {"closed", "down"})
=============================================================================
