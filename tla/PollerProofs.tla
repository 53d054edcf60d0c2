---------------------------- MODULE PollerProofs ----------------------------
(***************************************************************************)
(* The analyser process never loses a wakeup and never says it is polling  *)
(* without a loop, proved for every batch size, every bound on events,     *)
(* failures and crashes.                                                   *)
(***************************************************************************)
EXTENDS Poller, TLAPS

(* A failed pass that the loop is about to count is one the bound allows:  *)
(* only a pool that has closed lets further passes fail.                   *)
FailuresCounted ==
    Running /\ thread = "done" /\ result = "failed" => failures < MaxFaults

(* A process that is not up has neither loop nor thread nor listener, and  *)
(* its shutdown takes them down in order.                                  *)
InOrderDown ==
    /\ life \in {"starting", "down"} => thread = "none" /\ loop = "none"
    /\ life \in {"listener", "pool", "closed"} => loop = "none"
    /\ life \in {"starting", "pool", "closed", "down"} => listener = "none"
    /\ Running => loop # "none"
    /\ Running => (loop = "pass" <=> thread # "none")

(* Whatever commits next, the loop will hear of it, or has already.        *)
Alerted ==
    wakeup \/ pending \/ listener # "listening" \/ link # "subscribed"

(* A pass that found less than a batch has left nothing behind, unless the *)
(* loop will hear of what was committed since: from the read of the batch  *)
(* to the wait.                                                            *)
NothingUnheard ==
    /\ Running /\ thread \in {"read", "writing"} /\ result = "short"
         => target = committed \/ Alerted
    /\ Running /\ thread = "done" /\ result = "short" => examined = committed \/ Alerted
    /\ loop = "waiting" => examined = committed \/ Alerted

(* A pass starts from a value the cursor has had, and one that goes on to  *)
(* write has read a batch that is not empty.                               *)
BatchRead ==
    /\ thread = "fetching" => target <= examined
    /\ thread \in {"read", "writing"} => target # 0 /\ result # "failed"

PollerInv == TypeOK /\ BatchRead /\ FailuresCounted /\ InOrderDown /\ NothingUnheard

-----------------------------------------------------------------------------
(* Nothing is committed, nothing runs.                                     *)
LEMMA PollerInitInv == Init => PollerInv
<1>. SUFFICES ASSUME Init PROVE PollerInv
  OBVIOUS
<1>1. wakeup \in BOOLEAN /\ pending \in BOOLEAN
  BY DEF Init
<1>2. errors = Smaller(failures, RecentErrorLimit)
  BY PollerAssumption DEF Init, Smaller
<1>3. TypeOK
  BY <1>1, <1>2, PollerAssumption DEF Init, TypeOK
<1>4. BatchRead /\ FailuresCounted /\ InOrderDown /\ NothingUnheard
  BY DEF Init, BatchRead, FailuresCounted, InOrderDown, NothingUnheard, Running
<1>. QED BY <1>3, <1>4 DEF PollerInv

(* The smaller of two numbers is one of them.                              *)
LEMMA SmallerIs ==
    ASSUME NEW m \in Nat, NEW n \in Nat
    PROVE  /\ Smaller(m, n) \in {m, n}
           /\ Smaller(m, n) <= m
           /\ Smaller(m, n) <= n
BY DEF Smaller

(* A process that has ended satisfies everything said of processes.        *)
LEMMA EndedProcess ==
    ASSUME ProcessEnds, left' \subseteq 1 .. committed', crashes' \in 0 .. MaxCrashes,
           committed' \in 0 .. MaxEvents, examined' \in 0 .. committed', cursor' \in 0 .. examined'
    PROVE  PollerInv'
<1>1. errors' = Smaller(failures', RecentErrorLimit)
  BY PollerAssumption DEF ProcessEnds, Smaller
<1>2. wakeup' \in BOOLEAN /\ pending' \in BOOLEAN
  BY DEF ProcessEnds
<1>3. /\ life' = "down" /\ loop' = "none" /\ thread' = "none" /\ target' = 0 /\ result' = "short"
      /\ failures' = 0 /\ listener' = "none" /\ link' = "down"
  BY DEF ProcessEnds
<1>4. TypeOK'
  BY <1>1, <1>2, <1>3, PollerAssumption DEF TypeOK
<1>5. (BatchRead /\ FailuresCounted /\ InOrderDown /\ NothingUnheard)'
  BY DEF ProcessEnds, BatchRead, FailuresCounted, InOrderDown, NothingUnheard, Running
<1>. QED BY <1>4, <1>5 DEF PollerInv

(* Every step of the process, the database and the listener keeps the      *)
(* invariant.                                                              *)
LEMMA PollerStepInv == PollerInv /\ [Next]_vars => PollerInv'
<1>. SUFFICES ASSUME PollerInv, [Next]_vars PROVE PollerInv'
  OBVIOUS
<1>. USE PollerAssumption DEF PollerInv, TypeOK, BatchRead, FailuresCounted, InOrderDown,
         NothingUnheard, Running, Alerted
<1>1. CASE Start
  BY <1>1 DEF Start, dbVars, passVars, stateVars
<1>2. CASE CommitEvent
  <2>1. pending' \in BOOLEAN /\ (pending' <=> pending \/ link = "subscribed")
    BY <1>2 DEF CommitEvent
  <2>2. /\ committed' = committed + 1 /\ committed < MaxEvents
        /\ UNCHANGED <<cursor, examined, left, lifeVars, loop, passVars, stateVars,
                       wakeup, listener, link>>
    BY <1>2 DEF CommitEvent
  <2>. QED BY <2>1, <2>2 DEF lifeVars, passVars, stateVars
<1>20. CASE GetCursor
  BY <1>20 DEF GetCursor, dbVars, lifeVars, stateVars, listenVars
<1>3. CASE FetchBatch
  <2>1. /\ thread = "fetching"
        /\ target' = Smaller(committed, target + Limit)
        /\ result' = IF target' - target = Limit THEN "full" ELSE "short"
        /\ thread' = IF target' = target THEN "done" ELSE "read"
        /\ UNCHANGED <<dbVars, lifeVars, loop, stateVars, listenVars>>
    BY <1>3 DEF FetchBatch
  <2>2. target' \in 0 .. committed
    BY <2>1, SmallerIs
  <2>3. result' = "short" => target' = committed
    BY <2>1 DEF Smaller
  <2>. QED BY <2>1, <2>2, <2>3 DEF dbVars, lifeVars, stateVars, listenVars
<1>4. CASE BeginWrite
  BY <1>4 DEF BeginWrite, dbVars, lifeVars, stateVars, listenVars
<1>5. CASE CommitPass
  <2>1. /\ thread = "writing" /\ thread' = "done"
        /\ cursor' = target /\ examined' = Larger(examined, target)
        /\ UNCHANGED <<committed, left, lifeVars, loop, target, result, stateVars, listenVars>>
    BY <1>5 DEF CommitPass, MoveCursor
  <2>2. examined' \in 0 .. committed /\ target <= examined' /\ examined <= examined'
    BY <2>1 DEF Larger
  <2>. QED BY <2>1, <2>2 DEF lifeVars, stateVars, listenVars
<1>6. CASE PassFails
  BY <1>6 DEF PassFails, PoolOpen, dbVars, lifeVars, stateVars, listenVars
<1>7. CASE FirstPass
  BY <1>7 DEF FirstPass, BeginPass, dbVars, lifeVars, stateVars, listenVars
<1>8. CASE PassFailed
  BY <1>8 DEF PassFailed, Remember, AfterFailure, Smaller, dbVars, lifeVars, listenVars
<1>9. CASE PassSucceeded
  BY <1>9 DEF PassSucceeded, BeginPass, AwaitWork, Smaller, dbVars, lifeVars, listenVars
<1>10. CASE Notified
  BY <1>10 DEF Notified, BeginPass, dbVars, lifeVars, stateVars
<1>11. CASE Timer
  BY <1>11 DEF Timer, BackoffEnds, IntervalEnds, BeginPass, dbVars, lifeVars, stateVars, listenVars
<1>12. CASE Listen
  <2>1. UNCHANGED <<dbVars, lifeVars, loop, passVars, stateVars>>
    BY <1>12 DEF Listen, Subscribe, Subscribed, Deliver, LinkDies, ListenFails, Redial, ListenStep
  <2>2. /\ wakeup' \in BOOLEAN /\ pending' \in BOOLEAN
        /\ link' \in {"down", "subscribed", "dead"}
        /\ listener' \in {"none", "dialling", "listening", "sleeping"}
        /\ listener = "none" => listener' = "none"
    BY <1>12 DEF Listen, Subscribe, Subscribed, Deliver, LinkDies, ListenFails, Redial
  <2>3. Alerted => Alerted'
    BY <1>12 DEF Listen, Subscribe, Subscribed, Deliver, LinkDies, ListenFails, Redial
  <2>. HIDE DEF Alerted
  <2>. QED BY <2>1, <2>2, <2>3 DEF dbVars, lifeVars, passVars, stateVars
<1>13. CASE Stop
  BY <1>13 DEF Stop, dbVars, passVars, stateVars, listenVars
<1>14. CASE Stopping
  <2>1. CASE LoopCancelled
    BY <2>1 DEF LoopCancelled, dbVars, passVars, stateVars, listenVars
  <2>2. CASE ListenerCancelled
    BY <2>2 DEF ListenerCancelled, dbVars, passVars, stateVars
  <2>3. CASE ClosePool
    BY <2>3 DEF ClosePool, dbVars, passVars, stateVars, listenVars
  <2>. QED BY <1>14, <2>1, <2>2, <2>3 DEF Stopping
<1>15. CASE Exit
  BY <1>15, EndedProcess DEF Exit, dbVars
<1>16. CASE Crash
  <2>1. /\ left' = left \cup (IF thread = "writing" THEN {target} ELSE {})
        /\ crashes < MaxCrashes /\ crashes' = crashes + 1
        /\ ProcessEnds /\ UNCHANGED <<committed, cursor, examined>>
    BY <1>16 DEF Crash
  <2>2. left' \subseteq 1 .. committed'
    BY <2>1
  <2>. QED BY <2>1, <2>2, EndedProcess
<1>17. CASE LeftBehind
  BY <1>17 DEF LeftBehind, MoveCursor, Larger, lifeVars, passVars, stateVars, listenVars
<1>18. CASE Restart
  BY <1>18 DEF Restart, dbVars, passVars, stateVars, listenVars
<1>19. CASE UNCHANGED vars
  BY <1>19 DEF vars, dbVars, lifeVars, passVars, stateVars, listenVars
<1>. QED
  BY <1>1, <1>2, <1>3, <1>4, <1>5, <1>6, <1>7, <1>8, <1>9, <1>10, <1>11, <1>12, <1>13,
     <1>14, <1>15, <1>16, <1>17, <1>18, <1>19, <1>20 DEF Next, Pass, Coroutine

(* The invariant holds in every reachable state.                           *)
LEMMA PollerInvariant == Spec => []PollerInv
BY PollerInitInv, PollerStepInv, PTL DEF Spec

-----------------------------------------------------------------------------
(* Type correctness: the cursor never passes what is committed, whatever   *)
(* dead processes left behind, failures stay within their bound and        *)
(* recent_errors within its limit (PollerState, poller.py).                *)
THEOREM PollerTypeOK == Spec => []TypeOK
<1>1. PollerInv => TypeOK
  BY DEF PollerInv
<1>. QED BY <1>1, PollerInvariant, PTL

(* /healthz never reports a poller whose loop is gone, and no loop or      *)
(* listener outlives the pool, through any failures, crashes and restarts. *)
THEOREM PollerLoopLives == Spec => []LoopLives
<1>1. PollerInv => LoopLives
  BY DEF PollerInv, TypeOK, InOrderDown, LoopLives, Running, PoolOpen
<1>. QED BY <1>1, PollerInvariant, PTL

(* No lost wakeup: while the subscription is alive, the loop does not wait *)
(* with a committed event unexamined and no wakeup on its way.             *)
THEOREM PollerNeverSleepsThroughWork == Spec => []NeverSleepsThroughWork
<1>1. PollerInv => NeverSleepsThroughWork
  BY DEF PollerInv, NothingUnheard, NeverSleepsThroughWork, Alerted
<1>. QED BY <1>1, PollerInvariant, PTL
=============================================================================
