------------------------------- MODULE Streams -------------------------------
(***************************************************************************)
(* The HTTP/2 streams one connection has in flight, and the idle wait on   *)
(* them: Streams, InFlight and Streams::idle of                            *)
(* crates/kynos/src/server/protocol/http2.rs.                              *)
(*                                                                         *)
(* hyper drops each response body on a task of its own, so opens, drops    *)
(* and the idle wait run concurrently.  Every atomic operation is one step *)
(* and so is every operation on the Notify, whose rules are tokio's: a     *)
(* notify_one with no waiter leaves one permit, `enable` takes the permit  *)
(* or registers, and dropping a notified waiter that was never polled      *)
(* passes its notification on.                                             *)
(***************************************************************************)
EXTENDS Integers, FiniteSets

CONSTANT Streams   \* the requests the client may send on the connection

ASSUME StreamsAssumption == IsFiniteSet(Streams)

VARIABLES
    opened, closed,  \* the two counters
    permit,          \* the Notify holds a permit nobody has taken
    waiter,          \* the Notified of the current turn of the idle loop
    stream,          \* where each stream stands
    closedWas,       \* the value of `closed` a drop's fetch_add left
    pc,              \* where the idle wait stands
    sawClosed, sawOpened,  \* its two readings
    busy             \* history: some stream was in flight since `closed` was read

vars == <<opened, closed, permit, waiter, stream, closedWas, pc, sawClosed,
          sawOpened, busy>>
idleVars == <<pc, sawClosed, sawOpened>>

StreamState == {"new", "open", "dropping", "gone"}
WaiterState == {"none", "registered", "notified"}
IdlePC == {"enable", "readClosed", "readOpened", "await", "sleep", "recheck",
           "resolved"}

N == Cardinality(Streams)

TypeOK ==
    /\ opened \in 0..N /\ closed \in 0..N
    /\ permit \in BOOLEAN /\ waiter \in WaiterState
    /\ stream \in [Streams -> StreamState]
    /\ closedWas \in [Streams -> 0..N]
    /\ pc \in IdlePC /\ sawClosed \in 0..N /\ sawOpened \in 0..N
    /\ busy \in BOOLEAN

Held == {s \in Streams : stream[s] = "open"}   \* guards not yet dropped

Init ==
    /\ opened = 0 /\ closed = 0
    /\ permit = FALSE /\ waiter = "none"
    /\ stream = [s \in Streams |-> "new"]
    /\ closedWas = [s \in Streams |-> 0]
    /\ pc = "enable" /\ sawClosed = 0 /\ sawOpened = 0
    /\ busy = FALSE

-----------------------------------------------------------------------------
(* A request head arrives: Streams::open counts it before the handler runs.*)
Open(s) ==
    /\ stream[s] = "new"
    /\ stream' = [stream EXCEPT ![s] = "open"]
    /\ opened' = opened + 1
    /\ busy' = TRUE
    /\ UNCHANGED <<closed, permit, waiter, closedWas, idleVars>>

(* The guard drops with the response body: first `closed` is counted...    *)
Drop(s) ==
    /\ stream[s] = "open"
    /\ stream' = [stream EXCEPT ![s] = "dropping"]
    /\ closed' = closed + 1
    /\ closedWas' = [closedWas EXCEPT ![s] = closed + 1]
    /\ UNCHANGED <<opened, permit, waiter, idleVars, busy>>

NotifyOne ==
    IF waiter = "registered" THEN waiter' = "notified" /\ UNCHANGED permit
                             ELSE permit' = TRUE /\ UNCHANGED waiter

(* Mutant: only a drop that finds the wait registered before it counts.    *)
DropWakesSleeper(s) ==
    /\ stream[s] = "dropping"
    /\ stream' = [stream EXCEPT ![s] = "gone"]
    /\ IF closedWas[s] = opened /\ pc \in {"await", "sleep"} THEN NotifyOne
                                ELSE UNCHANGED <<permit, waiter>>
    /\ UNCHANGED <<opened, closed, closedWas, idleVars, busy>>

(* ...then `opened` is read, and the close that left none wakes the wait.  *)
DropWakes(s) ==
    /\ stream[s] = "dropping"
    /\ stream' = [stream EXCEPT ![s] = "gone"]
    /\ IF closedWas[s] = opened THEN NotifyOne ELSE UNCHANGED <<permit, waiter>>
    /\ UNCHANGED <<opened, closed, closedWas, idleVars, busy>>

-----------------------------------------------------------------------------
(* Streams::idle.  A turn of its loop registers a waiter first.            *)
Enable ==
    /\ pc = "enable"
    /\ pc' = "readClosed"
    /\ permit' = FALSE
    /\ waiter' = IF permit THEN "notified" ELSE "registered"
    /\ UNCHANGED <<opened, closed, stream, closedWas, sawClosed, sawOpened, busy>>

ReadClosed ==
    /\ pc = "readClosed"
    /\ pc' = "readOpened"
    /\ sawClosed' = closed
    /\ busy' = (Held # {})
    /\ UNCHANGED <<opened, closed, permit, waiter, stream, closedWas, sawOpened>>

ReadOpened ==
    /\ pc = "readOpened"
    /\ sawOpened' = opened
    /\ pc' = IF opened = 0 \/ sawClosed # opened THEN "await" ELSE "sleep"
    /\ UNCHANGED <<opened, closed, permit, waiter, stream, closedWas, sawClosed,
                   busy>>

(* `quiet.await`, or the branch of the select! that it wakes: the turn is  *)
(* over, and its notification is used up.                                  *)
Woken ==
    /\ pc \in {"await", "sleep"}
    /\ waiter = "notified"
    /\ pc' = "enable"
    /\ waiter' = "none"
    /\ UNCHANGED <<opened, closed, permit, stream, closedWas, sawClosed,
                   sawOpened, busy>>

(* sleep(timeout) elapses.  The select! is not biased, so it may win over  *)
(* a notification that has come.                                           *)
TimerFires ==
    /\ pc = "sleep"
    /\ pc' = "recheck"
    /\ UNCHANGED <<opened, closed, permit, waiter, stream, closedWas, sawClosed,
                   sawOpened, busy>>

(* The Notified of the turn is dropped: a notification it had not been     *)
(* polled for goes back to the Notify.                                     *)
DropWaiter ==
    /\ waiter' = "none"
    /\ permit' = (permit \/ waiter = "notified")

(* Mutant: the sleep alone decides.                                        *)
RecheckNothing ==
    /\ pc = "recheck"
    /\ pc' = "resolved"
    /\ DropWaiter
    /\ UNCHANGED <<opened, closed, stream, closedWas, sawClosed, sawOpened, busy>>

(* A stream still in flight wakes nothing, so `opened` is read again.      *)
Recheck ==
    /\ pc = "recheck"
    /\ pc' = IF opened = sawOpened THEN "resolved" ELSE "enable"
    /\ DropWaiter
    /\ UNCHANGED <<opened, closed, stream, closedWas, sawClosed, sawOpened, busy>>

(* `drive` starts a fresh wait once one resolved, for the drain.           *)
Again ==
    /\ pc = "resolved"
    /\ pc' = "enable"
    /\ UNCHANGED <<opened, closed, permit, waiter, stream, closedWas, sawClosed,
                   sawOpened, busy>>

(* It drops one that is suspended when a stop is read, for the same.       *)
Abandon ==
    /\ pc \in {"await", "sleep"}
    /\ pc' = "enable"
    /\ DropWaiter
    /\ UNCHANGED <<opened, closed, stream, closedWas, sawClosed, sawOpened, busy>>

IdleStep == Enable \/ ReadClosed \/ ReadOpened \/ Woken \/ Recheck

Next ==
    \/ \E s \in Streams : Open(s) \/ Drop(s) \/ DropWakes(s)
    \/ IdleStep \/ TimerFires \/ Again \/ Abandon

(* Module Connection says what the task that waits does besides, and which *)
(* of these steps are bound to happen.                                     *)
Spec == Init /\ [][Next]_vars

-----------------------------------------------------------------------------
(* The wait resolves only after an idle period: some stream was served     *)
(* before, and none was in flight at any moment from its reading of the    *)
(* counters to the end of the sleep.                                       *)
ResolvesOnlyWhenQuiet ==
    [][pc # "resolved" /\ pc' = "resolved" => ~busy /\ Held = {} /\ opened > 0]_vars

(* No wake-up is lost: a wait with nothing in flight any more has been     *)
(* notified, or a drop that will notify it is under way.                   *)
NoLostWakeup ==
    pc = "await" /\ opened > 0 /\ Held = {} =>
        waiter = "notified" \/ \E s \in Streams : stream[s] = "dropping"
=============================================================================
