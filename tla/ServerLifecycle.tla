--------------------------- MODULE ServerLifecycle ---------------------------
(***************************************************************************)
(* BoundServer::serve, its accept loops and the connection tasks they own: *)
(* crates/kynos/src/server/{mod,accept,connection,lifecycle}.rs.           *)
(*                                                                         *)
(* The processes are the future of `serve`, one accept-loop task for each  *)
(* listener and one task for each accepted connection.  They share the     *)
(* watch channel `lifecycle`, the connection semaphore and the unbounded   *)
(* channel of accept failures.  A biased `select!` polls its branches one  *)
(* after the other, and the tasks it watches run on other workers of the   *)
(* runtime meanwhile: where the gap between two polls can be observed,     *)
(* each poll is a step of its own.                                         *)
(***************************************************************************)
EXTENDS Integers, FiniteSets

CONSTANTS
    Listeners,       \* the bound listeners, one accept loop each
    Conns,           \* the connections clients may open
    MaxConnections,  \* TransportConfig::max_connections
    Tls,             \* TransportConfig::tls is Some
    ZeroTimeouts     \* what shutdown_timeout.is_zero() may be: set once, read once

ASSUME ListenersAssumption == IsFiniteSet(Listeners) /\ Listeners # {}
ASSUME ConnsAssumption == IsFiniteSet(Conns)
ASSUME MaxConnectionsAssumption == MaxConnections \in Nat \ {0}
ASSUME SettingsAssumption ==
    Tls \in BOOLEAN /\ ZeroTimeouts \subseteq BOOLEAN /\ ZeroTimeouts # {}

VARIABLES
    pc,         \* where the serve future stands
    lifecycle,  \* the value of the watch channel
    registered, \* the shutdown future has registered its signal listener
    signal,     \* a shutdown signal was delivered and not yet received
    trigger,    \* what requested the stop: an OS signal, a custom future, nobody
    timer,      \* the sleep of shutdown_timeout has elapsed
    rootError,  \* root_error
    drain,      \* the outcome of the drain
    result,     \* what serve returned
    failures,   \* listeners whose ServerError::Accept is in the channel
    loop,       \* where each accept loop stands
    joined,     \* accept loops whose outcome the JoinSet has handed over
    loopAbort,  \* the accept loops were told to abort
    permits,    \* free permits of the connection semaphore
    conn,       \* where each connection stands
    owner,      \* the accept loop whose JoinSet holds the connection's task
    aborted,    \* connection tasks told to abort
    late        \* history: connections accepted after the stop began

serverVars == <<pc, registered, signal, trigger, timer, rootError, drain,
                result, joined>>
loopVars == <<loop, loopAbort, failures, permits>>
connVars == <<conn, owner, aborted, late>>
vars == <<serverVars, lifecycle, loopVars, connVars>>

None == "none"

ServerPC == {"failures", "join", "shutdown",       \* the first select!
             "force", "joinAll", "sleep",          \* the select! of the drain
             "abort", "joinAborted", "return",
             "returned", "dropped"}
Lifecycle == {"Running", "Draining", "Forced"}
Trigger == {None, "os", "custom"}
Drain == {None, "Complete", "TimedOut", "Forced"}
RootError == {None, "Accept", "AcceptLoop", "Signal"}
Result == RootError \cup {"Ok", "ShutdownTimeout", "ShutdownForced"}
LoopState == {"acquire", "accept", "acceptIo", "backoff", "drain", "shutdown",
              "done", "panicked", "aborted"}
HoldsPermit == {"accept", "acceptIo"}   \* between acquire_owned and spawn
LoopOver == {"done", "panicked", "aborted"}
ConnState == {None, "handshake", "serving", "draining", "finished", "cut"}
LiveState == {"handshake", "serving", "draining"}

TypeOK ==
    /\ pc \in ServerPC
    /\ lifecycle \in Lifecycle
    /\ registered \in BOOLEAN /\ signal \in BOOLEAN
    /\ trigger \in Trigger /\ timer \in BOOLEAN
    /\ rootError \in RootError /\ drain \in Drain /\ result \in Result
    /\ failures \subseteq Listeners
    /\ loop \in [Listeners -> LoopState]
    /\ joined \subseteq Listeners
    /\ loopAbort \in BOOLEAN
    /\ permits \in 0..MaxConnections
    /\ conn \in [Conns -> ConnState]
    /\ owner \in [Conns -> Listeners \cup {None}]
    /\ aborted \subseteq Conns
    /\ late \subseteq Conns

Live == {c \in Conns : conn[c] \in LiveState}
Owned(l) == {c \in Conns : owner[c] = l}
Over(l) == loop[l] \in LoopOver

(* A receiver whose sender is gone reads as stopped: `wait_for` fails.     *)
SenderGone == pc \in {"returned", "dropped"}

(* Mutant: only a forced stop is watched for.                              *)
StoppingWhenForced == lifecycle = "Forced" \/ SenderGone

Stopping == lifecycle # "Running" \/ SenderGone
ForcedSeen == lifecycle = "Forced" \/ SenderGone

(* What wait_until_stopping resolves to once Stopping holds.               *)
StopState == IF lifecycle = "Running" THEN "Forced" ELSE lifecycle

Init ==
    /\ pc = "failures" /\ lifecycle = "Running"
    /\ registered = FALSE /\ signal = FALSE
    /\ trigger = None /\ timer = FALSE
    /\ rootError = None /\ drain = None /\ result = None
    /\ failures = {} /\ joined = {} /\ loopAbort = FALSE
    /\ loop = [l \in Listeners |-> "acquire"]
    /\ permits = MaxConnections
    /\ conn = [c \in Conns |-> None]
    /\ owner = [c \in Conns |-> None]
    /\ aborted = {} /\ late = {}

-----------------------------------------------------------------------------
(* The serve future.                                                       *)

(* send_replace(Draining); a zero shutdown_timeout skips the drain.        *)
BeginDrain ==
    /\ lifecycle' = "Draining"
    /\ \E zero \in ZeroTimeouts :
         /\ pc' = IF zero THEN "abort" ELSE "force"
         /\ drain' = IF zero THEN "TimedOut" ELSE drain

(* `failures.recv()`, the first branch of the first select!.               *)
PollFailures ==
    /\ pc = "failures"
    /\ \/ \E l \in failures :
            /\ failures' = failures \ {l}
            /\ rootError' = "Accept"
            /\ BeginDrain
       \/ /\ failures = {}
          /\ pc' = "join"
          /\ UNCHANGED <<failures, rootError, lifecycle, drain>>
    /\ UNCHANGED <<registered, signal, trigger, timer, result, joined,
                   loop, loopAbort, permits, connVars>>

(* `accept_loops.join_next()`, the second branch: the outcome of a loop    *)
(* that returned is no error, whatever it left in the failure channel.     *)
PollJoin ==
    /\ pc = "join"
    /\ \/ \E l \in Listeners \ joined :
            /\ Over(l)
            /\ joined' = joined \cup {l}
            /\ rootError' = IF loop[l] = "done" THEN None ELSE "AcceptLoop"
            /\ BeginDrain
       \/ /\ \A l \in Listeners \ joined : ~Over(l)
          /\ pc' = "shutdown"
          /\ UNCHANGED <<joined, rootError, lifecycle, drain>>
    /\ UNCHANGED <<registered, signal, trigger, timer, result, loopVars,
                   connVars>>

(* The shutdown future, the last branch.  Its first poll registers the     *)
(* signal listener, which may fail; only a trigger of the operating system *)
(* comes with a `force` that resolves.                                     *)
PollShutdown ==
    /\ pc = "shutdown"
    /\ \/ /\ ~registered
          /\ rootError' = "Signal"
          /\ BeginDrain
          /\ UNCHANGED <<registered, signal, trigger>>
       \/ /\ signal
          /\ signal' = FALSE
          /\ trigger' \in {"os", "custom"}
          /\ BeginDrain
          /\ UNCHANGED <<registered, rootError>>
       \/ /\ ~signal
          /\ registered' = TRUE
          /\ pc' = "failures"
          /\ UNCHANGED <<signal, trigger, rootError, lifecycle, drain>>
    /\ UNCHANGED <<timer, result, joined, loopVars, connVars>>

(* `force, if root_error.is_none()`, the first branch of the drain.        *)
PollForce ==
    /\ pc = "force"
    /\ IF signal /\ trigger = "os" /\ rootError = None
       THEN pc' = "abort" /\ drain' = "Forced" /\ signal' = FALSE
       ELSE pc' = "joinAll" /\ UNCHANGED <<drain, signal>>
    /\ UNCHANGED <<lifecycle, registered, trigger, timer, rootError, result,
                   joined, loopVars, connVars>>

(* Mutant: one joined loop taken for all of them.                          *)
PollJoinAllFirst ==
    /\ pc = "joinAll"
    /\ joined' = joined \cup {l \in Listeners : Over(l)}
    /\ IF joined' # {} THEN pc' = "return" /\ drain' = "Complete"
                      ELSE pc' = "sleep" /\ UNCHANGED drain
    /\ UNCHANGED <<lifecycle, registered, signal, trigger, timer, rootError,
                   result, loopVars, connVars>>

(* `while accept_loops.join_next().await.is_some()`, the second branch.    *)
PollJoinAll ==
    /\ pc = "joinAll"
    /\ joined' = joined \cup {l \in Listeners : Over(l)}
    /\ IF joined' = Listeners
       THEN pc' = "return" /\ drain' = "Complete"
       ELSE pc' = "sleep" /\ UNCHANGED drain
    /\ UNCHANGED <<lifecycle, registered, signal, trigger, timer, rootError,
                   result, loopVars, connVars>>

(* `sleep(shutdown_timeout)`, the last branch.                             *)
PollSleep ==
    /\ pc = "sleep"
    /\ IF timer THEN pc' = "abort" /\ drain' = "TimedOut"
                ELSE pc' = "force" /\ UNCHANGED drain
    /\ UNCHANGED <<lifecycle, registered, signal, trigger, timer, rootError,
                   result, joined, loopVars, connVars>>

(* send_replace(Forced), then JoinSet::shutdown aborts every accept loop   *)
(* and waits for the tasks to be gone.                                     *)
AbortLoops ==
    /\ pc = "abort"
    /\ lifecycle' = "Forced"
    /\ loopAbort' = TRUE
    /\ pc' = "joinAborted"
    /\ UNCHANGED <<registered, signal, trigger, timer, rootError, drain,
                   result, joined, loop, failures, permits, connVars>>

(* Mutant: abort_all without waiting for the tasks.                        *)
JoinAbortedNoWait ==
    /\ pc = "joinAborted"
    /\ joined' = Listeners /\ pc' = "return"
    /\ UNCHANGED <<lifecycle, registered, signal, trigger, timer, rootError,
                   drain, result, loopVars, connVars>>

JoinAborted ==
    /\ pc = "joinAborted"
    /\ \A l \in Listeners : Over(l)
    /\ joined' = Listeners
    /\ pc' = "return"
    /\ UNCHANGED <<lifecycle, registered, signal, trigger, timer, rootError,
                   drain, result, loopVars, connVars>>

DrainResult ==
    IF drain = "Complete" THEN "Ok"
    ELSE IF drain = "TimedOut" THEN "ShutdownTimeout" ELSE "ShutdownForced"

Return ==
    /\ pc = "return"
    /\ result' = IF rootError # None THEN rootError ELSE DrainResult
    /\ pc' = "returned"
    /\ UNCHANGED <<lifecycle, registered, signal, trigger, timer, rootError,
                   drain, joined, loopVars, connVars>>

ServerStep ==
    \/ PollFailures \/ PollJoin \/ PollShutdown
    \/ PollForce \/ PollJoinAll \/ PollSleep
    \/ AbortLoops \/ JoinAborted \/ Return

(* The caller drops the serve future between two polls: its JoinSet aborts *)
(* the accept loops, and the lifecycle loses its sender.                   *)
DropServe ==
    /\ pc \in {"failures", "force", "joinAborted"}
    /\ pc' = "dropped"
    /\ loopAbort' = TRUE
    /\ UNCHANGED <<lifecycle, registered, signal, trigger, timer, rootError,
                   drain, result, joined, loop, failures, permits, connVars>>

(* A signal, once its listener is registered.  An unreceived one coalesces *)
(* with the next.                                                          *)
Signal ==
    /\ registered /\ ~SenderGone /\ ~signal
    /\ signal' = TRUE
    /\ UNCHANGED <<pc, registered, trigger, timer, rootError, drain, result,
                   joined, lifecycle, loopVars, connVars>>

ShutdownTimerFires ==
    /\ pc \in {"force", "joinAll", "sleep"} /\ ~timer
    /\ timer' = TRUE
    /\ UNCHANGED <<pc, registered, signal, trigger, rootError, drain, result,
                   joined, lifecycle, loopVars, connVars>>

-----------------------------------------------------------------------------
(* The accept loop of listener l.                                          *)

Goto(l, state) == loop' = [loop EXCEPT ![l] = state]

(* The first select!: stop, or take a permit.                              *)
AcquirePermit(l) ==
    /\ loop[l] = "acquire"
    /\ \/ /\ Stopping
          /\ Goto(l, "drain")
          /\ UNCHANGED permits
       \/ /\ ~Stopping /\ permits > 0
          /\ permits' = permits - 1
          /\ Goto(l, "accept")
    /\ UNCHANGED <<serverVars, lifecycle, failures, loopAbort, connVars>>

(* The second select!: its first branch gives the permit back.  The stop   *)
(* may begin after this branch was polled and before `accept` is.          *)
PollStop(l) ==
    /\ loop[l] = "accept"
    /\ \/ Stopping /\ permits' = permits + 1 /\ Goto(l, "drain")
       \/ ~Stopping /\ Goto(l, "acceptIo") /\ UNCHANGED permits
    /\ UNCHANGED <<serverVars, lifecycle, failures, loopAbort, connVars>>

(* `listener.accept()` has nothing yet: the select! is polled again later. *)
AcceptPending(l) ==
    /\ loop[l] = "acceptIo"
    /\ Goto(l, "accept")
    /\ UNCHANGED <<serverVars, lifecycle, failures, loopAbort, permits, connVars>>

(* A connection: its task takes the permit over.                           *)
Accept(l, c) ==
    /\ loop[l] = "acceptIo" /\ conn[c] = None
    /\ conn' = [conn EXCEPT ![c] = IF Tls THEN "handshake" ELSE "serving"]
    /\ owner' = [owner EXCEPT ![c] = l]
    /\ late' = IF lifecycle # "Running" \/ SenderGone THEN late \cup {c} ELSE late
    /\ Goto(l, "acquire")
    /\ UNCHANGED <<serverVars, lifecycle, failures, loopAbort, permits, aborted>>

(* A failed accept: AcceptRetry::Now, After or Never.                      *)
AcceptFails(l) ==
    /\ loop[l] = "acceptIo"
    /\ permits' = permits + 1
    /\ \/ loop' \in {[loop EXCEPT ![l] = s] : s \in {"acquire", "backoff"}}
          /\ UNCHANGED failures
       \/ Goto(l, "drain") /\ failures' = failures \cup {l}
    /\ UNCHANGED <<serverVars, lifecycle, loopAbort, connVars>>

(* The wait between two accepts, which watches the lifecycle too.          *)
BackoffEnds(l) ==
    /\ loop[l] = "backoff"
    /\ Goto(l, IF Stopping THEN "drain" ELSE "acquire")
    /\ UNCHANGED <<serverVars, lifecycle, failures, loopAbort, permits, connVars>>

(* Mutant: any stop is taken for a forced one.                             *)
DrainLoopForcesAtOnce(l) ==
    /\ loop[l] = "drain" /\ Stopping
    /\ aborted' = aborted \cup (Owned(l) \cap Live)
    /\ Goto(l, "shutdown")
    /\ UNCHANGED <<serverVars, lifecycle, failures, loopAbort, permits, conn,
                   owner, late>>

(* The listener is dropped; the connections finish, or a forced stop       *)
(* aborts them and waits for their tasks.                                  *)
DrainLoop(l) ==
    /\ loop[l] = "drain"
    /\ \/ /\ ForcedSeen
          /\ aborted' = aborted \cup (Owned(l) \cap Live)
          /\ Goto(l, "shutdown")
       \/ /\ ~ForcedSeen /\ Owned(l) \cap Live = {}
          /\ Goto(l, "done")
          /\ UNCHANGED aborted
    /\ UNCHANGED <<serverVars, lifecycle, failures, loopAbort, permits, conn,
                   owner, late>>

ShutdownLoop(l) ==
    /\ loop[l] = "shutdown"
    /\ Owned(l) \cap Live = {}
    /\ Goto(l, "done")
    /\ UNCHANGED <<serverVars, lifecycle, failures, loopAbort, permits, connVars>>

LoopStep(l) ==
    \/ AcquirePermit(l) \/ PollStop(l) \/ AcceptPending(l) \/ AcceptFails(l)
    \/ \E c \in Conns : Accept(l, c)
    \/ BackoffEnds(l) \/ DrainLoop(l) \/ ShutdownLoop(l)

(* Mutant: connections spawned on the runtime rather than on the JoinSet.  *)
LoopGoneDetached(l, how) ==
    /\ ~Over(l)
    /\ permits' = IF loop[l] \in HoldsPermit THEN permits + 1 ELSE permits
    /\ Goto(l, how)
    /\ UNCHANGED <<serverVars, lifecycle, failures, loopAbort, connVars>>

(* Mutant: the permit of a loop that goes away is forgotten.               *)
LoopGoneLeaks(l, how) ==
    /\ ~Over(l)
    /\ aborted' = aborted \cup (Owned(l) \cap Live)
    /\ Goto(l, how)
    /\ UNCHANGED <<serverVars, lifecycle, failures, loopAbort, permits, conn,
                   owner, late>>

(* The task goes away without returning: its permit is dropped, and its    *)
(* JoinSet aborts the connections without waiting for them.                *)
LoopGone(l, how) ==
    /\ ~Over(l)
    /\ permits' = IF loop[l] \in HoldsPermit THEN permits + 1 ELSE permits
    /\ aborted' = aborted \cup (Owned(l) \cap Live)
    /\ Goto(l, how)
    /\ UNCHANGED <<serverVars, lifecycle, failures, loopAbort, conn, owner, late>>

LoopAborted(l) == loopAbort /\ LoopGone(l, "aborted")
LoopPanics(l) == LoopGone(l, "panicked")

-----------------------------------------------------------------------------
(* The task of connection c, serve_connection.                             *)

End(c, how) ==
    /\ conn' = [conn EXCEPT ![c] = how]
    /\ permits' = permits + 1
    /\ UNCHANGED <<serverVars, lifecycle, loop, loopAbort, failures, owner,
                   aborted, late>>

(* The TLS handshake completes.                                            *)
HandshakeDone(c) ==
    /\ conn[c] = "handshake" /\ ~Stopping
    /\ conn' = [conn EXCEPT ![c] = "serving"]
    /\ UNCHANGED <<serverVars, lifecycle, loopVars, owner, aborted, late>>

(* It fails, times out, or the stop begins first.                          *)
HandshakeEnds(c) == conn[c] = "handshake" /\ End(c, "finished")

(* `drive` reads the stop: it asks the codec to drain, or drops it.  Its   *)
(* idle period asks for the same drain, and a connection already draining  *)
(* reads the lifecycle no more.                                            *)
DriveDrains(c) ==
    /\ conn[c] = "serving"
    /\ Stopping => StopState = "Draining"
    /\ conn' = [conn EXCEPT ![c] = "draining"]
    /\ UNCHANGED <<serverVars, lifecycle, loopVars, owner, aborted, late>>

DriveForced(c) ==
    conn[c] = "serving" /\ Stopping /\ StopState = "Forced" /\ End(c, "cut")

(* The codec finishes, no request head came, or the drain stayed idle.     *)
DriveEnds(c) == conn[c] \in {"serving", "draining"} /\ End(c, "finished")

(* An aborted task is dropped at an await point.                           *)
ConnAborted(c) == c \in aborted /\ c \in Live /\ End(c, "cut")

ConnStep(c) ==
    \/ HandshakeDone(c) \/ HandshakeEnds(c)
    \/ DriveDrains(c) \/ DriveForced(c) \/ DriveEnds(c)
    \/ ConnAborted(c)

-----------------------------------------------------------------------------
(* The only state in which nothing happens any more.                       *)
Stopped ==
    /\ SenderGone /\ Live = {} /\ \A l \in Listeners : Over(l)
    /\ UNCHANGED vars

Next ==
    \/ ServerStep \/ DropServe \/ Signal \/ ShutdownTimerFires
    \/ \E l \in Listeners : LoopStep(l) \/ LoopAborted(l) \/ LoopPanics(l)
    \/ \E c \in Conns : ConnStep(c)
    \/ Stopped

(* The runtime polls a woken task, elapses timers and completes aborts.    *)
(* Nothing is assumed of a connection: a handler may never finish and may  *)
(* never yield, so an abort of it may never take effect.                   *)
Fairness ==
    /\ WF_vars(ServerStep) /\ WF_vars(ShutdownTimerFires)
    /\ \A l \in Listeners : WF_vars(LoopStep(l)) /\ WF_vars(LoopAborted(l))

Spec == Init /\ [][Next]_vars /\ Fairness

(* Handlers that do yield.                                                 *)
Yielding == \A c \in Conns : WF_vars(ConnAborted(c))

-----------------------------------------------------------------------------
(* What a caller sees of this state.                                       *)
PhaseSeen ==
    IF SenderGone THEN pc
    ELSE IF lifecycle = "Running" THEN "serving"
    ELSE IF lifecycle = "Draining" THEN "draining" ELSE "forced"
StatusSeen ==
    [c \in Conns |-> IF conn[c] \in LiveState THEN "live" ELSE conn[c]]
CrashSeen == \E l \in Listeners : loop[l] = "panicked"
OkSeen == result = "Ok"

Abstract == INSTANCE GracefulStop WITH
    phase <- PhaseSeen, status <- StatusSeen, crashed <- CrashSeen, ok <- OkSeen

(* The server implements the promise of GracefulStop, its liveness         *)
(* included: accept loops, permits, channels and aborts are its details.   *)
ImplementsGracefulStop == Abstract!ASpec

(* Every permit of the semaphore is free, with a loop between acquire and  *)
(* spawn, or with the task of one live connection: no path of the accept   *)
(* loop, of a failed accept, of an abort or of a panic leaks or doubles    *)
(* one, so never more than max_connections connections are served.         *)
PermitsConserved ==
    permits + Cardinality({l \in Listeners : loop[l] \in HoldsPermit})
            + Cardinality(Live) = MaxConnections

(* Work in flight is cut short only by a forced stop, by a serve future    *)
(* the caller dropped, or by the panic of the loop that owned it: a drain  *)
(* and the failure of another listener never cut a connection.             *)
CutOnlyWhenForced ==
    \A c \in Conns : conn[c] = "cut" =>
        lifecycle = "Forced" \/ pc = "dropped" \/ loop[owner[c]] = "panicked"

(* Once serve returns, with whatever result, no listener is open and any   *)
(* connection task that is left has been told to abort.                    *)
ReturnStopsEverything ==
    pc = "returned" => (\A l \in Listeners : Over(l)) /\ Live \subseteq aborted

(* A stop closes the door: a listener hands over at most the one           *)
(* connection its select! was already polling for.                         *)
AtMostOneLateAccept ==
    \A l \in Listeners : Cardinality(late \cap Owned(l)) <= 1

(* serve stops without an error only when somebody asked it to stop; when  *)
(* a listener stopped accepting it says so.                                *)
OkOnlyOnRequest == result = "Ok" => trigger # None

(* When serve has returned or was dropped, every connection whose handler  *)
(* yields comes to its end, drained or not: none outlives the server.      *)
ConnectionsEnd == Yielding => (SenderGone ~> Live = {})
=============================================================================
