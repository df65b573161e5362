----------------------- MODULE ServerLifecycleProofs -----------------------
(***************************************************************************)
(* Proofs about ServerLifecycle for every set of listeners and connections *)
(* and every connection limit.                                             *)
(***************************************************************************)
EXTENDS ServerLifecycle, FiniteSetTheorems, TLAPS

-----------------------------------------------------------------------------
(* How the number of processes in given states changes when one of them    *)
(* moves: the counting step of the balance of permits.                     *)

(* The number of members of S whose value under f lies in G.               *)
CountIn(S, f, G) == Cardinality({x \in S : f[x] \in G})

(* 1 when v is one of the counted values, 0 otherwise.                     *)
Weight(v, G) == IF v \in G THEN 1 ELSE 0

(* A count over a finite set is a natural number.                          *)
LEMMA CountIsNat ==
    ASSUME NEW S, IsFiniteSet(S), NEW f, NEW G
    PROVE  CountIn(S, f, G) \in Nat
<1>1. {x \in S : f[x] \in G} \in SUBSET S
  OBVIOUS
<1>2. IsFiniteSet({x \in S : f[x] \in G})
  BY <1>1, FS_Subset
<1> QED
  BY <1>2, FS_CardinalityType DEF CountIn

(* Only p moves, from f[p] to g[p]: the count moves by the difference of   *)
(* the weights of the two states.                                          *)
LEMMA CountMoves ==
    ASSUME NEW S, IsFiniteSet(S), NEW G, NEW f, NEW g, NEW p \in S,
           \A x \in S \ {p} : g[x] = f[x]
    PROVE  CountIn(S, g, G)
             = CountIn(S, f, G) + Weight(g[p], G) - Weight(f[p], G)
<1> DEFINE Old == {x \in S : f[x] \in G}
<1> DEFINE New == {x \in S : g[x] \in G}
<1>1. IsFiniteSet(Old) /\ IsFiniteSet(Old \ {p})
  <2>1. Old \in SUBSET S /\ Old \ {p} \in SUBSET S
    OBVIOUS
  <2> QED
    BY <2>1, FS_Subset
<1>2. Cardinality(Old) \in Nat
  BY <1>1, FS_CardinalityType
<1>3. Cardinality(Old \ {p}) = Cardinality(Old) - Weight(f[p], G)
  <2>1. p \in Old <=> f[p] \in G
    OBVIOUS
  <2>2. Cardinality(Old \ {p}) = IF p \in Old THEN Cardinality(Old) - 1
                                              ELSE Cardinality(Old)
    BY <1>1, FS_RemoveElement
  <2> HIDE DEF Old
  <2> QED
    BY <1>2, <2>1, <2>2 DEF Weight
<1>4. New = IF g[p] \in G THEN (Old \ {p}) \cup {p} ELSE Old \ {p}
  OBVIOUS
<1>5. Cardinality(New) = Cardinality(Old \ {p}) + Weight(g[p], G)
  <2>1. Cardinality((Old \ {p}) \cup {p}) = Cardinality(Old \ {p}) + 1
    <3>1. p \notin Old \ {p}
      OBVIOUS
    <3> HIDE DEF Old
    <3> QED
      BY <1>1, <3>1, FS_AddElement
  <2>2. Cardinality(Old \ {p}) \in Nat
    BY <1>1, FS_CardinalityType
  <2> HIDE DEF Old, New
  <2> QED
    BY <1>4, <2>1, <2>2 DEF Weight
<1>6. CountIn(S, f, G) = Cardinality(Old) /\ CountIn(S, g, G) = Cardinality(New)
  BY DEF CountIn
<1>7. Weight(g[p], G) \in Int /\ Weight(f[p], G) \in Int
  BY DEF Weight
<1> HIDE DEF Old, New
<1> QED
  BY <1>2, <1>3, <1>5, <1>6, <1>7

-----------------------------------------------------------------------------
(* Types and permits.  The bound on `permits` in TypeOK follows from the   *)
(* counting equation, so the two are proved together from the part of      *)
(* TypeOK that bounds nothing.                                             *)

Held == CountIn(Listeners, loop, HoldsPermit)
Serving == CountIn(Conns, conn, LiveState)

Typed ==
    /\ pc \in ServerPC
    /\ lifecycle \in Lifecycle
    /\ registered \in BOOLEAN /\ signal \in BOOLEAN
    /\ trigger \in Trigger /\ timer \in BOOLEAN
    /\ rootError \in RootError /\ drain \in Drain /\ result \in Result
    /\ failures \subseteq Listeners
    /\ loop \in [Listeners -> LoopState]
    /\ joined \subseteq Listeners
    /\ loopAbort \in BOOLEAN
    /\ permits \in Nat
    /\ conn \in [Conns -> ConnState]
    /\ owner \in [Conns -> Listeners \cup {None}]
    /\ aborted \subseteq Conns
    /\ late \subseteq Conns

Balanced == permits + Held + Serving = MaxConnections

(* The counting form is the invariant that the runs check.                 *)
LEMMA BalancedIsPermitsConserved == Balanced <=> PermitsConserved
BY DEF Balanced, PermitsConserved, Held, Serving, CountIn, Live

(* Counts are natural numbers.                                             *)
LEMMA CountsAreNat == Held \in Nat /\ Serving \in Nat
BY CountIsNat, ListenersAssumption, ConnsAssumption DEF Held, Serving

(* A loop that moves to state s changes Held by the weights of the states. *)
LEMMA HeldMoves ==
    ASSUME Typed, NEW l \in Listeners, NEW s, Goto(l, s)
    PROVE  Held' = Held + Weight(s, HoldsPermit) - Weight(loop[l], HoldsPermit)
<1>1. loop'[l] = s /\ \A x \in Listeners \ {l} : loop'[x] = loop[x]
  BY DEF Typed, Goto
<1>2. CountIn(Listeners, loop', HoldsPermit)
        = CountIn(Listeners, loop, HoldsPermit)
            + Weight(loop'[l], HoldsPermit) - Weight(loop[l], HoldsPermit)
  BY <1>1, CountMoves, ListenersAssumption
<1> QED
  BY <1>1, <1>2 DEF Held, CountIn

Becomes(c, s) == conn' = [conn EXCEPT ![c] = s]

(* A connection that moves to state s changes Serving likewise.            *)
LEMMA ServingMoves ==
    ASSUME Typed, NEW c \in Conns, NEW s, Becomes(c, s)
    PROVE  Serving' = Serving + Weight(s, LiveState) - Weight(conn[c], LiveState)
<1>1. conn'[c] = s /\ \A x \in Conns \ {c} : conn'[x] = conn[x]
  BY DEF Typed, Becomes
<1>2. CountIn(Conns, conn', LiveState)
        = CountIn(Conns, conn, LiveState)
            + Weight(conn'[c], LiveState) - Weight(conn[c], LiveState)
  BY <1>1, CountMoves, ConnsAssumption
<1> QED
  BY <1>1, <1>2 DEF Serving, CountIn

(* A step that leaves the states alone leaves the counts alone.            *)
LEMMA HeldStays == ASSUME UNCHANGED loop PROVE Held' = Held
BY DEF Held, CountIn

(* So it does for connections.                                             *)
LEMMA ServingStays == ASSUME UNCHANGED conn PROVE Serving' = Serving
BY DEF Serving, CountIn

(* Every step keeps the types.                                             *)
LEMMA TypedStep == Typed /\ [Next]_vars => Typed'
<1> SUFFICES ASSUME Typed, [Next]_vars PROVE Typed'
  OBVIOUS
<1> USE DEF Typed, ServerPC, Lifecycle, Trigger, RootError, Drain, Result,
            LoopState, ConnState, None
<1>1. CASE ServerStep
  <2>1. CASE PollFailures
    BY <2>1 DEF PollFailures, BeginDrain, connVars
  <2>2. CASE PollJoin
    BY <2>2 DEF PollJoin, BeginDrain, loopVars, connVars
  <2>3. CASE PollShutdown
    <3>1. registered' \in BOOLEAN /\ signal' \in BOOLEAN
      BY <2>3, Zenon DEF PollShutdown
    <3>2. CASE rootError' = "Signal" /\ BeginDrain /\ UNCHANGED trigger
      BY <2>3, <3>1, <3>2 DEF PollShutdown, BeginDrain, loopVars, connVars
    <3>3. CASE trigger' \in {"os", "custom"} /\ BeginDrain /\ UNCHANGED rootError
      BY <2>3, <3>1, <3>3 DEF PollShutdown, BeginDrain, loopVars, connVars
    <3>4. CASE pc' = "failures" /\ UNCHANGED <<trigger, rootError, lifecycle, drain>>
      BY <2>3, <3>1, <3>4 DEF PollShutdown, loopVars, connVars
    <3> QED
      BY <2>3, <3>2, <3>3, <3>4, Zenon DEF PollShutdown
  <2>4. CASE PollForce
    <3>1. signal' \in BOOLEAN
      BY <2>4, Zenon DEF PollForce
    <3>2. pc' \in ServerPC /\ drain' \in Drain
      BY <2>4 DEF PollForce
    <3> QED
      BY <2>4, <3>1, <3>2 DEF PollForce, loopVars, connVars
  <2>5. CASE PollJoinAll
    BY <2>5 DEF PollJoinAll, loopVars, connVars
  <2>6. CASE PollSleep
    BY <2>6 DEF PollSleep, loopVars, connVars
  <2>7. CASE AbortLoops
    BY <2>7 DEF AbortLoops, connVars
  <2>8. CASE JoinAborted
    BY <2>8 DEF JoinAborted, loopVars, connVars
  <2>9. CASE Return
    BY <2>9 DEF Return, DrainResult, loopVars, connVars
  <2> QED
    BY <1>1, <2>1, <2>2, <2>3, <2>4, <2>5, <2>6, <2>7, <2>8, <2>9 DEF ServerStep
<1>2. CASE DropServe
  BY <1>2 DEF DropServe, connVars
<1>3. CASE Signal
  BY <1>3 DEF Signal, loopVars, connVars
<1>4. CASE ShutdownTimerFires
  BY <1>4 DEF ShutdownTimerFires, loopVars, connVars
<1>5. ASSUME NEW l \in Listeners, LoopStep(l) \/ LoopAborted(l) \/ LoopPanics(l)
      PROVE  Typed'
  <2> USE DEF Goto, serverVars, connVars
  <2>1. CASE AcquirePermit(l)
    BY <2>1 DEF AcquirePermit
  <2>2. CASE PollStop(l)
    BY <2>2 DEF PollStop
  <2>3. CASE AcceptPending(l)
    BY <2>3 DEF AcceptPending
  <2>4. CASE AcceptFails(l)
    BY <2>4 DEF AcceptFails
  <2>5. ASSUME NEW c \in Conns, Accept(l, c) PROVE Typed'
    BY <2>5 DEF Accept
  <2>6. CASE BackoffEnds(l)
    BY <2>6 DEF BackoffEnds
  <2>7. CASE DrainLoop(l)
    BY <2>7 DEF DrainLoop, Owned, Live
  <2>8. CASE ShutdownLoop(l)
    BY <2>8 DEF ShutdownLoop
  <2>9. CASE LoopAborted(l)
    BY <2>9 DEF LoopAborted, LoopGone, Owned, Live
  <2>10. CASE LoopPanics(l)
    BY <2>10 DEF LoopPanics, LoopGone, Owned, Live
  <2> QED
    BY <1>5, <2>1, <2>2, <2>3, <2>4, <2>5, <2>6, <2>7, <2>8, <2>9, <2>10
       DEF LoopStep
<1>6. ASSUME NEW c \in Conns, ConnStep(c) PROVE Typed'
  BY <1>6 DEF ConnStep, HandshakeDone, HandshakeEnds, DriveDrains, DriveForced,
              DriveEnds, ConnAborted, End, serverVars, loopVars
<1>7. CASE Stopped \/ UNCHANGED vars
  BY <1>7 DEF Stopped, vars, serverVars, loopVars, connVars
<1> QED
  BY <1>1, <1>2, <1>3, <1>4, <1>5, <1>6, <1>7 DEF Next

(* Every step keeps the permits balanced: a loop between acquire and spawn *)
(* holds one, a live connection holds one, and each transition moves it.   *)
LEMMA BalancedStep == Typed /\ Balanced /\ [Next]_vars => Balanced'
<1> SUFFICES ASSUME Typed, Balanced, [Next]_vars PROVE Balanced'
  OBVIOUS
<1> USE CountsAreNat, MaxConnectionsAssumption
<1>0. permits \in Nat
  BY DEF Typed
<1>1. ASSUME UNCHANGED <<loop, permits, conn>> PROVE Balanced'
  BY <1>1, HeldStays, ServingStays DEF Balanced
<1>2. CASE ServerStep \/ DropServe \/ Signal \/ ShutdownTimerFires \/ Stopped
           \/ UNCHANGED vars
  <2>1. UNCHANGED <<loop, permits, conn>>
    BY <1>2 DEF ServerStep, PollFailures, PollJoin, PollShutdown, PollForce,
           PollJoinAll, PollSleep, AbortLoops, JoinAborted, Return, DropServe,
           Signal, ShutdownTimerFires, Stopped, vars, loopVars, connVars
  <2> QED
    BY <1>1, <2>1
<1>3. ASSUME NEW l \in Listeners, LoopStep(l) \/ LoopAborted(l) \/ LoopPanics(l)
      PROVE  Balanced'
  <2>1. ASSUME NEW s, Goto(l, s), UNCHANGED conn,
               permits' = permits + Weight(loop[l], HoldsPermit)
                                  - Weight(s, HoldsPermit)
        PROVE  Balanced'
    <3>1. Held' = Held + Weight(s, HoldsPermit) - Weight(loop[l], HoldsPermit)
      BY <2>1, HeldMoves
    <3>2. Serving' = Serving
      BY <2>1, ServingStays
    <3>3. Weight(s, HoldsPermit) \in Int /\ Weight(loop[l], HoldsPermit) \in Int
      BY DEF Weight
    <3> QED
      BY <1>0, <2>1, <3>1, <3>2, <3>3 DEF Balanced
  <2> USE DEF Weight, HoldsPermit
  <2>2. CASE AcquirePermit(l)
    BY <1>0, <2>1, <2>2 DEF AcquirePermit, connVars
  <2>3. CASE PollStop(l)
    BY <1>0, <2>1, <2>3 DEF PollStop, connVars
  <2>4. CASE AcceptPending(l)
    BY <1>0, <2>1, <2>4 DEF AcceptPending, connVars
  <2>5. CASE AcceptFails(l)
    <3>1. PICK s \in {"acquire", "backoff", "drain"} : Goto(l, s)
      BY <2>5 DEF AcceptFails, Goto
    <3> QED
      BY <1>0, <2>1, <2>5, <3>1 DEF AcceptFails, connVars
  <2>6. ASSUME NEW c \in Conns, Accept(l, c) PROVE Balanced'
    <3>1. Held' = Held - 1
      BY <2>6, HeldMoves DEF Accept
    <3>2. Serving' = Serving + 1
      <4>1. PICK s \in {"handshake", "serving"} : conn' = [conn EXCEPT ![c] = s]
        BY <2>6 DEF Accept
      <4>2. Serving' = Serving + Weight(s, LiveState) - Weight(conn[c], LiveState)
        BY <4>1, ServingMoves DEF Becomes
      <4> QED
        BY <2>6, <4>2 DEF Accept, LiveState, None
    <3> QED
      BY <1>0, <2>6, <3>1, <3>2 DEF Accept, Balanced
  <2>7. CASE BackoffEnds(l)
    BY <1>0, <2>1, <2>7 DEF BackoffEnds, connVars
  <2>8. CASE DrainLoop(l)
    BY <1>0, <2>1, <2>8 DEF DrainLoop
  <2>9. CASE ShutdownLoop(l)
    BY <1>0, <2>1, <2>9 DEF ShutdownLoop, connVars
  <2>10. ASSUME NEW how \in {"aborted", "panicked"}, LoopGone(l, how)
         PROVE  Balanced'
    BY <1>0, <2>1, <2>10 DEF LoopGone
  <2> QED
    BY <1>3, <2>2, <2>3, <2>4, <2>5, <2>6, <2>7, <2>8, <2>9, <2>10
       DEF LoopStep, LoopAborted, LoopPanics
<1>4. ASSUME NEW c \in Conns, ConnStep(c) PROVE Balanced'
  <2>1. ASSUME NEW s \in {"finished", "cut"}, c \in Live, End(c, s)
        PROVE  Balanced'
    <3>0. Serving' = Serving + Weight(s, LiveState) - Weight(conn[c], LiveState)
      BY <2>1, ServingMoves DEF End, Becomes
    <3>1. Serving' = Serving - 1
      BY <2>1, <3>0 DEF Live, LiveState, Weight
    <3>2. Held' = Held
      BY <2>1, HeldStays DEF End
    <3> QED
      BY <1>0, <2>1, <3>1, <3>2 DEF End, Balanced
  <2>2. ASSUME NEW s \in {"serving", "draining"}, c \in Live,
               conn' = [conn EXCEPT ![c] = s], UNCHANGED <<loop, permits>>
        PROVE  Balanced'
    <3>0. Serving' = Serving + Weight(s, LiveState) - Weight(conn[c], LiveState)
      BY <2>2, ServingMoves DEF Becomes
    <3>1. Serving' = Serving
      BY <2>2, <3>0 DEF Live, LiveState, Weight
    <3>2. Held' = Held
      BY <2>2, HeldStays
    <3> QED
      BY <1>0, <2>2, <3>1, <3>2 DEF Balanced
  <2>3. CASE HandshakeDone(c)
    BY <2>2, <2>3 DEF HandshakeDone, Live, LiveState, loopVars
  <2>4. CASE DriveDrains(c)
    BY <2>2, <2>4 DEF DriveDrains, Live, LiveState, loopVars
  <2>5. CASE HandshakeEnds(c) \/ DriveForced(c) \/ DriveEnds(c) \/ ConnAborted(c)
    BY <2>1, <2>5 DEF HandshakeEnds, DriveForced, DriveEnds, ConnAborted, Live,
                      LiveState
  <2> QED
    BY <1>4, <2>3, <2>4, <2>5 DEF ConnStep
<1> QED
  BY <1>2, <1>3, <1>4 DEF Next

(* The start state is typed, and every permit is free.                     *)
LEMMA InitBalanced == Init => Typed /\ Balanced
<1> SUFFICES ASSUME Init PROVE Typed /\ Balanced
  OBVIOUS
<1>1. Typed
  BY MaxConnectionsAssumption DEF Init, Typed, ServerPC, Lifecycle, Trigger,
     RootError, Drain, Result, LoopState, ConnState, None
<1>2. {l \in Listeners : loop[l] \in HoldsPermit} = {}
  BY DEF Init, HoldsPermit
<1>3. {c \in Conns : conn[c] \in LiveState} = {}
  BY DEF Init, LiveState, None
<1>4. Held = 0 /\ Serving = 0
  BY <1>2, <1>3, FS_EmptySet DEF Held, Serving, CountIn
<1> QED
  BY <1>1, <1>4, MaxConnectionsAssumption DEF Init, Balanced

(* The counting equation bounds the free permits.                          *)
LEMMA TypedBalancedIsTypeOK == Typed /\ Balanced => TypeOK
<1> SUFFICES ASSUME Typed, Balanced PROVE TypeOK
  OBVIOUS
<1>1. permits \in 0..MaxConnections
  <2>1. /\ permits \in Nat /\ MaxConnections \in Nat
        /\ Held \in Nat /\ Serving \in Nat
    BY CountsAreNat, MaxConnectionsAssumption DEF Typed
  <2>2. permits + Held + Serving = MaxConnections
    BY DEF Balanced
  <2> QED
    BY <2>1, <2>2
<1> QED
  BY <1>1 DEF Typed, TypeOK

(* Types and permits hold together in every reachable state.               *)
LEMMA TypedBalanced == Spec => [](Typed /\ Balanced)
<1>1. Typed /\ Balanced /\ [Next]_vars => (Typed /\ Balanced)'
  BY TypedStep, BalancedStep
<1> QED
  BY <1>1, InitBalanced, PTL DEF Spec

(* Every variable of the server keeps its type, for any number of          *)
(* listeners and connections; in particular the free permits stay between  *)
(* zero and max_connections.                                               *)
THEOREM TypeCorrect == Spec => []TypeOK
BY TypedBalanced, TypedBalancedIsTypeOK, PTL

(* No path of serve, of an accept loop or of a connection, failures,       *)
(* aborts and panics included, leaks or doubles a permit.                  *)
THEOREM PermitsAreConserved == Spec => []PermitsConserved
BY TypedBalanced, BalancedIsPermitsConserved, PTL

-----------------------------------------------------------------------------
(* Stopping.  Phases ties the watch channel to where serve stands, Gone    *)
(* says what an accept loop that is over leaves behind, Told why a         *)
(* connection task may have been told to abort.  A connection is cut for   *)
(* one of the reasons in Told, which is why all of them go together.       *)

Excused(c) ==
    lifecycle = "Forced" \/ pc = "dropped" \/ loop[owner[c]] = "panicked"

Phases ==
    /\ pc \in {"failures", "join", "shutdown"} => lifecycle = "Running" /\ drain = None
    /\ pc \in {"force", "joinAll", "sleep", "abort"} => lifecycle = "Draining"
    /\ pc = "joinAborted" => lifecycle = "Forced"
    /\ pc \in {"abort", "joinAborted"} => drain \in {"TimedOut", "Forced"}
    /\ pc \in {"return", "returned"} =>
          \/ drain = "Complete" /\ lifecycle = "Draining"
          \/ drain \in {"TimedOut", "Forced"} /\ lifecycle = "Forced"
    /\ loopAbort => lifecycle = "Forced" \/ pc = "dropped"
Unreturned ==
    /\ pc # "returned" => result = None
    /\ result = "Ok" => drain = "Complete"

OwnedByLoops == \A c \in Conns : conn[c] # None => owner[c] \in Listeners
Gone == \A l \in Listeners : Over(l) => Owned(l) \cap Live \subseteq aborted
Joined ==
    /\ \A l \in joined : Over(l)
    /\ pc \in {"return", "returned"} => \A l \in Listeners : Over(l)
Told == \A c \in aborted : conn[c] # None /\ Excused(c)

StopInv ==
    /\ Phases /\ Unreturned /\ OwnedByLoops /\ Gone /\ Joined /\ Told
    /\ CutOnlyWhenForced

(* A late connection is its listener's only one, since a stop is seen on   *)
(* the way to the next accept.                                             *)
LateInv ==
    /\ \A c \in late : /\ conn[c] # None /\ Stopping
                       /\ loop[owner[c]] \notin {"accept", "acceptIo", "backoff"}
    /\ \A c, d \in late : owner[c] = owner[d] => c = d

(* A step that leaves loops and connections alone, keeps a forced stop and *)
(* a dropped future what they are, and joins only loops that are over.     *)
LEMMA ServerKeepsStopInv ==
    ASSUME Typed, StopInv, ServerStep \/ DropServe \/ Signal \/ ShutdownTimerFires
    PROVE  StopInv'
<1>1. UNCHANGED <<loop, conn, owner, aborted>>
  BY DEF ServerStep, PollFailures, PollJoin, PollShutdown, PollForce, PollJoinAll,
         PollSleep, AbortLoops, JoinAborted, Return, DropServe, Signal,
         ShutdownTimerFires, loopVars, connVars
<1>2. Phases' /\ Unreturned' /\ Joined'
  <2> USE DEF StopInv, Phases, Unreturned, Joined, Over, None
  <2>1. CASE PollFailures
    BY <2>1 DEF PollFailures, BeginDrain, connVars
  <2>2. CASE PollJoin
    BY <2>2 DEF PollJoin, BeginDrain, loopVars, connVars
  <2>3. CASE PollShutdown
    <3>1. /\ pc = "shutdown"
          /\ \/ BeginDrain
             \/ pc' = "failures" /\ UNCHANGED <<lifecycle, drain>>
          /\ UNCHANGED <<result, joined, loopAbort>>
      BY <2>3, Zenon DEF PollShutdown, loopVars
    <3> QED
      BY <1>1, <3>1 DEF BeginDrain
  <2>4. CASE PollForce
    BY <2>4 DEF PollForce, loopVars, connVars
  <2>5. CASE PollJoinAll
    BY <2>5 DEF PollJoinAll, loopVars, connVars
  <2>6. CASE PollSleep
    BY <2>6 DEF PollSleep, loopVars, connVars
  <2>7. CASE AbortLoops
    BY <2>7 DEF AbortLoops, connVars
  <2>8. CASE JoinAborted
    BY <2>8 DEF JoinAborted, loopVars, connVars
  <2>9. CASE Return
    BY <2>9 DEF Return, DrainResult, loopVars, connVars, Typed, RootError
  <2>10. CASE DropServe
    BY <2>10 DEF DropServe, connVars
  <2>11. CASE Signal \/ ShutdownTimerFires
    BY <2>11 DEF Signal, ShutdownTimerFires, loopVars, connVars
  <2> QED
    BY <2>1, <2>2, <2>3, <2>4, <2>5, <2>6, <2>7, <2>8, <2>9, <2>10, <2>11
       DEF ServerStep
<1>3. \A c \in Conns : Excused(c) => Excused(c)'
  <2>1. pc # "dropped" \/ UNCHANGED pc
    BY DEF ServerStep, PollFailures, PollJoin, PollShutdown, PollForce, PollJoinAll,
         PollSleep, AbortLoops, JoinAborted, Return, DropServe, Signal,
         ShutdownTimerFires
  <2>2. lifecycle = "Forced" => lifecycle' = "Forced"
    <3>1. UNCHANGED lifecycle \/ pc \in {"failures", "join", "shutdown", "abort"}
      BY DEF ServerStep, PollFailures, PollJoin, PollShutdown, PollForce, PollJoinAll,
         PollSleep, AbortLoops, JoinAborted, Return, DropServe, Signal,
         ShutdownTimerFires
    <3> QED
      BY <3>1 DEF StopInv, Phases
  <2> QED
    BY <1>1, <2>1, <2>2 DEF Excused
<1>4. OwnedByLoops' /\ Gone'
  BY <1>1 DEF StopInv, OwnedByLoops, Gone, Over, Owned, Live
<1>5. Told' /\ CutOnlyWhenForced'
  BY <1>1, <1>3 DEF StopInv, Told, CutOnlyWhenForced, Excused, Typed
<1> QED
  BY <1>2, <1>4, <1>5 DEF StopInv

(* A loop that is over stays over, and what it was excused by stays too.   *)
LEMMA ExcusedStays ==
    ASSUME Typed, UNCHANGED <<pc, lifecycle>>, NEW c \in Conns,
           owner'[c] = owner[c], owner[c] \in Listeners,
           Over(owner[c]) => loop'[owner[c]] = loop[owner[c]]
    PROVE  Excused(c) => Excused(c)'
  BY DEF Excused, Over, LoopOver

(* The steps of an accept loop other than Accept: connections stay as they *)
(* are, and one is told to abort only where that is excused.               *)
LEMMA LoopKeepsStopInv ==
    ASSUME Typed, StopInv, NEW l \in Listeners,
           LoopStep(l) \/ LoopAborted(l) \/ LoopPanics(l),
           UNCHANGED <<conn, owner>>
    PROVE  StopInv'
<1>1. PICK s \in LoopState : Goto(l, s) /\ ~Over(l)
  BY DEF LoopStep, LoopAborted, LoopPanics, AcquirePermit, PollStop, AcceptPending,
         AcceptFails, Accept, BackoffEnds, DrainLoop, ShutdownLoop, LoopGone, Goto,
         LoopState, Over, LoopOver
<1>2. UNCHANGED <<pc, lifecycle, drain, result, joined, loopAbort>>
  BY DEF LoopStep, LoopAborted, LoopPanics, AcquirePermit, PollStop, AcceptPending,
         AcceptFails, Accept, BackoffEnds, DrainLoop, ShutdownLoop, LoopGone,
         serverVars, connVars
<1>3. \A x \in Listeners : Over(x) => loop'[x] = loop[x] /\ x # l
  BY <1>1 DEF Goto, Typed
<1>4. Phases' /\ Unreturned'
  BY <1>2 DEF StopInv, Phases, Unreturned
<1>5. OwnedByLoops'
  BY DEF StopInv, OwnedByLoops
<1>6. Joined'
  BY <1>2, <1>3 DEF StopInv, Joined, Over, Typed
<1>7. /\ aborted \subseteq aborted'
      /\ aborted' \subseteq aborted \cup (Owned(l) \cap Live)
  BY DEF LoopStep, LoopAborted, LoopPanics, AcquirePermit, PollStop, AcceptPending,
         AcceptFails, Accept, BackoffEnds, DrainLoop, ShutdownLoop, LoopGone, connVars
<1>8. s \in LoopOver => Owned(l) \cap Live \subseteq aborted'
  BY <1>1 DEF LoopStep, LoopAborted, LoopPanics, AcquirePermit, PollStop, AcceptPending,
         AcceptFails, Accept, BackoffEnds, DrainLoop, ShutdownLoop, LoopGone, Goto,
         Typed, LoopOver, LoopState
<1>9. Gone'
  <2> SUFFICES ASSUME NEW x \in Listeners, Over(x)'
               PROVE  (Owned(x) \cap Live)' \subseteq aborted'
    BY DEF Gone
  <2>1. (Owned(x) \cap Live)' = Owned(x) \cap Live
    BY DEF Owned, Live
  <2>2. CASE x = l
    BY <1>1, <1>8, <2>1, <2>2 DEF Goto, Over, Typed
  <2>3. CASE x # l
    BY <1>1, <1>7, <2>1, <2>3 DEF Goto, Over, Typed, StopInv, Gone
  <2> QED
    BY <2>2, <2>3
<1>10. \A c \in Conns : conn[c] # None /\ Excused(c) => Excused(c)'
  BY <1>2, <1>3, ExcusedStays DEF StopInv, OwnedByLoops
<1>11. Told'
  <2> SUFFICES ASSUME NEW c \in aborted' PROVE (conn[c] # None /\ Excused(c))'
    BY DEF Told
  <2>1. CASE c \in aborted
    BY <1>10, <2>1 DEF StopInv, Told, Typed
  <2>2. CASE c \notin aborted
    <3>1. c \in Conns /\ owner[c] = l /\ conn[c] # None
      BY <1>7, <2>2 DEF Owned, Live, LiveState, None
    <3>2. lifecycle = "Forced" \/ pc = "dropped" \/ loop'[l] = "panicked"
      <4>1. CASE DrainLoop(l)
        <5>1. ForcedSeen /\ pc # "returned"
          BY <1>1, <2>2, <4>1 DEF DrainLoop, StopInv, Joined
        <5> QED
          BY <5>1 DEF ForcedSeen, SenderGone
      <4>2. CASE LoopAborted(l)
        BY <4>2 DEF LoopAborted, StopInv, Phases
      <4>3. CASE LoopPanics(l)
        BY <4>3 DEF LoopPanics, LoopGone, Goto, Typed
      <4> QED
        BY <2>2, <4>1, <4>2, <4>3 DEF LoopStep, AcquirePermit, PollStop,
           AcceptPending, AcceptFails, Accept, BackoffEnds, ShutdownLoop, connVars
    <3> QED
      BY <1>2, <3>1, <3>2 DEF Excused
  <2> QED
    BY <2>1, <2>2
<1>12. CutOnlyWhenForced'
  BY <1>10 DEF StopInv, CutOnlyWhenForced, Excused, None
<1> QED
  BY <1>4, <1>5, <1>6, <1>9, <1>11, <1>12 DEF StopInv

(* An accepted connection is its loop's, and that loop is not over.        *)
LEMMA AcceptKeepsStopInv ==
    ASSUME Typed, StopInv, NEW l \in Listeners, NEW c \in Conns, Accept(l, c)
    PROVE  StopInv'
<1> USE DEF Accept, Goto, Typed
<1>1. UNCHANGED <<pc, lifecycle, drain, result, joined, loopAbort, aborted>>
  BY DEF serverVars
<1>2. /\ conn[c] = None /\ conn'[c] \in {"handshake", "serving"} /\ owner'[c] = l
      /\ \A d \in Conns \ {c} : conn'[d] = conn[d] /\ owner'[d] = owner[d]
  OBVIOUS
<1>3. /\ ~Over(l) /\ loop'[l] = "acquire"
      /\ \A x \in Listeners \ {l} : loop'[x] = loop[x]
  BY DEF Over, LoopOver
<1>4. Phases' /\ Unreturned'
  BY <1>1 DEF StopInv, Phases, Unreturned
<1>5. OwnedByLoops'
  BY <1>2 DEF StopInv, OwnedByLoops
<1>6. Joined'
  BY <1>1, <1>3 DEF StopInv, Joined, Over
<1>7. Gone'
  <2> SUFFICES ASSUME NEW x \in Listeners, Over(x)', NEW d \in Conns,
                      owner'[d] = x, conn'[d] \in LiveState
               PROVE  d \in aborted
    BY <1>1 DEF Gone, Owned, Live
  <2>1. x # l /\ Over(x) /\ d # c
    BY <1>2, <1>3 DEF Over, LoopOver
  <2> QED
    BY <1>2, <2>1 DEF StopInv, Gone, Owned, Live
<1>8. \A d \in Conns \ {c} : conn[d] # None /\ Excused(d) => Excused(d)'
  <2> SUFFICES ASSUME NEW d \in Conns \ {c}, conn[d] # None
               PROVE  Excused(d) => Excused(d)'
    OBVIOUS
  <2>1. owner[d] \in Listeners /\ owner'[d] = owner[d]
    BY <1>2 DEF StopInv, OwnedByLoops
  <2>2. Over(owner[d]) => loop'[owner[d]] = loop[owner[d]]
    BY <1>3, <2>1
  <2> QED
    BY <1>1, <2>1, <2>2, ExcusedStays
<1>9. Told'
  <2>1. c \notin aborted
    BY <1>2 DEF StopInv, Told
  <2> QED
    BY <1>1, <1>2, <1>8, <2>1 DEF StopInv, Told
<1>10. CutOnlyWhenForced'
  BY <1>2, <1>8 DEF StopInv, CutOnlyWhenForced, Excused, None
<1> QED
  BY <1>4, <1>5, <1>6, <1>7, <1>9, <1>10 DEF StopInv

(* A connection is cut by a forced stop, which it reads itself, or by an   *)
(* abort, which Told excuses.                                              *)
LEMMA ConnKeepsStopInv ==
    ASSUME Typed, StopInv, NEW c \in Conns, ConnStep(c)
    PROVE  StopInv'
<1> USE DEF Typed
<1>1. UNCHANGED <<pc, lifecycle, drain, result, joined, loopAbort, loop, owner, aborted>>
  BY DEF ConnStep, HandshakeDone, HandshakeEnds, DriveDrains, DriveForced, DriveEnds,
         ConnAborted, End, serverVars, loopVars
<1>2. PICK s \in ConnState \ {None} : Becomes(c, s) /\ conn[c] \in LiveState
  BY DEF ConnStep, HandshakeDone, HandshakeEnds, DriveDrains, DriveForced, DriveEnds,
         ConnAborted, End, Becomes, Live, LiveState, ConnState, None
<1>3. /\ conn'[c] = s /\ conn[c] # None
      /\ \A d \in Conns \ {c} : conn'[d] = conn[d]
  BY <1>2 DEF Becomes, LiveState, None
<1>4. s = "cut" => Excused(c)
  <2>1. CASE DriveForced(c)
    <3>1. ForcedSeen /\ (lifecycle = "Running" => pc \in {"returned", "dropped"})
      BY <2>1 DEF DriveForced, Stopping, StopState, ForcedSeen, SenderGone
    <3> QED
      BY <2>1, <3>1 DEF DriveForced, StopState, StopInv, Phases, Excused
  <2>2. CASE ConnAborted(c)
    BY <2>2 DEF ConnAborted, StopInv, Told
  <2>3. ASSUME HandshakeDone(c) \/ HandshakeEnds(c) \/ DriveDrains(c) \/ DriveEnds(c)
        PROVE  s # "cut"
    BY <1>3, <2>3 DEF HandshakeDone, HandshakeEnds, DriveDrains, DriveEnds, End
  <2> QED
    BY <2>1, <2>2, <2>3 DEF ConnStep
<1>5. Phases' /\ Unreturned' /\ Joined'
  BY <1>1 DEF StopInv, Phases, Unreturned, Joined, Over
<1>6. OwnedByLoops' /\ Gone'
  BY <1>1, <1>2, <1>3 DEF StopInv, OwnedByLoops, Gone, Over, Owned, Live
<1>7. Told' /\ CutOnlyWhenForced'
  BY <1>1, <1>3, <1>4 DEF StopInv, Told, CutOnlyWhenForced, Excused
<1> QED
  BY <1>5, <1>6, <1>7 DEF StopInv

(* Every step keeps what is known of a stop.                               *)
LEMMA StopInvStep == Typed /\ StopInv /\ [Next]_vars => StopInv'
<1> SUFFICES ASSUME Typed, StopInv, [Next]_vars PROVE StopInv'
  OBVIOUS
<1>1. CASE ServerStep \/ DropServe \/ Signal \/ ShutdownTimerFires
  BY <1>1, ServerKeepsStopInv
<1>2. ASSUME NEW l \in Listeners, LoopStep(l) \/ LoopAborted(l) \/ LoopPanics(l)
      PROVE  StopInv'
  <2>1. CASE \E c \in Conns : Accept(l, c)
    BY <2>1, AcceptKeepsStopInv
  <2>2. CASE ~ \E c \in Conns : Accept(l, c)
    <3>1. UNCHANGED <<conn, owner>>
      BY <1>2, <2>2 DEF LoopStep, LoopAborted, LoopPanics, AcquirePermit, PollStop,
         AcceptPending, AcceptFails, BackoffEnds, DrainLoop, ShutdownLoop, LoopGone,
         connVars
    <3> QED
      BY <1>2, <3>1, LoopKeepsStopInv
  <2> QED
    BY <2>1, <2>2
<1>3. ASSUME NEW c \in Conns, ConnStep(c) PROVE StopInv'
  BY <1>3, ConnKeepsStopInv
<1>4. CASE Stopped \/ UNCHANGED vars
  BY <1>4 DEF Stopped, vars, serverVars, loopVars, connVars, StopInv, Phases,
     Unreturned, OwnedByLoops, Gone, Joined, Told, Excused, CutOnlyWhenForced, Over,
     Owned, Live
<1> QED
  BY <1>1, <1>2, <1>3, <1>4 DEF Next

(* Nothing has been stopped at the start.                                  *)
LEMMA InitStop == Init => StopInv
  BY DEF Init, StopInv, Phases, Unreturned, OwnedByLoops, Gone, Joined, Told,
     CutOnlyWhenForced, Over, LoopOver, None

(* What is known of a stop always holds.                                   *)
THEOREM StopInvHolds == Spec => [](Typed /\ StopInv)
  BY TypedBalanced, InitStop, StopInvStep, PTL DEF Spec

(* Only a forced stop, a dropped serve future or the panic of its own loop *)
(* cuts a connection: a drain, or another listener's failure, never does.  *)
THEOREM OnlyForceCuts == Spec => []CutOnlyWhenForced
<1>1. StopInv => CutOnlyWhenForced
  BY DEF StopInv
<1> QED
  BY <1>1, StopInvHolds, PTL

(* When serve has returned, whatever the result, every listener is closed  *)
(* and every connection task that is left has been told to abort.          *)
THEOREM ReturnLeavesNothingOpen == Spec => []ReturnStopsEverything
<1>1. Typed /\ StopInv => ReturnStopsEverything
  BY DEF StopInv, Typed, ReturnStopsEverything, Joined, Gone, OwnedByLoops, Owned,
     Live, LiveState, None
<1> QED
  BY <1>1, StopInvHolds, PTL

-----------------------------------------------------------------------------
(* Late connections.                                                       *)

(* A stop is never taken back.                                             *)
LEMMA StoppingStays == Typed /\ StopInv /\ [Next]_vars /\ Stopping => Stopping'
<1> SUFFICES ASSUME Typed, StopInv, [Next]_vars, Stopping PROVE Stopping'
  OBVIOUS
<1> USE DEF Stopping, SenderGone
<1>1. CASE ServerStep \/ DropServe \/ Signal \/ ShutdownTimerFires
  BY <1>1 DEF ServerStep, PollFailures, PollJoin, PollShutdown, PollForce, PollJoinAll,
     PollSleep, AbortLoops, JoinAborted, Return, DropServe, Signal,
     ShutdownTimerFires, BeginDrain, StopInv, Phases
<1>2. CASE UNCHANGED <<pc, lifecycle>>
  BY <1>2
<1>3. ASSUME NEW l \in Listeners, LoopStep(l) \/ LoopAborted(l) \/ LoopPanics(l)
      PROVE  UNCHANGED <<pc, lifecycle>>
  BY <1>3 DEF LoopStep, LoopAborted, LoopPanics, AcquirePermit, PollStop, AcceptPending,
     AcceptFails, Accept, BackoffEnds, DrainLoop, ShutdownLoop, LoopGone, serverVars
<1>4. ASSUME NEW c \in Conns, ConnStep(c) PROVE UNCHANGED <<pc, lifecycle>>
  BY <1>4 DEF ConnStep, HandshakeDone, HandshakeEnds, DriveDrains, DriveForced,
     DriveEnds, ConnAborted, End, serverVars
<1> QED
  BY <1>1, <1>2, <1>3, <1>4 DEF Next, Stopped, vars, serverVars

(* Once the stop has begun no loop comes back to accept: from acquire and  *)
(* from a backoff the way leads to the drain.                              *)
LEMMA DoorStaysShut ==
    ASSUME Typed, NEW l \in Listeners, Stopping,
           LoopStep(l) \/ LoopAborted(l) \/ LoopPanics(l),
           loop[l] \notin {"accept", "acceptIo", "backoff"}
    PROVE  /\ loop'[l] \notin {"accept", "acceptIo", "backoff"}
           /\ UNCHANGED <<conn, owner, late>>
  BY DEF LoopStep, LoopAborted, LoopPanics, AcquirePermit, PollStop, AcceptPending,
     AcceptFails, Accept, BackoffEnds, DrainLoop, ShutdownLoop, LoopGone, Goto, Typed,
     connVars

(* Every step keeps the late connections one for each listener.            *)
LEMMA LateInvStep == Typed /\ StopInv /\ LateInv /\ [Next]_vars => LateInv'
<1> SUFFICES ASSUME Typed, StopInv, LateInv, [Next]_vars PROVE LateInv'
  OBVIOUS
<1> USE DEF Typed
<1>1. Stopping => Stopping'
  BY StoppingStays
<1>2. \A c \in late : owner[c] \in Listeners
  BY DEF LateInv, StopInv, OwnedByLoops
<1>3. CASE UNCHANGED <<loop, conn, owner, late>>
  BY <1>1, <1>3 DEF LateInv
<1>4. ASSUME NEW l \in Listeners, LoopStep(l) \/ LoopAborted(l) \/ LoopPanics(l)
      PROVE  LateInv'
  <2>1. \A x \in Listeners \ {l} : loop'[x] = loop[x]
    BY <1>4 DEF LoopStep, LoopAborted, LoopPanics, AcquirePermit, PollStop,
       AcceptPending, AcceptFails, Accept, BackoffEnds, DrainLoop, ShutdownLoop,
       LoopGone, Goto
  <2>2. ASSUME NEW c \in late, owner[c] = l
        PROVE  LateInv'
    <3>1. loop[l] \notin {"accept", "acceptIo", "backoff"} /\ Stopping
      BY <2>2 DEF LateInv
    <3>2. /\ loop'[l] \notin {"accept", "acceptIo", "backoff"}
          /\ UNCHANGED <<conn, owner, late>>
      BY <1>4, <3>1, DoorStaysShut
    <3> QED
      BY <1>1, <1>2, <2>1, <3>2 DEF LateInv
  <2>3. ASSUME \A c \in late : owner[c] # l, UNCHANGED <<conn, owner, late>>
        PROVE  LateInv'
    BY <1>1, <1>2, <2>1, <2>3 DEF LateInv
  <2>4. ASSUME \A c \in late : owner[c] # l, NEW c \in Conns, Accept(l, c)
        PROVE  LateInv'
    <3>1. /\ c \notin late /\ owner'[c] = l /\ conn'[c] # None /\ loop'[l] = "acquire"
          /\ \A d \in Conns \ {c} : owner'[d] = owner[d] /\ conn'[d] = conn[d]
      BY <2>4 DEF Accept, Goto, LateInv, None
    <3>2. late' = late \/ (late' = late \cup {c} /\ Stopping)
      BY <2>4 DEF Accept, Stopping
    <3> QED
      BY <1>1, <1>2, <2>1, <2>4, <3>1, <3>2 DEF LateInv
  <2>5. (\E c \in Conns : Accept(l, c)) \/ UNCHANGED <<conn, owner, late>>
    BY <1>4 DEF LoopStep, LoopAborted, LoopPanics, AcquirePermit, PollStop,
       AcceptPending, AcceptFails, BackoffEnds, DrainLoop, ShutdownLoop, LoopGone,
       connVars
  <2> QED
    BY <2>2, <2>3, <2>4, <2>5
<1>5. ASSUME NEW c \in Conns, ConnStep(c) PROVE LateInv'
  <2>1. UNCHANGED <<loop, owner, late>>
    BY <1>5 DEF ConnStep, HandshakeDone, HandshakeEnds, DriveDrains, DriveForced,
       DriveEnds, ConnAborted, End, loopVars
  <2>2. \A d \in Conns : conn[d] # None => conn'[d] # None
    BY <1>5 DEF ConnStep, HandshakeDone, HandshakeEnds, DriveDrains, DriveForced,
       DriveEnds, ConnAborted, End, None
  <2> QED
    BY <1>1, <2>1, <2>2 DEF LateInv
<1>6. CASE ServerStep \/ DropServe \/ Signal \/ ShutdownTimerFires \/ Stopped
           \/ UNCHANGED vars
  BY <1>3, <1>6 DEF ServerStep, PollFailures, PollJoin, PollShutdown, PollForce,
     PollJoinAll, PollSleep, AbortLoops, JoinAborted, Return, DropServe, Signal,
     ShutdownTimerFires, Stopped, vars, loopVars, connVars
<1> QED
  BY <1>4, <1>5, <1>6 DEF Next

(* A set whose members are all equal has at most one.                      *)
LEMMA AtMostOne ==
    ASSUME NEW S, \A x, y \in S : x = y
    PROVE  Cardinality(S) <= 1
<1>1. CASE S = {}
  BY <1>1, FS_EmptySet
<1>2. ASSUME NEW x \in S PROVE Cardinality(S) <= 1
  <2>1. S = {x}
    BY <1>2
  <2> QED
    BY <2>1, FS_Singleton
<1> QED
  BY <1>1, <1>2

(* A stop closes the door: for any number of listeners, however its steps  *)
(* interleave with the accept loops', each hands over at most the one      *)
(* connection its select! was already polling for.                         *)
THEOREM OneLateAcceptAtMost == Spec => []AtMostOneLateAccept
<1>1. Init => LateInv
  BY DEF Init, LateInv
<1>2. LateInv => AtMostOneLateAccept
  BY AtMostOne DEF LateInv, AtMostOneLateAccept, Owned
<1> QED
  BY <1>1, <1>2, LateInvStep, StopInvHolds, PTL DEF Spec

-----------------------------------------------------------------------------
(* The safety half of the refinement: every step of the server is a step   *)
(* of GracefulStop, or one that a caller does not see.                     *)

AbstractStep == [Abstract!ANext]_(Abstract!avars)

(* What leaves each part of the caller's view as it was.                   *)
LEMMA PhaseStays ==
    ASSUME UNCHANGED lifecycle, UNCHANGED pc \/ ~(SenderGone \/ SenderGone')
    PROVE  PhaseSeen' = PhaseSeen
  BY DEF PhaseSeen, SenderGone

(* No loop crashed.                                                        *)
LEMMA CrashStays == ASSUME UNCHANGED loop PROVE CrashSeen' = CrashSeen
  BY DEF CrashSeen

(* Nothing was returned.                                                   *)
LEMMA OkStays == ASSUME UNCHANGED result PROVE OkSeen' = OkSeen
  BY DEF OkSeen

(* No connection moved.                                                    *)
LEMMA StatusStays == ASSUME UNCHANGED conn PROVE StatusSeen' = StatusSeen
  BY DEF StatusSeen

(* A stop that begins, in whatever way, is the abstract drain.             *)
LEMMA BeginDrainRefines ==
    ASSUME StopInv, pc \in {"failures", "join", "shutdown"}, BeginDrain,
           UNCHANGED <<loop, conn, result>>
    PROVE  AbstractStep
<1>1. PhaseSeen = "serving" /\ PhaseSeen' = "draining"
  BY DEF PhaseSeen, SenderGone, BeginDrain, StopInv, Phases
<1> QED
  BY <1>1, CrashStays, OkStays, StatusStays
     DEF AbstractStep, Abstract!ANext, Abstract!ADrain

(* A step the caller does not see.                                         *)
LEMMA UnseenRefines ==
    ASSUME UNCHANGED <<lifecycle, loop, conn, result>>,
           UNCHANGED pc \/ ~(SenderGone \/ SenderGone')
    PROVE  AbstractStep
  BY PhaseStays, CrashStays, OkStays, StatusStays DEF AbstractStep, Abstract!avars

(* Without a crash, a drain that ran to its end cut and left nothing.      *)
LEMMA CompleteIsClean ==
    ASSUME Typed, StopInv, pc = "return", lifecycle = "Draining", ~CrashSeen,
           NEW c \in Conns
    PROVE  StatusSeen[c] \in {"none", "finished"}
<1>1. conn[c] # None => owner[c] \in Listeners /\ loop[owner[c]] # "panicked"
  BY DEF StopInv, OwnedByLoops, CrashSeen
<1>2. conn[c] # "cut"
  BY <1>1 DEF StopInv, CutOnlyWhenForced, None
<1>3. c \notin aborted
  BY <1>1 DEF StopInv, Told, Excused
<1>4. c \notin Live
  BY <1>1, <1>3 DEF StopInv, Joined, Gone, Owned, Live, LiveState, None
<1> QED
  BY <1>2, <1>4 DEF StatusSeen, Live, Typed, ConnState, LiveState, None

(* serve returns as the promise says: Ok, or an error after a drain that   *)
(* ran to its end, only when nothing was cut or left.                      *)
LEMMA ReturnRefines ==
    ASSUME Typed, StopInv, Return
    PROVE  AbstractStep
<1>1. StatusSeen' = StatusSeen /\ CrashSeen' = CrashSeen
  BY CrashStays, StatusStays DEF Return, loopVars, connVars
<1>2. PhaseSeen' = "returned"
  BY DEF Return, PhaseSeen, SenderGone
<1>3. OkSeen = FALSE
  BY Zenon DEF Return, OkSeen, StopInv, Unreturned, None
<1>4. CASE lifecycle = "Draining"
  <2>1. PhaseSeen = "draining"
    BY <1>4 DEF Return, PhaseSeen, SenderGone
  <2>2. CrashSeen \/ \A c \in Conns : StatusSeen[c] \in {"none", "finished"}
    BY <1>4, CompleteIsClean DEF Return
  <2>3. OkSeen' = TRUE \/ OkSeen' = FALSE
    BY Zenon DEF OkSeen
  <2> QED
    BY <1>1, <1>2, <1>3, <2>1, <2>2, <2>3
       DEF AbstractStep, Abstract!ANext, Abstract!AReturnOk, Abstract!AReturnError
<1>5. CASE lifecycle = "Forced"
  <2>1. PhaseSeen = "forced"
    BY <1>5 DEF Return, PhaseSeen, SenderGone
  <2>2. result' # "Ok"
    BY <1>5 DEF Return, DrainResult, StopInv, Phases, Typed, RootError, None
  <2>3. OkSeen' = FALSE
    BY <2>2, Zenon DEF OkSeen
  <2> QED
    BY <1>1, <1>2, <1>3, <2>1, <2>3
       DEF AbstractStep, Abstract!ANext, Abstract!AReturnError
<1> QED
  BY <1>4, <1>5 DEF Return, StopInv, Phases

(* Every step of the serve future, and of what happens to it.              *)
LEMMA ServerRefines ==
    ASSUME Typed, StopInv, ServerStep \/ DropServe \/ Signal \/ ShutdownTimerFires
    PROVE  AbstractStep
<1>1. ASSUME Return PROVE AbstractStep
  BY <1>1, ReturnRefines
<1>2. ~Return => UNCHANGED <<loop, conn, result>>
  BY DEF ServerStep, PollFailures, PollJoin, PollShutdown, PollForce, PollJoinAll,
     PollSleep, AbortLoops, JoinAborted, DropServe, Signal, ShutdownTimerFires,
     loopVars, connVars
<1>3. CASE PollFailures \/ PollJoin \/ PollShutdown
  <2>1. ~Return
    BY <1>3 DEF PollFailures, PollJoin, PollShutdown, Return
  <2>2. CASE BeginDrain
    BY <1>2, <1>3, <2>1, <2>2, BeginDrainRefines DEF PollFailures, PollJoin, PollShutdown
  <2>3. CASE ~BeginDrain
    BY <1>2, <1>3, <2>1, <2>3, UnseenRefines DEF PollFailures, PollJoin, PollShutdown,
       SenderGone
  <2> QED
    BY <2>2, <2>3
<1>4. CASE PollForce \/ PollJoinAll \/ PollSleep \/ JoinAborted
  BY <1>2, <1>4, UnseenRefines DEF PollForce, PollJoinAll, PollSleep, JoinAborted,
     Return, SenderGone
<1>5. CASE AbortLoops
  <2>1. PhaseSeen = "draining" /\ PhaseSeen' = "forced"
    BY <1>5 DEF AbortLoops, PhaseSeen, SenderGone, StopInv, Phases
  <2>2. UNCHANGED <<loop, conn, result>>
    BY <1>2, <1>5 DEF AbortLoops, Return
  <2> QED
    BY <2>1, <2>2, CrashStays, OkStays, StatusStays
       DEF AbstractStep, Abstract!ANext, Abstract!AForce
<1>6. CASE DropServe
  <2>1. PhaseSeen \in {"serving", "draining", "forced"} /\ PhaseSeen' = "dropped"
    BY <1>6 DEF DropServe, PhaseSeen, SenderGone
  <2>2. UNCHANGED <<loop, conn, result>>
    BY <1>2, <1>6 DEF DropServe, Return
  <2> QED
    BY <2>1, <2>2, CrashStays, OkStays, StatusStays
       DEF AbstractStep, Abstract!ANext, Abstract!ADrop
<1>7. CASE Signal \/ ShutdownTimerFires
  <2>1. UNCHANGED <<pc, lifecycle, loop, conn, result>>
    BY <1>7 DEF Signal, ShutdownTimerFires, loopVars, connVars
  <2> QED
    BY <2>1, UnseenRefines
<1> QED
  BY <1>1, <1>3, <1>4, <1>5, <1>6, <1>7 DEF ServerStep

(* A loop's own steps are not seen, unless it panics.                      *)
LEMMA LoopRefines ==
    ASSUME Typed, StopInv, NEW l \in Listeners,
           LoopStep(l) \/ LoopAborted(l) \/ LoopPanics(l), UNCHANGED conn
    PROVE  AbstractStep
<1>1. PICK s \in LoopState : Goto(l, s) /\ ~Over(l)
  BY DEF LoopStep, LoopAborted, LoopPanics, AcquirePermit, PollStop, AcceptPending,
         AcceptFails, Accept, BackoffEnds, DrainLoop, ShutdownLoop, LoopGone, Goto,
         LoopState, Over, LoopOver
<1>2. UNCHANGED <<pc, lifecycle, result>>
  BY DEF LoopStep, LoopAborted, LoopPanics, AcquirePermit, PollStop, AcceptPending,
         AcceptFails, Accept, BackoffEnds, DrainLoop, ShutdownLoop, LoopGone,
         serverVars
<1>3. PhaseSeen' = PhaseSeen /\ OkSeen' = OkSeen /\ StatusSeen' = StatusSeen
  BY <1>2, PhaseStays, OkStays, StatusStays
<1>4. /\ loop'[l] = s /\ loop[l] # "panicked"
      /\ \A x \in Listeners \ {l} : loop'[x] = loop[x]
  BY <1>1 DEF Goto, Over, LoopOver, Typed
<1>5. \/ CrashSeen' = CrashSeen
      \/ ~CrashSeen /\ CrashSeen' = TRUE
  <2>1. CASE s = "panicked"
    <3>1. CrashSeen' = TRUE
      BY <1>4, <2>1, Zenon DEF CrashSeen
    <3>2. CrashSeen = TRUE \/ ~CrashSeen
      BY Zenon DEF CrashSeen
    <3> QED
      BY <3>1, <3>2
  <2>2. CASE s # "panicked"
    <3>1. \A x \in Listeners : loop'[x] = "panicked" <=> loop[x] = "panicked"
      BY <1>4, <2>2
    <3> QED
      BY <3>1, Zenon DEF CrashSeen
  <2> QED
    BY <2>1, <2>2
<1> QED
  BY <1>3, <1>5 DEF AbstractStep, Abstract!ANext, Abstract!ACrash, Abstract!avars

(* One connection's status changes, and nothing else a caller sees.        *)
LEMMA StatusMoves ==
    ASSUME Typed, NEW c \in Conns, NEW s \in ConnState \ {None}, Becomes(c, s)
    PROVE  StatusSeen' = [StatusSeen EXCEPT ![c] = IF s \in LiveState THEN "live" ELSE s]
  BY DEF Becomes, StatusSeen, Typed

(* Accepting takes a new connection, before serve has returned.            *)
LEMMA AcceptRefines ==
    ASSUME Typed, StopInv, NEW l \in Listeners, NEW c \in Conns, Accept(l, c)
    PROVE  AbstractStep
<1>1. PICK s \in {"handshake", "serving"} : Becomes(c, s)
  BY DEF Accept, Becomes
<1>2. StatusSeen[c] = "none" /\ StatusSeen' = [StatusSeen EXCEPT ![c] = "live"]
  <2>1. s \in ConnState \ {None} /\ s \in LiveState
    BY DEF ConnState, LiveState, None
  <2> QED
    BY <1>1, <2>1, StatusMoves DEF Accept, StatusSeen, LiveState, None
<1>3. UNCHANGED <<pc, lifecycle, result>>
  BY DEF Accept, serverVars
<1>4. PhaseSeen' = PhaseSeen /\ OkSeen' = OkSeen
  BY <1>3, PhaseStays, OkStays
<1>5. PhaseSeen # "returned"
  <2>1. pc # "returned"
    BY DEF Accept, StopInv, Joined, Over, LoopOver
  <2> QED
    BY <2>1 DEF PhaseSeen, SenderGone
<1>6. CrashSeen' = CrashSeen
  <2>1. \A x \in Listeners : loop'[x] = "panicked" <=> loop[x] = "panicked"
    BY DEF Accept, Goto, Typed
  <2> QED
    BY <2>1, Zenon DEF CrashSeen
<1> QED
  BY <1>2, <1>4, <1>5, <1>6 DEF AbstractStep, Abstract!ANext, Abstract!AAccept,
     Abstract!Set

(* A connection ends on its own, or is cut where the promise allows it.    *)
LEMMA ConnRefines ==
    ASSUME Typed, StopInv, NEW c \in Conns, ConnStep(c)
    PROVE  AbstractStep
<1>1. UNCHANGED <<pc, lifecycle, result, loop>>
  BY DEF ConnStep, HandshakeDone, HandshakeEnds, DriveDrains, DriveForced, DriveEnds,
         ConnAborted, End, serverVars, loopVars
<1>2. PhaseSeen' = PhaseSeen /\ OkSeen' = OkSeen /\ CrashSeen' = CrashSeen
  BY <1>1, PhaseStays, OkStays, CrashStays
<1>3. conn[c] \in LiveState /\ StatusSeen[c] = "live"
  BY DEF ConnStep, HandshakeDone, HandshakeEnds, DriveDrains, DriveForced, DriveEnds,
         ConnAborted, Live, LiveState, StatusSeen
<1>4. CASE HandshakeDone(c) \/ DriveDrains(c)
  <2>1. PICK s \in LiveState : Becomes(c, s)
    BY <1>4 DEF HandshakeDone, DriveDrains, Becomes, LiveState
  <2>2. s \in ConnState \ {None}
    BY DEF LiveState, ConnState, None
  <2>3. StatusSeen' = StatusSeen
    BY <1>3, <2>1, <2>2, StatusMoves DEF StatusSeen
  <2> QED
    BY <1>2, <2>3 DEF AbstractStep, Abstract!avars
<1>5. CASE HandshakeEnds(c) \/ DriveEnds(c)
  <2>1. StatusSeen' = [StatusSeen EXCEPT ![c] = "finished"]
    <3>1. Becomes(c, "finished")
      BY <1>5 DEF HandshakeEnds, DriveEnds, End, Becomes
    <3>2. "finished" \in ConnState \ {None} /\ "finished" \notin LiveState
      BY DEF ConnState, None, LiveState
    <3> QED
      BY <3>1, <3>2, StatusMoves
  <2> QED
    BY <1>2, <1>3, <2>1 DEF AbstractStep, Abstract!ANext, Abstract!AFinish, Abstract!Set
<1>6. CASE DriveForced(c) \/ ConnAborted(c)
  <2>1. StatusSeen' = [StatusSeen EXCEPT ![c] = "cut"]
    <3>1. Becomes(c, "cut")
      BY <1>6 DEF DriveForced, ConnAborted, End, Becomes
    <3>2. "cut" \in ConnState \ {None} /\ "cut" \notin LiveState
      BY DEF ConnState, None, LiveState
    <3> QED
      BY <3>1, <3>2, StatusMoves
  <2>2. lifecycle = "Forced" \/ pc = "dropped" \/ CrashSeen
    <3>1. CASE ConnAborted(c)
      BY <3>1 DEF ConnAborted, StopInv, Told, Excused, OwnedByLoops, CrashSeen
    <3>2. CASE DriveForced(c)
      BY <3>2 DEF DriveForced, Stopping, StopState, SenderGone, StopInv, Phases
    <3> QED
      BY <1>6, <3>1, <3>2
  <2>3. PhaseSeen \in {"forced", "dropped", "returned"} \/ CrashSeen
    BY <2>2 DEF PhaseSeen, SenderGone
  <2>4. ~OkSeen \/ CrashSeen
    <3>1. result = "Ok" => lifecycle = "Draining" /\ pc = "returned"
      BY DEF StopInv, Phases, Unreturned, None
    <3> QED
      BY <2>2, <3>1 DEF OkSeen
  <2> QED
    BY <1>2, <1>3, <2>1, <2>3, <2>4
       DEF AbstractStep, Abstract!ANext, Abstract!ACut, Abstract!Set
<1> QED
  BY <1>4, <1>5, <1>6 DEF ConnStep

(* Every step of the server is one of GracefulStop or is not seen.         *)
LEMMA NextRefines == Typed /\ StopInv /\ [Next]_vars => AbstractStep
<1> SUFFICES ASSUME Typed, StopInv, [Next]_vars PROVE AbstractStep
  OBVIOUS
<1>1. ASSUME NEW l \in Listeners, LoopStep(l) \/ LoopAborted(l) \/ LoopPanics(l)
      PROVE  AbstractStep
  <2>1. (\E c \in Conns : Accept(l, c)) \/ UNCHANGED conn
    BY <1>1 DEF LoopStep, LoopAborted, LoopPanics, AcquirePermit, PollStop,
       AcceptPending, AcceptFails, BackoffEnds, DrainLoop, ShutdownLoop, LoopGone,
       connVars
  <2> QED
    BY <1>1, <2>1, AcceptRefines, LoopRefines
<1>2. ASSUME NEW c \in Conns, ConnStep(c) PROVE AbstractStep
  BY <1>2, ConnRefines
<1>3. CASE Stopped \/ UNCHANGED vars
  <2>1. UNCHANGED <<pc, lifecycle, loop, conn, result>>
    BY <1>3 DEF Stopped, vars, serverVars, loopVars, connVars
  <2> QED
    BY <2>1, UnseenRefines
<1> QED
  BY <1>1, <1>2, <1>3, ServerRefines DEF Next

(* The server starts where the promise does.                               *)
LEMMA InitRefines == Init => Abstract!AInit
<1> SUFFICES ASSUME Init PROVE Abstract!AInit
  OBVIOUS
<1>1. PhaseSeen = "serving"
  BY DEF Init, PhaseSeen, SenderGone
<1>2. CrashSeen = FALSE
  <2>1. \A l \in Listeners : loop[l] # "panicked"
    BY DEF Init
  <2> QED
    BY <2>1, Zenon DEF CrashSeen
<1>3. OkSeen = FALSE
  BY Zenon DEF Init, OkSeen, None
<1>4. StatusSeen = [c \in Conns |-> "none"]
  BY DEF Init, StatusSeen, LiveState, None
<1> QED
  BY <1>1, <1>2, <1>3, <1>4 DEF Abstract!AInit

(* serve keeps the promise of GracefulStop, for any listeners and any      *)
(* connections: it takes none after it has returned, cuts none but in a    *)
(* forced stop, a dropped future or a crash, and says Ok only when it left *)
(* nothing.  That it does return is left to the runs.                      *)
THEOREM KeepsGracefulStop ==
    Spec => Abstract!AInit /\ [][Abstract!ANext]_(Abstract!avars)
<1>1. Typed /\ StopInv /\ [Next]_vars => [Abstract!ANext]_(Abstract!avars)
  BY NextRefines DEF AbstractStep
<1> QED
  BY <1>1, InitRefines, StopInvHolds, PTL DEF Spec
=============================================================================
