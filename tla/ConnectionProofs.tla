-------------------------- MODULE ConnectionProofs --------------------------
(***************************************************************************)
(* Proofs about Connection, and about the Streams it extends, for any      *)
(* number of requests and any settings.  First of Streams: the counters    *)
(* count, the idle wait resolves only after a quiet period, and no wake-up *)
(* is lost.  Then a connection only takes steps of Streams, so all of that *)
(* holds of it, and so its timers cut no request.                          *)
(***************************************************************************)
EXTENDS Connection, FiniteSetTheorems, TLAPS

Begun == {"open", "dropping", "gone"}
Ended == {"dropping", "gone"}

(* How many streams have begun, and how many have ended.                   *)
BegunCount == Cardinality({s \in Streams : stream[s] \in Begun})
EndedCount == Cardinality({s \in Streams : stream[s] \in Ended})

(* Types without bounds; the bounds of TypeOK follow from Counted.         *)
Typed ==
    /\ opened \in Nat /\ closed \in Nat
    /\ waiter \in WaiterState
    /\ stream \in [Streams -> StreamState]
    /\ closedWas \in [Streams -> Nat]
    /\ pc \in IdlePC /\ sawClosed \in Nat /\ sawOpened \in Nat

Flags == permit \in BOOLEAN /\ busy \in BOOLEAN

(* Each counter counts the streams that passed its fetch_add.              *)
Counted == opened = BegunCount /\ closed = EndedCount

(* Only the guards not yet dropped separate the counters.                  *)
Between ==
    /\ closed <= opened
    /\ closed = opened <=> Held = {}

(* What the two readings say while the wait goes on.                       *)
Readings ==
    /\ pc = "readOpened" =>
        sawClosed <= closed /\ (busy => sawClosed < opened)
    /\ pc = "await" =>
        sawClosed <= closed /\ (opened = 0 \/ sawClosed < opened)
    /\ pc \in {"sleep", "recheck"} =>
        /\ sawOpened > 0 /\ sawOpened <= opened
        /\ opened = sawOpened => ~busy /\ Held = {}

(* While the waiter has not been notified, the drop that leaves none in    *)
(* flight is still to read `opened`.                                       *)
Waking ==
    /\ pc \in {"readClosed", "readOpened", "await"} => waiter # "none"
    /\ pc \in {"readOpened", "await"} /\ waiter = "registered"
         /\ sawClosed < closed /\ closed = opened =>
           \E s \in Streams : stream[s] = "dropping" /\ closedWas[s] = closed

IInv == Typed /\ Flags /\ Counted /\ Readings /\ Waking

-----------------------------------------------------------------------------
(* The counters differ exactly by the guards that are held.                *)
LEMMA CountedIsBetween == Typed /\ Counted => Between
<1> SUFFICES ASSUME Typed, Counted PROVE Between
  OBVIOUS
<1> DEFINE B == {s \in Streams : stream[s] \in Begun}
<1> DEFINE E == {s \in Streams : stream[s] \in Ended}
<1>1. IsFiniteSet(B)
  <2>1. B \in SUBSET Streams
    OBVIOUS
  <2> QED
    BY <2>1, FS_Subset, StreamsAssumption
<1>2. E \in SUBSET B
  BY DEF Begun, Ended
<1>3. Cardinality(E) <= Cardinality(B) /\ (Cardinality(B) = Cardinality(E) => B = E)
  BY <1>1, <1>2, FS_Subset
<1>4. B = E <=> Held = {}
  BY DEF Begun, Ended, Held, Typed, StreamState
<1>5. opened = Cardinality(B) /\ closed = Cardinality(E)
  BY DEF Counted, BegunCount, EndedCount
<1> HIDE DEF B, E
<1> QED
  BY <1>3, <1>4, <1>5 DEF Between

(* The counters never pass the number of streams.                          *)
LEMMA CountedIsBounded == Typed /\ Counted => opened \in 0..N /\ closed \in 0..N
<1> SUFFICES ASSUME Typed, Counted PROVE opened \in 0..N /\ closed \in 0..N
  OBVIOUS
<1> DEFINE B == {s \in Streams : stream[s] \in Begun}
<1>1. B \in SUBSET Streams
  OBVIOUS
<1>2. Cardinality(B) <= Cardinality(Streams) /\ Cardinality(Streams) \in Nat
  BY <1>1, FS_Subset, FS_CardinalityType, StreamsAssumption
<1>3. opened = Cardinality(B)
  BY DEF Counted, BegunCount
<1>4. closed <= opened
  BY CountedIsBetween DEF Between
<1> HIDE DEF B
<1> QED
  BY <1>2, <1>3, <1>4 DEF N, Typed

Moves(s, to) == stream' = [stream EXCEPT ![s] = to]

(* A stream that moves to a state G that it was not in is one more in G.   *)
LEMMA OneMore ==
    ASSUME NEW G, NEW s \in Streams, NEW to, Moves(s, to), stream \in [Streams -> StreamState],
           stream[s] \in G => to \in G
    PROVE  Cardinality({x \in Streams : stream'[x] \in G})
             = Cardinality({x \in Streams : stream[x] \in G})
                 + IF to \in G /\ stream[s] \notin G THEN 1 ELSE 0
<1> DEFINE In == {x \in Streams : stream[x] \in G}
<1> DEFINE After == {x \in Streams : stream'[x] \in G}
<1>1. IsFiniteSet(In) /\ Cardinality(In) \in Nat
  <2>1. In \in SUBSET Streams
    OBVIOUS
  <2> QED
    BY <2>1, FS_Subset, FS_CardinalityType, StreamsAssumption
<1>2. stream'[s] = to /\ \A x \in Streams \ {s} : stream'[x] = stream[x]
  BY DEF Moves
<1>3. CASE to \in G /\ stream[s] \notin G
  <2>1. After = In \cup {s} /\ s \notin In
    BY <1>2, <1>3
  <2> HIDE DEF In, After
  <2>2. Cardinality(After) = Cardinality(In) + 1
    BY <1>1, <2>1, FS_AddElement
  <2> QED
    BY <1>3, <2>2 DEF In, After
<1>4. CASE ~(to \in G /\ stream[s] \notin G)
  <2>1. After = In
    BY <1>2, <1>4
  <2> HIDE DEF In, After
  <2>2. Cardinality(After) = Cardinality(In) + 0
    BY <1>1, <2>1
  <2> QED
    BY <1>4, <2>2 DEF In, After
<1> QED
  BY <1>3, <1>4

(* A stream counts once as begun and once as ended, and never less.        *)
LEMMA CountsMove ==
    ASSUME Typed, NEW s \in Streams, NEW to, Moves(s, to),
           stream[s] \in Begun => to \in Begun, stream[s] \in Ended => to \in Ended
    PROVE  /\ BegunCount' = BegunCount + IF to \in Begun /\ stream[s] \notin Begun THEN 1 ELSE 0
           /\ EndedCount' = EndedCount + IF to \in Ended /\ stream[s] \notin Ended THEN 1 ELSE 0
<1>1. stream \in [Streams -> StreamState]
  BY DEF Typed
<1> QED
  BY <1>1, OneMore DEF BegunCount, EndedCount, Begun, Ended

(* The counts are natural numbers.                                         *)
LEMMA CountsAreNat == BegunCount \in Nat /\ EndedCount \in Nat
<1>1. \A T \in SUBSET Streams : Cardinality(T) \in Nat
  BY FS_Subset, FS_CardinalityType, StreamsAssumption
<1> QED
  BY <1>1 DEF BegunCount, EndedCount

(* Every step keeps the types.                                             *)
LEMMA TypedStep == Typed /\ Flags /\ [Next]_vars => Typed' /\ Flags'
<1> SUFFICES ASSUME Typed, Flags, [Next]_vars PROVE Typed' /\ Flags'
  OBVIOUS
<1> USE DEF IdlePC, WaiterState, StreamState, idleVars
<1>1. Typed'
  <2> USE DEF Typed
  <2>1. ASSUME NEW s \in Streams, Open(s) \/ Drop(s) PROVE Typed'
    BY <2>1 DEF Open, Drop
  <2>2. ASSUME NEW s \in Streams, DropWakes(s) PROVE Typed'
    BY <2>2 DEF DropWakes, NotifyOne
  <2>3. CASE Enable
    <3>1. waiter' \in WaiterState
      BY <2>3 DEF Enable
    <3> QED
      BY <2>3, <3>1 DEF Enable
  <2>4. CASE ReadClosed \/ ReadOpened
    BY <2>4 DEF ReadClosed, ReadOpened
  <2>5. CASE Woken \/ TimerFires \/ Again
    BY <2>5 DEF Woken, TimerFires, Again
  <2>6. CASE Recheck \/ Abandon
    BY <2>6 DEF Recheck, Abandon, DropWaiter
  <2>7. CASE UNCHANGED vars
    BY <2>7 DEF vars
  <2> QED
    BY <2>1, <2>2, <2>3, <2>4, <2>5, <2>6, <2>7 DEF Next, IdleStep
<1>2. Flags'
  BY Zenon DEF Flags, Next, IdleStep, Open, Drop, DropWakes, NotifyOne, Enable,
     ReadClosed, ReadOpened, Woken, TimerFires, Recheck, DropWaiter, Again, Abandon, vars
<1> QED
  BY <1>1, <1>2

(* Every step keeps the counters counting.                                 *)
LEMMA CountedStep == Typed /\ Counted /\ [Next]_vars => Counted'
<1> SUFFICES ASSUME Typed, Counted, [Next]_vars PROVE Counted'
  OBVIOUS
<1> USE CountsAreNat
<1>1. ASSUME NEW s \in Streams, Open(s) PROVE Counted'
  <2>1. BegunCount' = BegunCount + 1 /\ EndedCount' = EndedCount
    <3>1. stream[s] = "new" /\ Moves(s, "open")
      BY <1>1 DEF Open, Moves
    <3>2. /\ BegunCount' = BegunCount + IF "open" \in Begun /\ stream[s] \notin Begun THEN 1 ELSE 0
          /\ EndedCount' = EndedCount + IF "open" \in Ended /\ stream[s] \notin Ended THEN 1 ELSE 0
      BY <3>1, CountsMove DEF Begun, Ended
    <3> QED
      BY <3>1, <3>2 DEF Begun, Ended
  <2> QED
    BY <1>1, <2>1 DEF Counted, Open
<1>2. ASSUME NEW s \in Streams, Drop(s) PROVE Counted'
  <2>1. BegunCount' = BegunCount /\ EndedCount' = EndedCount + 1
    <3>1. stream[s] = "open" /\ Moves(s, "dropping")
      BY <1>2 DEF Drop, Moves
    <3>2. /\ BegunCount' = BegunCount + IF "dropping" \in Begun /\ stream[s] \notin Begun THEN 1 ELSE 0
          /\ EndedCount' = EndedCount + IF "dropping" \in Ended /\ stream[s] \notin Ended THEN 1 ELSE 0
      BY <3>1, CountsMove DEF Begun, Ended
    <3> QED
      BY <3>1, <3>2 DEF Begun, Ended
  <2> QED
    BY <1>2, <2>1 DEF Counted, Drop
<1>3. ASSUME NEW s \in Streams, DropWakes(s) PROVE Counted'
  <2>1. BegunCount' = BegunCount /\ EndedCount' = EndedCount
    <3>1. stream[s] = "dropping" /\ Moves(s, "gone")
      BY <1>3 DEF DropWakes, Moves
    <3>2. /\ BegunCount' = BegunCount + IF "gone" \in Begun /\ stream[s] \notin Begun THEN 1 ELSE 0
          /\ EndedCount' = EndedCount + IF "gone" \in Ended /\ stream[s] \notin Ended THEN 1 ELSE 0
      BY <3>1, CountsMove DEF Begun, Ended
    <3> QED
      BY <3>1, <3>2 DEF Begun, Ended
  <2> QED
    BY <1>3, <2>1 DEF Counted, DropWakes
<1>4. ASSUME UNCHANGED <<stream, opened, closed>> PROVE Counted'
  BY <1>4 DEF Counted, BegunCount, EndedCount
<1> QED
  BY <1>1, <1>2, <1>3, <1>4 DEF Next, IdleStep, Enable, ReadClosed, ReadOpened,
     Woken, TimerFires, Recheck, Again, Abandon, vars

(* Every step keeps what the readings say.                                 *)
LEMMA ReadingsStep ==
    Typed /\ Flags /\ Between /\ Readings /\ [Next]_vars => Readings'
<1> SUFFICES ASSUME Typed, Flags, Between, Readings, [Next]_vars
             PROVE  Readings'
  OBVIOUS
<1> USE DEF Typed, Between, Readings, Held, idleVars
<1>1. ASSUME NEW s \in Streams, Open(s) PROVE Readings'
  BY <1>1 DEF Open
<1>2. ASSUME NEW s \in Streams, Drop(s) PROVE Readings'
  BY <1>2 DEF Drop
<1>3. ASSUME NEW s \in Streams, DropWakes(s) PROVE Readings'
  BY <1>3 DEF DropWakes
<1>4. CASE Enable
  BY <1>4 DEF Enable
<1>5. CASE ReadClosed
  <2>1. closed < opened <=> Held # {}
    OBVIOUS
  <2>2. busy' <=> Held # {}
    BY <1>5 DEF ReadClosed
  <2> QED
    BY <1>5, <2>1, <2>2 DEF ReadClosed
<1>6. CASE ReadOpened
  BY <1>6 DEF ReadOpened
<1>7. CASE Woken \/ TimerFires \/ Recheck \/ Again \/ Abandon
  BY <1>7 DEF Woken, TimerFires, Recheck, Again, Abandon
<1>8. CASE UNCHANGED vars
  BY <1>8 DEF vars
<1> QED
  BY <1>1, <1>2, <1>3, <1>4, <1>5, <1>6, <1>7, <1>8 DEF Next, IdleStep

(* Every step keeps a wake-up on its way.                                  *)
LEMMA WakingStep ==
    Typed /\ Flags /\ Between /\ Readings /\ Waking /\ [Next]_vars => Waking'
<1> SUFFICES ASSUME Typed, Between, Readings, Waking, [Next]_vars
             PROVE  Waking'
  OBVIOUS
<1> USE DEF Typed, Between, Waking, Held, idleVars
<1>1. ASSUME NEW s \in Streams, Open(s) PROVE Waking'
  BY <1>1 DEF Open
<1>2. ASSUME NEW s \in Streams, Drop(s) PROVE Waking'
  <2>1. stream'[s] = "dropping" /\ closedWas'[s] = closed'
    BY <1>2 DEF Drop
  <2> QED
    BY <1>2, <2>1 DEF Drop
<1>3. ASSUME NEW s \in Streams, DropWakes(s) PROVE Waking'
  <2>1. waiter' # "none" \/ waiter = "none"
    BY <1>3 DEF DropWakes, NotifyOne
  <2>2. CASE closedWas[s] = opened
    <3>1. waiter' # "registered"
      BY <1>3, <2>2 DEF DropWakes, NotifyOne
    <3> QED
      BY <1>3, <2>1, <3>1 DEF DropWakes
  <2>3. CASE closedWas[s] # opened
    <3>1. UNCHANGED waiter
      BY <1>3, <2>3 DEF DropWakes
    <3>2. \A x \in Streams : x # s => stream'[x] = stream[x]
      BY <1>3 DEF DropWakes
    <3> QED
      BY <1>3, <2>1, <2>3, <3>1, <3>2 DEF DropWakes
  <2> QED
    BY <2>2, <2>3
<1>4. CASE Enable
  BY <1>4 DEF Enable
<1>5. CASE ReadClosed \/ ReadOpened
  BY <1>5 DEF ReadClosed, ReadOpened
<1>6. CASE Woken \/ TimerFires \/ Recheck \/ Again \/ Abandon
  BY <1>6 DEF Woken, TimerFires, Recheck, Again, Abandon
<1>7. CASE UNCHANGED vars
  BY <1>7 DEF vars
<1> QED
  BY <1>1, <1>2, <1>3, <1>4, <1>5, <1>6, <1>7 DEF Next, IdleStep

(* The start state.                                                        *)
LEMMA InitIInv == Init => IInv
<1> SUFFICES ASSUME Init PROVE IInv
  OBVIOUS
<1>1. Typed
  BY DEF Init, Typed, WaiterState, StreamState, IdlePC
<1>2. Flags
  BY Zenon DEF Init, Flags
<1>3. {s \in Streams : stream[s] \in Begun} = {} /\ {s \in Streams : stream[s] \in Ended} = {}
  BY DEF Init, Begun, Ended
<1>4. Counted
  BY <1>3, FS_EmptySet DEF Init, Counted, BegunCount, EndedCount
<1>5. Readings /\ Waking
  BY DEF Init, Readings, Waking
<1> QED
  BY <1>1, <1>2, <1>4, <1>5 DEF IInv

(* The inductive invariant holds in every reachable state.                 *)
LEMMA InductiveInvariant == Spec => []IInv
<1>1. IInv /\ [Next]_vars => IInv'
  BY TypedStep, CountedStep, ReadingsStep, WakingStep, CountedIsBetween DEF IInv
<1> QED
  BY <1>1, InitIInv, PTL DEF Spec

(* No wake-up of the idle wait is lost, however many streams open and drop *)
(* around its two readings of the counters.                                *)
THEOREM NoWakeupIsLost == Spec => []NoLostWakeup
<1>1. IInv => NoLostWakeup
  <2> SUFFICES ASSUME IInv, pc = "await", opened > 0, Held = {}
               PROVE  waiter = "notified" \/ \E s \in Streams : stream[s] = "dropping"
    BY DEF NoLostWakeup
  <2>1. closed = opened
    BY CountedIsBetween DEF IInv, Between
  <2>2. sawClosed < closed
    BY <2>1 DEF IInv, Readings, Typed
  <2> QED
    BY <2>1, <2>2 DEF IInv, Waking, Typed, WaiterState
<1> QED
  BY <1>1, InductiveInvariant, PTL

(* The idle wait resolves only after a period in which no stream was in    *)
(* flight at any moment, and never before the first one.                   *)
THEOREM IdleMeansQuiet == Spec => ResolvesOnlyWhenQuiet
<1>1. IInv /\ [Next]_vars =>
        [pc # "resolved" /\ pc' = "resolved" => ~busy /\ Held = {} /\ opened > 0]_vars
  <2> SUFFICES ASSUME IInv, [Next]_vars, pc # "resolved", pc' = "resolved"
               PROVE  ~busy /\ Held = {} /\ opened > 0
    BY DEF vars
  <2>1. pc = "recheck" /\ opened = sawOpened
    BY DEF Next, IdleStep, Open, Drop, DropWakes, Enable, ReadClosed, ReadOpened,
       Woken, TimerFires, Recheck, Again, Abandon, vars, idleVars
  <2> QED
    BY <2>1 DEF IInv, Readings
<1> QED
  BY <1>1, InductiveInvariant, PTL DEF Spec, ResolvesOnlyWhenQuiet

-----------------------------------------------------------------------------
(* The connection.                                                         *)

(* Where the requests and the connection stand.                            *)
Known ==
    /\ req \in [Streams -> {"new", "inFlight", "done"}]
    /\ proto \in {"unknown", "http1", "http2"}
    /\ stage # "closed" => outcome = "none"

(* An HTTP/2 request is in flight exactly while its guard is held; one of  *)
(* HTTP/1 is never counted.                                                *)
Tracked ==
    /\ proto = "http2" => \A r \in Streams : req[r] = "inFlight" <=> stream[r] = "open"
    /\ proto # "http2" => \A r \in Streams : stream[r] = "new"
    /\ stage \in {"handshake", "firstByte"} =>
         \A r \in Streams : req[r] = "new" /\ stream[r] = "new"
    /\ proto = "unknown" => \A r \in Streams : req[r] = "new"

(* A head that was handed over is remembered where a deadline runs.        *)
Heard ==
    /\ late => HasDeadline
    /\ HasDeadline /\ Requested # {} => headSeen

CInv == IInv /\ Known /\ Tracked /\ Heard /\ TimersCutNothing

-----------------------------------------------------------------------------
(* Every step of the connection is a step of Streams or leaves it alone.   *)
LEMMA StepsAreSteps == [ConnectionNext]_connectionVars => [Next]_vars
<1> SUFFICES ASSUME [ConnectionNext]_connectionVars PROVE [Next]_vars
  OBVIOUS
<1> USE DEF Next, IdleStep
<1>1. CASE ServerDrains \/ ServerForces \/ Aborted \/ DeadlinePasses
  BY <1>1 DEF ServerDrains, ServerForces, Aborted, DeadlinePasses, Close
<1>2. CASE Handshake \/ HandshakeEnds \/ FirstByteRead \/ FirstByteStops \/ FirstByteLate
  BY <1>2 DEF Handshake, HandshakeEnds, FirstByteRead, FirstByteStops, FirstByteLate, Close
<1>3. CASE DriveStop \/ Unheard \/ CodecDone
  BY <1>3 DEF DriveStop, Unheard, CodecDone, Close, FreshQuiet
<1>4. CASE IdlePolled \/ Quiet \/ QuietAgain \/ IdleElapses
  BY <1>4 DEF IdlePolled, Quiet, QuietAgain, IdleElapses
<1>5. ASSUME NEW r \in Streams, RequestHead(r) PROVE [Next]_vars
  BY <1>5 DEF RequestHead
<1>6. ASSUME NEW r \in Streams, ResponseEnds(r) \/ GuardDropped(r) PROVE [Next]_vars
  BY <1>6 DEF ResponseEnds, GuardDropped
<1>7. CASE Over \/ UNCHANGED connectionVars
  BY <1>7 DEF Over, connectionVars
<1> QED
  BY <1>1, <1>2, <1>3, <1>4, <1>5, <1>6, <1>7 DEF ConnectionNext, TaskStep

(* What the connection does to its counters and its wait are behaviours    *)
(* of Streams, with any number of requests.                                *)
THEOREM ConnectionImplementsStreams == ConnectionSpec => Spec
<1>1. ConnectionInit => Init
  BY DEF ConnectionInit
<1> QED
  BY <1>1, StepsAreSteps, PTL DEF ConnectionSpec, Spec

(* No connection loses the wake-up of its idle wait.                       *)
THEOREM ConnectionLosesNoWakeup == ConnectionSpec => []NoLostWakeup
BY ConnectionImplementsStreams, NoWakeupIsLost, PTL

-----------------------------------------------------------------------------
(* Only an HTTP/2 request is counted.                                      *)
LEMMA CountedIsHttp2 == IInv /\ Tracked /\ opened > 0 => proto = "http2"
<1> SUFFICES ASSUME IInv, Tracked, proto # "http2" PROVE ~(opened > 0)
  OBVIOUS
<1>1. {s \in Streams : stream[s] \in Begun} = {}
  BY DEF Tracked, Begun
<1>2. opened = 0
  BY <1>1, FS_EmptySet DEF IInv, Counted, BegunCount
<1> QED
  BY <1>2

(* An idle wait that resolves finds no request in flight.                  *)
LEMMA QuietMeansNone ==
    IInv /\ Tracked /\ Known /\ Recheck /\ pc' = "resolved" => InFlight = {}
<1> SUFFICES ASSUME IInv, Tracked, Known, Recheck, pc' = "resolved" PROVE InFlight = {}
  OBVIOUS
<1>1. pc = "recheck" /\ opened = sawOpened
  BY DEF Recheck
<1>2. opened > 0 /\ Held = {}
  BY <1>1 DEF IInv, Readings, Typed
<1> QED
  BY <1>2, CountedIsHttp2 DEF Tracked, Held, InFlight, Known

(* The requests are tracked by every step.                                 *)
LEMMA TrackedStep ==
    IInv /\ Known /\ Tracked /\ [ConnectionNext]_connectionVars => Known' /\ Tracked'
<1> SUFFICES ASSUME IInv, Known, Tracked, [ConnectionNext]_connectionVars
             PROVE  Known' /\ Tracked'
  OBVIOUS
<1> USE DEF Known, Tracked, Close, Ends
<1>1. CASE ServerDrains \/ ServerForces \/ Aborted \/ DeadlinePasses
  BY <1>1 DEF ServerDrains, ServerForces, Aborted, DeadlinePasses, vars
<1>2. CASE Handshake \/ HandshakeEnds \/ FirstByteRead \/ FirstByteStops \/ FirstByteLate
  BY <1>2 DEF Handshake, HandshakeEnds, FirstByteRead, FirstByteStops, FirstByteLate, vars
<1>3. CASE DriveStop \/ Unheard \/ CodecDone
  BY <1>3 DEF DriveStop, Unheard, CodecDone, FreshQuiet, Abandon, Again, vars
<1>4. CASE IdlePolled \/ QuietAgain \/ IdleElapses
  BY <1>4 DEF IdlePolled, QuietAgain, IdleElapses, taskVars, Enable, Woken, ReadClosed,
     ReadOpened, Recheck, Again, TimerFires
<1>5. CASE Quiet
  BY <1>5 DEF Quiet, Recheck
<1>6. ASSUME NEW r \in Streams, RequestHead(r) PROVE Known' /\ Tracked'
  BY <1>6 DEF RequestHead, Open, vars, IInv, Typed
<1>7. ASSUME NEW r \in Streams, ResponseEnds(r) PROVE Known' /\ Tracked'
  <2>1. CASE proto = "http2"
    BY <1>7, <2>1 DEF ResponseEnds, Drop, IInv, Typed
  <2>2. CASE proto # "http2"
    BY <1>7, <2>2 DEF ResponseEnds, vars
  <2> QED
    BY <2>1, <2>2
<1>8. ASSUME NEW r \in Streams, GuardDropped(r) PROVE Known' /\ Tracked'
  BY <1>8 DEF GuardDropped, DropWakes, taskVars, IInv, Typed, StreamState
<1>9. CASE Over \/ UNCHANGED connectionVars
  BY <1>9 DEF Over, connectionVars, taskVars, vars
<1> QED
  BY <1>1, <1>2, <1>3, <1>4, <1>5, <1>6, <1>7, <1>8, <1>9 DEF ConnectionNext, TaskStep

(* The deadline hears of every head.                                       *)
LEMMA HeardStep ==
    Known /\ Heard /\ [ConnectionNext]_connectionVars => Heard'
<1> SUFFICES ASSUME Known, Heard, [ConnectionNext]_connectionVars PROVE Heard'
  OBVIOUS
<1>0. ASSUME UNCHANGED <<req, late, headSeen>> PROVE Heard'
  BY <1>0, Zenon DEF Heard, Requested
<1> USE DEF Close, Ends
<1>1. CASE ServerDrains \/ ServerForces \/ Aborted
  BY <1>0, <1>1 DEF ServerDrains, ServerForces, Aborted
<1>2. CASE DeadlinePasses
  BY <1>2, Zenon DEF DeadlinePasses, Heard, Requested
<1>3. CASE Handshake \/ HandshakeEnds \/ FirstByteRead \/ FirstByteStops \/ FirstByteLate
  BY <1>0, <1>3 DEF Handshake, HandshakeEnds, FirstByteRead, FirstByteStops, FirstByteLate
<1>4. CASE DriveStop \/ Unheard \/ CodecDone
  BY <1>0, <1>4 DEF DriveStop, Unheard, CodecDone
<1>5. CASE IdlePolled \/ QuietAgain \/ IdleElapses \/ Quiet
  BY <1>0, <1>5 DEF IdlePolled, QuietAgain, IdleElapses, Quiet, taskVars
<1>6. ASSUME NEW r \in Streams, RequestHead(r) PROVE Heard'
  BY <1>6, Zenon DEF RequestHead, Heard
<1>7. ASSUME NEW r \in Streams, ResponseEnds(r) PROVE Heard'
  <2>1. Requested' # {} => Requested # {}
    BY <1>7 DEF ResponseEnds, Known, Requested
  <2>2. late' = late /\ headSeen' = headSeen
    BY <1>7, Zenon DEF ResponseEnds
  <2> QED
    BY <2>1, <2>2, Zenon DEF Heard
<1>8. ASSUME NEW r \in Streams, GuardDropped(r) PROVE Heard'
  BY <1>0, <1>8 DEF GuardDropped, taskVars
<1>9. CASE Over \/ UNCHANGED connectionVars
  BY <1>0, <1>9 DEF Over, connectionVars, taskVars
<1> QED
  BY <1>1, <1>2, <1>3, <1>4, <1>5, <1>6, <1>7, <1>8, <1>9 DEF ConnectionNext, TaskStep

(* No timer of kynos's own cuts a request.                                 *)
LEMMA CutNothingStep ==
    CInv /\ [ConnectionNext]_connectionVars => TimersCutNothing'
<1> SUFFICES ASSUME CInv, [ConnectionNext]_connectionVars PROVE TimersCutNothing'
  OBVIOUS
<1>0. ASSUME UNCHANGED <<req, outcome>> PROVE TimersCutNothing'
  BY <1>0 DEF CInv, TimersCutNothing, InFlight, Requested
<1>a. ASSUME UNCHANGED req, outcome' \in {"handshake", "stopped", "codec", "forced"}
      PROVE  TimersCutNothing'
  BY <1>a DEF TimersCutNothing
<1> USE DEF Close, Ends
<1>1. CASE ServerDrains \/ ServerForces \/ DeadlinePasses \/ Handshake
  BY <1>0, <1>1 DEF ServerDrains, ServerForces, DeadlinePasses, Handshake
<1>2. CASE Aborted \/ HandshakeEnds \/ FirstByteStops \/ CodecDone
  BY <1>a, <1>2 DEF Aborted, HandshakeEnds, FirstByteStops, CodecDone
<1>3. CASE FirstByteRead \/ FirstByteLate
  <2>1. InFlight' = {}
    BY <1>3 DEF FirstByteRead, FirstByteLate, CInv, Tracked, InFlight
  <2>2. outcome' = outcome \/ outcome' = "silent"
    BY <1>3 DEF FirstByteRead, FirstByteLate
  <2>3. UNCHANGED req
    BY <1>3 DEF FirstByteRead, FirstByteLate
  <2> QED
    BY <1>0, <2>1, <2>2, <2>3 DEF TimersCutNothing
<1>4. CASE DriveStop
  BY <1>0, <1>a, <1>4 DEF DriveStop
<1>5. CASE Unheard
  <2>1. Requested = {}
    BY <1>5, Zenon DEF Unheard, CInv, Heard
  <2>2. Requested' = {} /\ outcome' = "NO_REQUEST_HEAD"
    BY <1>5, <2>1 DEF Unheard, Requested
  <2> QED
    BY <2>2 DEF TimersCutNothing
<1>6. CASE IdlePolled \/ QuietAgain \/ IdleElapses
  BY <1>0, <1>6 DEF IdlePolled, QuietAgain, IdleElapses, taskVars
<1>7. CASE Quiet
  <2>1. InFlight = {} /\ UNCHANGED req
    BY <1>7, QuietMeansNone DEF Quiet, CInv
  <2>2. outcome' = outcome \/ outcome' = "IDLE"
    BY <1>7 DEF Quiet
  <2> QED
    BY <1>0, <2>1, <2>2 DEF TimersCutNothing, InFlight
<1>8. ASSUME NEW r \in Streams, RequestHead(r) \/ ResponseEnds(r) PROVE TimersCutNothing'
  <2>1. outcome' = "none"
    BY <1>8 DEF RequestHead, ResponseEnds, CInv, Known
  <2> QED
    BY <2>1 DEF TimersCutNothing
<1>9. CASE (\E r \in Streams : GuardDropped(r)) \/ Over \/ UNCHANGED connectionVars
  BY <1>0, <1>9 DEF GuardDropped, Over, connectionVars, taskVars
<1> QED
  BY <1>1, <1>2, <1>3, <1>4, <1>5, <1>6, <1>7, <1>8, <1>9 DEF ConnectionNext, TaskStep

(* The start state.                                                        *)
LEMMA ConnectionInitInv == ConnectionInit => CInv
<1> SUFFICES ASSUME ConnectionInit PROVE CInv
  OBVIOUS
<1>1. IInv
  BY InitIInv DEF ConnectionInit
<1>2. Known /\ Tracked /\ TimersCutNothing
  BY DEF ConnectionInit, Init, Known, Tracked, TimersCutNothing, InFlight, Requested
<1>3. Requested = {}
  BY DEF ConnectionInit, Requested
<1>4. Heard
  BY <1>3, Zenon DEF ConnectionInit, Heard
<1> QED
  BY <1>1, <1>2, <1>4 DEF CInv

-----------------------------------------------------------------------------
(* A wait that sleeps, or has slept, in a drain began its sleep in it:     *)
(* what begins the drain starts the wait afresh.                           *)
Announces == pc \in {"sleep", "recheck"} /\ draining => announced
Announced == Announces /\ IdleCloseAnnounced

(* Every step keeps it.                                                    *)
LEMMA AnnouncesStep ==
    Announces /\ [ConnectionNext]_connectionVars => Announces'
<1> SUFFICES ASSUME Announces, [ConnectionNext]_connectionVars PROVE Announces'
  OBVIOUS
<1>1. ASSUME UNCHANGED <<pc, draining, announced>> PROVE Announces'
  BY <1>1, Zenon DEF Announces
<1>2. ASSUME pc' \notin {"sleep", "recheck"} PROVE Announces'
  BY <1>2, Zenon DEF Announces
<1> USE DEF Close, Ends
<1>3. CASE ServerDrains \/ ServerForces \/ Aborted \/ DeadlinePasses \/ Handshake
           \/ HandshakeEnds \/ FirstByteRead \/ FirstByteStops \/ FirstByteLate
           \/ Unheard \/ CodecDone
  BY <1>1, <1>3 DEF ServerDrains, ServerForces, Aborted, DeadlinePasses, Handshake,
     HandshakeEnds, FirstByteRead, FirstByteStops, FirstByteLate, Unheard, CodecDone,
     vars, idleVars
<1>4. CASE DriveStop
  <2>1. CASE Close("forced")
    BY <1>1, <2>1 DEF vars, idleVars
  <2>2. CASE FreshQuiet
    <3>1. pc' \notin {"sleep", "recheck"}
      BY <1>4, <2>2 DEF DriveStop, FreshQuiet, Suspended, Abandon, Again, vars, idleVars
    <3> QED
      BY <1>2, <3>1
  <2> QED
    BY <1>4, <2>1, <2>2 DEF DriveStop
<1>5. CASE IdlePolled
  <2>1. CASE pc = "readOpened"
    <3>1. announced' = draining /\ draining' = draining
      BY <1>5, <2>1, Zenon DEF IdlePolled
    <3> QED
      BY <3>1, Zenon DEF Announces
  <2>2. CASE pc # "readOpened"
    <3>1. pc' \notin {"sleep", "recheck"}
      BY <1>5, <2>2 DEF IdlePolled, Enable, Woken, ReadClosed, ReadOpened
    <3> QED
      BY <1>2, <3>1
  <2> QED
    BY <2>1, <2>2
<1>6. CASE IdleElapses
  <2>1. pc = "sleep" /\ UNCHANGED <<draining, announced>>
    BY <1>6 DEF IdleElapses, TimerFires, taskVars
  <2> QED
    BY <2>1, Zenon DEF Announces
<1>7. CASE Quiet \/ QuietAgain
  BY <1>2, <1>7 DEF Quiet, QuietAgain, Again
<1>8. ASSUME NEW r \in Streams, RequestHead(r) \/ ResponseEnds(r) \/ GuardDropped(r)
      PROVE  Announces'
  BY <1>1, <1>8 DEF RequestHead, ResponseEnds, GuardDropped, Open, Drop, DropWakes,
     taskVars, vars, idleVars
<1>9. CASE Over \/ UNCHANGED connectionVars
  BY <1>1, <1>9 DEF Over, connectionVars, taskVars, vars, idleVars
<1> QED
  BY <1>3, <1>4, <1>5, <1>6, <1>7, <1>8, <1>9 DEF ConnectionNext, TaskStep

(* Only a quiet drain closes a connection as idle.                         *)
LEMMA IdleCloseStep ==
    Known /\ Announced /\ [ConnectionNext]_connectionVars => IdleCloseAnnounced'
<1> SUFFICES ASSUME Known, Announced, [ConnectionNext]_connectionVars
             PROVE  IdleCloseAnnounced'
  OBVIOUS
<1>1. ASSUME outcome' # "IDLE" PROVE IdleCloseAnnounced'
  BY <1>1, Zenon DEF IdleCloseAnnounced
<1>2. CASE stage = "closed"
  <2>1. UNCHANGED <<outcome, draining, announced>>
    BY <1>2 DEF ConnectionNext, TaskStep, ServerDrains, ServerForces, Aborted,
       DeadlinePasses, Handshake, HandshakeEnds, FirstByteRead, FirstByteStops,
       FirstByteLate, DriveStop, Unheard, IdlePolled, Quiet, QuietAgain, IdleElapses,
       CodecDone, RequestHead, ResponseEnds, GuardDropped, Over, connectionVars, taskVars
  <2> QED
    BY <2>1, Zenon DEF Announced, IdleCloseAnnounced
<1>3. CASE stage # "closed" /\ Quiet
  <2>1. CASE draining
    <3>1. pc = "recheck" /\ UNCHANGED <<draining, announced>>
      BY <1>3, <2>1 DEF Quiet, Recheck, Ends
    <3> QED
      BY <2>1, <3>1, Zenon DEF Announced, Announces, IdleCloseAnnounced
  <2>2. CASE ~draining
    BY <1>1, <1>3, <2>2 DEF Quiet, Known
  <2> QED
    BY <2>1, <2>2
<1>4. CASE stage # "closed" /\ ~Quiet
  <2>1. outcome' # "IDLE"
    BY <1>4 DEF Known, ConnectionNext, TaskStep, ServerDrains, ServerForces, Aborted,
       DeadlinePasses, Handshake, HandshakeEnds, FirstByteRead, FirstByteStops,
       FirstByteLate, DriveStop, Unheard, IdlePolled, QuietAgain, IdleElapses,
       CodecDone, RequestHead, ResponseEnds, GuardDropped, Over, connectionVars,
       taskVars, Close, Ends
  <2> QED
    BY <1>1, <2>1
<1> QED
  BY <1>2, <1>3, <1>4

(* The inductive invariant holds of every connection.                      *)
THEOREM ConnectionInv == ConnectionSpec => []CInv
<1>1. CInv /\ [ConnectionNext]_connectionVars => CInv'
  <2> SUFFICES ASSUME CInv, [ConnectionNext]_connectionVars PROVE CInv'
    OBVIOUS
  <2>1. IInv'
    BY StepsAreSteps, TypedStep, CountedStep, ReadingsStep, WakingStep,
       CountedIsBetween DEF CInv, IInv
  <2> QED
    BY <2>1, TrackedStep, HeardStep, CutNothingStep DEF CInv
<1> QED
  BY <1>1, ConnectionInitInv, PTL DEF ConnectionSpec

(* The first-head deadline closes only a connection on which no request    *)
(* ever began, and the idle timeout only one with none in flight, for any  *)
(* number of requests and any settings.                                    *)
THEOREM NoTimerCutsARequest == ConnectionSpec => []TimersCutNothing
<1>1. CInv => TimersCutNothing
  BY DEF CInv
<1> QED
  BY <1>1, ConnectionInv, PTL

(* An idle close comes a whole idle period after the GOAWAY: no period     *)
(* that had begun before the drain is counted into it.                     *)
THEOREM IdleClosesAreAnnounced == ConnectionSpec => []IdleCloseAnnounced
<1>1. ConnectionInit => Announced
  BY DEF ConnectionInit, Init, Announced, Announces, IdleCloseAnnounced
<1>2. CInv /\ Announced /\ [ConnectionNext]_connectionVars => Announced'
  BY AnnouncesStep, IdleCloseStep DEF CInv, Announced
<1>3. Announced => IdleCloseAnnounced
  BY DEF Announced
<1> QED
  BY <1>1, <1>2, <1>3, ConnectionInv, PTL DEF ConnectionSpec
-----------------------------------------------------------------------------
(* The types of the connection.                                            *)

(* What was read of the counters is as bounded as they are.                *)
Bounded ==
    /\ closedWas \in [Streams -> 0..N]
    /\ sawClosed \in 0..N /\ sawOpened \in 0..N

(* The task's own variables.                                               *)
TaskTyped ==
    /\ stage \in Stage
    /\ lifecycle \in {"Running", "Draining", "Forced"}
    /\ proto \in {"unknown", "http1", "http2"}
    /\ req \in [Streams -> {"new", "inFlight", "done"}]
    /\ outcome \in Outcome

TaskFlags ==
    /\ late \in BOOLEAN /\ headSeen \in BOOLEAN /\ draining \in BOOLEAN
    /\ announced \in BOOLEAN

CountersBounded == opened \in 0..N /\ closed \in 0..N

LEMMA BoundedStep ==
    CountersBounded /\ CountersBounded' /\ Bounded /\ [Next]_vars => Bounded'
<1> SUFFICES ASSUME CountersBounded, CountersBounded', Bounded, [Next]_vars
             PROVE  Bounded'
  OBVIOUS
<1>1. opened \in 0..N /\ closed \in 0..N /\ closed' \in 0..N
  BY DEF CountersBounded
<1> USE DEF Bounded
<1>2. ASSUME NEW s \in Streams, Drop(s) PROVE Bounded'
  BY <1>1, <1>2 DEF Drop, idleVars
<1>3. CASE ReadClosed \/ ReadOpened
  BY <1>1, <1>3 DEF ReadClosed, ReadOpened
<1>4. ASSUME NEW s \in Streams, Open(s) \/ DropWakes(s) PROVE Bounded'
  BY <1>4 DEF Open, DropWakes, idleVars
<1>5. CASE Enable \/ Woken \/ TimerFires \/ Again \/ Recheck \/ Abandon
  BY <1>5 DEF Enable, Woken, TimerFires, Again, Recheck, Abandon
<1>6. CASE UNCHANGED vars
  BY <1>6 DEF vars, idleVars
<1> QED
  BY <1>2, <1>3, <1>4, <1>5, <1>6 DEF Next, IdleStep

LEMMA TaskTypedStep == TaskTyped /\ [ConnectionNext]_connectionVars => TaskTyped'
<1> SUFFICES ASSUME TaskTyped, [ConnectionNext]_connectionVars PROVE TaskTyped'
  OBVIOUS
<1> USE DEF TaskTyped, Stage, Outcome, Close, Ends
<1>1. CASE ServerDrains \/ ServerForces \/ Aborted \/ DeadlinePasses
  BY <1>1 DEF ServerDrains, ServerForces, Aborted, DeadlinePasses
<1>2. CASE Handshake \/ HandshakeEnds \/ FirstByteRead \/ FirstByteStops \/ FirstByteLate
  BY <1>2 DEF Handshake, HandshakeEnds, FirstByteRead, FirstByteStops, FirstByteLate
<1>3. CASE DriveStop \/ Unheard \/ CodecDone
  BY <1>3 DEF DriveStop, Unheard, CodecDone
<1>4. CASE IdlePolled \/ Quiet \/ QuietAgain \/ IdleElapses
  BY <1>4 DEF IdlePolled, Quiet, QuietAgain, IdleElapses, taskVars
<1>5. ASSUME NEW r \in Streams, RequestHead(r) PROVE TaskTyped'
  BY <1>5 DEF RequestHead
<1>6. ASSUME NEW r \in Streams, ResponseEnds(r) \/ GuardDropped(r) PROVE TaskTyped'
  BY <1>6 DEF ResponseEnds, GuardDropped, taskVars
<1>7. CASE Over \/ UNCHANGED connectionVars
  BY <1>7 DEF Over, connectionVars, taskVars
<1> QED
  BY <1>1, <1>2, <1>3, <1>4, <1>5, <1>6, <1>7 DEF ConnectionNext, TaskStep

LEMMA TaskFlagsStep == TaskFlags /\ [ConnectionNext]_connectionVars => TaskFlags'
BY FlagsAssumption, Zenon DEF TaskFlags, ConnectionNext, TaskStep, ServerDrains,
   ServerForces, Aborted, DeadlinePasses, Handshake, HandshakeEnds, FirstByteRead,
   FirstByteStops, FirstByteLate, DriveStop, Unheard, IdlePolled, Quiet, QuietAgain,
   IdleElapses, CodecDone, RequestHead, ResponseEnds, GuardDropped, Over,
   connectionVars, taskVars, Close, Ends

(* The connection and its idle wait stay in their types; the counters that *)
(* the code never resets, and what is read of them, never pass the number  *)
(* of requests.                                                            *)
THEOREM ConnectionTypeCorrect == ConnectionSpec => []ConnectionTypeOK
<1> DEFINE TInv == Bounded /\ TaskTyped /\ TaskFlags
<1>1. ConnectionInit => TInv
  <2> SUFFICES ASSUME ConnectionInit PROVE TInv
    OBVIOUS
  <2>1. 0 \in 0..N
    <3>1. IInv
      BY InitIInv DEF ConnectionInit
    <3> QED
      BY <3>1, CountedIsBounded DEF IInv, ConnectionInit, Init
  <2>2. Bounded
    BY <2>1 DEF ConnectionInit, Init, Bounded
  <2>3. TaskTyped
    BY FlagsAssumption DEF ConnectionInit, TaskTyped, Stage, Outcome
  <2>4. TaskFlags
    BY Zenon DEF ConnectionInit, TaskFlags
  <2> QED
    BY <2>2, <2>3, <2>4
<1>2. CountersBounded /\ CountersBounded' /\ TInv /\ [ConnectionNext]_connectionVars
        => TInv'
  BY StepsAreSteps, BoundedStep, TaskTypedStep, TaskFlagsStep
<1>3. CInv => CountersBounded
  BY CountedIsBounded DEF CInv, IInv, CountersBounded
<1>4. CInv /\ TInv => ConnectionTypeOK
  <2> SUFFICES ASSUME CInv, TInv PROVE ConnectionTypeOK
    OBVIOUS
  <2>1. Typed /\ Flags
    BY DEF CInv, IInv
  <2>2. TypeOK
    BY <1>3, <2>1, Zenon DEF TypeOK, Typed, Flags, Bounded, CountersBounded
  <2> QED
    BY <2>2, Zenon DEF ConnectionTypeOK, TaskTyped, TaskFlags
<1> QED
  BY <1>1, <1>2, <1>3, <1>4, ConnectionInv, PTL DEF ConnectionSpec
=============================================================================
