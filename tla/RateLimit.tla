------------------------------ MODULE RateLimit ------------------------------
(***************************************************************************)
(* The RateLimit interceptor over Quotas, the sliding-window policy kynos  *)
(* ships: crates/kynos/src/middleware/rate_limit/{mod,quota,store}.rs.     *)
(*                                                                         *)
(* Requests of one partition are checked concurrently against every quota, *)
(* and each read and increment of the application's store is an await, so  *)
(* a step of its own that may fail.  A counter is read before it is        *)
(* incremented and a request spends only when no quota refused it.  Time   *)
(* is in milliseconds and only goes on.                                    *)
(***************************************************************************)
EXTENDS Integers, Sequences, FiniteSets

CONSTANTS
    Requests,    \* requests of one partition, each checked at most once
    Window,      \* the windows of the quotas, in their order
    Ceiling,     \* their ceilings, burst included
    Allows,      \* on_store_failure is StoreFailure::Allow
    Unlucky,     \* the requests for which the store may fail
    InFlight,    \* how many requests are being checked at once, at most
    StartTime,   \* where the clock starts, past the first window
    MaxTime      \* bound of the clock

ASSUME QuotaAssumption ==
    /\ Window \in Seq(Nat \ {0}) /\ Ceiling \in Seq(Nat \ {0})
    /\ Len(Window) = Len(Ceiling) /\ Len(Window) > 0
ASSUME FailureAssumption == Allows \in BOOLEAN /\ Unlucky \subseteq Requests
ASSUME BoundAssumption ==
    /\ IsFiniteSet(Requests) /\ InFlight \in Nat \ {0}
    /\ MaxTime \in Nat /\ StartTime \in 0..MaxTime
    /\ \A q \in DOMAIN Window : Window[q] <= StartTime

VARIABLES
    now,      \* the clock
    count,    \* the counters: quota and window index to what was counted
    created,  \* when each counter was created
    pc,       \* where each request stands
    at,       \* the time `check` read for it
    quota,    \* the quota its pass is at
    reading,  \* its two readings of each quota, Failed where the store failed
    spent     \* the quotas it incremented

vars == <<now, count, created, pc, at, quota, reading, spent>>

Enforced == 1..Len(Window)
Failed == -1
Index == 0..MaxTime
Never == -1
PC == {"new", "readCurrent", "readPrevious", "spend", "exempt", "allowed",
       "denied"}

-----------------------------------------------------------------------------
(* The estimator, in integers as the code computes it.                     *)

Elapsed(q, t) == t % Window[q]
WindowAt(q, t) == t \div Window[q]

(* Mutant: only the current window counts.                                 *)
EstimateFixed(q, previous, current, elapsed) == current

Estimate(q, previous, current, elapsed) ==
    current + (previous * (Window[q] - elapsed)) \div Window[q]

(* Mutant: the rest of this window is enough.                              *)
RecoversAtBoundary(q, counted, headroom, elapsed) == Window[q] - elapsed

RecoversIn(q, counted, headroom, elapsed) ==
    LET decay == IF counted <= headroom THEN 0
                 ELSE (Window[q] * (counted - headroom)) \div counted
    IN  Window[q] - elapsed + decay

-----------------------------------------------------------------------------
(* What one quota decided for r, once it has been read.                    *)
Unread(r, q) == Failed \in {reading[r][q].current, reading[r][q].previous}
Counted(r, q) ==
    Estimate(q, reading[r][q].previous, reading[r][q].current, Elapsed(q, at[r]))
Refused(r, q) == ~Unread(r, q) /\ Counted(r, q) >= Ceiling[q]
Within(r, q) == ~Unread(r, q) /\ Counted(r, q) < Ceiling[q]
Denies(r, q) == Refused(r, q) \/ (Unread(r, q) /\ ~Allows)

Wait(r, q) ==
    IF Refused(r, q) THEN RecoversIn(q, Counted(r, q), Ceiling[q] - 1, Elapsed(q, at[r]))
                     ELSE Window[q] - Elapsed(q, at[r])

(* The quotas decided so far, and the longest wait among the denials.      *)
Denied(r) == \E q \in Enforced : reading[r][q].done /\ Denies(r, q)
RetryAfter(r) ==
    CHOOSE w \in {Wait(r, q) : q \in {p \in Enforced : Denies(r, p)}} :
       \A q \in Enforced : Denies(r, q) => Wait(r, q) <= w

-----------------------------------------------------------------------------
(* The store: a counter reads zero when absent or expired, two windows     *)
(* after it was created.                                                   *)
Read(q, i) ==
    IF i \in Index /\ created[q][i] # Never /\ now < created[q][i] + 2 * Window[q]
    THEN count[q][i] ELSE 0

Increment(q, i) ==
    LET live == created[q][i] # Never /\ now < created[q][i] + 2 * Window[q]
    IN  /\ count' = [count EXCEPT ![q][i] = IF live THEN @ + 1 ELSE 1]
        /\ created' = [created EXCEPT ![q][i] = IF live THEN @ ELSE now]

Answered(r, value) == {value} \cup (IF r \in Unlucky THEN {Failed} ELSE {})

NoReading == [current |-> 0, previous |-> 0, done |-> FALSE]

TypeOK ==
    /\ now \in StartTime..MaxTime
    /\ count \in [Enforced -> [Index -> Nat]]
    /\ created \in [Enforced -> [Index -> 0..MaxTime \cup {Never}]]
    /\ pc \in [Requests -> PC]
    /\ at \in [Requests -> 0..MaxTime]
    /\ quota \in [Requests -> Enforced]
    /\ reading \in [Requests -> [Enforced ->
         [current : Nat \cup {Failed}, previous : Nat \cup {Failed}, done : BOOLEAN]]]
    /\ spent \in [Requests -> SUBSET Enforced]

Init ==
    /\ now = StartTime
    /\ count = [q \in Enforced |-> [i \in Index |-> 0]]
    /\ created = [q \in Enforced |-> [i \in Index |-> Never]]
    /\ pc = [r \in Requests |-> "new"]
    /\ at = [r \in Requests |-> 0]
    /\ quota = [r \in Requests |-> 1]
    /\ reading = [r \in Requests |-> [q \in Enforced |-> NoReading]]
    /\ spent = [r \in Requests |-> {}]

Checking == {r \in Requests : pc[r] \in {"readCurrent", "readPrevious", "spend"}}

-----------------------------------------------------------------------------
(* check: a key without a partition is exempt; the clock is read once.     *)
Check(r) ==
    /\ pc[r] = "new" /\ Cardinality(Checking) < InFlight
    /\ \/ pc' = [pc EXCEPT ![r] = "exempt"] /\ UNCHANGED at
       \/ pc' = [pc EXCEPT ![r] = "readCurrent"] /\ at' = [at EXCEPT ![r] = now]
    /\ UNCHANGED <<now, count, created, quota, reading, spent>>

(* decide: the current counter, then the previous, either of which fails.  *)
ReadCurrent(r) ==
    LET q == quota[r]
    IN  /\ pc[r] = "readCurrent"
        /\ \E v \in Answered(r, Read(q, WindowAt(q, at[r]))) :
             reading' = [reading EXCEPT ![r][q].current = v]
        /\ pc' = [pc EXCEPT ![r] = "readPrevious"]
        /\ UNCHANGED <<now, count, created, at, quota, spent>>

ReadPrevious(r) ==
    LET q == quota[r]
    IN  /\ pc[r] = "readPrevious"
        /\ \E v \in Answered(r, Read(q, WindowAt(q, at[r]) - 1)) :
             reading' = [reading EXCEPT ![r][q] = [@ EXCEPT !.previous = v, !.done = TRUE]]
        /\ IF q < Len(Window)
           THEN pc' = [pc EXCEPT ![r] = "readCurrent"] /\ quota' = [quota EXCEPT ![r] = q + 1]
           ELSE pc' = [pc EXCEPT ![r] = "spend"] /\ quota' = [quota EXCEPT ![r] = 1]
        /\ UNCHANGED <<now, count, created, at, spent>>

Finish(r) ==
    IF quota[r] < Len(Window)
    THEN quota' = [quota EXCEPT ![r] = @ + 1] /\ UNCHANGED pc
    ELSE /\ pc' = [pc EXCEPT ![r] = IF Denied(r) THEN "denied" ELSE "allowed"]
         /\ UNCHANGED quota

(* Mutant: each quota is spent on its own decision.                        *)
SpendsOwn(r, q) == Within(r, q)

Spends(r, q) == Within(r, q) /\ ~Denied(r)

(* The second pass: a quota with room is spent if none refused; a failed   *)
(* increment still serves the request.                                     *)
Spend(r) ==
    LET q == quota[r]
    IN  /\ pc[r] = "spend"
        /\ \/ /\ Spends(r, q)
              /\ Increment(q, WindowAt(q, at[r]))
              /\ spent' = [spent EXCEPT ![r] = @ \cup {q}]
           \/ /\ Spends(r, q) => r \in Unlucky
              /\ UNCHANGED <<count, created, spent>>
        /\ Finish(r)
        /\ UNCHANGED <<now, at, reading>>

Tick ==
    /\ now < MaxTime
    /\ now' = now + 1
    /\ UNCHANGED <<count, created, pc, at, quota, reading, spent>>

Next ==
    (\E r \in Requests : Check(r) \/ ReadCurrent(r) \/ ReadPrevious(r) \/ Spend(r))
    \/ Tick

Spec == Init /\ [][Next]_vars

-----------------------------------------------------------------------------
(* What q's estimate is t after r was checked, if nothing more is sent:    *)
(* the counters r read move one window back with every window that ends.   *)
Projected(r, q, t) ==
    LET e == Elapsed(q, at[r]) + t
        shift == e \div Window[q]
        read == reading[r][q]
    IN  IF shift = 0 THEN Estimate(q, read.previous, read.current, e)
        ELSE IF shift = 1 THEN Estimate(q, read.current, 0, e - Window[q])
        ELSE 0

Admitted(r, t) ==
    \A q \in Enforced : ~Unread(r, q) => Projected(r, q, t) < Ceiling[q]

(* A refusal spends nothing: a request that one quota denies increments no *)
(* counter of another, whichever was read first.                           *)
RefusalSpendsNothing == \A r \in Requests : pc[r] = "denied" => spent[r] = {}

(* Reading before incrementing lets concurrent requests past a quota, but  *)
(* no more than were being checked at once, and not at the seam of two     *)
(* windows either: what is still in view never passes the ceiling by more. *)
OvershootBounded ==
    \A q \in Enforced :
       LET i == WindowAt(q, now)
           inView == Window[q] - Elapsed(q, now)
       IN  Window[q] * count[q][i] + count[q][i - 1] * inView
             < Window[q] * (Ceiling[q] + InFlight)

(* Retry-After is enough: a client that waits that long and sends nothing  *)
(* more is admitted by every quota that refused it.                        *)
RetryAfterSuffices ==
    \A r \in Requests : pc[r] = "denied" => Admitted(r, RetryAfter(r))
=============================================================================
