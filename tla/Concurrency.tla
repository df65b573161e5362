----------------------------- MODULE Concurrency -----------------------------
(***************************************************************************)
(* The Concurrency interceptor and the watched body that carries its slot: *)
(* crates/kynos/src/middleware/limits/concurrency.rs and                   *)
(* crates/kynos/src/http/body/watched.rs.                                  *)
(*                                                                         *)
(* The slots are a tokio semaphore shared by every copy of the             *)
(* interceptor.  A freed permit goes to the first waiter, whose task takes *)
(* it at its next poll; a waiter dropped before that gives it back.        *)
(* tokio's timeout polls what it bounds before its clock, and the two are  *)
(* separate steps here, since a permit may come between them.              *)
(***************************************************************************)
EXTENDS Integers, Sequences, FiniteSets

CONSTANTS
    Requests,  \* requests, each served at most once
    Limit,     \* Concurrency::limit, a NonZeroUsize
    Queueing   \* those a copy of the interceptor with a queue_for covers

ASSUME LimitAssumption == Limit \in Nat \ {0}
ASSUME RequestsAssumption == IsFiniteSet(Requests) /\ Queueing \subseteq Requests

VARIABLES
    pc,       \* where each request stands
    avail,    \* permits nobody has
    queue,    \* the waiters, first come first
    granted,  \* waiters a permit was given to, not polled since
    late,     \* queue_for has passed
    inner,    \* the response's own body
    report,   \* Watched::report, and what it reported
    delivery  \* what a drop is about to report

vars == <<pc, avail, queue, granted, late, inner, report, delivery>>

PC == {"new", "waiting", "expired", "handler", "body", "reporting", "over"}
Inner == {"none", "open", "ended", "exhausted", "failed", "released"}
AtEnd == {"ended", "exhausted"}
Delivery == {"Complete", "Interrupted"}

(* The slot is moved into the body's report once the handler answered.     *)
Holding == {r \in Requests : pc[r] = "handler" \/ report[r] = "armed"}
Waiting == {r \in Requests : pc[r] \in {"waiting", "expired"}}

TypeOK ==
    /\ pc \in [Requests -> PC]
    /\ avail \in 0..Limit
    /\ queue \in Seq(Requests)
    /\ granted \subseteq Waiting
    /\ late \subseteq Requests
    /\ inner \in [Requests -> Inner]
    /\ report \in [Requests -> {"none", "armed"} \cup Delivery]
    /\ delivery \in [Requests -> Delivery]

Init ==
    /\ pc = [r \in Requests |-> "new"]
    /\ avail = Limit /\ queue = <<>> /\ granted = {} /\ late = {}
    /\ inner = [r \in Requests |-> "none"]
    /\ report = [r \in Requests |-> "none"]
    /\ delivery = [r \in Requests |-> "Interrupted"]

bodyVars == <<inner, report, delivery>>

-----------------------------------------------------------------------------
(* The semaphore.                                                          *)

(* A permit comes back: to the first waiter, if any.                       *)
Release(q, g) ==
    IF q = <<>> THEN avail' = avail + 1 /\ queue' = q /\ granted' = g
                ELSE avail' = avail /\ queue' = Tail(q) /\ granted' = g \cup {Head(q)}

(* The Acquire future of r is dropped, with a permit or out of its place   *)
(* in the queue.                                                           *)
DropAcquire(r) ==
    IF r \in granted
    THEN Release(queue, granted \ {r})
    ELSE /\ \E i \in DOMAIN queue :
              /\ queue[i] = r
              /\ queue' = [j \in 1..(Len(queue) - 1) |->
                             IF j < i THEN queue[j] ELSE queue[j + 1]]
         /\ UNCHANGED <<avail, granted>>

-----------------------------------------------------------------------------
(* acquire: try_acquire_owned when nothing may wait, else a bounded wait.  *)
Acquire(r) ==
    /\ pc[r] = "new"
    /\ \/ /\ avail > 0
          /\ avail' = avail - 1
          /\ pc' = [pc EXCEPT ![r] = "handler"] /\ UNCHANGED queue
       \/ /\ avail = 0 /\ r \notin Queueing
          /\ pc' = [pc EXCEPT ![r] = "over"] /\ UNCHANGED <<avail, queue>>
       \/ /\ avail = 0 /\ r \in Queueing
          /\ pc' = [pc EXCEPT ![r] = "waiting"]
          /\ queue' = Append(queue, r) /\ UNCHANGED avail
    /\ UNCHANGED <<granted, late, bodyVars>>

WaitElapses(r) ==
    /\ pc[r] = "waiting" /\ r \notin late
    /\ late' = late \cup {r}
    /\ UNCHANGED <<pc, avail, queue, granted, bodyVars>>

(* A poll of the wait: the permit first...                                 *)
TakeSlot(r) ==
    /\ pc[r] = "waiting" /\ r \in granted
    /\ granted' = granted \ {r} /\ late' = late \ {r}
    /\ pc' = [pc EXCEPT ![r] = "handler"]
    /\ UNCHANGED <<avail, queue, bodyVars>>

(* Mutant: an elapsed wait is over only once a slot comes.                 *)
ExpireLate(r) ==
    /\ pc[r] = "waiting" /\ r \in granted /\ r \in late
    /\ pc' = [pc EXCEPT ![r] = "expired"]
    /\ UNCHANGED <<avail, queue, granted, late, bodyVars>>

(* ...then the clock...                                                    *)
Expire(r) ==
    /\ pc[r] = "waiting" /\ r \notin granted /\ r \in late
    /\ pc' = [pc EXCEPT ![r] = "expired"]
    /\ UNCHANGED <<avail, queue, granted, late, bodyVars>>

(* Mutant: a permit that comes with the end of the wait is forgotten.      *)
ShedForgets(r) ==
    /\ pc[r] = "expired"
    /\ granted' = granted \ {r}
    /\ queue' = SelectSeq(queue, LAMBDA w : w # r)
    /\ pc' = [pc EXCEPT ![r] = "over"]
    /\ UNCHANGED <<avail, late, bodyVars>>

(* ...and the 503, the wait dropped.                                       *)
Shed(r) ==
    /\ pc[r] = "expired"
    /\ DropAcquire(r) /\ late' = late \ {r}
    /\ pc' = [pc EXCEPT ![r] = "over"]
    /\ UNCHANGED bodyVars

(* The handler answers: the body is watched, its report holding the slot.  *)
(* An empty body is at its end from the start.                             *)
Answer(r) ==
    /\ pc[r] = "handler"
    /\ pc' = [pc EXCEPT ![r] = "body"]
    /\ \E b \in {"open", "ended"} : inner' = [inner EXCEPT ![r] = b]
    /\ report' = [report EXCEPT ![r] = "armed"]
    /\ UNCHANGED <<avail, queue, granted, late, delivery>>

(* The chain's future is dropped or unwinds: the client left, a timeout    *)
(* outside gave up, the handler panicked.                                  *)
Cut(r) ==
    /\ \/ pc[r] = "waiting" /\ DropAcquire(r)
       \/ pc[r] = "handler" /\ Release(queue, granted)
    /\ pc' = [pc EXCEPT ![r] = "over"] /\ late' = late \ {r}
    /\ UNCHANGED bodyVars

-----------------------------------------------------------------------------
(* Watched::report: once.                                                  *)
ReportOf(r, d) ==
    IF report[r] = "armed"
    THEN report' = [report EXCEPT ![r] = d] /\ Release(queue, granted)
    ELSE UNCHANGED <<report, avail, queue, granted>>

(* poll_frame yields the last frame of a body that declares its end, or    *)
(* nothing more of one that does not.  A driver does not poll a body that  *)
(* failed.                                                                 *)
FrameEnds(r) ==
    /\ pc[r] = "body" /\ inner[r] = "open"
    /\ \E b \in AtEnd : inner' = [inner EXCEPT ![r] = b]
    /\ ReportOf(r, "Complete")
    /\ UNCHANGED <<pc, late, delivery>>

FrameFails(r) ==
    /\ pc[r] = "body" /\ inner[r] = "open"
    /\ inner' = [inner EXCEPT ![r] = "failed"]
    /\ UNCHANGED <<pc, avail, queue, granted, late, report, delivery>>

(* Mutant: the report first, the inner body with the struct's fields.      *)
DropBodyReports(r) ==
    /\ pc[r] = "body"
    /\ pc' = [pc EXCEPT ![r] = "reporting"]
    /\ ReportOf(r, IF inner[r] = "ended" THEN "Complete" ELSE "Interrupted")
    /\ UNCHANGED <<inner, late, delivery>>

(* Drop for Watched: the inner body is released, perhaps panicking...      *)
DropBody(r) ==
    /\ pc[r] = "body"
    /\ pc' = [pc EXCEPT ![r] = "reporting"]
    /\ delivery' = [delivery EXCEPT ![r] =
                      IF inner[r] = "ended" THEN "Complete" ELSE "Interrupted"]
    /\ inner' = [inner EXCEPT ![r] = IF @ \in AtEnd THEN @ ELSE "released"]
    /\ UNCHANGED <<avail, queue, granted, late, report>>

(* ...and the Reporting guard reports, by an unwind too.                   *)
Report(r) ==
    /\ pc[r] = "reporting"
    /\ pc' = [pc EXCEPT ![r] = "over"]
    /\ ReportOf(r, delivery[r])
    /\ UNCHANGED <<late, inner, delivery>>

-----------------------------------------------------------------------------
Next ==
    \E r \in Requests :
       \/ Acquire(r) \/ WaitElapses(r) \/ TakeSlot(r) \/ Expire(r) \/ Shed(r)
       \/ Answer(r) \/ Cut(r)
       \/ FrameEnds(r) \/ FrameFails(r) \/ DropBody(r) \/ Report(r)

(* Module Exchange says what else happens to a request, and which of these *)
(* steps are bound to come.                                                *)
Spec == Init /\ [][Next]_vars

-----------------------------------------------------------------------------
(* Every slot is free, with one request, or on its way to one waiter, on   *)
(* every path: a slot is never lost to a wait that expired as it came, and *)
(* none is free while somebody waits.                                      *)
SlotsConserved ==
    /\ avail + Cardinality(Holding) + Cardinality(granted) = Limit
    /\ avail > 0 => queue = <<>>

(* No more than Limit responses are being produced: a handler at work or   *)
(* a body neither at its end nor released; a slot is not freed before what *)
(* the body holds is.                                                      *)
InFlightBounded ==
    Cardinality({r \in Requests :
        pc[r] = "handler" \/ inner[r] \in {"open", "failed"}}) <= Limit

(* A body is reported complete exactly when it came to its end, and every  *)
(* body that is over was reported.                                         *)
DeliveryIsTrue ==
    \A r \in Requests :
       /\ report[r] = "Complete" => inner[r] \in AtEnd
       /\ report[r] = "Interrupted" => inner[r] = "released"
       /\ pc[r] = "over" => (report[r] \in Delivery <=> inner[r] # "none")

(* A wait for a slot ends, whatever those ahead do with theirs.            *)
WaitsEnd ==
    \A r \in Requests : pc[r] = "waiting" ~> pc[r] \in {"handler", "over"}
=============================================================================
