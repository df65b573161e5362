----------------------------- MODULE RequestBody -----------------------------
(***************************************************************************)
(* One request's body on its way to its reader: the idle timer the server  *)
(* wraps it in (server/request_body.rs), the BodySize interceptor with or  *)
(* without a deadline (middleware/limits/body_size.rs) and the capped read *)
(* of the buffering extractors (extract/body/limit.rs).                    *)
(*                                                                         *)
(* The client, the clock and the reading task interleave freely.  One step *)
(* of a reader is one poll_frame through every layer.  A timer is the time *)
(* it has left; zero is elapsed.  Octets are counted, not named, and an    *)
(* unread frame is known by where in the body it ends.                     *)
(***************************************************************************)
EXTENDS Integers, Sequences

CONSTANTS
    IdleLimit,     \* request_body_idle_timeout
    Totals,        \* the deadlines a BodySize may have
    Limit,         \* the limit of the BodySize
    DefaultLimit,  \* DEFAULT_LIMIT
    FrameSizes,    \* the frames a client may send; 0 is one without data
    MaxOctets,     \* bound: the octets of one body
    MaxUnread,     \* bound: the frames that wait unread, an HTTP/2 window say
    Unstated       \* no Content-Length

ASSUME IdleAssumption == IdleLimit \in Nat \ {0}   \* validate_request_body_idle_timeout
ASSUME TotalsAssumption == Totals \subseteq Nat
ASSUME LimitsAssumption == Limit \in Nat /\ DefaultLimit \in Nat
ASSUME FramesAssumption ==
    FrameSizes \subseteq Nat /\ MaxOctets \in Nat /\ MaxUnread \in Nat
ASSUME UnstatedAssumption == Unstated \notin Nat

VARIABLES
    conf,     \* how the request was sent and which layers are over its reader
    wire,     \* frames nobody has read, each as the octets sent up to its end
    end,      \* whether the client is still sending
    sent,     \* how many octets it sent
    idle,     \* Idle: `waiting`, what its timer has left, `spent`
    left,     \* what the deadline has left
    overdue,  \* Deadlined: `spent`, which is also `overdue`
    pc,       \* where the request stands
    got,      \* octets the current reader has
    held,     \* what the interceptor's read came to, once it is handed on
    answer, closes,  \* the response, and whether it closes the connection
    quiet     \* history: how long nothing has arrived, up to IdleLimit

vars == <<conf, wire, end, sent, idle, left, overdue, pc, got, held,
          answer, closes, quiet>>
clientVars == <<wire, end, sent>>

Conf ==
    [declared : {Unstated} \cup 0..MaxOctets,
     guard : {"none", "size", "deadline"},
     total : Totals,
     reader : {"whole", "own"},  \* a buffering extractor, or one of its own
     idle : BOOLEAN,             \* an idle timeout is configured
     http1 : BOOLEAN]
Answer == {"none", "handled", "refused", "rejected", "stalled", "slow", "failed"}

TypeOK ==
    /\ conf \in Conf
    /\ wire \in Seq(0..sent) /\ Len(wire) <= MaxUnread
    /\ end \in {"open", "ended", "failed"}
    /\ sent \in 0..MaxOctets /\ got \in 0..sent
    /\ idle \in [on : BOOLEAN, waiting : BOOLEAN, left : 0..IdleLimit, spent : BOOLEAN]
    /\ left \in Nat /\ left <= conf.total /\ overdue \in BOOLEAN
    /\ pc \in {"intercept", "collect", "extract", "read", "own", "ownRead", "done"}
    /\ held \in {"wire", "whole", "failed", "stalled"}
    /\ answer \in Answer /\ closes \in BOOLEAN
    /\ quiet \in 0..IdleLimit

(* A body that is already over is handed on unwrapped: `bounded`.          *)
Bounded(c) ==
    [on |-> c.idle /\ c.declared # 0, waiting |-> FALSE, left |-> IdleLimit,
     spent |-> FALSE]

Init ==
    /\ conf \in Conf
    /\ conf.guard = "deadline" \/ conf.total = CHOOSE t \in Totals : TRUE
    /\ wire = <<>> /\ sent = 0
    /\ end = IF conf.declared = 0 THEN "ended" ELSE "open"
    /\ idle = Bounded(conf)
    /\ left = conf.total /\ overdue = FALSE
    /\ pc = "intercept" /\ got = 0 /\ held = "wire"
    /\ answer = "none" /\ closes = FALSE
    /\ quiet = 0

-----------------------------------------------------------------------------
(* The client, as hyper shows it.  A declared length is enforced by the    *)
(* protocol: the body ends when it is reached and cannot end before.  It   *)
(* says nothing of frames without data, of which there may be any number.  *)
Deliver(n) ==
    /\ end = "open" /\ Len(wire) < MaxUnread
    /\ n \in FrameSizes
    /\ sent + n <= IF conf.declared = Unstated THEN MaxOctets ELSE conf.declared
    /\ wire' = Append(wire, sent + n)
    /\ sent' = sent + n
    /\ end' = IF sent + n = conf.declared THEN "ended" ELSE "open"
    /\ quiet' = 0
    /\ UNCHANGED <<conf, idle, left, overdue, pc, got, held, answer, closes>>

(* The last chunk of a body that declared no length.                       *)
Finish ==
    /\ end = "open" /\ conf.declared = Unstated
    /\ end' = "ended" /\ quiet' = 0
    /\ UNCHANGED <<conf, wire, sent, idle, left, overdue, pc, got, held, answer, closes>>

(* The connection or the stream is reset.                                  *)
Reset ==
    /\ end = "open"
    /\ end' = "failed" /\ quiet' = 0
    /\ UNCHANGED <<conf, wire, sent, idle, left, overdue, pc, got, held, answer, closes>>

(* Time passes on every timer at once.                                     *)
Less(n) == IF n = 0 THEN 0 ELSE n - 1

Tick ==
    /\ idle' = IF idle.waiting THEN [idle EXCEPT !.left = Less(@)] ELSE idle
    /\ left' = IF pc # "intercept" /\ conf.guard = "deadline" THEN Less(left) ELSE left
    /\ quiet' = IF quiet < IdleLimit THEN quiet + 1 ELSE quiet
    /\ UNCHANGED <<conf, clientVars, overdue, pc, got, held, answer, closes>>

-----------------------------------------------------------------------------
(* What one poll_frame of the body finds.  Each layer asks the one beneath *)
(* before it asks its clock, and has nothing more to say once it has fired.*)
Incoming ==
    IF wire # <<>> THEN "frame"
    ELSE IF end = "open" THEN "pending"
    ELSE IF end = "ended" THEN "end" ELSE "failed"

PollIdle ==
    IF idle.spent THEN "end"
    ELSE IF Incoming = "pending" /\ idle.waiting /\ idle.left = 0 THEN "stalled"
    ELSE Incoming

Deadlined == conf.guard = "deadline" /\ conf.declared \notin {0, Unstated}
Poll ==
    IF overdue THEN "end"
    ELSE IF PollIdle = "pending" /\ Deadlined /\ left = 0 THEN "late"
    ELSE PollIdle

(* And what it leaves: the frame taken, the idle timer armed by the first  *)
(* poll that waits, and each clock that fired marked.                      *)
Arm == [idle EXCEPT !.waiting = TRUE, !.left = IF idle.waiting THEN @ ELSE IdleLimit]

(* Mutant: a frame leaves the timer running.                               *)
IdlePolledStays ==
    IF ~idle.on \/ idle.spent \/ overdue THEN idle
    ELSE IF PollIdle = "stalled" THEN [idle EXCEPT !.spent = TRUE]
    ELSE IF PollIdle = "pending" THEN Arm ELSE idle

IdlePolled ==
    IF ~idle.on \/ idle.spent \/ overdue THEN idle
    ELSE IF PollIdle = "stalled" THEN [idle EXCEPT !.spent = TRUE]
    ELSE IF PollIdle = "pending" THEN Arm
    ELSE [idle EXCEPT !.waiting = FALSE]

Taken ==
    /\ idle' = IdlePolled
    /\ overdue' = (overdue \/ Poll = "late")
    /\ wire' = IF Poll = "frame" THEN Tail(wire) ELSE wire

(* Mutant: the deadline is one for each frame.                             *)
PollsAnew ==
    /\ Taken
    /\ left' = IF Poll = "frame" THEN conf.total ELSE left

Polls == Taken /\ UNCHANGED left

-----------------------------------------------------------------------------
(* Mutant: the interceptor leaves the extractor its default.               *)
OfDefault == DefaultLimit

(* `of`: the limit the extractor reads under.                              *)
Of == IF conf.guard = "none" THEN DefaultLimit ELSE Limit

Exceeds(limit) == Poll = "frame" /\ Head(wire) > limit
Declares(limit) == conf.declared # Unstated /\ conf.declared > limit

(* Mutant: the connection is closed only after a 408 of its own.           *)
RespondCloses408(a) ==
    LET said == IF overdue' THEN "slow" ELSE a
    IN  /\ pc' = "done" /\ answer' = said
        /\ closes' = (conf.http1 /\ said \in {"slow", "stalled"})

(* The response leaves: BodySize puts its 408 over one whose body's read   *)
(* failed late, and `answer` closes an HTTP/1 connection that stalled.     *)
Respond(a) ==
    LET said == IF overdue' THEN "slow" ELSE a
    IN  /\ pc' = "done" /\ answer' = said
        /\ closes' = (conf.http1 /\ (idle'.spent \/ said = "slow"))

Goes(to) == pc' = to /\ UNCHANGED <<answer, closes>>
NoPoll == UNCHANGED <<conf, clientVars, idle, left, overdue, got, held, quiet>>
ToReader == IF conf.reader = "own" THEN "own" ELSE "extract"

(* BodySize::intercept, both forms, up to its first await.                 *)
Intercept ==
    /\ pc = "intercept"
    /\ NoPoll
    /\ IF conf.guard = "none" THEN Goes(ToReader)
       ELSE IF Declares(Limit) THEN Respond("refused")
       ELSE IF conf.declared # Unstated THEN Goes(ToReader)
       ELSE Goes("collect")

(* Mutant: a read that failed part-way is handed on as a whole body.       *)
IntoBodySwallows == "whole"

(* Capped::into_body: a failed read is handed on as the failure it was.    *)
IntoBody == IF Poll = "end" THEN "whole" ELSE Poll

(* collect_capped of a body that declared no length, for the interceptor.  *)
Collect ==
    /\ pc = "collect"
    /\ Polls
    /\ IF Exceeds(Limit) THEN Respond("refused") /\ UNCHANGED <<got, held>>
       ELSE IF Poll = "pending" THEN Goes("collect") /\ UNCHANGED <<got, held>>
       ELSE IF Poll = "frame"
       THEN Goes("collect") /\ got' = Head(wire) /\ UNCHANGED held
       ELSE Goes(ToReader) /\ held' = IntoBody /\ UNCHANGED got
    /\ UNCHANGED <<conf, end, sent, quiet>>

(* tokio::time::timeout over that read: asked only while it waits.         *)
CollectTimesOut ==
    /\ pc = "collect" /\ conf.guard = "deadline"
    /\ NoPoll
    /\ left = 0 /\ Poll = "pending"
    /\ Respond("slow")

(* read_body: refuse_declared, then collect_capped and into_read.          *)
Extract ==
    /\ pc = "extract"
    /\ NoPoll
    /\ IF Declares(Of) THEN Respond("rejected") ELSE Goes("read")

(* Capped::into_read: what an extractor makes of the end of its read.      *)
IntoRead ==
    IF Poll = "end" THEN "handled" ELSE IF Poll = "stalled" THEN "stalled" ELSE "failed"

ReadWire ==
    /\ pc = "read" /\ held = "wire"
    /\ Polls
    /\ IF Exceeds(Of) THEN Respond("rejected") /\ UNCHANGED got
       ELSE IF Poll = "pending" THEN Goes("read") /\ UNCHANGED got
       ELSE IF Poll = "frame" THEN Goes("read") /\ got' = Head(wire)
       ELSE Respond(IntoRead) /\ UNCHANGED got
    /\ UNCHANGED <<conf, end, sent, held, quiet>>

(* The same of a body the interceptor holds: from_bytes or failed_after.   *)
ReadHeld ==
    /\ pc = "read" /\ held # "wire"
    /\ NoPoll
    /\ IF got > Of THEN Respond("rejected")
       ELSE Respond(IF held = "whole" THEN "handled" ELSE held)

(* A handler that reads the body itself: it begins a read, abandons one    *)
(* that waits, and answers when it likes.                                  *)
OwnBegins ==
    /\ pc = "own" /\ held = "wire"
    /\ NoPoll
    /\ Goes("ownRead")

OwnPolls ==
    /\ pc = "ownRead"
    /\ Polls
    /\ Goes(IF Poll = "pending" THEN "ownRead" ELSE "own")
    /\ got' = IF Poll = "frame" THEN Head(wire) ELSE got
    /\ UNCHANGED <<conf, end, sent, held, quiet>>

OwnAbandons ==
    /\ pc = "ownRead" /\ Poll = "pending"
    /\ NoPoll
    /\ Goes("own")

OwnAnswers ==
    /\ pc = "own"
    /\ NoPoll
    /\ Respond("handled")

Client == (\E n \in FrameSizes : Deliver(n)) \/ Finish \/ Reset
Task ==
    \/ Intercept \/ Collect \/ CollectTimesOut \/ Extract \/ ReadWire \/ ReadHeld
    \/ OwnBegins \/ OwnPolls \/ OwnAbandons \/ OwnAnswers
Next == Client \/ Tick \/ Task

(* Timers run, and a task whose read can go on is polled.  The client owes *)
(* nothing, nor does a handler.                                            *)
Spec ==
    /\ Init /\ [][Next]_vars
    /\ WF_vars(Tick)
    /\ WF_vars(Intercept) /\ WF_vars(Collect) /\ WF_vars(CollectTimesOut)
    /\ WF_vars(Extract) /\ WF_vars(ReadWire) /\ WF_vars(ReadHeld)

-----------------------------------------------------------------------------
(* A handler given a whole body was given all of it and no more than the   *)
(* limit over it: no failure, timer or layer passes a prefix for the whole.*)
WholeMeansAll ==
    answer = "handled" /\ conf.reader = "whole" =>
        end = "ended" /\ got = sent /\ got <= Of

(* An extractor never refuses for its size a body BodySize let through,    *)
(* and no body within the limit is refused for its size by either.         *)
SizeRefusalsAreEarned ==
    /\ answer = "rejected" => conf.guard = "none"
    /\ answer \in {"refused", "rejected"} => sent > Of \/ Declares(Of)

Silent == wire = <<>> /\ end = "open"
CutsShort == answer # "slow" /\ answer' = "slow" /\ ~overdue

(* A clock fires on silence alone: when the idle timer fires nothing has   *)
(* arrived for its whole limit, and neither it nor the deadline, in either *)
(* form, fails a read that something already there could answer.           *)
ClocksFireOnSilence ==
    [][/\ idle'.spent # idle.spent => quiet = IdleLimit /\ Silent
       /\ overdue' # overdue \/ CutsShort => left = 0 /\ Silent]_vars

(* Over HTTP/1 a response to a body that a timer cut short closes the      *)
(* connection, whichever layer answered and whatever it made of the error. *)
CutBodiesClose ==
    conf.http1 /\ (idle.spent \/ overdue \/ answer = "slow") /\ pc = "done" => closes

(* Either clock ends a buffered read, however the client sends its octets  *)
(* or stops: each octet counts towards a limit, and a gap towards the      *)
(* clock.  A frame without data does neither, so the client is one that    *)
(* does not go on with those for ever.                                     *)
EitherClockEndsReads ==
    <>[][~Deliver(0)]_vars
      => (conf.reader = "whole" /\ (conf.idle \/ conf.guard = "deadline")) ~> pc = "done"

(* The reader keeps up with the client: it has read all that came, again   *)
(* and again, and is polled at such moments.                               *)
KeepsUp ==
    /\ []<>(wire = <<>>)
    /\ SF_vars(CollectTimesOut) /\ SF_vars(ReadWire /\ wire = <<>>)

(* The deadline ends what the idle timeout lets pass: a client that sends  *)
(* a frame just inside every gap, with data in it or without, as long as   *)
(* it likes, holds no buffered read past the deadline.                     *)
DeadlineEndsReads ==
    KeepsUp => (conf.reader = "whole" /\ conf.guard = "deadline") ~> pc = "done"

(* No client holds a buffered read for ever: not with silence when either  *)
(* clock is set, and not with a trickle when the deadline is.              *)
ReadsEnd == EitherClockEndsReads /\ DeadlineEndsReads
=============================================================================
