-------------------------- MODULE RequestBodyProofs --------------------------
(***************************************************************************)
(* The clocks over a request body, for every limit, deadline and body.     *)
(***************************************************************************)
EXTENDS RequestBody, TLAPS

Timer == [on : BOOLEAN, waiting : BOOLEAN, left : 0..IdleLimit, spent : BOOLEAN]

(* The part of the type the argument needs.                                *)
Shape ==
    /\ idle \in Timer
    /\ quiet \in 0..IdleLimit
    /\ wire \in Seq(Nat)
    /\ overdue \in BOOLEAN
    /\ sent \in Nat

(* What the interceptor hands on is no answer of its own.                  *)
HeldIsNoAnswer == held \notin {"slow", "handled", "refused", "rejected"}

(* Only a body that is wrapped has a timer to run.                         *)
WaitingIsOn == idle.waiting => idle.on

(* While the idle timer measures a wait that nothing has ended, the client *)
(* has been silent for at least the time the timer has run.                *)
TimerIsSilence == idle.waiting /\ Silent => IdleLimit - idle.left <= quiet

Clock == Shape /\ WaitingIsOn /\ TimerIsSilence
IInv == Clock /\ HeldIsNoAnswer

(* The invariant of the clocks holds at first.                             *)
LEMMA InitIInv == Init => IInv
  <1> SUFFICES ASSUME Init PROVE IInv OBVIOUS
  <1>1. Shape
    <2>1. idle \in Timer BY IdleAssumption DEF Init, Bounded, Conf, Timer
    <2>2. quiet \in 0..IdleLimit BY IdleAssumption DEF Init
    <2>3. wire \in Seq(Nat) BY DEF Init
    <2>4. overdue \in BOOLEAN BY Zenon DEF Init
    <2>5. sent \in Nat BY DEF Init
    <2> QED BY <2>1, <2>2, <2>3, <2>4, <2>5 DEF Shape
  <1>2. WaitingIsOn BY DEF Init, Bounded, WaitingIsOn
  <1>3. TimerIsSilence BY DEF Init, Bounded, TimerIsSilence
  <1>4. HeldIsNoAnswer BY DEF Init, HeldIsNoAnswer
  <1> QED BY <1>1, <1>2, <1>3, <1>4 DEF IInv, Clock

(* A poll that arms, clears or fires the idle timer leaves a timer.        *)
LEMMA PolledIsTimer == ASSUME Shape PROVE IdlePolled \in Timer
  <1>1. Arm \in Timer
    <2>1. (IF idle.waiting THEN idle.left ELSE IdleLimit) \in 0..IdleLimit
      BY IdleAssumption DEF Shape, Timer
    <2> QED BY <2>1 DEF Shape, Timer, Arm
  <1>2. [idle EXCEPT !.spent = TRUE] \in Timer
    BY DEF Shape, Timer
  <1>3. [idle EXCEPT !.waiting = FALSE] \in Timer
    BY DEF Shape, Timer
  <1>4. idle \in Timer BY DEF Shape
  <1> QED BY <1>1, <1>2, <1>3, <1>4 DEF IdlePolled

(* What a poll finds while nothing is there to be found.                   *)
LEMMA PendingIsSilence == PollIdle \in {"pending", "stalled"} => Silent
  BY DEF PollIdle, Incoming, Silent

(* One poll keeps the invariant; only a poll of a silent body fires a      *)
(* clock.                                                                  *)
LEMMA PollsKeep ==
    ASSUME Clock, Polls, UNCHANGED <<end, quiet, sent>>
    PROVE  Clock'
  <1> USE DEF Clock
  <1>1. Shape'
    <2>1. idle' \in Timer BY PolledIsTimer DEF Polls, Taken
    <2>2. wire' \in Seq(Nat)
      <3>1. CASE Poll = "frame"
        <4>1. wire # <<>> BY <3>1 DEF Poll, PollIdle, Incoming
        <4> QED BY <3>1, <4>1 DEF Polls, Taken, Shape
      <3>2. CASE Poll # "frame" BY <3>2 DEF Polls, Taken, Shape
      <3> QED BY <3>1, <3>2
    <2>3. overdue' \in BOOLEAN BY DEF Polls, Taken
    <2> QED BY <2>1, <2>2, <2>3 DEF Shape
  <1>2. CASE ~idle.on \/ idle.spent \/ overdue
    <2>1. idle' = idle BY <1>2 DEF Polls, Taken, IdlePolled
    <2>2. ~idle.on => ~idle.waiting BY DEF WaitingIsOn
    <2>3. idle.spent \/ overdue => wire' = wire
      BY DEF Polls, Taken, Poll, PollIdle
    <2> QED BY <1>1, <1>2, <2>1, <2>2, <2>3 DEF WaitingIsOn, TimerIsSilence, Silent
  <1>3. CASE ~(~idle.on \/ idle.spent \/ overdue)
    <2> idle.on /\ ~idle.spent /\ ~overdue BY <1>3
    <2>1. CASE PollIdle = "stalled"
      <3>1. idle' = [idle EXCEPT !.spent = TRUE] BY <2>1 DEF Polls, Taken, IdlePolled
      <3>2. wire' = wire BY <2>1 DEF Polls, Taken, Poll
      <3>3. idle'.waiting = idle.waiting /\ idle'.on = idle.on /\ idle'.left = idle.left
        BY <3>1 DEF Shape, Timer
      <3> QED BY <1>1, <3>2, <3>3 DEF WaitingIsOn, TimerIsSilence, Silent
    <2>2. CASE PollIdle = "pending"
      <3>1. idle' = Arm BY <2>2 DEF Polls, Taken, IdlePolled
      <3>2. wire' = wire BY <2>2 DEF Polls, Taken, Poll
      <3>3. idle'.on = idle.on /\ idle'.left = IF idle.waiting THEN idle.left ELSE IdleLimit
        BY <3>1 DEF Arm, Shape, Timer
      <3>4. TimerIsSilence'
        BY <3>2, <3>3, IdleAssumption DEF TimerIsSilence, Silent, Shape, Timer
      <3> QED BY <1>1, <3>3, <3>4 DEF WaitingIsOn
    <2>3. CASE PollIdle \notin {"stalled", "pending"}
      <3>1. idle' = [idle EXCEPT !.waiting = FALSE] BY <2>3 DEF Polls, Taken, IdlePolled
      <3>2. ~idle'.waiting BY <3>1 DEF Shape, Timer
      <3> QED BY <1>1, <3>2 DEF WaitingIsOn, TimerIsSilence
    <2> QED BY <2>1, <2>2, <2>3
  <1> QED BY <1>2, <1>3

(* Every step keeps the idle timer within the silence.                     *)
LEMMA NextClock == Clock /\ [Next]_vars => Clock'
  <1> SUFFICES ASSUME Clock, [Next]_vars PROVE Clock' OBVIOUS
  <1> USE DEF Clock
  <1>1. ASSUME NEW n \in FrameSizes, Deliver(n) PROVE Clock'
    <2>1. wire' \in Seq(Nat) /\ wire' # <<>>
      <3>1. wire' = Append(wire, sent + n) BY <1>1 DEF Deliver
      <3>2. wire \in Seq(Nat) /\ sent + n \in Nat BY FramesAssumption DEF Shape
      <3> DEFINE x == sent + n
      <3> HIDE DEF x
      <3>3. x \in Nat /\ wire' = Append(wire, x) BY <3>1, <3>2 DEF x
      <3> QED BY <3>2, <3>3
    <2>2. idle' = idle /\ quiet' = 0 /\ overdue' = overdue /\ sent' \in Nat
      BY <1>1, FramesAssumption DEF Deliver, Shape
    <2> QED BY <2>1, <2>2, IdleAssumption DEF Shape, WaitingIsOn, TimerIsSilence, Silent
  <1>2. CASE Finish \/ Reset
    <2>1. idle' = idle /\ quiet' = 0 /\ wire' = wire /\ overdue' = overdue /\ end' # "open"
         /\ sent' = sent
      BY <1>2 DEF Finish, Reset
    <2> QED BY <2>1, IdleAssumption DEF Shape, WaitingIsOn, TimerIsSilence, Silent
  <1>3. CASE Tick
    <2>1. wire' = wire /\ end' = end /\ overdue' = overdue /\ sent' = sent
      BY <1>3 DEF Tick, clientVars
    <2>2. quiet' \in 0..IdleLimit /\ quiet' = IF quiet < IdleLimit THEN quiet + 1 ELSE quiet
      BY <1>3, IdleAssumption DEF Tick, Shape
    <2>3. idle' \in Timer
      BY <1>3, IdleAssumption DEF Tick, Shape, Timer, Less
    <2>4. idle'.on = idle.on /\ idle'.waiting = idle.waiting
      BY <1>3 DEF Tick, Shape, Timer
    <2>5. CASE idle.waiting
      <3>1. idle'.left = Less(idle.left) BY <1>3, <2>5 DEF Tick, Shape, Timer
      <3>2. idle.left \in 0..IdleLimit BY DEF Shape, Timer
      <3>3. quiet \in 0..IdleLimit BY DEF Shape
      <3>4. IdleLimit - idle.left <= quiet => IdleLimit - idle'.left <= quiet'
        BY <3>1, <3>2, <3>3, <2>2, IdleAssumption DEF Less
      <3> QED BY <2>1, <2>2, <2>3, <2>4, <3>4 DEF Shape, WaitingIsOn, TimerIsSilence, Silent
    <2>6. CASE ~idle.waiting
      BY <2>1, <2>2, <2>3, <2>4, <2>6 DEF Shape, WaitingIsOn, TimerIsSilence
    <2> QED BY <2>5, <2>6
  <1>4. CASE Collect \/ ReadWire \/ OwnPolls
    BY <1>4, PollsKeep DEF Collect, ReadWire, OwnPolls
  <1>5. CASE Intercept \/ CollectTimesOut \/ Extract \/ ReadHeld \/ OwnBegins
             \/ OwnAbandons \/ OwnAnswers
    <2>1. UNCHANGED <<idle, quiet, wire, end, overdue, sent>>
      BY <1>5 DEF Intercept, CollectTimesOut, Extract, ReadHeld, OwnBegins,
                  OwnAbandons, OwnAnswers, NoPoll, clientVars
    <2> QED BY <2>1 DEF Shape, WaitingIsOn, TimerIsSilence, Silent
  <1>6. CASE UNCHANGED vars
    BY <1>6 DEF vars, Shape, WaitingIsOn, TimerIsSilence, Silent
  <1> QED BY <1>1, <1>2, <1>3, <1>4, <1>5, <1>6 DEF Next, Client, Task

(* Every step keeps what is held and what was answered apart.              *)
LEMMA NextHeld == HeldIsNoAnswer /\ [Next]_vars => HeldIsNoAnswer'
  <1> SUFFICES ASSUME HeldIsNoAnswer, [Next]_vars PROVE HeldIsNoAnswer' OBVIOUS
  <1>1. IntoBody \notin {"slow", "handled", "refused", "rejected"} BY DEF IntoBody, Poll, PollIdle, Incoming
  <1>2. CASE Collect BY <1>1, <1>2 DEF Collect, HeldIsNoAnswer
  <1>3. ASSUME ~Collect PROVE UNCHANGED held
    BY <1>3 DEF Next, Client, Task, Deliver, Finish, Reset, Tick, Intercept,
                CollectTimesOut, Extract, ReadWire, ReadHeld, OwnBegins, OwnPolls,
                OwnAbandons, OwnAnswers, NoPoll, vars
  <1> QED BY <1>2, <1>3 DEF HeldIsNoAnswer

(* The timer's account of the client's silence is right in every           *)
(* reachable state.                                                        *)
THEOREM TimersMeasureSilence == Spec => []IInv
  BY InitIInv, NextClock, NextHeld, PTL DEF Spec, IInv

(* What a step does to each clock: the body's two clocks fire only in a    *)
(* poll of a silent body, each when its own time is up.                    *)
LEMMA StepFiresOnSilence ==
    ASSUME IInv, [Next]_vars
    PROVE  /\ idle'.spent # idle.spent => quiet = IdleLimit /\ Silent
           /\ overdue' # overdue \/ CutsShort => left = 0 /\ Silent
  <1> USE DEF IInv, Clock
  <1>1. ASSUME Polls
        PROVE  /\ idle'.spent # idle.spent => quiet = IdleLimit /\ Silent
               /\ overdue' # overdue => left = 0 /\ Silent
               /\ overdue' /\ ~overdue => left = 0 /\ Silent
    <2>1. idle'.spent # idle.spent => PollIdle = "stalled"
      BY <1>1 DEF Polls, Taken, IdlePolled, Arm, Shape, Timer
    <2>2. PollIdle = "stalled" => Silent /\ idle.waiting /\ idle.left = 0
      BY DEF PollIdle, Incoming, Silent
    <2>3. idle.waiting /\ Silent /\ idle.left = 0 => quiet = IdleLimit
      BY IdleAssumption DEF TimerIsSilence, Shape, Timer
    <2>4. overdue' # overdue => Poll = "late"
      BY <1>1, Zenon DEF Polls, Taken, Shape
    <2>5. Poll = "late" => PollIdle = "pending" /\ left = 0
      BY DEF Poll, PollIdle, Incoming
    <2>6. overdue' /\ ~overdue => Poll = "late"
      BY <1>1, Zenon DEF Polls, Taken
    <2> QED BY <2>1, <2>2, <2>3, <2>4, <2>5, <2>6, PendingIsSilence
  <1>2. ASSUME Polls, NEW a, a # "slow", Respond(a)
        PROVE  CutsShort => left = 0 /\ Silent
    <2>1. CutsShort => overdue' /\ ~overdue BY <1>2 DEF CutsShort, Respond
    <2> QED BY <1>1, <1>2, <2>1
  <1>3. ASSUME NEW to, Goes(to) PROVE ~CutsShort BY <1>3 DEF Goes, CutsShort
  <1>4. CASE Collect
    BY <1>1, <1>2, <1>3, <1>4 DEF Collect
  <1>5. CASE ReadWire
    <2>1. IntoRead # "slow" BY DEF IntoRead
    <2> QED BY <1>1, <1>2, <1>3, <1>5, <2>1 DEF ReadWire
  <1>6. CASE OwnPolls
    BY <1>1, <1>3, <1>6 DEF OwnPolls
  <1>7. CASE CollectTimesOut
    <2>1. Silent BY <1>7, PendingIsSilence DEF CollectTimesOut, Poll
    <2>2. left = 0 /\ UNCHANGED <<idle, overdue>> BY <1>7 DEF CollectTimesOut, NoPoll
    <2> QED BY <2>1, <2>2
  <1>8. ASSUME NEW a, a # "slow", NoPoll, Respond(a) PROVE ~CutsShort
    BY <1>8 DEF NoPoll, Respond, CutsShort
  <1>9. CASE Intercept \/ Extract \/ ReadHeld \/ OwnBegins \/ OwnAbandons \/ OwnAnswers
    <2>1. UNCHANGED <<idle, overdue>>
      BY <1>9 DEF Intercept, Extract, ReadHeld, OwnBegins, OwnAbandons, OwnAnswers, NoPoll
    <2>2. ~CutsShort
      <3>1. CASE ReadHeld
        <4>1. (IF held = "whole" THEN "handled" ELSE held) # "slow" BY DEF HeldIsNoAnswer
        <4> QED BY <3>1, <4>1, <1>8 DEF ReadHeld
      <3>2. CASE Intercept \/ Extract \/ OwnAnswers
        BY <3>2, <1>3, <1>8 DEF Intercept, Extract, OwnAnswers
      <3>3. CASE OwnBegins \/ OwnAbandons BY <3>3, <1>3 DEF OwnBegins, OwnAbandons
      <3> QED BY <1>9, <3>1, <3>2, <3>3
    <2> QED BY <2>1, <2>2
  <1>10. ASSUME NEW n \in FrameSizes, Deliver(n) PROVE UNCHANGED <<idle, overdue, answer>>
    BY <1>10 DEF Deliver
  <1>11. CASE Finish \/ Reset \/ UNCHANGED vars
    BY <1>11 DEF Finish, Reset, vars, CutsShort
  <1>12. CASE Tick
    <2>1. idle'.spent = idle.spent BY <1>12 DEF Tick, Shape, Timer
    <2>2. UNCHANGED <<overdue, answer>> BY <1>12 DEF Tick
    <2> QED BY <2>1, <2>2 DEF CutsShort
  <1> QED BY <1>4, <1>5, <1>6, <1>7, <1>9, <1>10, <1>11, <1>12 DEF Next, Client, Task, CutsShort

(* A clock fires on silence alone, however long the limits and whatever    *)
(* the frames.                                                             *)
THEOREM ClocksOnlyFireOnSilence == Spec => ClocksFireOnSilence
  <1>1. IInv /\ [Next]_vars =>
          [/\ idle'.spent # idle.spent => quiet = IdleLimit /\ Silent
           /\ overdue' # overdue \/ CutsShort => left = 0 /\ Silent]_vars
    BY StepFiresOnSilence
  <1> QED BY <1>1, TimersMeasureSilence, PTL DEF Spec, ClocksFireOnSilence

(* The response that ends a request closes an HTTP/1 connection whose body *)
(* was cut, and nothing about the request changes after it.                *)
LEMMA RespondCloses ==
    ASSUME NEW a, Respond(a), UNCHANGED conf
    PROVE  CutBodiesClose'
  <1>1. overdue' => answer' = "slow" BY Zenon DEF Respond
  <1>2. closes' = (conf.http1 /\ (idle'.spent \/ answer' = "slow")) BY Zenon DEF Respond
  <1> QED BY <1>1, <1>2, Zenon DEF CutBodiesClose

(* Every step keeps a response to a cut body closing.                      *)
LEMMA NextCutBodiesClose ==
    ASSUME Shape, CutBodiesClose, [Next]_vars
    PROVE  CutBodiesClose'
  <1>1. ASSUME NEW to, Goes(to), to # "done" PROVE CutBodiesClose'
    BY <1>1 DEF Goes, CutBodiesClose
  <1>2. ASSUME idle'.spent = idle.spent, UNCHANGED <<conf, overdue, answer, pc, closes>>
        PROVE  CutBodiesClose'
    BY <1>2, Zenon DEF CutBodiesClose
  <1>3. ToReader # "done" BY DEF ToReader
  <1>4. CASE Collect BY <1>1, <1>3, <1>4, RespondCloses DEF Collect
  <1>5. CASE ReadWire BY <1>1, <1>5, RespondCloses DEF ReadWire
  <1>6. CASE OwnPolls
    <2>1. (IF Poll = "pending" THEN "ownRead" ELSE "own") # "done" OBVIOUS
    <2> QED BY <1>1, <1>6, <2>1 DEF OwnPolls
  <1>7. CASE Intercept BY <1>1, <1>3, <1>7, RespondCloses DEF Intercept, NoPoll
  <1>8. CASE CollectTimesOut BY <1>8, RespondCloses DEF CollectTimesOut, NoPoll
  <1>9. CASE Extract BY <1>1, <1>9, RespondCloses DEF Extract, NoPoll
  <1>10. CASE ReadHeld BY <1>10, RespondCloses DEF ReadHeld, NoPoll
  <1>11. CASE OwnBegins \/ OwnAbandons BY <1>1, <1>11 DEF OwnBegins, OwnAbandons
  <1>12. CASE OwnAnswers BY <1>12, RespondCloses DEF OwnAnswers, NoPoll
  <1>13. ASSUME NEW n \in FrameSizes, Deliver(n) PROVE CutBodiesClose'
    BY <1>2, <1>13 DEF Deliver
  <1>14. CASE Finish \/ Reset \/ UNCHANGED vars
    BY <1>2, <1>14 DEF Finish, Reset, vars
  <1>15. CASE Tick
    <2>1. idle'.spent = idle.spent BY <1>15 DEF Tick, Shape, Timer
    <2>2. UNCHANGED <<conf, overdue, answer, pc, closes>> BY <1>15 DEF Tick
    <2> QED BY <1>2, <2>1, <2>2
  <1> QED BY <1>4, <1>5, <1>6, <1>7, <1>8, <1>9, <1>10, <1>11, <1>12, <1>13, <1>14, <1>15
          DEF Next, Client, Task

(* Every HTTP/1 connection whose request body a timer cut is closed by its *)
(* response, so the unread rest is never framed as the next request.       *)
THEOREM CutBodiesAlwaysClose == Spec => []CutBodiesClose
  <1>1. Init => CutBodiesClose BY DEF Init, CutBodiesClose
  <1>2. IInv /\ CutBodiesClose /\ [Next]_vars => CutBodiesClose'
    BY NextCutBodiesClose DEF IInv, Clock
  <1> QED BY <1>1, <1>2, TimersMeasureSilence, PTL DEF Spec
-----------------------------------------------------------------------------
(* What was read and what is unread are together what was sent, until the  *)
(* response is decided.                                                    *)
Account ==
    /\ Len(wire) = 0 => got = sent
    /\ Len(wire) # 0 => wire[Len(wire)] = sent
Accounted == got \in Nat /\ (pc # "done" => Account)

(* A read that goes on has not failed: its clocks would end it in silence. *)
Going == pc = "collect" \/ (pc \in {"intercept", "extract", "read"} /\ held = "wire")
Unfailed == Going => ~idle.spent /\ ~overdue

(* Where a request stands tells what its reader may have.                  *)
Stands ==
    /\ pc = "collect" => conf.guard # "none"
    /\ conf.reader = "whole" => pc \notin {"own", "ownRead"}
    /\ answer # "none" => pc = "done"
    /\ pc \in {"intercept", "collect"} => held = "wire"
    /\ held = "whole" => end = "ended" /\ wire = <<>>
    /\ pc # "done" /\ conf.reader = "whole" => got <= Of

WholeInv == Accounted /\ Unfailed /\ Stands /\ WholeMeansAll

(* Nothing was read at first.                                              *)
LEMMA InitWholeInv == Init => WholeInv
  <1> SUFFICES ASSUME Init PROVE WholeInv OBVIOUS
  <1>1. Accounted BY DEF Init, Accounted, Account
  <1>2. Unfailed BY DEF Init, Bounded, Unfailed
  <1>3. Of \in Nat BY LimitsAssumption DEF Of
  <1>4. Stands BY <1>3 DEF Init, Stands
  <1>5. WholeMeansAll BY DEF Init, WholeMeansAll
  <1> QED BY <1>1, <1>2, <1>4, <1>5 DEF WholeInv

(* A poll takes at most one frame, and takes it into account.              *)
LEMMA PollAccounts ==
    ASSUME Shape, Accounted, pc # "done", Polls, UNCHANGED sent,
           got' = IF Poll = "frame" THEN Head(wire) ELSE got
    PROVE  Accounted'
  <1> USE DEF Account
  <1>1. CASE Poll = "frame"
    <2>1. wire # <<>> BY <1>1 DEF Poll, PollIdle, Incoming
    <2>2. wire' = Tail(wire) /\ got' = Head(wire) BY <1>1 DEF Polls, Taken
    <2>3. wire \in Seq(Nat) BY DEF Shape
    <2>4. Len(wire) # 0 /\ wire[Len(wire)] = sent BY <2>1, <2>3 DEF Accounted
    <2>5. Head(wire) \in Nat BY <2>1, <2>3
    <2>6. CASE Len(wire) = 1
      <3>1. Len(Tail(wire)) = 0 BY <2>1, <2>3, <2>6
      <3>2. Head(wire) = sent BY <2>1, <2>3, <2>4, <2>6
      <3> QED BY <2>2, <2>5, <3>1, <3>2 DEF Accounted
    <2>7. CASE Len(wire) # 1
      <3>1. Len(wire) \in Nat /\ Len(wire) > 1 BY <2>3, <2>4, <2>7
      <3>2. Len(Tail(wire)) = Len(wire) - 1 BY <2>1, <2>3
      <3>3. Tail(wire)[Len(wire) - 1] = wire[Len(wire)] BY <2>1, <2>3, <3>1
      <3>4. Len(Tail(wire)) # 0
        <4>1. \A n \in Nat : n > 1 => n - 1 # 0 OBVIOUS
        <4> QED BY <3>1, <3>2, <4>1, Zenon
      <3> QED BY <2>2, <2>4, <2>5, <3>2, <3>3, <3>4 DEF Accounted
    <2> QED BY <2>6, <2>7
  <1>2. CASE Poll # "frame"
    <2>1. wire' = wire /\ got' = got BY <1>2 DEF Polls, Taken
    <2> QED BY <2>1 DEF Accounted
  <1> QED BY <1>1, <1>2

(* A read that finds the end, and whose clocks have not fired, found it.   *)
LEMMA EndIsEnd ==
    ASSUME ~idle.spent, ~overdue, Poll = "end"
    PROVE  wire = <<>> /\ end = "ended"
  BY DEF Poll, PollIdle, Incoming

(* Clocks that have not fired fire only in the poll that says so.          *)
LEMMA QuietPoll ==
    ASSUME Shape, ~idle.spent, ~overdue, Polls, Poll \in {"pending", "frame", "end"}
    PROVE  ~idle'.spent /\ ~overdue'
  <1>1. PollIdle # "stalled" BY DEF Poll
  <1>2. idle'.spent = idle.spent BY <1>1 DEF Polls, Taken, IdlePolled, Arm, Shape, Timer
  <1>3. ~overdue' BY Zenon DEF Polls, Taken
  <1> QED BY <1>2, <1>3

(* Of is fixed by the request.                                             *)
LEMMA OfStays == ASSUME UNCHANGED conf PROVE Of' = Of /\ Of \in Nat
  BY LimitsAssumption DEF Of

(* What a poll can come to.                                                *)
LEMMA PollRange == Poll \in {"frame", "pending", "end", "failed", "stalled", "late"}
  BY DEF Poll, PollIdle, Incoming

(* A response with any body but a whole one says nothing about the body.   *)
LEMMA RespondStands ==
    ASSUME NEW a, Respond(a), UNCHANGED <<conf, end, held, sent>>, WholeInv, got' \in Nat,
           wire = <<>> => wire' = <<>>,
           a = "handled" /\ conf.reader = "whole" =>
               end = "ended" /\ got' = sent /\ got' <= Of
    PROVE  WholeInv'
  <1>1. pc' = "done" /\ (answer' = a \/ answer' = "slow") BY DEF Respond
  <1>2. Of' = Of BY OfStays
  <1>3. Unfailed' BY <1>1 DEF Unfailed, Going
  <1>4. Stands' BY <1>1 DEF Stands, WholeInv
  <1>5. WholeMeansAll' BY <1>1, <1>2 DEF WholeMeansAll
  <1>6. Accounted' BY <1>1 DEF Accounted
  <1> QED BY <1>3, <1>4, <1>5, <1>6 DEF WholeInv

(* A reader that goes on, its clocks still unfired, with what it may have. *)
LEMMA GoesStands ==
    ASSUME NEW to, Goes(to), to # "done", pc # "done", WholeInv, UNCHANGED <<conf, end>>,
           Accounted', held' = held \/ held' # "wire",
           to \in {"intercept", "collect"} => held' = "wire",
           to = "collect" => conf.guard # "none",
           conf.reader = "whole" => to \notin {"own", "ownRead"} /\ got' <= Of,
           held' = "whole" => end = "ended" /\ wire' = <<>>,
           Going' => ~idle'.spent /\ ~overdue'
    PROVE  WholeInv'
  <1>1. pc' = to /\ answer' = answer BY DEF Goes
  <1>2. Of' = Of BY OfStays
  <1>3. answer = "none" BY DEF WholeInv, Stands
  <1>4. Unfailed' BY DEF Unfailed
  <1>5. Stands' BY <1>1, <1>2, <1>3 DEF Stands
  <1>6. WholeMeansAll' BY <1>1, <1>3 DEF WholeMeansAll
  <1> QED BY <1>4, <1>5, <1>6 DEF WholeInv

(* The buffering interceptor reads a frame, or all, or refuses.            *)
LEMMA CollectKeeps == ASSUME Shape, WholeInv, Collect PROVE WholeInv'
  <1>1. pc = "collect" /\ Polls /\ UNCHANGED <<conf, end, sent>> BY DEF Collect
  <1>2. /\ ~idle.spent /\ ~overdue /\ held = "wire" /\ Of = Limit /\ got \in Nat
        /\ Accounted /\ (conf.reader = "whole" => got <= Of) /\ conf.guard # "none"
    BY <1>1 DEF WholeInv, Unfailed, Going, Stands, Of, Accounted
  <1>3. wire = <<>> => wire' = <<>>
    BY <1>1 DEF Polls, Taken, Poll, PollIdle, Incoming
  <1>4. CASE Exceeds(Limit)
    <2>1. Respond("refused") /\ UNCHANGED <<got, held>> BY <1>4 DEF Collect
    <2> QED BY <1>1, <1>2, <1>3, <2>1, RespondStands
  <1>5. CASE Poll = "pending" /\ ~Exceeds(Limit)
    <2>1. Goes("collect") /\ UNCHANGED <<got, held>> BY <1>5 DEF Collect
    <2>2. Accounted' BY <1>1, <1>2, <1>5, <2>1, PollAccounts
    <2>3. ~idle'.spent /\ ~overdue' BY <1>1, <1>2, <1>5, QuietPoll
    <2> QED BY <1>1, <1>2, <2>1, <2>2, <2>3, GoesStands
  <1>6. CASE Poll = "frame" /\ ~Exceeds(Limit)
    <2>1. Goes("collect") /\ got' = Head(wire) /\ UNCHANGED held BY <1>6 DEF Collect
    <2>2. Accounted' BY <1>1, <1>2, <1>6, <2>1, PollAccounts
    <2>3. ~idle'.spent /\ ~overdue' BY <1>1, <1>2, <1>6, QuietPoll
    <2>4. got' <= Of BY <1>2, <1>6, <2>1, <2>2, LimitsAssumption DEF Exceeds, Accounted
    <2> QED BY <1>1, <1>2, <2>1, <2>2, <2>3, <2>4, GoesStands
  <1>7. CASE Poll \in {"end", "failed", "stalled", "late"}
    <2>1. Goes(ToReader) /\ held' = IntoBody /\ UNCHANGED got BY <1>7 DEF Collect, Exceeds
    <2>2. Accounted' BY <1>1, <1>2, <1>7, <2>1, PollAccounts
    <2>3. held' # "wire" BY <1>7, <2>1 DEF IntoBody
    <2>4. held' = "whole" => end = "ended" /\ wire' = <<>>
      BY <1>2, <1>3, <1>7, <2>1, EndIsEnd DEF IntoBody
    <2>5. ToReader \in {"own", "extract"} /\ (conf.reader = "whole" => ToReader = "extract")
      BY DEF ToReader
    <2>6. ~Going' BY <2>1, <2>3, <2>5 DEF Going, Goes
    <2> QED BY <1>1, <1>2, <2>1, <2>2, <2>3, <2>4, <2>5, <2>6, GoesStands
  <1> QED BY <1>4, <1>5, <1>6, <1>7, PollRange DEF Exceeds

(* So does the extractor on the wire.                                      *)
LEMMA ReadWireKeeps == ASSUME Shape, WholeInv, ReadWire PROVE WholeInv'
  <1>1. pc = "read" /\ Polls /\ UNCHANGED <<conf, end, sent, held>> BY DEF ReadWire
  <1>2. /\ ~idle.spent /\ ~overdue /\ held = "wire" /\ got \in Nat
        /\ Accounted /\ Account /\ (conf.reader = "whole" => got <= Of)
    BY <1>1 DEF WholeInv, Unfailed, Going, Stands, Accounted, ReadWire
  <1>3. wire = <<>> => wire' = <<>>
    BY <1>1 DEF Polls, Taken, Poll, PollIdle, Incoming
  <1>4. CASE Exceeds(Of)
    <2>1. Respond("rejected") /\ UNCHANGED got BY <1>4 DEF ReadWire
    <2> QED BY <1>1, <1>2, <1>3, <2>1, RespondStands
  <1>5. CASE Poll = "pending" /\ ~Exceeds(Of)
    <2>1. Goes("read") /\ UNCHANGED got BY <1>5 DEF ReadWire
    <2>2. Accounted' BY <1>1, <1>2, <1>5, <2>1, PollAccounts
    <2>3. ~idle'.spent /\ ~overdue' BY <1>1, <1>2, <1>5, QuietPoll
    <2> QED BY <1>1, <1>2, <2>1, <2>2, <2>3, GoesStands
  <1>6. CASE Poll = "frame" /\ ~Exceeds(Of)
    <2>1. Goes("read") /\ got' = Head(wire) BY <1>6 DEF ReadWire
    <2>2. Accounted' BY <1>1, <1>2, <1>6, <2>1, PollAccounts
    <2>3. ~idle'.spent /\ ~overdue' BY <1>1, <1>2, <1>6, QuietPoll
    <2>4. got' <= Of BY <1>1, <1>6, <2>1, <2>2, OfStays DEF Exceeds, Accounted
    <2> QED BY <1>1, <1>2, <2>1, <2>2, <2>3, <2>4, GoesStands
  <1>7. CASE Poll \in {"end", "failed", "stalled", "late"}
    <2>1. Respond(IntoRead) /\ UNCHANGED got BY <1>7 DEF ReadWire, Exceeds
    <2>2. IntoRead = "handled" => end = "ended" /\ wire = <<>>
      BY <1>2, <1>7, EndIsEnd DEF IntoRead
    <2>3. wire = <<>> => got = sent BY <1>2 DEF Account
    <2> QED BY <1>1, <1>2, <1>3, <2>1, <2>2, <2>3, RespondStands
  <1> QED BY <1>4, <1>5, <1>6, <1>7, PollRange DEF Exceeds

(* And on a body that was buffered.                                        *)
LEMMA ReadHeldKeeps == ASSUME HeldIsNoAnswer, WholeInv, ReadHeld PROVE WholeInv'
  <1>1. pc = "read" /\ UNCHANGED <<conf, end, sent, held, got, wire>> /\ got \in Nat
    BY DEF ReadHeld, NoPoll, clientVars, WholeInv, Accounted
  <1>2. /\ held = "whole" => end = "ended" /\ wire = <<>>
        /\ conf.reader = "whole" => got <= Of
        /\ wire = <<>> => got = sent
    BY <1>1 DEF WholeInv, Stands, Accounted, Account
  <1>3. CASE got > Of
    <2>1. Respond("rejected") BY <1>3 DEF ReadHeld
    <2> QED BY <1>1, <2>1, RespondStands
  <1>4. CASE ~(got > Of)
    <2>1. Respond(IF held = "whole" THEN "handled" ELSE held) BY <1>4 DEF ReadHeld
    <2>2. held # "handled" BY DEF HeldIsNoAnswer
    <2> QED BY <1>1, <1>2, <2>1, <2>2, RespondStands
  <1> QED BY <1>3, <1>4

(* A reader of the application's own promises nothing.                     *)
LEMMA OwnKeeps ==
    ASSUME Shape, WholeInv, OwnBegins \/ OwnPolls \/ OwnAbandons \/ OwnAnswers
    PROVE  WholeInv'
  <1>1. conf.reader # "whole" /\ pc \in {"own", "ownRead"} /\ got \in Nat /\ Accounted
    BY DEF WholeInv, Stands, Accounted, OwnBegins, OwnPolls, OwnAbandons, OwnAnswers
  <1>2. CASE OwnPolls
    <2> DEFINE to == IF Poll = "pending" THEN "ownRead" ELSE "own"
    <2>1. Polls /\ Goes(to) /\ UNCHANGED <<conf, end, sent, held>> BY <1>2 DEF OwnPolls
    <2>2. to \in {"own", "ownRead"} OBVIOUS
    <2>3. Accounted' BY <1>1, <1>2, <2>1, PollAccounts DEF OwnPolls
    <2>4. wire = <<>> => wire' = <<>> BY <2>1 DEF Polls, Taken, Poll, PollIdle, Incoming
    <2>5. ~Going' BY <2>1, <2>2 DEF Goes, Going
    <2>6. held = "whole" => end = "ended" /\ wire' = <<>> BY <2>4 DEF WholeInv, Stands
    <2> HIDE DEF to
    <2> QED BY <1>1, <2>1, <2>2, <2>3, <2>5, <2>6, GoesStands
  <1>3. CASE OwnBegins \/ OwnAbandons
    <2>1. UNCHANGED <<conf, end, sent, held, got, wire>>
      BY <1>3 DEF OwnBegins, OwnAbandons, NoPoll, clientVars
    <2>2. PICK to \in {"own", "ownRead"} : Goes(to) BY <1>3 DEF OwnBegins, OwnAbandons
    <2>3. Accounted' BY <1>1, <2>1, <2>2 DEF Accounted, Account
    <2>4. ~Going' BY <2>2 DEF Goes, Going
    <2>5. held = "whole" => end = "ended" /\ wire' = <<>> BY <2>1 DEF WholeInv, Stands
    <2> QED BY <1>1, <2>1, <2>2, <2>3, <2>4, <2>5, GoesStands
  <1>4. CASE OwnAnswers
    <2>1. UNCHANGED <<conf, end, sent, held, got, wire>> /\ Respond("handled")
      BY <1>4 DEF OwnAnswers, NoPoll, clientVars
    <2> QED BY <1>1, <2>1, RespondStands
  <1> QED BY <1>2, <1>3, <1>4

(* Every step keeps the account of octets.                                 *)
LEMMA NextWholeInv ==
    ASSUME IInv, WholeInv, [Next]_vars
    PROVE  WholeInv'
  <1> Shape /\ HeldIsNoAnswer BY DEF IInv, Clock
  <1>1. CASE Intercept
    <2>1. UNCHANGED <<conf, end, sent, held, got, wire, idle, overdue>> /\ pc = "intercept"
      BY <1>1 DEF Intercept, NoPoll, clientVars
    <2>2. /\ got \in Nat /\ held = "wire" /\ ~idle.spent /\ ~overdue
          /\ conf.reader = "whole" => got <= Of
      BY <2>1 DEF WholeInv, Accounted, Stands, Unfailed, Going
    <2>3. CASE Respond("refused") BY <2>1, <2>2, <2>3, RespondStands
    <2>4. ASSUME NEW to, Goes(to), to \in {ToReader, "collect"},
                 to = "collect" => conf.guard # "none"
          PROVE  WholeInv'
      <3>1. ToReader \in {"own", "extract"} /\ (conf.reader = "whole" => ToReader = "extract")
        BY DEF ToReader
      <3>2. Accounted' BY <2>1, <2>4 DEF WholeInv, Accounted, Account
      <3> QED BY <2>1, <2>2, <2>4, <3>1, <3>2, GoesStands
    <2>5. ToReader # "collect" BY DEF ToReader
    <2> QED BY <1>1, <2>3, <2>4, <2>5 DEF Intercept
  <1>2. CASE CollectTimesOut
    <2>1. UNCHANGED <<conf, end, sent, held, got, wire>> /\ Respond("slow") /\ got \in Nat
      BY <1>2 DEF CollectTimesOut, NoPoll, clientVars, WholeInv, Accounted
    <2> QED BY <2>1, RespondStands
  <1>3. CASE Extract
    <2>1. UNCHANGED <<conf, end, sent, held, got, wire, idle, overdue>> /\ pc = "extract"
      BY <1>3 DEF Extract, NoPoll, clientVars
    <2>2. /\ got \in Nat /\ (held = "wire" => ~idle.spent /\ ~overdue)
          /\ conf.reader = "whole" => got <= Of
          /\ held = "whole" => end = "ended" /\ wire = <<>>
      BY <2>1 DEF WholeInv, Accounted, Stands, Unfailed, Going
    <2>3. CASE Respond("rejected") BY <2>1, <2>2, <2>3, RespondStands
    <2>4. CASE Goes("read")
      <3>1. Accounted' BY <2>1, <2>4 DEF WholeInv, Accounted, Account
      <3>2. Going' => held = "wire" BY <2>1, <2>4 DEF Going, Goes
      <3> QED BY <2>1, <2>2, <2>4, <3>1, <3>2, GoesStands
    <2> QED BY <1>3, <2>3, <2>4 DEF Extract
  <1>4. ASSUME UNCHANGED <<conf, wire, sent, got, held, pc, answer, overdue>>,
               idle'.spent = idle.spent, end = "ended" => end' = "ended"
        PROVE  WholeInv'
    <2>1. Accounted' BY <1>4 DEF WholeInv, Accounted, Account
    <2>2. Unfailed' BY <1>4 DEF WholeInv, Unfailed, Going
    <2>3. Of' = Of BY <1>4, OfStays
    <2>4. Stands' BY <1>4, <2>3 DEF WholeInv, Stands
    <2>5. WholeMeansAll' BY <1>4, <2>3 DEF WholeInv, WholeMeansAll
    <2> QED BY <2>1, <2>2, <2>4, <2>5 DEF WholeInv
  <1>5. ASSUME NEW n \in FrameSizes, Deliver(n) PROVE WholeInv'
    <2>1. UNCHANGED <<conf, got, held, pc, answer, overdue, idle>> /\ end = "open"
      BY <1>5 DEF Deliver
    <2>2. Len(wire') # 0 /\ wire'[Len(wire')] = sent'
      BY <1>5 DEF Deliver, Shape
    <2>3. Accounted' BY <2>1, <2>2 DEF WholeInv, Accounted, Account
    <2>4. Unfailed' BY <2>1 DEF WholeInv, Unfailed, Going
    <2>5. Of' = Of BY <2>1, OfStays
    <2>6. held # "whole" BY <2>1 DEF WholeInv, Stands
    <2>7. Stands' BY <2>1, <2>5, <2>6 DEF WholeInv, Stands
    <2>8. WholeMeansAll' BY <2>1 DEF WholeInv, WholeMeansAll
    <2> QED BY <2>3, <2>4, <2>7, <2>8 DEF WholeInv
  <1>6. CASE Finish \/ Reset \/ UNCHANGED vars
    BY <1>4, <1>6 DEF Finish, Reset, vars
  <1>7. CASE Tick
    <2>1. idle'.spent = idle.spent BY <1>7 DEF Tick, Shape, Timer
    <2> QED BY <1>4, <1>7, <2>1 DEF Tick, clientVars
  <1> QED BY <1>1, <1>2, <1>3, <1>5, <1>6, <1>7, CollectKeeps, ReadWireKeeps,
             ReadHeldKeeps, OwnKeeps DEF Next, Client, Task

(* A handler given a whole body was given every octet the client sent and  *)
(* no more than the limit over it, for every limit, length and framing.    *)
THEOREM WholeAlwaysMeansAll == Spec => []WholeMeansAll
  <1>1. IInv /\ WholeInv /\ [Next]_vars => WholeInv' BY NextWholeInv
  <1>2. WholeInv => WholeMeansAll BY DEF WholeInv
  <1> QED BY InitWholeInv, <1>1, <1>2, TimersMeasureSilence, PTL DEF Spec
-----------------------------------------------------------------------------
(* The type, in two parts: what the body, its clocks and its reader are,   *)
(* and where the request stands.                                           *)
Data ==
    /\ conf \in Conf
    /\ wire \in Seq(0..sent) /\ Len(wire) <= MaxUnread
    /\ end \in {"open", "ended", "failed"}
    /\ sent \in 0..MaxOctets /\ got \in 0..sent
    /\ idle \in Timer
    /\ left \in Nat /\ left <= conf.total /\ overdue \in BOOLEAN
    /\ quiet \in 0..IdleLimit
Standing ==
    /\ pc \in {"intercept", "collect", "extract", "read", "own", "ownRead", "done"}
    /\ held \in {"wire", "whole", "failed", "stalled"}
    /\ answer \in Answer /\ closes \in BOOLEAN

(* What the interceptor has made sure of when an extractor reads: a body   *)
(* of a stated length it has compared, one of no stated length it holds.   *)
Cleared ==
    /\ conf.declared # Unstated => sent <= conf.declared
    /\ pc = "collect" => conf.declared = Unstated
    /\ pc \in {"extract", "read"} => conf.reader = "whole"
    /\ conf.guard # "none" /\ pc \in {"extract", "read"} =>
           ~Declares(Limit) /\ (held = "wire" => conf.declared # Unstated)

SizeInv == Data /\ Standing /\ Cleared /\ SizeRefusalsAreEarned

(* No size was exceeded at first.                                          *)
LEMMA InitSizeInv == Init => SizeInv
  <1> SUFFICES ASSUME Init PROVE SizeInv OBVIOUS
  <1>1. conf \in Conf /\ conf.total \in Nat /\ conf.idle \in BOOLEAN
    BY TotalsAssumption DEF Init, Conf
  <1>2. idle \in Timer
    BY <1>1, IdleAssumption DEF Init, Bounded, Timer
  <1>3. Data
    <2>1. overdue \in BOOLEAN BY Zenon DEF Init
    <2>2. wire = <<>> /\ sent = 0 /\ got = 0 /\ quiet = 0 /\ left = conf.total
      BY DEF Init
    <2>3. wire \in Seq(0..sent) /\ Len(wire) <= MaxUnread
      BY <2>2, FramesAssumption
    <2>4. end \in {"open", "ended", "failed"} BY DEF Init
    <2> QED BY <1>1, <1>2, <2>1, <2>2, <2>3, <2>4, FramesAssumption, IdleAssumption DEF Data
  <1>4. Standing BY DEF Init, Standing, Answer
  <1>5. Cleared BY <1>1 DEF Init, Cleared, Conf
  <1>6. SizeRefusalsAreEarned BY DEF Init, SizeRefusalsAreEarned
  <1> QED BY <1>3, <1>4, <1>5, <1>6 DEF SizeInv

(* A poll leaves a body and its clocks, and finds no frame that ends past  *)
(* what was sent.                                                          *)
LEMMA PollsKeepData ==
    ASSUME Data, Shape, Polls, UNCHANGED <<conf, end, sent, quiet>>,
           got' = got \/ (Poll = "frame" /\ got' = Head(wire))
    PROVE  Data'
  <1>1. idle' \in Timer BY PolledIsTimer DEF Polls, Taken
  <1>2. overdue' \in BOOLEAN BY Zenon DEF Polls, Taken
  <1>3. Poll = "frame" => wire # <<>> BY DEF Poll, PollIdle, Incoming
  <1>4. Poll = "frame" => Head(wire) \in 0..sent BY <1>3 DEF Data
  <1>5. left' = left BY DEF Polls
  <1>6. wire' \in Seq(0..sent) /\ Len(wire') <= MaxUnread
    <2>1. wire \in Seq(0..sent) /\ Len(wire) <= MaxUnread /\ MaxUnread \in Nat
      BY FramesAssumption DEF Data
    <2>2. CASE Poll = "frame"
      <3>1. wire' = Tail(wire) /\ wire # <<>> BY <1>3, <2>2 DEF Polls, Taken
      <3>2. Tail(wire) \in Seq(0..sent) /\ Len(Tail(wire)) = Len(wire) - 1 BY <2>1, <3>1
      <3>3. Len(wire) - 1 <= MaxUnread BY <2>1
      <3> QED BY <3>1, <3>2, <3>3, Zenon
    <2>3. CASE Poll # "frame" BY <2>1, <2>3 DEF Polls, Taken
    <2> QED BY <2>2, <2>3
  <1> QED BY <1>1, <1>2, <1>4, <1>5, <1>6 DEF Data

(* Every step keeps the types of a body.                                   *)
LEMMA NextData ==
    ASSUME Data, Shape, [Next]_vars
    PROVE  Data'
  <1>1. ASSUME NEW n \in FrameSizes, Deliver(n) PROVE Data'
    <2>1. n \in Nat /\ sent \in Nat /\ conf \in Conf BY FramesAssumption DEF Data
    <2>2. sent' = sent + n /\ sent' \in 0..MaxOctets
      BY <1>1, <2>1, FramesAssumption, UnstatedAssumption DEF Deliver, Conf
    <2>3. wire \in Seq(0..sent') BY <2>1, <2>2 DEF Data
    <2>4. wire' \in Seq(0..sent') /\ Len(wire') = Len(wire) + 1
      BY <1>1, <2>1, <2>2, <2>3 DEF Deliver
    <2>5. Len(wire') <= MaxUnread
      BY <1>1, <2>3, <2>4, FramesAssumption DEF Deliver, Data
    <2>6. got' \in 0..sent' BY <1>1, <2>1, <2>2 DEF Deliver, Data
    <2>7. quiet' \in 0..IdleLimit BY <1>1, IdleAssumption DEF Deliver
    <2>8. end' \in {"open", "ended"} /\ UNCHANGED <<conf, idle, left, overdue>>
      BY <1>1 DEF Deliver
    <2> QED BY <2>2, <2>4, <2>5, <2>6, <2>7, <2>8 DEF Data
  <1>2. CASE Finish \/ Reset
    BY <1>2, IdleAssumption DEF Finish, Reset, Data
  <1>3. CASE Tick
    <2>1. idle' \in Timer
      <3>1. idle \in Timer /\ idle.left \in 0..IdleLimit BY DEF Shape, Timer
      <3>2. Less(idle.left) \in 0..IdleLimit BY <3>1, IdleAssumption DEF Less
      <3>3. idle' = idle \/ idle' = [idle EXCEPT !.left = Less(idle.left)] BY <1>3 DEF Tick
      <3> QED BY <3>1, <3>2, <3>3 DEF Timer
    <2>2. conf \in Conf /\ conf.total \in Nat BY TotalsAssumption DEF Data, Conf
    <2>3. left' \in Nat /\ left' <= conf.total BY <1>3, <2>2 DEF Tick, Data, Less
    <2>4. quiet' \in 0..IdleLimit BY <1>3, IdleAssumption DEF Tick, Data
    <2>5. UNCHANGED <<conf, wire, end, sent, overdue, got>>
      BY <1>3 DEF Tick, clientVars
    <2> QED BY <2>1, <2>3, <2>4, <2>5 DEF Data
  <1>4. CASE Collect \/ ReadWire \/ OwnPolls
    <2>1. Polls /\ UNCHANGED <<conf, end, sent, quiet>>
      BY <1>4 DEF Collect, ReadWire, OwnPolls
    <2>2. got' = got \/ (Poll = "frame" /\ got' = Head(wire))
      BY <1>4 DEF Collect, ReadWire, OwnPolls
    <2> QED BY <2>1, <2>2, PollsKeepData
  <1>5. CASE Intercept \/ CollectTimesOut \/ Extract \/ ReadHeld \/ OwnBegins
             \/ OwnAbandons \/ OwnAnswers \/ UNCHANGED vars
    <2>1. UNCHANGED <<conf, wire, end, sent, idle, left, overdue, got, quiet>>
      BY <1>5 DEF Intercept, CollectTimesOut, Extract, ReadHeld, OwnBegins,
                  OwnAbandons, OwnAnswers, NoPoll, clientVars, vars
    <2> QED BY <2>1 DEF Data
  <1> QED BY <1>1, <1>2, <1>3, <1>4, <1>5 DEF Next, Client, Task

(* The rest of the invariant, for short.                                   *)
Sized == Standing /\ Cleared /\ SizeRefusalsAreEarned

(* A response that is no refusal, or one the body has earned.              *)
LEMMA RespondSized ==
    ASSUME Sized, NEW a \in Answer, Respond(a), UNCHANGED <<conf, sent, held>>,
           a = "rejected" => conf.guard = "none",
           a \in {"refused", "rejected"} => sent > Of \/ Declares(Of)
    PROVE  Sized'
  <1>1. pc' = "done" /\ (answer' = a \/ answer' = "slow") BY DEF Respond
  <1>2. closes' \in BOOLEAN BY Zenon DEF Respond
  <1>3. Standing' BY <1>1, <1>2 DEF Sized, Standing, Answer
  <1>4. Cleared' BY <1>1 DEF Sized, Cleared
  <1>5. Of' = Of /\ Declares(Of)' = Declares(Of) BY DEF Of, Declares
  <1>6. SizeRefusalsAreEarned' BY <1>1, <1>5 DEF SizeRefusalsAreEarned
  <1> QED BY <1>3, <1>4, <1>6 DEF Sized

(* A request that goes on to a place it may be in.                         *)
LEMMA GoesSized ==
    ASSUME Sized, NEW to, Goes(to), UNCHANGED <<conf, sent>>,
           to \in {"collect", "extract", "read", "own", "ownRead"},
           held' \in {"wire", "whole", "failed", "stalled"},
           to = "collect" => conf.declared = Unstated,
           to \in {"extract", "read"} =>
               /\ conf.reader = "whole"
               /\ conf.guard # "none" =>
                      ~Declares(Limit) /\ (held' = "wire" => conf.declared # Unstated)
    PROVE  Sized'
  <1>1. pc' = to /\ answer' = answer /\ closes' = closes BY DEF Goes
  <1>2. Standing' BY <1>1 DEF Sized, Standing
  <1>3. Declares(Limit)' = Declares(Limit) BY DEF Declares
  <1>4. Cleared' BY <1>1, <1>3 DEF Sized, Cleared
  <1>5. Of' = Of /\ Declares(Of)' = Declares(Of) BY DEF Of, Declares
  <1>6. SizeRefusalsAreEarned' BY <1>1, <1>5 DEF Sized, SizeRefusalsAreEarned
  <1> QED BY <1>2, <1>4, <1>6 DEF Sized

(* A frame that exceeds a limit is proof that the body does.               *)
LEMMA ExceedingIsLong ==
    ASSUME Data, NEW limit \in Nat, Exceeds(limit)
    PROVE  sent > limit
  <1>1. wire # <<>> BY DEF Exceeds, Poll, PollIdle, Incoming
  <1>2. Head(wire) \in 0..sent /\ sent \in Nat BY <1>1 DEF Data
  <1> QED BY <1>2 DEF Exceeds

(* A request is read whole exactly by the extractor.                       *)
LEMMA ReaderIs == ASSUME Data PROVE conf.reader = "whole" <=> ToReader = "extract"
  BY DEF Data, Conf, ToReader

(* Every refusal for size, by a declared or a counted one, is earned.      *)
LEMMA NextSized ==
    ASSUME IInv, WholeInv, Data, Sized, [Next]_vars
    PROVE  Sized'
  <1> USE LimitsAssumption
  <1>1. ToReader \in {"own", "extract"} /\ Of \in Nat BY DEF ToReader, Of
  <1>2. CASE Intercept
    <2>1. UNCHANGED <<conf, sent, held>> /\ held = "wire"
      BY <1>2 DEF Intercept, NoPoll, clientVars, WholeInv, Stands
    <2>2. CASE conf.guard = "none"
      BY <1>1, <1>2, <2>1, <2>2, GoesSized, ReaderIs DEF Intercept
    <2>3. CASE conf.guard # "none" /\ Declares(Limit)
      <3>1. Respond("refused") /\ Of = Limit BY <1>2, <2>3 DEF Intercept, Of
      <3> QED BY <2>1, <2>3, <3>1, RespondSized DEF Answer
    <2>4. CASE conf.guard # "none" /\ ~Declares(Limit) /\ conf.declared # Unstated
      <3>1. Goes(ToReader) BY <1>2, <2>4 DEF Intercept
      <3> QED BY <1>1, <2>1, <2>4, <3>1, GoesSized, ReaderIs
    <2>5. CASE conf.guard # "none" /\ ~Declares(Limit) /\ conf.declared = Unstated
      <3>1. Goes("collect") BY <1>2, <2>5 DEF Intercept
      <3> QED BY <2>1, <2>5, <3>1, GoesSized
    <2> QED BY <2>2, <2>3, <2>4, <2>5
  <1>3. CASE Collect
    <2>1. /\ pc = "collect" /\ UNCHANGED <<conf, sent>> /\ conf.guard # "none"
          /\ conf.declared = Unstated /\ held = "wire" /\ Of = Limit
      BY <1>3 DEF Collect, WholeInv, Stands, Sized, Cleared, Of
    <2>2. CASE Exceeds(Limit)
      <3>1. Respond("refused") /\ UNCHANGED held BY <1>3, <2>2 DEF Collect
      <3>2. sent > Of BY <2>1, <2>2, ExceedingIsLong
      <3> QED BY <2>1, <3>1, <3>2, RespondSized DEF Answer
    <2>3. CASE ~Exceeds(Limit) /\ Poll \in {"pending", "frame"}
      <3>1. Goes("collect") /\ UNCHANGED held BY <1>3, <2>3 DEF Collect
      <3> QED BY <2>1, <3>1, GoesSized
    <2>4. CASE Poll \in {"end", "failed", "stalled", "late"}
      <3>1. Goes(ToReader) /\ held' = IntoBody BY <1>3, <2>4 DEF Collect, Exceeds
      <3>2. Poll # "late" BY <2>1 DEF Poll, PollIdle, Incoming, Deadlined
      <3>3. held' \in {"whole", "failed", "stalled"} BY <2>4, <3>1, <3>2 DEF IntoBody
      <3>4. ~Declares(Limit) BY <2>1 DEF Declares
      <3> QED BY <1>1, <2>1, <3>1, <3>3, <3>4, GoesSized, ReaderIs
    <2> QED BY <2>2, <2>3, <2>4, PollRange DEF Exceeds
  <1>4. CASE CollectTimesOut
    BY <1>4, RespondSized DEF CollectTimesOut, NoPoll, clientVars, Answer
  <1>5. CASE Extract
    <2>1. pc = "extract" /\ UNCHANGED <<conf, sent, held>>
      BY <1>5 DEF Extract, NoPoll, clientVars
    <2>2. /\ conf.reader = "whole" /\ held \in {"wire", "whole", "failed", "stalled"}
          /\ conf.guard # "none" =>
                 ~Declares(Limit) /\ (held = "wire" => conf.declared # Unstated)
      BY <2>1 DEF Sized, Cleared, Standing
    <2>3. CASE Declares(Of)
      <3>1. Respond("rejected") BY <1>5, <2>3 DEF Extract
      <3>2. conf.guard = "none" BY <2>2, <2>3 DEF Of
      <3> QED BY <2>1, <2>3, <3>1, <3>2, RespondSized DEF Answer
    <2>4. CASE ~Declares(Of)
      <3>1. Goes("read") BY <1>5, <2>4 DEF Extract
      <3> QED BY <2>1, <2>2, <3>1, GoesSized
    <2> QED BY <2>3, <2>4
  <1>6. CASE ReadWire
    <2>1. pc = "read" /\ held = "wire" /\ UNCHANGED <<conf, sent, held>>
      BY <1>6 DEF ReadWire
    <2>2. /\ conf.reader = "whole"
          /\ conf.guard # "none" => ~Declares(Limit) /\ conf.declared # Unstated
      BY <2>1 DEF Sized, Cleared
    <2>3. CASE Exceeds(Of)
      <3>1. Respond("rejected") BY <1>6, <2>3 DEF ReadWire
      <3>2. sent > Of BY <1>1, <2>3, ExceedingIsLong
      <3>3. conf.guard = "none"
        <4> SUFFICES ASSUME conf.guard # "none" PROVE FALSE OBVIOUS
        <4>1. Of = Limit BY DEF Of
        <4>2. conf.declared \in Nat /\ conf.declared <= Limit
          BY <2>2 DEF Declares, Data, Conf
        <4>3. sent <= conf.declared BY <2>2 DEF Sized, Cleared
        <4> QED BY <3>2, <4>1, <4>2, <4>3 DEF Data
      <3> QED BY <2>1, <3>1, <3>2, <3>3, RespondSized DEF Answer
    <2>4. CASE ~Exceeds(Of) /\ Poll \in {"pending", "frame"}
      <3>1. Goes("read") BY <1>6, <2>4 DEF ReadWire
      <3> QED BY <2>1, <2>2, <3>1, GoesSized
    <2>5. CASE Poll \in {"end", "failed", "stalled", "late"}
      <3>1. Respond(IntoRead) BY <1>6, <2>5 DEF ReadWire, Exceeds
      <3>2. IntoRead \in {"handled", "stalled", "failed"} BY DEF IntoRead
      <3> QED BY <2>1, <3>1, <3>2, RespondSized DEF Answer
    <2> QED BY <2>3, <2>4, <2>5, PollRange DEF Exceeds
  <1>7. CASE ReadHeld
    <2>1. pc = "read" /\ held # "wire" /\ UNCHANGED <<conf, sent, held>>
      BY <1>7 DEF ReadHeld, NoPoll, clientVars
    <2>2. got <= Of
      BY <2>1 DEF Sized, Cleared, WholeInv, Stands
    <2>3. Respond(IF held = "whole" THEN "handled" ELSE held)
      BY <1>1, <1>7, <2>2 DEF ReadHeld, Data
    <2>4. (IF held = "whole" THEN "handled" ELSE held) \in {"handled", "failed", "stalled"}
      BY <2>1 DEF Sized, Standing
    <2> QED BY <2>1, <2>3, <2>4, RespondSized DEF Answer
  <1>8. CASE OwnBegins \/ OwnPolls \/ OwnAbandons
    <2>1. PICK to \in {"own", "ownRead"} : Goes(to)
      BY <1>8 DEF OwnBegins, OwnPolls, OwnAbandons
    <2>2. UNCHANGED <<conf, sent, held>>
      BY <1>8 DEF OwnBegins, OwnPolls, OwnAbandons, NoPoll, clientVars
    <2> QED BY <2>1, <2>2, GoesSized DEF Sized, Standing
  <1>9. CASE OwnAnswers
    BY <1>9, RespondSized DEF OwnAnswers, NoPoll, clientVars, Answer
  <1>10. ASSUME UNCHANGED <<conf, held, pc, answer, closes>>, sent' >= sent, sent' \in Nat,
                conf.declared # Unstated => sent' <= conf.declared
         PROVE  Sized'
    <2>1. Standing' BY <1>10 DEF Sized, Standing
    <2>2. /\ Of' = Of /\ Declares(Of)' = Declares(Of)
          /\ Declares(Limit)' = Declares(Limit)
      BY <1>10 DEF Of, Declares
    <2>3. Cleared' BY <1>10, <2>2 DEF Sized, Cleared
    <2>4. sent > Of => sent' > Of BY <1>1, <1>10 DEF Data
    <2>5. SizeRefusalsAreEarned' BY <1>10, <2>2, <2>4 DEF Sized, SizeRefusalsAreEarned
    <2> QED BY <2>1, <2>3, <2>5 DEF Sized
  <1>11. ASSUME NEW n \in FrameSizes, Deliver(n) PROVE Sized'
    <2>1. n \in Nat /\ sent \in Nat BY FramesAssumption DEF Data
    <2>2. sent' = sent + n /\ UNCHANGED <<conf, held, pc, answer, closes>>
          /\ (conf.declared # Unstated => sent + n <= conf.declared)
      BY <1>11 DEF Deliver
    <2> QED BY <1>10, <2>1, <2>2
  <1>12. CASE Finish \/ Reset \/ Tick \/ UNCHANGED vars
    <2>1. UNCHANGED <<conf, held, pc, answer, closes, sent>> /\ sent \in Nat
      BY <1>12 DEF Finish, Reset, Tick, clientVars, vars, Data
    <2>2. conf.declared # Unstated => sent <= conf.declared BY DEF Sized, Cleared
    <2> QED BY <1>10, <2>1, <2>2
  <1> QED BY <1>2, <1>3, <1>4, <1>5, <1>6, <1>7, <1>8, <1>9, <1>11, <1>12
          DEF Next, Client, Task

(* The size invariant holds in every reachable state.                      *)
THEOREM SizeInvHolds == Spec => []SizeInv
  <1>1. IInv /\ WholeInv /\ [Next]_vars => WholeInv' BY NextWholeInv
  <1>2. IInv /\ WholeInv /\ SizeInv /\ [Next]_vars => SizeInv'
    BY NextData, NextSized DEF SizeInv, Sized, IInv, Clock
  <1> QED BY InitSizeInv, InitWholeInv, <1>1, <1>2, TimersMeasureSilence, PTL DEF Spec

(* Every variable of the body, its clocks and its request keeps its type.  *)
THEOREM BodyTypeCorrect == Spec => []TypeOK
  <1>1. SizeInv => TypeOK BY DEF SizeInv, Data, Standing, Timer, TypeOK
  <1> QED BY <1>1, SizeInvHolds, PTL

(* An extractor refuses no body the interceptor let through, and neither   *)
(* refuses a body within its limit, however it is framed or declared.      *)
THEOREM RefusalsAreEarned == Spec => []SizeRefusalsAreEarned
  <1>1. SizeInv => SizeRefusalsAreEarned BY DEF SizeInv
  <1> QED BY <1>1, SizeInvHolds, PTL
=============================================================================
