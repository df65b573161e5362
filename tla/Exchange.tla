------------------------------- MODULE Exchange -------------------------------
(***************************************************************************)
(* One request and its response through the dispatcher: serve, chain and   *)
(* finish of crates/kynos/src/router/dispatch.rs, with recovery from       *)
(* panics (dispatch/recovery.rs), the Timeout over a chain and the         *)
(* BodyTimeout over its body (middleware/limits/), and what observers are  *)
(* told (middleware/mod.rs).  Around the handler stand, from the outside:  *)
(* the router's recovery, Timeout, Concurrency with its slots and its      *)
(* watched body, BodyTimeout, the endpoint's recovery.                     *)
(*                                                                         *)
(* Requests run concurrently and share only the slots.  A body is polled   *)
(* by the codec; what its producer has is a frame, its end, an error or    *)
(* nothing yet.                                                            *)
(***************************************************************************)
EXTENDS Concurrency

CONSTANTS
    Configs,  \* how a request and its operation may be set up
    Readers   \* requests whose client reads all it is sent

ConfigRecord ==
    [head : BOOLEAN, scopes : SUBSET {"router", "endpoint"}, timeout : BOOLEAN,
     clock : {"none", "idle", "deadline"}]

ASSUME ConfigAssumption == Configs \in [Requests -> SUBSET ConfigRecord] /\ Readers \subseteq Requests

VARIABLES
    config,    \* the request and its operation
    phase,     \* where the dispatcher is with it
    result,    \* what the chain returned
    expired,   \* the limit of Timeout has passed
    has,       \* what the body's producer has
    elapsed,   \* the body's clock has passed its limit
    plain,     \* a body from outside the chain: a refusal's, or none for HEAD
    outer,     \* the report of the body the observers watch
    told,      \* what the observers were told
    panicked,  \* history: the handler panicked
    silent,    \* history: the producer had nothing since its clock started
    cut        \* history: the clock of the body failed it

chainVars == <<config, phase, result, expired>>
sendVars == <<has, elapsed, plain, outer, silent, cut>>
exchangeVars == <<vars, chainVars, sendVars, told, panicked>>

ExchangeInit ==
    /\ Init
    /\ config \in {c \in [Requests -> ConfigRecord] : \A r \in Requests : c[r] \in Configs[r]}
    /\ phase = [r \in Requests |-> "new"]
    /\ result = [r \in Requests |-> "none"]
    /\ expired = {} /\ elapsed = {} /\ panicked = {} /\ silent = {} /\ cut = {}
    /\ has = [r \in Requests |-> "nothing"]
    /\ plain = [r \in Requests |-> "none"]
    /\ outer = [r \in Requests |-> "none"]
    /\ told = [r \in Requests |-> <<>>]

Tell(r, what) == told' = [told EXCEPT ![r] = Append(@, what)]
Returns(r, what) ==
    /\ result' = [result EXCEPT ![r] = what]
    /\ expired' = expired \ {r}
    /\ UNCHANGED <<config, phase>>
Running(r) == phase[r] = "chain" /\ result[r] = "none"

-----------------------------------------------------------------------------
(* serve: the observers hear of the request, then its chain starts and     *)
(* reaches Concurrency, which may refuse at once.                          *)
Serve(r) ==
    /\ phase[r] = "new" /\ Acquire(r)
    /\ phase' = [phase EXCEPT ![r] = "chain"]
    /\ Tell(r, "request")
    /\ result' = [result EXCEPT ![r] = IF pc'[r] = "over" THEN "refused" ELSE "none"]
    /\ UNCHANGED <<config, expired, sendVars, panicked>>

(* It waits there.                                                         *)
Waits(r) ==
    /\ Running(r) /\ (WaitElapses(r) \/ TakeSlot(r) \/ Expire(r))
    /\ UNCHANGED <<chainVars, sendVars, told, panicked>>

Refuse(r) ==
    /\ Running(r) /\ Shed(r) /\ Returns(r, "refused")
    /\ UNCHANGED <<sendVars, told, panicked>>

(* A response of the chain: BodyTimeout starts its clock, Concurrency      *)
(* watches it.                                                             *)
Wrapped(r) ==
    /\ Running(r) /\ Answer(r)
    /\ silent' = silent \cup {r}
    /\ UNCHANGED <<has, elapsed, plain, outer, cut>>

Handle(r) ==
    /\ Wrapped(r) /\ Returns(r, "own")
    /\ UNCHANGED <<told, panicked>>

(* The handler panics.  Its endpoint makes it a 500, which the chain takes *)
(* as any response and from which the dispatcher takes the payload...      *)
EndpointRecovers(r) ==
    /\ "endpoint" \in config[r].scopes
    /\ Wrapped(r) /\ Returns(r, "recovered")
    /\ panicked' = panicked \cup {r} /\ Tell(r, "panic")

(* ...or the chain unwinds to the router's recovery...                     *)
RouterRecovers(r) ==
    /\ config[r].scopes = {"router"}
    /\ Running(r) /\ pc[r] = "handler" /\ Cut(r) /\ Returns(r, "recovered")
    /\ panicked' = panicked \cup {r} /\ Tell(r, "panic")
    /\ UNCHANGED sendVars

(* ...or the task unwinds; or the client leaves and it is dropped.         *)
Abandon(r) ==
    /\ Running(r)
    /\ Cut(r)
    /\ phase' = [phase EXCEPT ![r] = "over"] /\ expired' = expired \ {r}
    /\ \/ UNCHANGED panicked
       \/ pc[r] = "handler" /\ config[r].scopes = {} /\ panicked' = panicked \cup {r}
    /\ UNCHANGED <<config, result, sendVars, told>>

(* Timeout: the limit passes, and a poll that finds the chain pending      *)
(* drops it.                                                               *)
LimitPasses(r) ==
    /\ config[r].timeout /\ Running(r) /\ r \notin expired
    /\ expired' = expired \cup {r}
    /\ UNCHANGED <<vars, config, phase, result, sendVars, told, panicked>>

TimesOut(r) ==
    /\ Running(r) /\ r \in expired
    /\ Cut(r) /\ Returns(r, "refused")
    /\ UNCHANGED <<sendVars, told, panicked>>

-----------------------------------------------------------------------------
(* finish.  Content of a HEAD's response is dropped first, the slot with   *)
(* it.                                                                     *)
WithoutContent(r) ==
    /\ phase[r] = "chain" /\ result[r] # "none" /\ config[r].head /\ DropBody(r)
    /\ UNCHANGED <<chainVars, sendVars, told, panicked>>

(* Reports of the inner watched body, here or as the outer one is dropped. *)
Released(r) ==
    /\ phase[r] \in {"chain", "dropping"} /\ Report(r)
    /\ UNCHANGED <<chainVars, sendVars, told, panicked>>

(* Then the observers hear of the response and its body is watched.        *)
Respond(r) ==
    /\ phase[r] = "chain" /\ result[r] # "none"
    /\ config[r].head => pc[r] = "over"
    /\ phase' = [phase EXCEPT ![r] = "sending"]
    /\ Tell(r, "response")
    /\ outer' = [outer EXCEPT ![r] = "armed"]
    /\ plain' = [plain EXCEPT ![r] = IF config[r].head THEN "ended"
                                     ELSE IF pc[r] = "over" THEN "open" ELSE "none"]
    /\ UNCHANGED <<vars, config, result, expired, has, elapsed, silent, cut, panicked>>

-----------------------------------------------------------------------------
(* The body.  A producer has something, sooner or later.                   *)
Open(r) == pc[r] = "body" /\ inner[r] = "open"

Produce(r) ==
    /\ Open(r) /\ has[r] = "nothing"
    /\ \E h \in {"frame", "end", "error"} : has' = [has EXCEPT ![r] = h]
    /\ silent' = silent \ {r}
    /\ UNCHANGED <<vars, chainVars, elapsed, plain, outer, cut, told, panicked>>

ClockPasses(r) ==
    /\ config[r].clock # "none" /\ Open(r) /\ r \notin elapsed
    /\ elapsed' = elapsed \cup {r}
    /\ UNCHANGED <<vars, chainVars, has, plain, outer, silent, cut, told, panicked>>

(* Mutant: the clock is asked first, whatever it bounds.                   *)
CutsClockFirst(r) == r \in elapsed

(* Mutant: the producer is asked first, whatever the clock bounds.         *)
CutsWhenPending(r) == r \in elapsed /\ has[r] = "nothing"

(* Bounded::poll_frame: an idle limit asks the producer first, a deadline  *)
(* its clock.                                                              *)
Cuts(r) ==
    r \in elapsed /\ (config[r].clock = "idle" => has[r] = "nothing")

(* A poll of the codec, through both watches.                              *)
Polled(r) ==
    /\ phase[r] = "sending" /\ Open(r)
    /\ \/ /\ Cuts(r) /\ FrameFails(r)
          /\ cut' = cut \cup {r}
          /\ UNCHANGED <<has, elapsed, silent, outer>>
       \/ /\ ~Cuts(r) /\ has[r] = "error" /\ FrameFails(r)
          /\ UNCHANGED <<has, elapsed, silent, outer, cut>>
       \/ /\ ~Cuts(r) /\ has[r] = "end" /\ FrameEnds(r)
          /\ outer' = [outer EXCEPT ![r] = "Complete"]
          /\ UNCHANGED <<has, elapsed, silent, cut>>
       \/ /\ ~Cuts(r) /\ has[r] = "frame"
          /\ has' = [has EXCEPT ![r] = "nothing"]
          /\ elapsed' = IF config[r].clock = "idle" THEN elapsed \ {r} ELSE elapsed
          /\ silent' = silent \cup {r}
          /\ UNCHANGED <<vars, outer, cut>>
    /\ UNCHANGED <<chainVars, plain, told, panicked>>

(* A refusal's document is one frame.                                      *)
PlainPolled(r) ==
    /\ phase[r] = "sending" /\ plain[r] = "open"
    /\ plain' = [plain EXCEPT ![r] = "ended"]
    /\ outer' = [outer EXCEPT ![r] = "Complete"]
    /\ UNCHANGED <<vars, chainVars, has, elapsed, silent, cut, told, panicked>>

(* The codec drops the body: it came to its end, failed, or the client     *)
(* left.  The watch notes which, and lets go of what it holds...           *)
DropSent(r) ==
    /\ phase[r] = "sending"
    /\ phase' = [phase EXCEPT ![r] = "dropping"]
    /\ IF pc[r] = "body" THEN DropBody(r) /\ UNCHANGED plain
       ELSE UNCHANGED vars /\ plain' = [plain EXCEPT ![r] = IF @ = "ended" THEN @ ELSE "released"]
    /\ has' = [has EXCEPT ![r] = "nothing"] /\ elapsed' = elapsed \ {r}
    /\ UNCHANGED <<config, result, expired, outer, silent, cut, told, panicked>>

AtItsEnd(r) == IF plain[r] = "none" THEN delivery[r] = "Complete" ELSE plain[r] = "ended"

(* Mutant: a body that timed out was not disconnected.                     *)
OuterReportsLeft(r) ==
    LET d == IF AtItsEnd(r) \/ r \in cut THEN "Complete" ELSE "Interrupted"
    IN  /\ phase[r] = "dropping" /\ pc[r] = "over"
        /\ phase' = [phase EXCEPT ![r] = "over"]
        /\ outer' = [outer EXCEPT ![r] = IF @ = "armed" THEN d ELSE @]
        /\ IF outer[r] = "armed" /\ d = "Interrupted" THEN Tell(r, "disconnect") ELSE UNCHANGED told
        /\ UNCHANGED <<vars, config, result, expired, has, elapsed, plain, silent, cut, panicked>>

(* ...and tells the observers of one that was not at its end.              *)
OuterReports(r) ==
    LET d == IF AtItsEnd(r) THEN "Complete" ELSE "Interrupted"
    IN  /\ phase[r] = "dropping" /\ pc[r] = "over"
        /\ phase' = [phase EXCEPT ![r] = "over"]
        /\ outer' = [outer EXCEPT ![r] = IF @ = "armed" THEN d ELSE @]
        /\ IF outer[r] = "armed" /\ d = "Interrupted" THEN Tell(r, "disconnect") ELSE UNCHANGED told
        /\ UNCHANGED <<vars, config, result, expired, has, elapsed, plain, silent, cut, panicked>>

-----------------------------------------------------------------------------
(* What the runtime does for a request by itself.                          *)
Runs(r) ==
    \/ Waits(r) \/ Refuse(r) \/ TimesOut(r) \/ WithoutContent(r) \/ Released(r)
    \/ Respond(r) \/ OuterReports(r)

(* The codec drops a body it has no more use for.                          *)
DropDone(r) ==
    (IF plain[r] = "none" THEN inner[r] \in AtEnd \cup {"failed"} ELSE plain[r] = "ended")
        /\ DropSent(r)

ExchangeNext ==
    \E r \in Requests :
       \/ Serve(r) \/ Runs(r)
       \/ Handle(r) \/ EndpointRecovers(r) \/ RouterRecovers(r) \/ Abandon(r)
       \/ LimitPasses(r) \/ Produce(r) \/ ClockPasses(r)
       \/ Polled(r) \/ PlainPolled(r) \/ DropSent(r)

(* Timers elapse, woken tasks are polled and finished bodies dropped.  A   *)
(* handler need not answer, a producer need not go on, and only some       *)
(* clients are known to read.                                              *)
ExchangeSpec ==
    /\ ExchangeInit /\ [][ExchangeNext]_exchangeVars
    /\ \A r \in Requests :
         /\ WF_exchangeVars(Runs(r)) /\ WF_exchangeVars(DropDone(r))
         /\ WF_exchangeVars(LimitPasses(r)) /\ WF_exchangeVars(ClockPasses(r))
    /\ \A r \in Readers : WF_exchangeVars(Polled(r)) /\ WF_exchangeVars(PlainPolled(r))

-----------------------------------------------------------------------------
Times(r, what) == Cardinality({i \in DOMAIN told[r] : told[r][i] = what})
Last(r) == told[r][Len(told[r])]

(* The observers are told what happened, once: of a panic exactly when a   *)
(* scope recovered it and before its response; of a response exactly when  *)
(* one was sent; of a disconnect exactly when its body was dropped before  *)
(* its end, and only when what it held, the slot too, is gone.  The two    *)
(* watches of a body agree on how it ended.                                *)
ReportsAreTrue ==
    /\ DeliveryIsTrue
    /\ \A r \in Requests :
         /\ Times(r, "panic") =
              IF r \in panicked /\ config[r].scopes # {} THEN 1 ELSE 0
         /\ Times(r, "response") = IF outer[r] # "none" THEN 1 ELSE 0
         /\ Times(r, "disconnect") = IF outer[r] = "Interrupted" THEN 1 ELSE 0
         /\ Times(r, "disconnect") = 1 => Last(r) = "disconnect" /\ r \notin Holding
         /\ Times(r, "response") = 1 /\ Times(r, "disconnect") = 0 => Last(r) = "response"
         /\ outer[r] = "Complete" /\ ~config[r].head /\ plain[r] = "none" => inner[r] \in AtEnd
         /\ phase[r] = "over" /\ outer[r] # "none" /\ plain[r] = "none" => outer[r] = report[r]

(* An idle limit bounds the producer: a body it cut off had nothing to     *)
(* send for a whole limit, however slowly it was read.                     *)
IdleCutsSilenceOnly ==
    \A r \in cut : config[r].clock = "idle" => r \in silent

(* An exchange with a Timeout and a limit on its body comes to its end,    *)
(* its slot with it: by a deadline always, by an idle limit if its         *)
(* producer stalls.                                                        *)
BoundedExchangesEnd ==
    \A r \in Readers :
       (/\ config[r].timeout /\ config[r].clock # "none"
        /\ config[r].clock = "idle" => <>[](has[r] = "nothing"))
         => (phase[r] = "chain" ~> (phase[r] = "over" /\ r \notin Holding))
=============================================================================
