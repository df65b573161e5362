----------------------------- MODULE Connection -----------------------------
(***************************************************************************)
(* One accepted connection from its TLS handshake to its end:              *)
(* serve_connection, serve_http, first_byte, unheard and drive of          *)
(* crates/kynos/src/server/connection.rs.                                  *)
(*                                                                         *)
(* The connection is one task.  The codec is hyper's and is modelled by    *)
(* what kynos relies on: it hands over request heads, it may finish by     *)
(* itself or because the peer closed, and once asked to drain it finishes  *)
(* when nothing is in flight, if the peer lets it.  The idle wait and the  *)
(* counting of HTTP/2 streams are those of module Streams: heads and the   *)
(* wait are steps of this task, and streams end on tasks of their own.     *)
(***************************************************************************)
EXTENDS Streams

CONSTANTS
    Tls,          \* config.tls is Some
    HasDeadline,  \* first_head_deadline is Some
    HasIdle       \* http2.idle_timeout is Some

ASSUME FlagsAssumption ==
    Tls \in BOOLEAN /\ HasDeadline \in BOOLEAN /\ HasIdle \in BOOLEAN

VARIABLES
    stage,      \* where the task stands
    lifecycle,  \* the server's watch channel
    proto,      \* the protocol, once ALPN or the first bytes told it
    late,       \* the first-head deadline has passed
    headSeen,   \* head_seen
    draining,   \* the local of drive
    req,        \* where each request stands
    outcome,    \* how the connection ended
    announced   \* history: the sleep of the idle wait began in a drain

taskVars == <<stage, lifecycle, proto, late, headSeen, draining, req, outcome, announced>>
connectionVars == <<vars, taskVars>>

Stage == {"handshake", "firstByte", "drive", "closed"}
Outcome == {"none", "handshake", "stopped", "silent", "codec", "NO_REQUEST_HEAD",
            "IDLE", "forced"}

ConnectionTypeOK ==
    /\ TypeOK
    /\ stage \in Stage
    /\ lifecycle \in {"Running", "Draining", "Forced"}
    /\ proto \in {"unknown", "http1", "http2"}
    /\ late \in BOOLEAN /\ headSeen \in BOOLEAN /\ draining \in BOOLEAN
    /\ req \in [Streams -> {"new", "inFlight", "done"}]
    /\ outcome \in Outcome /\ announced \in BOOLEAN

InFlight == {r \in Streams : req[r] = "inFlight"}
Requested == {r \in Streams : req[r] # "new"}
Stopping == lifecycle # "Running"

ConnectionInit ==
    /\ Init
    /\ stage = IF Tls THEN "handshake" ELSE "drive"
    /\ lifecycle = "Running" /\ proto = "unknown"
    /\ late = FALSE /\ headSeen = FALSE /\ draining = FALSE
    /\ req = [r \in Streams |-> "new"]
    /\ outcome = "none" /\ announced = FALSE

Ends(how) ==
    /\ stage' = "closed" /\ outcome' = how
    /\ UNCHANGED <<lifecycle, proto, late, headSeen, draining, req, announced>>
Close(how) == Ends(how) /\ UNCHANGED vars

-----------------------------------------------------------------------------
(* The world around the task.                                              *)

ServerDrains ==
    /\ lifecycle = "Running" /\ stage # "closed" /\ lifecycle' = "Draining"
    /\ UNCHANGED <<vars, stage, proto, late, headSeen, draining, req, outcome, announced>>

ServerForces ==
    /\ lifecycle = "Draining" /\ stage # "closed" /\ lifecycle' = "Forced"
    /\ UNCHANGED <<vars, stage, proto, late, headSeen, draining, req, outcome, announced>>

(* The accept loop aborts the tasks it owns once the stop is forced.       *)
Aborted == lifecycle = "Forced" /\ stage # "closed" /\ Close("forced")

DeadlinePasses ==
    /\ HasDeadline /\ ~late /\ stage # "closed"
    /\ late' = TRUE
    /\ UNCHANGED <<vars, stage, lifecycle, proto, headSeen, draining, req, outcome, announced>>

-----------------------------------------------------------------------------
(* The TLS handshake; ALPN may settle the protocol.                        *)
Handshake ==
    /\ stage = "handshake" /\ ~Stopping
    /\ \/ proto' = "unknown" /\ stage' = "drive"
       \/ proto' \in {"http1", "http2"} /\ stage' = "firstByte"
    /\ UNCHANGED <<vars, lifecycle, late, headSeen, draining, req, outcome, announced>>

(* It fails or times out, or the stop begins.                              *)
HandshakeEnds == stage = "handshake" /\ Close("handshake")

(* first_byte: stop, deadline, then the read, in this order.               *)
FirstByteStops == stage = "firstByte" /\ Stopping /\ Close("stopped")

FirstByteLate ==
    stage = "firstByte" /\ ~Stopping /\ late /\ Close("silent")

FirstByteRead ==
    /\ stage = "firstByte" /\ ~Stopping /\ ~late
    /\ \/ stage' = "drive" /\ UNCHANGED outcome
       \/ stage' = "closed" /\ outcome' = "silent"
    /\ UNCHANGED <<vars, lifecycle, proto, late, headSeen, draining, req, announced>>

-----------------------------------------------------------------------------
(* drive.  A poll of its select! goes through the stop, the codec, the     *)
(* deadline and the idle wait, which is suspended until its turn comes.    *)
Suspended == pc \in {"enable", "await", "sleep", "resolved"}

(* Mutant: the drain is not a stop.                                        *)
StopUnreadForced == lifecycle = "Forced" /\ ~draining

(* Its first branch: the stop, read once.                                  *)
StopUnread == Stopping /\ ~draining

(* quiet.set(idle()): a wait that was polled is dropped.                   *)
FreshQuiet ==
    IF pc \in {"await", "sleep"} THEN Abandon
    ELSE IF pc = "resolved" THEN Again ELSE UNCHANGED vars

(* Mutant: the idle period of before goes on in the drain.                 *)
DriveStopKeepsPeriod ==
    /\ stage = "drive" /\ StopUnread /\ Suspended
    /\ IF lifecycle = "Forced"
       THEN Close("forced")
       ELSE /\ draining' = TRUE
            /\ UNCHANGED <<vars, stage, lifecycle, proto, late, headSeen, req, outcome, announced>>

DriveStop ==
    /\ stage = "drive" /\ StopUnread /\ Suspended
    /\ IF lifecycle = "Forced"
       THEN Close("forced")
       ELSE /\ draining' = TRUE
            /\ FreshQuiet
            /\ UNCHANGED <<stage, lifecycle, proto, late, headSeen, req, outcome, announced>>

(* Its second branch, the codec: a request head.  HTTP/1 serves one        *)
(* request at a time and none that follows a drain; an HTTP/2 client may   *)
(* open streams until it has read the GOAWAY, and each is counted.         *)
RequestHead(r) ==
    /\ stage = "drive" /\ ~StopUnread /\ Suspended /\ req[r] = "new"
    /\ \/ /\ proto \in {"unknown", "http1"} /\ proto' = "http1"
          /\ InFlight = {} /\ (draining => Requested = {})
          /\ UNCHANGED vars
       \/ /\ proto \in {"unknown", "http2"} /\ proto' = "http2"
          /\ Open(r)
    /\ req' = [req EXCEPT ![r] = "inFlight"]
    /\ headSeen' = HasDeadline
    /\ UNCHANGED <<stage, lifecycle, late, draining, outcome, announced>>

(* The response body ends or is dropped, the guard of Counted with it.     *)
ResponseEnds(r) ==
    /\ stage = "drive" /\ req[r] = "inFlight"
    /\ req' = [req EXCEPT ![r] = "done"]
    /\ IF proto = "http2" THEN Drop(r) ELSE UNCHANGED vars
    /\ UNCHANGED <<stage, lifecycle, proto, late, headSeen, draining, outcome, announced>>

GuardDropped(r) == stage = "drive" /\ DropWakes(r) /\ UNCHANGED taskVars

(* The codec is done: the peer closed or broke the protocol, or it was     *)
(* asked to drain and nothing is in flight.                                *)
CodecDone == stage = "drive" /\ ~StopUnread /\ Suspended /\ Close("codec")

(* hyper closes a drained HTTP/1 connection by itself.                     *)
Http1Drained ==
    /\ proto = "http1" /\ draining /\ Requested # {} /\ InFlight = {}
    /\ CodecDone

(* Mutant: the deadline closes whatever head has come.                     *)
UnheardDeaf ==
    /\ stage = "drive" /\ ~StopUnread /\ Suspended
    /\ late
    /\ Close("NO_REQUEST_HEAD")

(* Its third branch, unheard.                                              *)
Unheard ==
    /\ stage = "drive" /\ ~StopUnread /\ Suspended
    /\ late /\ ~headSeen
    /\ Close("NO_REQUEST_HEAD")

(* Its last branch polls the idle wait: what it reads and finds in one     *)
(* poll is not stopped by a stop that comes meanwhile.                     *)
IdlePolled ==
    /\ HasIdle /\ stage = "drive"
    /\ \/ ~StopUnread /\ (Enable \/ Woken)
       \/ ReadClosed \/ ReadOpened
       \/ Recheck /\ pc' = "enable"
    /\ announced' = IF pc = "readOpened" THEN draining ELSE announced
    /\ UNCHANGED <<stage, lifecycle, proto, late, headSeen, draining, req, outcome>>

IdleElapses ==
    HasIdle /\ stage = "drive" /\ ~StopUnread /\ TimerFires /\ UNCHANGED taskVars

(* Mutant: the idle connection is asked to drain again and again.          *)
QuietForgets ==
    /\ stage = "drive" /\ Recheck /\ pc' = "resolved"
    /\ draining' = TRUE
    /\ UNCHANGED <<stage, lifecycle, proto, late, headSeen, req, outcome, announced>>

(* It has found the connection quiet: GOAWAY first, and the end when the   *)
(* drain was idle for a period of its own.                                 *)
Quiet ==
    /\ stage = "drive" /\ Recheck /\ pc' = "resolved"
    /\ IF draining
       THEN Ends("IDLE")
       ELSE /\ draining' = TRUE
            /\ UNCHANGED <<stage, lifecycle, proto, late, headSeen, req, outcome, announced>>

QuietAgain == stage = "drive" /\ Again /\ UNCHANGED taskVars

-----------------------------------------------------------------------------
Over == stage = "closed" /\ UNCHANGED connectionVars

TaskStep ==
    \/ FirstByteStops \/ FirstByteLate
    \/ DriveStop \/ Unheard \/ IdlePolled \/ Quiet \/ QuietAgain

ConnectionNext ==
    \/ ServerDrains \/ ServerForces \/ Aborted \/ DeadlinePasses
    \/ Handshake \/ HandshakeEnds \/ FirstByteRead
    \/ TaskStep \/ IdleElapses \/ CodecDone
    \/ \E r \in Streams : RequestHead(r) \/ ResponseEnds(r) \/ GuardDropped(r)
    \/ Over

(* Timers elapse, the task is polled and a drop that began goes on; the    *)
(* handshake has its own timeout.  Nothing is assumed of the client, of    *)
(* the handlers or of the server's shutdown.                               *)
ConnectionSpec ==
    /\ ConnectionInit /\ [][ConnectionNext]_connectionVars
    /\ WF_connectionVars(TaskStep) /\ WF_connectionVars(DeadlinePasses)
    /\ WF_connectionVars(IdleElapses) /\ WF_connectionVars(HandshakeEnds)
    /\ WF_connectionVars(Http1Drained)
    /\ \A r \in Streams : WF_connectionVars(GuardDropped(r))

-----------------------------------------------------------------------------
(* kynos's own timers never cut a request: the first-head deadline closes  *)
(* only a connection on which no request ever began, and the idle timeout  *)
(* only one on which none is in flight, whatever streams opened or ended   *)
(* while the wait read its counters and slept.                             *)
TimersCutNothing ==
    /\ outcome = "NO_REQUEST_HEAD" => Requested = {}
    /\ outcome \in {"IDLE", "silent"} => InFlight = {}

(* An idle close was announced: the GOAWAY came a whole idle period before *)
(* it, whatever part of an earlier period had passed when the drain began. *)
IdleCloseAnnounced == outcome = "IDLE" => draining /\ announced

(* A connection that stops being used ends: one on which no request head   *)
(* ever completes, and, once no request is in flight any more, an HTTP/2   *)
(* one whose client never closes, by a GOAWAY and then the end, and an     *)
(* HTTP/1 one with the drain.                                              *)
UnusedEnds ==
    (HasDeadline /\ HasIdle
       /\ <>[](InFlight = {} /\ (proto = "http1" /\ Requested # {} => draining)))
         => <>(stage = "closed")

(* The stop reaches every connection: it drains or is gone.                *)
StopIsSeen == Stopping ~> (draining \/ stage = "closed")
=============================================================================
