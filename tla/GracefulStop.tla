---------------------------- MODULE GracefulStop ----------------------------
(***************************************************************************)
(* What BoundServer::serve promises a caller, with no listener, permit,    *)
(* channel or task in sight: it serves, then drains, may force, and        *)
(* returns; a connection it took ends on its own unless the stop was       *)
(* forced, the caller dropped the future or a listener's task crashed; and *)
(* a result of Ok says that nothing was cut or left behind.                *)
(***************************************************************************)
CONSTANT Conns

VARIABLES
    phase,    \* "serving", "draining", "forced", "returned" or "dropped"
    status,   \* each connection: "none", "live", "finished" or "cut"
    crashed,  \* a listener's task has crashed
    ok        \* serve returned Ok

avars == <<phase, status, crashed, ok>>

AInit ==
    /\ phase = "serving" /\ crashed = FALSE /\ ok = FALSE
    /\ status = [c \in Conns |-> "none"]

Set(c, from, to) ==
    /\ status[c] = from
    /\ status' = [status EXCEPT ![c] = to]
    /\ UNCHANGED <<phase, crashed, ok>>

AAccept(c) == phase # "returned" /\ Set(c, "none", "live")
AFinish(c) == Set(c, "live", "finished")
ACut(c) ==
    /\ phase \in {"forced", "dropped", "returned"} \/ crashed
    /\ ~ok \/ crashed
    /\ Set(c, "live", "cut")

ACrash ==
    ~crashed /\ crashed' = TRUE /\ UNCHANGED <<phase, status, ok>>

ADrain == phase = "serving" /\ phase' = "draining" /\ UNCHANGED <<status, crashed, ok>>
AForce == phase = "draining" /\ phase' = "forced" /\ UNCHANGED <<status, crashed, ok>>

(* The orderly return: nothing is live, and nothing was cut.               *)
AReturnOk ==
    /\ phase = "draining"
    /\ crashed \/ \A c \in Conns : status[c] \in {"none", "finished"}
    /\ phase' = "returned" /\ ok' = TRUE
    /\ UNCHANGED <<status, crashed>>

(* A return with an error after a drain that ran to its end cut nothing    *)
(* either; only a forced one leaves what did not yield.                    *)
AReturnError ==
    /\ phase \in {"draining", "forced"}
    /\ phase = "forced" \/ crashed \/ \A c \in Conns : status[c] \in {"none", "finished"}
    /\ phase' = "returned"
    /\ UNCHANGED <<status, crashed, ok>>

ADrop ==
    /\ phase \in {"serving", "draining", "forced"}
    /\ phase' = "dropped"
    /\ UNCHANGED <<status, crashed, ok>>

AReturn == AReturnOk \/ AReturnError \/ AForce

ANext ==
    \/ \E c \in Conns : AAccept(c) \/ AFinish(c) \/ ACut(c)
    \/ ACrash \/ ADrain \/ AForce \/ AReturnOk \/ AReturnError \/ ADrop

(* A stop, once begun, is over in the end.                                 *)
ASpec == AInit /\ [][ANext]_avars /\ WF_avars(AReturn)
=============================================================================
