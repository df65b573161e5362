----------------------------- MODULE MCExchange -----------------------------
(* The TLC instance of Exchange.                                           *)
EXTENDS Exchange, TLC

CONSTANTS q1, q2, q3

Config(h, s, t, c) == [head |-> h, scopes |-> s, timeout |-> t, clock |-> c]
Bare == Config(FALSE, {}, FALSE, "none")

(* One request of every kind, among others that only compete for slots.    *)
MCConfigs ==
    q1 :> {Config(FALSE, {"router", "endpoint"}, TRUE, "idle"),
           Config(FALSE, {"router"}, TRUE, "deadline"),
           Config(TRUE, {"endpoint"}, FALSE, "none")}
    @@ q2 :> {Bare} @@ q3 :> {Config(TRUE, {}, FALSE, "none")}
=============================================================================
