------------------------------- MODULE MCCache -------------------------------
(* The TLC instances of Cache.                                             *)
EXTENDS Cache, TLC

CONSTANTS v1, v2

Plain == [routed |-> TRUE, method |-> "GET", target |-> "t1",
          fields |-> [f \in Fields |-> v1], authorized |-> FALSE,
          noCache |-> FALSE, noStore |-> FALSE]

(* Reads and writes of one target, and each thing a request may say.       *)
MCAsked ==
    {Plain,
     [Plain EXCEPT !.method = "HEAD"],
     [Plain EXCEPT !.method = "QUERY"],
     [Plain EXCEPT !.method = "PUT"],
     [Plain EXCEPT !.fields = [f \in Fields |-> v2]],
     [Plain EXCEPT !.authorized = TRUE],
     [Plain EXCEPT !.noCache = TRUE],
     [Plain EXCEPT !.noStore = TRUE],
     [Plain EXCEPT !.routed = FALSE]}

Kept == [status |-> 200, noStore |-> FALSE, private |-> FALSE, noCache |-> FALSE,
         public |-> FALSE, setCookie |-> FALSE, crossOrigin |-> FALSE,
         fits |-> TRUE, vary |-> {}, sMaxage |-> Unstated, maxAge |-> 1,
         expires |-> Unstated]

(* A response to keep, and one for each rule that decides otherwise.       *)
MCAnswers ==
    {Kept,
     [Kept EXCEPT !.status = 404],
     [Kept EXCEPT !.status = 500],
     [Kept EXCEPT !.setCookie = TRUE],
     [Kept EXCEPT !.public = TRUE, !.vary = {"origin"}, !.crossOrigin = TRUE],
     [Kept EXCEPT !.crossOrigin = TRUE],
     [Kept EXCEPT !.maxAge = Unreadable],
     [Kept EXCEPT !.maxAge = Unstated, !.public = TRUE]}

(* For the question of what a write drops.                                 *)
WriteAsked == {[Plain EXCEPT !.method = m] : m \in {"GET", "HEAD", "PUT"}}
WriteAnswers == {Kept, [Kept EXCEPT !.status = 500]}

(* Two requests of any kind, or three that read and write one target.      *)
Arrived == {r \in Requests : pc[r] # "new"}
InScope ==
    \/ Cardinality(Arrived) <= 2
    \/ \A r \in Arrived :
         asked[r] \in WriteAsked /\ (answer[r] = NoAnswer \/ answer[r].said \in WriteAnswers)

Symmetry == Permutations(Requests)
=============================================================================
