------------------------------ MODULE MCRouter ------------------------------
(* The TLC instances of Router.                                            *)
EXTENDS Router, TLC

Op(method, path, guarded) ==
    [method |-> method, path |-> path, guarded |-> guarded, accepts |-> method = "QUERY"]

(* Two methods of one path, one of them guarded, and a template that       *)
(* matches its other spelling.                                             *)
Crossing == [e1 |-> Op("GET", <<"a">>, TRUE), e2 |-> Op("QUERY", <<"a">>, FALSE),
             e3 |-> Op("GET", <<"{}", "">>, FALSE)]
CrossingOverride == [c \in Cors |-> IF c = "c2" THEN {"GET", "PUT", "QUERY"} ELSE {}]

NoPrefix == {<<>>}
Grouped == {<<>>, <<"g">>}

(* Templates that overlap.                                                 *)
Overlapping == [e1 |-> Op("GET", <<"a", "">>, FALSE), e2 |-> Op("GET", <<"{}">>, FALSE)]
=============================================================================
