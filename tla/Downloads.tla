------------------------------ MODULE Downloads ------------------------------
(***************************************************************************)
(* A client fetches, resumes and revalidates one resource while it         *)
(* changes: entity tags and preconditions (http/etag.rs), ranges           *)
(* (response/range/), the three ways octets are served -- a handler's      *)
(* Served over a source, an embedded asset with a stored coding, a file of *)
(* a directory (router/assets/) -- and a plain handler's response under    *)
(* Conditional and Compression (middleware/).                              *)
(*                                                                         *)
(* An octet is the version, coding and position it comes from.  A tag is   *)
(* what it names and whether it is weak.  Parsing and spelling are left    *)
(* out: a field is absent, held by the client, or "*".                     *)
(***************************************************************************)
EXTENDS Integers, Sequences, FiniteSets

CONSTANTS
    Kinds,       \* how the resource is served
    Versions,    \* bound: the versions of the resource, 1..n
    Length,      \* octets of every version and coding
    Modified,    \* the second every version was written in
    Stamp,       \* and its modification time as the file system keeps it
    Alike,       \* versions an application calls equivalent: version to class
    OtherRanges, \* range sets a client asks for beside the rest of its copy
    SPAN         \* octets read at a time

Kind == {"served", "asset", "directory", "plain"}
Coding == {"identity", "br"}

ASSUME KindAssumption == Kinds \subseteq Kind
ASSUME VersionAssumption ==
    /\ Versions \in Seq(Nat) /\ Len(Versions) > 0
    /\ \A v \in 1..Len(Versions) : Versions[v] = v
    /\ Length \in [1..Len(Versions) -> [Coding -> Nat]]
    /\ Modified \in [1..Len(Versions) -> Nat]
    /\ Stamp \in [1..Len(Versions) -> Nat]
(* What the tag of a file is made of: its length and modification time.  A *)
(* change that leaves both as they were cannot be seen in it.              *)
Stat(v) == <<Length[v]["identity"], Stamp[v]>>
ASSUME StatAssumption ==
    \A v, w \in 1..Len(Versions) : Stat(v) = Stat(w) => v = w
ASSUME RangesAssumption ==
    \A range \in OtherRanges : range \in Seq([suffix : Nat, first : Int, last : Int])
ASSUME SpanAssumption == SPAN \in Nat \ {0}

VARIABLES
    kind,     \* how this resource is served
    tagging,  \* the tags an application gives, or the file system allows
    current,  \* the version the name designates
    handle,   \* the version the open source reads
    live,     \* the source reads what the name designates
    pc,       \* "idle", "open", "body", "ended", "failed", "answered"
    sent,     \* the request being answered
    resp,     \* its answer's head
    got,      \* the octets of its body so far
    copy,     \* what the client holds
    seen,     \* history: the octets' origins received under each strong tag
    raced     \* history: the file was renamed over after its stat, or rewritten

vars == <<kind, tagging, current, handle, live, pc, sent, resp, got, copy, seen, raced>>
server == <<handle, live, pc, sent, resp, got, raced>>

No == "no"
Any == "*"
Held == "held"
Dated == "date"   \* the date of the copy, where If-Range takes a tag or a date
NoTag == [weak |-> FALSE, names |-> <<"none", 0, "">>]
Octet(v, c, i) == [version |-> v, coding |-> c, at |-> i]

Nothing == [octets |-> <<>>, tag |-> NoTag, date |-> 0, length |-> 0, answers |-> 0]
NoRequest == [method |-> "GET", accept |-> "identity", range |-> <<>>, ifRange |-> No,
              ifMatch |-> No, ifNoneMatch |-> No, since |-> No, unmodifiedSince |-> No]
NoAnswer == [status |-> 0, version |-> 0, coding |-> "identity", tag |-> NoTag, date |-> 0,
             length |-> 0, first |-> 0, last |-> -1]

(* An asset always has a tag; a file has none where its modification time  *)
(* cannot be read.                                                         *)
Tagging ==
    [k \in Kind |-> IF k = "asset" THEN {"own"}
                    ELSE IF k = "directory" THEN {"own", "none"}
                    ELSE {"strong", "weak", "none"}]

Init ==
    /\ kind \in Kinds
    /\ tagging \in Tagging[kind]
    /\ current = 1 /\ handle = 1 /\ live = FALSE
    /\ pc = "idle" /\ sent = NoRequest /\ resp = NoAnswer /\ got = <<>>
    /\ copy = Nothing /\ seen = {} /\ raced = {}

-----------------------------------------------------------------------------
(* Tags.                                                                   *)

(* What the answer for a version is tagged with: an asset by the octets of *)
(* each coding, a file by its stat, and otherwise as the application says. *)
TagOf(v, c) ==
    IF kind = "asset" THEN [weak |-> FALSE, names |-> <<"octets", v, c>>]
    ELSE IF tagging = "own" THEN [weak |-> TRUE, names |-> <<"stat", Stat(v), "">>]
    ELSE IF tagging = "strong" THEN [weak |-> FALSE, names |-> <<"version", v, "">>]
    ELSE IF tagging = "weak" THEN [weak |-> TRUE, names |-> <<"class", Alike[v], "">>]
    ELSE NoTag

WeakMatch(a, b) == a # NoTag /\ b # NoTag /\ a.names = b.names

StrongMatch(a, b) == ~a.weak /\ ~b.weak /\ WeakMatch(a, b)

(* If-Match and If-None-Match; "*" names whatever is there.                *)
MatchesStrongly(field, tag) == field = Any \/ (field = Held /\ StrongMatch(copy.tag, tag))
Names(field, tag) == field = Any \/ (field = Held /\ WeakMatch(copy.tag, tag))

Validated(method) == method \in {"GET", "HEAD"}

-----------------------------------------------------------------------------
(* Ranges.  A spec is its first and last offset, -1 for the end, or a      *)
(* suffix.                                                                 *)

Offsets(first, last) == [suffix |-> 0, first |-> first, last |-> last]
Suffix(n) == [suffix |-> n, first |-> -1, last |-> -1]
AtMost(a, b) == IF a < b THEN a ELSE b

Satisfiable(spec, length) == spec.suffix > 0 \/ (spec.first >= 0 /\ spec.first < length)
ResolveOne(spec, length) ==
    IF spec.suffix > 0
    THEN <<IF spec.suffix > length THEN 0 ELSE length - spec.suffix, length - 1>>
    ELSE <<spec.first, IF spec.last = -1 THEN length - 1 ELSE AtMost(spec.last, length - 1)>>

(* Mutant: any tag that is alike will do.                                  *)
HoldsWeakly(req, tag) ==
    req.ifRange = No \/ (req.ifRange = Held /\ WeakMatch(copy.tag, tag))

(* A date never is a tag, so an If-Range that has one never holds.         *)
Holds(req, tag) == req.ifRange = No \/ (req.ifRange = Held /\ StrongMatch(copy.tag, tag))

(* Whether a Range is applied: otherwise all is sent.                      *)
Applies(req, rep) ==
    /\ req.range # <<>> /\ req.method = "GET"
    /\ Holds(req, rep.tag)
    /\ rep.length > 0

Whole(rep) == [rep EXCEPT !.status = 200, !.first = 0, !.last = rep.length - 1]

(* select: the first spec that can be satisfied.                           *)
Select(req, rep) ==
    LET some == {i \in DOMAIN req.range : Satisfiable(req.range[i], rep.length)}
        part == ResolveOne(req.range[CHOOSE i \in some : \A j \in some : i <= j], rep.length)
    IN  IF ~Applies(req, rep) THEN Whole(rep)
        ELSE IF some = {} THEN [rep EXCEPT !.status = 416]
        ELSE [rep EXCEPT !.status = 206, !.first = part[1], !.last = part[2]]

-----------------------------------------------------------------------------
(* Preconditions, in the order they are evaluated.                         *)

PreconditionFailed(req, rep) ==
    IF req.ifMatch # No THEN ~MatchesStrongly(req.ifMatch, rep.tag)
    ELSE kind = "served" /\ req.unmodifiedSince = Held /\ rep.date > copy.date

(* Mutant: the date is asked where no tag matched.                         *)
UnmodifiedEither(req, rep) ==
    \/ Names(req.ifNoneMatch, rep.tag)
    \/ kind = "served" /\ Validated(req.method) /\ req.since = Held /\ rep.date <= copy.date

Unmodified(req, rep) ==
    IF req.ifNoneMatch # No THEN Names(req.ifNoneMatch, rep.tag)
    ELSE kind = "served" /\ Validated(req.method) /\ req.since = Held /\ rep.date <= copy.date

(* The stored coding an asset is sent in.                                  *)
Choose(accept) == IF kind = "asset" THEN accept ELSE "identity"

Representation(v, c) ==
    [status |-> 0, version |-> v, coding |-> c, tag |-> TagOf(v, c),
     date |-> IF kind = "served" THEN Modified[v] ELSE 0, length |-> Length[v][c],
     first |-> 0, last |-> -1]

(* Served::answer, AssetEndpoint::call and the directory's serve.          *)
Delivered(req) ==
    LET rep == Representation(current, Choose(req.accept))
    IN  IF PreconditionFailed(req, rep) THEN [rep EXCEPT !.status = 412]
        ELSE IF Unmodified(req, rep)
        THEN [rep EXCEPT !.status = IF Validated(req.method) THEN 304 ELSE 412]
        ELSE Select(req, rep)

(* A handler's whole response under Conditional, which asks for a tag even *)
(* where "*" is named, and, outside it, Compression, which codes it unless *)
(* its tag is strong.  The answers above say Accept-Ranges, a 304 has no   *)
(* octets: it leaves those alone.                                          *)
Matched(req, rep) == rep.tag # NoTag /\ Names(req.ifNoneMatch, rep.tag)

StronglyTagged(rep) == rep.tag # NoTag /\ ~rep.tag.weak

(* Mutant: a tag is no reason to leave a response alone.                   *)
LeftAloneUntagged(req, rep) == req.accept = "identity" \/ rep.status # 200

LeftAlone(req, rep) == req.accept = "identity" \/ rep.status # 200 \/ StronglyTagged(rep)

Plain(req) ==
    LET rep == Whole(Representation(current, "identity"))
        conditioned == IF Validated(req.method) /\ Matched(req, rep)
                       THEN [rep EXCEPT !.status = 304] ELSE rep
    IN  IF LeftAlone(req, conditioned) \/ rep.length = 0 THEN conditioned
        ELSE [Whole(Representation(current, "br")) EXCEPT !.tag = rep.tag]

HasBody(req, answer) ==
    answer.status \in {200, 206} /\ req.method # "HEAD" /\ answer.last >= answer.first

(* A source of an application may fail to say its length.                  *)
Answers(req) ==
    IF kind = "plain" THEN {Plain(req)}
    ELSE {Delivered(req)} \cup (IF kind = "served" THEN {[NoAnswer EXCEPT !.status = 500]} ELSE {})

(* A request arrives and is answered but for its body.  A file is opened   *)
(* after its stat decided the answer; files answer GET and HEAD alone.     *)
Request(req) ==
    /\ pc = "idle"
    /\ kind \in {"asset", "directory"} => Validated(req.method)
    /\ \E answer \in Answers(req) :
        LET opens == kind = "directory" /\ answer.status \in {200, 206}
        IN
        /\ sent' = req /\ resp' = answer /\ got' = <<>>
        /\ handle' = current /\ live' = (kind = "directory") /\ raced' = {}
        /\ pc' = IF opens THEN "open" ELSE IF HasBody(req, answer) THEN "body" ELSE "answered"
    /\ UNCHANGED <<kind, tagging, current, copy, seen>>

Open ==
    /\ pc = "open"
    /\ handle' = current /\ live' = TRUE
    /\ pc' = IF HasBody(sent, resp) THEN "body" ELSE "answered"
    /\ UNCHANGED <<kind, tagging, current, sent, resp, got, copy, seen, raced>>

OpenFails ==
    /\ pc = "open"
    /\ resp' = [resp EXCEPT !.status = 404] /\ pc' = "answered"
    /\ UNCHANGED <<kind, tagging, current, handle, live, sent, got, copy, seen, raced>>

-----------------------------------------------------------------------------
(* The body: Spans over a source, or octets in memory.                     *)

Cursor == resp.first + Len(got)
SpanLast ==
    IF kind \in {"asset", "plain"} THEN resp.last ELSE AtMost(resp.last, Cursor + SPAN - 1)
Exhausted == Cursor > resp.last

(* What the source has from the cursor on; one of an application may give  *)
(* fewer octets, and those of a whole block past the span.                 *)
Available == LET l == Length[handle][resp.coding] IN IF l > Cursor THEN l - Cursor ELSE 0
Given ==
    LET asked == SpanLast - Cursor + 1
    IN  IF kind \in {"asset", "plain"} THEN {asked}
        ELSE IF kind = "served" THEN 0..AtMost(Available, asked + 1)
        ELSE IF Available = 0 THEN {0} ELSE 1..AtMost(Available, asked)

(* Mutant: the file is opened again for every span.                        *)
TakeByName(k) == [i \in 1..k |-> Octet(current, resp.coding, Cursor + i - 1)]
Take(k) == [i \in 1..k |-> Octet(handle, resp.coding, Cursor + i - 1)]

(* Mutant: no octets is the end of the body.                               *)
ReadEnds(k) ==
    /\ pc = "body" /\ ~Exhausted /\ k \in Given
    /\ LET cut == AtMost(k, SpanLast - Cursor + 1)
       IN  got' = got \o Take(cut) /\ pc' = IF k = 0 THEN "ended" ELSE pc
    /\ UNCHANGED <<kind, tagging, current, handle, live, sent, resp, copy, seen, raced>>

(* A read answers: no octets fail the body, more than the span are cut.    *)
Read(k) ==
    /\ pc = "body" /\ ~Exhausted /\ k \in Given
    /\ LET cut == AtMost(k, SpanLast - Cursor + 1)
       IN  got' = got \o Take(cut) /\ pc' = IF k = 0 THEN "failed" ELSE pc
    /\ UNCHANGED <<kind, tagging, current, handle, live, sent, resp, copy, seen, raced>>

BodyEnds ==
    /\ pc = "body" /\ Exhausted
    /\ pc' = "ended"
    /\ UNCHANGED <<kind, tagging, current, handle, live, sent, resp, got, copy, seen, raced>>

(* The source fails or the connection is lost.                             *)
BodyFails ==
    /\ pc = "body"
    /\ pc' = "failed"
    /\ UNCHANGED <<kind, tagging, current, handle, live, sent, resp, got, copy, seen, raced>>

(* The resource changes: a new file under the name, or the same file       *)
(* rewritten, which an open source reads.                                  *)
Replace ==
    /\ current < Len(Versions)
    /\ current' = current + 1 /\ live' = FALSE
    /\ raced' = IF pc = "open" THEN raced \cup {"renamed"} ELSE raced
    /\ UNCHANGED <<kind, tagging, handle, pc, sent, resp, got, copy, seen>>

Rewrite ==
    /\ kind = "directory" /\ current < Len(Versions)
    /\ current' = current + 1
    /\ handle' = IF live THEN current + 1 ELSE handle
    /\ raced' = IF live /\ pc # "idle" THEN raced \cup {"rewritten"} ELSE raced
    /\ UNCHANGED <<kind, tagging, live, pc, sent, resp, got, copy, seen>>

-----------------------------------------------------------------------------
(* The client.                                                             *)

Complete(c) == c.answers > 0 /\ Len(c.octets) = c.length

(* The client keeps what it received, and appends a part only where a      *)
(* strong tag says it belongs to what it holds.                            *)
Continues ==
    /\ resp.first = Len(copy.octets)
    /\ sent.ifRange = Held \/ sent.ifMatch = Held \/ StrongMatch(resp.tag, copy.tag)

Fresh == [octets |-> got, tag |-> resp.tag, date |-> resp.date, length |-> resp.length,
          answers |-> 1]
Kept ==
    IF resp.status = 206 /\ Continues
    THEN [copy EXCEPT !.octets = @ \o got, !.answers = AtMost(@ + 1, 2)]
    ELSE IF resp.first = 0 THEN Fresh ELSE Nothing

Receive ==
    /\ pc \in {"ended", "failed"}
    /\ copy' = Kept
    /\ seen' = seen \cup {<<resp.tag, got[i].version, got[i].coding>> :
                            i \in IF StronglyTagged(resp) THEN DOMAIN got ELSE {}}
    /\ pc' = "idle" /\ sent' = NoRequest /\ resp' = NoAnswer /\ got' = <<>>
    /\ handle' = current /\ live' = FALSE /\ raced' = {}
    /\ UNCHANGED <<kind, tagging, current>>

(* An answer without a body: an empty representation is a copy of its own. *)
ReceiveHead ==
    /\ pc = "answered"
    /\ copy' = IF resp.status = 200 /\ sent.method = "GET" THEN Fresh ELSE copy
    /\ pc' = "idle" /\ sent' = NoRequest /\ resp' = NoAnswer /\ got' = <<>>
    /\ handle' = current /\ live' = FALSE /\ raced' = {}
    /\ UNCHANGED <<kind, tagging, current, seen>>

(* What a client can make its request depend on.                           *)
CanName == copy.tag # NoTag
CanDate == copy.date > 0
Rest == <<Offsets(Len(copy.octets), -1)>>

Fetch(accept, range) ==
    Request([NoRequest EXCEPT !.accept = accept, !.range = range])

Resume(accept, guard) ==
    /\ copy.answers > 0 /\ Len(copy.octets) \in 1..(copy.length - 1)
    /\ guard \in {"if-range", "if-match"} => CanName
    /\ guard \in {"date", "if-range date"} => CanDate
    /\ Request([NoRequest EXCEPT !.accept = accept, !.range = Rest,
                                 !.ifRange = IF guard = "if-range" THEN Held
                                             ELSE IF guard = "if-range date" THEN Dated
                                             ELSE No,
                                 !.ifMatch = IF guard = "if-match" THEN Held ELSE No,
                                 !.unmodifiedSince = IF guard = "date" THEN Held ELSE No])

Revalidate(accept, method, none, since) ==
    /\ Complete(copy)
    /\ <<none, since>> # <<No, No>>
    /\ (none = Held => CanName) /\ (since = Held => CanDate)
    /\ Request([NoRequest EXCEPT !.accept = accept, !.method = method,
                                 !.ifNoneMatch = none, !.since = since])

Next ==
    \/ \E accept \in Coding :
         \/ \E range \in OtherRanges : Fetch(accept, range)
         \/ \E guard \in {"if-range", "if-range date", "if-match", "date", "nothing"} :
              Resume(accept, guard)
         \/ \E method \in {"GET", "HEAD", "POST"}, none \in {No, Held, Any}, since \in {No, Held} :
              Revalidate(accept, method, none, since)
    \/ Open \/ OpenFails
    \/ \E k \in Given : Read(k)
    \/ BodyEnds \/ BodyFails
    \/ Replace \/ Rewrite
    \/ Receive \/ ReceiveHead

Spec == Init /\ [][Next]_vars

-----------------------------------------------------------------------------
Origins(octets) == {<<octets[i].version, octets[i].coding>> : i \in DOMAIN octets}

(* A copy put together from several answers is of one version in one       *)
(* coding, in order and without a gap, however the resource changed        *)
(* between them and whatever the client made its range depend on.          *)
NoSplicing ==
    copy.answers > 1 =>
        /\ Cardinality(Origins(copy.octets)) <= 1
        /\ \A i \in DOMAIN copy.octets : copy.octets[i].at = i - 1

(* A 304 to a client that named its tag means that its copy is the current *)
(* version, or one its application calls alike: no race while the copy was *)
(* received and no date in the same second has it confirmed.               *)
ConfirmedIsCurrent ==
    resp.status = 304 /\ sent.ifNoneMatch = Held =>
        \A i \in DOMAIN copy.octets :
            LET v == copy.octets[i].version
            IN  v = resp.version \/ (tagging = "weak" /\ Alike[v] = Alike[resp.version])

(* A body that ends holds exactly the octets its head named; one that its  *)
(* source falls short of fails instead of ending early.                    *)
DeliveredAsFramed ==
    pc = "ended" =>
        /\ Len(got) = resp.last - resp.first + 1
        /\ \A i \in DOMAIN got : got[i].at = resp.first + i - 1

(* A file renamed over while it is sent is not spliced into the response:  *)
(* all of a body is of one version, the one its tag was taken from, unless *)
(* the file was renamed between its stat and its opening or is rewritten.  *)
BodyOfOneVersion ==
    /\ "rewritten" \notin raced => Cardinality(Origins(got)) <= 1
    /\ raced = {} => \A i \in DOMAIN got : got[i].version = resp.version

(* A strong tag names one sequence of octets: what was ever sent under it  *)
(* is of one version and one coding.                                       *)
OneTagOneRepresentation ==
    \A a, b \in seen : a[1] = b[1] => a = b
=============================================================================
