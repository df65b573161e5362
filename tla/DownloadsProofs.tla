--------------------------- MODULE DownloadsProofs ---------------------------
(***************************************************************************)
(* Proofs about Downloads for any number of versions of any lengths, any   *)
(* classes of versions an application calls alike, any ranges asked for    *)
(* and any span.                                                           *)
(*                                                                         *)
(* The invariant follows an octet from the source it is read from to the   *)
(* client's copy, beside the tag it is sent under.  A tag names the        *)
(* version it was taken from; octets of another version are received under *)
(* it only where a file was raced, and then the version it names is gone   *)
(* for good.                                                               *)
(***************************************************************************)
EXTENDS Downloads, FiniteSetTheorems, SequenceTheorems, WellFoundedInduction, TLAPS

Version == 1..Len(Versions)
Octets == [version : Version, coding : Coding, at : Int]
Tags == {NoTag} \cup {TagOf(v, c) : v \in Version, c \in Coding}
Heads == [status : Nat, version : Nat, coding : Coding, tag : Tags, date : Nat,
          length : Nat, first : Int, last : Int]
Copies == [octets : Seq(Octets), tag : Tags, date : Nat, length : Nat, answers : Nat]

Sending == {"body", "ended", "failed"}

Typed ==
    /\ kind \in Kind
    /\ tagging \in Tagging[kind]
    /\ current \in Version /\ handle \in Version
    /\ pc \in {"idle", "open", "answered"} \cup Sending
    /\ resp \in Heads /\ got \in Seq(Octets) /\ copy \in Copies

(* The source that is read, and what became of the file since its stat.    *)
Sourced ==
    /\ live => kind = "directory"
    /\ kind # "directory" => raced = {} /\ pc # "open"
    /\ pc = "open" /\ raced = {} => resp.version = current /\ live
    /\ pc \in Sending /\ raced = {} => handle = resp.version
    /\ pc \in Sending \cup {"open"} =>
         /\ resp.version \in Version /\ resp.version <= current
         /\ raced # {} => resp.version < current

(* The octets read so far are those the head announced.                    *)
Framed ==
    /\ pc \notin Sending => Len(got) = 0
    /\ pc \in Sending =>
         /\ resp.first + Len(got) <= resp.last + 1
         /\ \A i \in 1..Len(got) : got[i].coding = resp.coding /\ got[i].at = resp.first + i - 1
         /\ pc = "ended" => resp.first + Len(got) = resp.last + 1
    /\ "rewritten" \notin raced => \A i \in 1..Len(got) : got[i].version = handle
    /\ raced = {} => \A i \in 1..Len(got) : got[i].version = resp.version

Strong(tag) == tag # NoTag /\ ~tag.weak

(* The head of an answer with octets: its tag is of its version, and a     *)
(* part that a client asked for under its tag belongs to what it holds.    *)
Headed ==
    pc \in Sending \cup {"open"} =>
        /\ resp.first >= 0 /\ resp.tag = TagOf(resp.version, resp.coding)
        /\ Strong(resp.tag) /\ kind # "asset" => resp.coding = "identity"
        /\ resp.status = 206 /\ (sent.ifRange = Held \/ sent.ifMatch = Held) =>
             StrongMatch(copy.tag, resp.tag)

(* A tag of a version of a file that is no longer there.                   *)
Gone(names) ==
    kind = "directory" /\ \E w \in Version : w < current /\ names = <<"stat", Stat(w), "">>
Outdated(tag) == Gone(tag.names)

(* Octet o may be held under a tag.                                        *)
Fits(tag, o) ==
    /\ tag.names = TagOf(o.version, o.coding).names \/ Outdated(tag)
    /\ Strong(tag) /\ kind # "asset" => o.coding = "identity"

(* The client's copy, and all it received under strong tags.               *)
Holdings ==
    /\ \A i \in 1..Len(copy.octets) :
         Fits(copy.tag, copy.octets[i]) /\ copy.octets[i].at = i - 1
    /\ copy.answers > 1 => Strong(copy.tag)
    /\ \A s \in seen :
         /\ s = <<s[1], s[2], s[3]>> /\ Strong(s[1]) /\ s[1] \in Tags
         /\ Fits(s[1], [version |-> s[2], coding |-> s[3], at |-> 0])

DInv == Typed /\ Sourced /\ Framed /\ Headed /\ Holdings /\ ConfirmedIsCurrent

-----------------------------------------------------------------------------
(* Tags.                                                                   *)

(* What a resource's versions are tagged with does not change.             *)
LEMMA TagsStay ==
    ASSUME UNCHANGED <<kind, tagging>>
    PROVE  /\ \A v, c : TagOf(v, c)' = TagOf(v, c)
           /\ Tags' = Tags /\ Heads' = Heads /\ Copies' = Copies
<1>1. \A v, c : TagOf(v, c)' = TagOf(v, c)
  BY DEF TagOf
<1>2. Tags' = Tags
  BY <1>1 DEF Tags
<1> QED
  BY <1>1, <1>2 DEF Heads, Copies

(* Who gives a resource its tags.                                          *)
LEMMA TaggingTells ==
    ASSUME Typed
    PROVE  \/ kind = "asset" /\ tagging = "own"
           \/ kind = "directory" /\ tagging \in {"own", "none"}
           \/ kind \in {"served", "plain"} /\ tagging \in {"strong", "weak", "none"}
  BY DEF Typed, Tagging, Kind

(* A file is known by its length and modification time.                    *)
LEMMA SameSecond == ASSUME NEW a, NEW b, <<"stat", a, "">> = <<"stat", b, "">> PROVE a = b
  OBVIOUS
LEMMA StatTells ==
    ASSUME NEW v \in Version, NEW w \in Version,
           <<"stat", Stat(v), "">> = <<"stat", Stat(w), "">>
    PROVE  v = w
<1>1. Stat(v) = Stat(w)
  BY SameSecond, Zenon
<1> QED
  BY <1>1, StatAssumption, Zenon DEF Version

(* Tags that name the same come from one version, or from versions the     *)
(* application calls alike; strong ones from one coding of it.             *)
LEMMA NamesTell ==
    ASSUME Typed, NEW v, NEW w, NEW c, NEW d,
           TagOf(v, c).names = TagOf(w, d).names, TagOf(v, c).names # NoTag.names,
           kind = "directory" => v \in Version /\ w \in Version
    PROVE  \/ v = w /\ (kind = "asset" => c = d)
           \/ tagging = "weak" /\ Alike[v] = Alike[w] /\ TagOf(v, c).weak
<1>1. CASE kind = "asset"
  BY <1>1 DEF TagOf
<1>2. CASE kind = "directory" /\ tagging = "own"
  <2>1. TagOf(v, c).names = <<"stat", Stat(v), "">> /\ TagOf(w, d).names = <<"stat", Stat(w), "">>
    BY <1>2 DEF TagOf
  <2>2. <<"stat", Stat(v), "">> = <<"stat", Stat(w), "">>
    BY <2>1, Zenon
  <2> QED
    BY <1>2, <2>2, StatTells
<1>3. CASE tagging = "none" /\ kind # "asset"
  BY <1>3 DEF TagOf
<1>4. CASE kind \in {"served", "plain"} /\ tagging \in {"strong", "weak"}
  BY <1>4 DEF TagOf
<1> QED
  BY <1>1, <1>2, <1>3, <1>4, TaggingTells

(* What a tag of a resource can be.                                        *)
LEMMA TagKinds ==
    ASSUME Typed, NEW tag \in Tags
    PROVE  /\ tag.names = NoTag.names => tag = NoTag
           /\ Strong(tag) => \/ kind = "asset"
                             \/ kind \in {"served", "plain"} /\ tagging = "strong"
<1>1. CASE tag = NoTag
  BY <1>1 DEF Strong
<1>2. ASSUME NEW v, NEW c, tag = TagOf(v, c) PROVE
           /\ tag.names = NoTag.names => tag = NoTag
           /\ Strong(tag) => \/ kind = "asset"
                             \/ kind \in {"served", "plain"} /\ tagging = "strong"
  <2>1. CASE kind = "asset"
    BY <1>2, <2>1 DEF TagOf, NoTag
  <2>2. CASE kind = "directory" /\ tagging = "own"
    BY <1>2, <2>2 DEF TagOf, NoTag, Strong
  <2>3. CASE kind \in {"served", "plain"} /\ tagging = "strong"
    BY <1>2, <2>3 DEF TagOf, NoTag
  <2>4. CASE kind \in {"served", "plain"} /\ tagging = "weak"
    BY <1>2, <2>4 DEF TagOf, NoTag, Strong
  <2>5. CASE kind # "asset" /\ tagging = "none"
    BY <1>2, <2>5 DEF TagOf, Strong
  <2> QED
    BY <2>1, <2>2, <2>3, <2>4, <2>5, TaggingTells
<1> QED
  BY <1>1, <1>2 DEF Tags

(* Versions are numbered from the first one on.                            *)
LEMMA VersionsAreNat == Version \subseteq Nat /\ 1 \in Version
<1>1. Len(Versions) \in Nat \ {0}
  BY VersionAssumption, LenProperties
<1> QED
  BY <1>1 DEF Version

(* The tag of a representation is a tag.                                   *)
LEMMA TagIsTag == \A v \in Version, c \in Coding : TagOf(v, c) \in Tags
  BY DEF Tags

-----------------------------------------------------------------------------
(* Answers.                                                                *)

Specs == [suffix : Nat, first : Int, last : Int]
Reqs == [method : {"GET", "HEAD", "POST"}, accept : Coding, range : Seq(Specs),
         ifRange : {No, Held, Dated}, ifMatch : {No, Held}, ifNoneMatch : {No, Held, Any},
         since : {No, Held}, unmodifiedSince : {No, Held}]

(* What an answer to req says of the resource and the client's copy.       *)
Good(answer, req) ==
    /\ answer \in Heads
    /\ answer.status \in {200, 206} =>
         /\ answer.version = current /\ answer.first >= 0
         /\ answer.tag = TagOf(answer.version, answer.coding)
         /\ Strong(answer.tag) /\ kind # "asset" => answer.coding = "identity"
    /\ answer.status = 206 =>
         /\ req.ifRange = Held => StrongMatch(copy.tag, answer.tag)
         /\ req.ifMatch = Held => StrongMatch(copy.tag, answer.tag)
    /\ answer.status = 304 /\ req.ifNoneMatch = Held =>
         /\ answer.version = current /\ answer.tag = TagOf(answer.version, answer.coding)
         /\ WeakMatch(copy.tag, answer.tag)

(* A representation before anything is decided about it.                   *)
Rep(rep, c) ==
    /\ rep \in Heads /\ rep.version = current /\ rep.coding = c /\ rep.tag = TagOf(current, c)
    /\ rep.status = 0

(* Representation is one of the current version.                           *)
LEMMA RepresentationIs ==
    ASSUME Typed, NEW c \in Coding PROVE Rep(Representation(current, c), c)
<1>1. TagOf(current, c) \in Tags /\ NoTag \in Tags
  BY TagIsTag DEF Typed, Tags
<1>2. current \in Version /\ current \in Nat
  BY VersionsAreNat DEF Typed
<1>3. Length[current][c] \in Nat /\ Modified[current] \in Nat
  <2>1. Length \in [Version -> [Coding -> Nat]]
    BY VersionAssumption DEF Version
  <2>2. Modified \in [Version -> Nat]
    BY VersionAssumption DEF Version
  <2>3. Length[current] \in [Coding -> Nat]
    BY <1>2, <2>1
  <2> QED
    BY <1>2, <2>2, <2>3
<1> HIDE DEF NoTag
<1> QED
  BY <1>1, <1>2, <1>3 DEF Rep, Representation, NoAnswer, Heads, Coding

(* The status and the part of an answer are put into its head.             *)
Cast(rep, s, f, l) == [rep EXCEPT !.status = s, !.first = f, !.last = l]

(* Putting them there changes nothing else.                                *)
LEMMA CastIs ==
    ASSUME NEW rep \in Heads, NEW s \in Nat, NEW f \in Int, NEW l \in Int
    PROVE  /\ Cast(rep, s, f, l) \in Heads
           /\ Cast(rep, s, f, l).status = s /\ Cast(rep, s, f, l).first = f
           /\ Cast(rep, s, f, l).last = l
           /\ Cast(rep, s, f, l).version = rep.version /\ Cast(rep, s, f, l).coding = rep.coding
           /\ Cast(rep, s, f, l).tag = rep.tag
<1> DEFINE a == [rep EXCEPT !.status = s]
           b == [a EXCEPT !.first = f]
           d == [b EXCEPT !.last = l]
<1>1. a \in Heads /\ a.status = s /\ a.version = rep.version /\ a.coding = rep.coding
        /\ a.tag = rep.tag
  BY DEF Heads
<1>2. b \in Heads /\ b.status = s /\ b.version = rep.version /\ b.coding = rep.coding
        /\ b.tag = rep.tag /\ b.first = f
  <2> HIDE DEF a
  <2> QED
    BY <1>1 DEF Heads
<1>3. d \in Heads /\ d.status = s /\ d.version = rep.version /\ d.coding = rep.coding
        /\ d.tag = rep.tag /\ d.first = f /\ d.last = l
  <2> HIDE DEF b
  <2> QED
    BY <1>2 DEF Heads
<1>4. Cast(rep, s, f, l) = d
  BY Zenon DEF Cast
<1> HIDE DEF d
<1> QED
  BY <1>3, <1>4

(* The whole of a representation, under the status 200.                    *)
LEMMA WholeIs ==
    ASSUME Typed, NEW c \in Coding, NEW rep, Rep(rep, c)
    PROVE  /\ Whole(rep) \in Heads /\ Whole(rep).status = 200 /\ Whole(rep).first = 0
           /\ Whole(rep).version = current /\ Whole(rep).coding = c
           /\ Whole(rep).tag = TagOf(current, c)
<1>1. Whole(rep) = Cast(rep, 200, 0, rep.length - 1)
  BY Zenon DEF Whole, Cast
<1>2. rep \in Heads /\ rep.length - 1 \in Int
  BY DEF Rep, Heads
<1> QED
  BY <1>1, <1>2, CastIs DEF Rep

(* Of the ranges that can be satisfied there is a first one.               *)
LEMMA HasLeast ==
    ASSUME NEW T, T \subseteq Nat, T # {}
    PROVE  \E x \in T : \A y \in T : x <= y
<1> DEFINE R == {ss \in Nat \X Nat : ss[1] < ss[2]}
<1>1. IsWellFoundedOn(R, Nat)
  BY NatLessThanWellFounded, Zenon DEF OpToRel
<1>2. \A x, y \in Nat : <<y, x>> \notin R => x <= y
  OBVIOUS
<1>3. \E x \in T : \A y \in T : ~(<<y, x>> \in R)
  <2> HIDE DEF R
  <2> QED
    BY <1>1, WFMin, Zenon
<1> HIDE DEF R
<1>4. PICK x \in T : \A y \in T : <<y, x>> \notin R
  BY <1>3
<1>5. \A y \in T : x <= y
  BY <1>2, <1>4
<1> QED
  BY <1>5

(* The part a satisfiable spec stands for.                                 *)
LEMMA ResolvesInside ==
    ASSUME NEW spec \in Specs, NEW length \in Nat, Satisfiable(spec, length)
    PROVE  /\ ResolveOne(spec, length)[1] \in Nat
           /\ ResolveOne(spec, length)[2] \in Int
  BY DEF Specs, Satisfiable, ResolveOne, AtMost

(* select resolves the first spec that can be satisfied.                   *)
LEMMA SelectGood ==
    ASSUME Typed, NEW req \in Reqs, NEW c \in Coding, NEW rep, Rep(rep, c),
           kind # "asset" => c = "identity",
           req.ifMatch = Held => StrongMatch(copy.tag, rep.tag)
    PROVE  Good(Select(req, rep), req)
<1> DEFINE some == {i \in DOMAIN req.range : Satisfiable(req.range[i], rep.length)}
           first == CHOOSE i \in some : \A j \in some : i <= j
           part == ResolveOne(req.range[first], rep.length)
<1>1. CASE ~Applies(req, rep)
  <2>1. Select(req, rep) = Whole(rep)
    BY <1>1 DEF Select
  <2> QED
    BY <2>1, WholeIs DEF Good
<1>2. CASE Applies(req, rep) /\ some = {}
  <2>1. Select(req, rep) = [rep EXCEPT !.status = 416]
    BY <1>2 DEF Select
  <2> QED
    BY <2>1 DEF Good, Rep, Heads
<1>3. CASE Applies(req, rep) /\ some # {}
  <2>1. Select(req, rep) = [rep EXCEPT !.status = 206, !.first = part[1], !.last = part[2]]
    BY <1>3 DEF Select
  <2>2. req.range \in Seq(Specs) /\ rep.length \in Nat
    BY DEF Reqs, Rep, Heads
  <2>3. some \subseteq Nat
    BY <2>2, LenProperties
  <2>4. first \in some
    <3> HIDE DEF some
    <3>1. \E i \in some : \A j \in some : i <= j
      BY <1>3, <2>3, HasLeast
    <3> QED
      BY <3>1
  <2>5. first \in 1..Len(req.range) /\ Satisfiable(req.range[first], rep.length)
    <3> HIDE DEF first
    <3> QED
      BY <2>2, <2>4, LenProperties
  <2>6. req.range[first] \in Specs
    <3> HIDE DEF first
    <3> QED
      BY <2>2, <2>5, ElementOfSeq
  <2>7. part[1] \in Nat /\ part[2] \in Int
    <3> HIDE DEF first
    <3> QED
      BY <2>2, <2>5, <2>6, ResolvesInside
  <2>8. req.ifRange = Held => StrongMatch(copy.tag, rep.tag)
    BY <1>3 DEF Applies, Holds, No, Held
  <2> HIDE DEF part
  <2>9. Select(req, rep) = Cast(rep, 206, part[1], part[2])
    BY <2>1, Zenon DEF Cast
  <2>10. /\ Select(req, rep) \in Heads
         /\ Select(req, rep).status = 206 /\ Select(req, rep).first >= 0
         /\ Select(req, rep).version = current /\ Select(req, rep).coding = c
         /\ Select(req, rep).tag = rep.tag
    BY <2>7, <2>9, CastIs DEF Rep
  <2> QED
    BY <2>8, <2>10 DEF Good, Rep
<1> QED
  BY <1>1, <1>2, <1>3

(* A change of the status alone.                                           *)
LEMMA StatusIs ==
    ASSUME NEW rep \in Heads, NEW s \in Nat
    PROVE  /\ [rep EXCEPT !.status = s] \in Heads /\ [rep EXCEPT !.status = s].status = s
           /\ [rep EXCEPT !.status = s].version = rep.version
           /\ [rep EXCEPT !.status = s].coding = rep.coding
           /\ [rep EXCEPT !.status = s].tag = rep.tag
  BY DEF Heads

(* Preconditions first, then the range.                                    *)
LEMMA DeliveredGood ==
    ASSUME Typed, NEW req \in Reqs PROVE Good(Delivered(req), req)
<1> DEFINE c == Choose(req.accept)
           rep == Representation(current, c)
           st == IF Validated(req.method) THEN 304 ELSE 412
<1>1. c \in Coding /\ (kind # "asset" => c = "identity")
  BY DEF Choose, Reqs, Coding
<1> HIDE DEF c
<1>2. Rep(rep, c)
  BY <1>1, RepresentationIs
<1>3. /\ PreconditionFailed(req, rep) => Delivered(req) = [rep EXCEPT !.status = 412]
      /\ ~PreconditionFailed(req, rep) /\ Unmodified(req, rep) =>
           Delivered(req) = [rep EXCEPT !.status = st]
      /\ ~PreconditionFailed(req, rep) /\ ~Unmodified(req, rep) =>
           Delivered(req) = Select(req, rep)
  BY Zenon DEF Delivered, c
<1> HIDE DEF rep
<1>4. rep \in Heads /\ rep.version = current /\ rep.coding = c /\ rep.tag = TagOf(current, c)
  BY <1>2 DEF Rep
<1>5. CASE PreconditionFailed(req, rep)
  <2>1. Delivered(req) = [rep EXCEPT !.status = 412]
    BY <1>3, <1>5
  <2>2. Delivered(req) \in Heads /\ Delivered(req).status = 412
    BY <1>4, <2>1, StatusIs
  <2> QED
    BY <2>2 DEF Good
<1>6. CASE ~PreconditionFailed(req, rep) /\ Unmodified(req, rep)
  <2>1. st \in {304, 412}
    OBVIOUS
  <2>2. req.ifNoneMatch = Held => WeakMatch(copy.tag, rep.tag)
    BY <1>6 DEF Unmodified, Names, Held, No, Any
  <2>3. Delivered(req) = [rep EXCEPT !.status = st]
    BY <1>3, <1>6
  <2> HIDE DEF st
  <2>4. /\ Delivered(req) \in Heads /\ Delivered(req).status = st
        /\ Delivered(req).version = current /\ Delivered(req).coding = c
        /\ Delivered(req).tag = rep.tag
    BY <1>4, <2>1, <2>3, StatusIs
  <2> QED
    BY <1>4, <2>1, <2>2, <2>4 DEF Good
<1>7. CASE ~PreconditionFailed(req, rep) /\ ~Unmodified(req, rep)
  <2>1. req.ifMatch = Held => StrongMatch(copy.tag, rep.tag)
    BY <1>7 DEF PreconditionFailed, MatchesStrongly, Held, No, Any
  <2> QED
    BY <1>1, <1>2, <1>3, <1>7, <2>1, SelectGood
<1> QED
  BY <1>5, <1>6, <1>7

(* Compression codes what has no strong tag.                               *)
LEMMA PlainGood ==
    ASSUME Typed, NEW req \in Reqs, kind = "plain" PROVE Good(Plain(req), req)
<1> DEFINE base == Representation(current, "identity")
           coded == Representation(current, "br")
           rep == Whole(base)
           conditioned == IF Validated(req.method) /\ Matched(req, rep)
                          THEN [rep EXCEPT !.status = 304] ELSE rep
           small == LeftAlone(req, conditioned) \/ rep.length = 0
<1>1. Rep(base, "identity") /\ Rep(coded, "br")
  BY RepresentationIs DEF Coding
<1>2. TagOf(current, "br") = TagOf(current, "identity")
  BY DEF TagOf
<1>3. Plain(req) = IF small THEN conditioned ELSE [Whole(coded) EXCEPT !.tag = rep.tag]
  BY Zenon DEF Plain
<1> HIDE DEF base, coded
<1>4. /\ rep \in Heads /\ rep.status = 200 /\ rep.first = 0 /\ rep.version = current
      /\ rep.coding = "identity" /\ rep.tag = TagOf(current, "identity")
      /\ Whole(coded) \in Heads /\ Whole(coded).status = 200 /\ Whole(coded).first = 0
      /\ Whole(coded).version = current /\ Whole(coded).coding = "br"
  BY <1>1, WholeIs DEF Coding
<1> HIDE DEF rep
<1>5. Matched(req, rep) /\ req.ifNoneMatch = Held => WeakMatch(copy.tag, rep.tag)
  BY DEF Matched, Names, Held, Any
<1>6. /\ conditioned \in Heads /\ conditioned.status \in {200, 304}
      /\ conditioned.version = current /\ conditioned.coding = "identity"
      /\ conditioned.tag = rep.tag
      /\ conditioned.status = 200 => conditioned = rep
      /\ conditioned.status = 304 => Matched(req, rep)
  <2>1. CASE Validated(req.method) /\ Matched(req, rep)
    BY <1>4, <2>1, StatusIs
  <2>2. CASE ~(Validated(req.method) /\ Matched(req, rep))
    BY <1>4, <2>2
  <2> QED
    BY <2>1, <2>2
<1>7. CASE small
  <2>1. Plain(req) = conditioned
    BY <1>3, <1>7
  <2> HIDE DEF conditioned
  <2> QED
    BY <1>4, <1>5, <1>6, <2>1 DEF Good
<1>8. CASE ~small
  <2>1. conditioned.status = 200 /\ ~StronglyTagged(conditioned)
    BY <1>8 DEF LeftAlone
  <2>2. ~Strong(rep.tag)
    BY <1>6, <2>1 DEF StronglyTagged, Strong
  <2>3. Plain(req) = [Whole(coded) EXCEPT !.tag = rep.tag]
    BY <1>3, <1>8
  <2>4. /\ Plain(req) \in Heads /\ Plain(req).status = 200 /\ Plain(req).first = 0
        /\ Plain(req).version = current /\ Plain(req).coding = "br"
        /\ Plain(req).tag = rep.tag
    <3>1. rep.tag \in Tags
      BY <1>4 DEF Heads
    <3> QED
      BY <1>4, <2>3, <3>1 DEF Heads
  <2> QED
    BY <1>2, <1>4, <2>2, <2>4 DEF Good
<1> QED
  BY <1>7, <1>8

(* Every answer is good, the failure of a source too.                      *)
LEMMA AnswersGood ==
    ASSUME Typed, NEW req \in Reqs, NEW answer \in Answers(req) PROVE Good(answer, req)
<1>1. CASE kind = "plain"
  BY <1>1, PlainGood DEF Answers
<1>2. CASE kind # "plain" /\ answer = Delivered(req)
  BY <1>2, DeliveredGood
<1>3. CASE answer = [NoAnswer EXCEPT !.status = 500]
  <2>1. NoAnswer \in Heads
    <3>1. NoTag \in Tags
      BY DEF Tags
    <3> HIDE DEF NoTag
    <3> QED
      BY <3>1 DEF NoAnswer, Heads, Coding
  <2> HIDE DEF NoAnswer
  <2>2. answer \in Heads /\ answer.status = 500
    BY <1>3, <2>1, StatusIs
  <2> QED
    BY <2>2 DEF Good
<1> QED
  BY <1>1, <1>2, <1>3 DEF Answers

(* What the client sends are requests.                                     *)
LEMMA NoRequestIs == NoRequest \in Reqs
<1>1. <<>> \in Seq(Specs)
  BY EmptySeq
<1> QED
  BY <1>1 DEF NoRequest, Reqs, Coding, No, Held, Any

(* What a client that fetches sends is a request.                          *)
LEMMA FetchSends ==
    ASSUME NEW accept \in Coding, NEW range \in OtherRanges
    PROVE  [NoRequest EXCEPT !.accept = accept, !.range = range] \in Reqs
<1> DEFINE a == [NoRequest EXCEPT !.accept = accept]
           b == [a EXCEPT !.range = range]
<1>1. a \in Reqs
  <2> HIDE DEF NoRequest
  <2> QED
    BY NoRequestIs DEF Reqs
<1>2. range \in Seq(Specs)
  BY RangesAssumption DEF Specs
<1>3. b \in Reqs
  <2> HIDE DEF a
  <2> QED
    BY <1>1, <1>2 DEF Reqs
<1>4. [NoRequest EXCEPT !.accept = accept, !.range = range] = b
  BY Zenon
<1> HIDE DEF b
<1> QED
  BY <1>3, <1>4

(* What a client that resumes sends is one.                                *)
LEMMA ResumeSends ==
    ASSUME Typed, NEW accept \in Coding, NEW x \in {No, Held, Dated}, NEW y \in {No, Held},
           NEW z \in {No, Held}
    PROVE  [NoRequest EXCEPT !.accept = accept, !.range = Rest, !.ifRange = x, !.ifMatch = y,
                             !.unmodifiedSince = z] \in Reqs
<1> DEFINE a == [NoRequest EXCEPT !.accept = accept]
           b == [a EXCEPT !.range = Rest]
           c == [b EXCEPT !.ifRange = x]
           d == [c EXCEPT !.ifMatch = y]
           e == [d EXCEPT !.unmodifiedSince = z]
<1>1. a \in Reqs
  <2> HIDE DEF NoRequest
  <2> QED
    BY NoRequestIs DEF Reqs
<1>2. Rest \in Seq(Specs)
  <2>1. Len(copy.octets) \in Int
    BY LenProperties DEF Typed, Copies
  <2>2. Offsets(Len(copy.octets), -1) \in Specs
    BY <2>1 DEF Offsets, Specs
  <2> QED
    BY <2>2 DEF Rest
<1>3. b \in Reqs
  <2> HIDE DEF a
  <2> QED
    BY <1>1, <1>2 DEF Reqs
<1>4. c \in Reqs
  <2> HIDE DEF b
  <2> QED
    BY <1>3 DEF Reqs
<1>5. d \in Reqs
  <2> HIDE DEF c
  <2> QED
    BY <1>4 DEF Reqs
<1>6. e \in Reqs
  <2> HIDE DEF d
  <2> QED
    BY <1>5 DEF Reqs
<1>7. [NoRequest EXCEPT !.accept = accept, !.range = Rest, !.ifRange = x, !.ifMatch = y,
                        !.unmodifiedSince = z] = e
  BY Zenon
<1> HIDE DEF e
<1> QED
  BY <1>6, <1>7

(* What a client that revalidates sends is one.                            *)
LEMMA RevalidateSends ==
    ASSUME NEW accept \in Coding, NEW method \in {"GET", "HEAD", "POST"},
           NEW none \in {No, Held, Any}, NEW since \in {No, Held}
    PROVE  [NoRequest EXCEPT !.accept = accept, !.method = method, !.ifNoneMatch = none,
                             !.since = since] \in Reqs
<1> DEFINE a == [NoRequest EXCEPT !.accept = accept]
           b == [a EXCEPT !.method = method]
           c == [b EXCEPT !.ifNoneMatch = none]
           d == [c EXCEPT !.since = since]
<1>1. a \in Reqs
  <2> HIDE DEF NoRequest
  <2> QED
    BY NoRequestIs DEF Reqs
<1>2. b \in Reqs
  <2> HIDE DEF a
  <2> QED
    BY <1>1 DEF Reqs
<1>3. c \in Reqs
  <2> HIDE DEF b
  <2> QED
    BY <1>2 DEF Reqs
<1>4. d \in Reqs
  <2> HIDE DEF c
  <2> QED
    BY <1>3 DEF Reqs
<1>5. [NoRequest EXCEPT !.accept = accept, !.method = method, !.ifNoneMatch = none,
                        !.since = since] = d
  BY Zenon
<1> HIDE DEF d
<1> QED
  BY <1>4, <1>5

(* Every request of the client is answered as Request says.                *)
Asks ==
    \E accept \in Coding :
       \/ \E range \in OtherRanges : Fetch(accept, range)
       \/ \E guard \in {"if-range", "if-range date", "if-match", "date", "nothing"} : Resume(accept, guard)
       \/ \E method \in {"GET", "HEAD", "POST"}, none \in {No, Held, Any}, since \in {No, Held} :
            Revalidate(accept, method, none, since)

(* So whatever a client asks is a request.                                 *)
LEMMA AsksARequest == ASSUME Typed, Asks PROVE \E req \in Reqs : Request(req)
<1>1. PICK accept \in Coding :
         \/ \E range \in OtherRanges : Fetch(accept, range)
         \/ \E guard \in {"if-range", "if-range date", "if-match", "date", "nothing"} : Resume(accept, guard)
         \/ \E method \in {"GET", "HEAD", "POST"}, none \in {No, Held, Any},
               since \in {No, Held} : Revalidate(accept, method, none, since)
  BY DEF Asks
<1>2. ASSUME NEW range \in OtherRanges, Fetch(accept, range)
      PROVE  \E req \in Reqs : Request(req)
  BY <1>2, FetchSends, Zenon DEF Fetch
<1>3. ASSUME NEW guard, Resume(accept, guard) PROVE \E req \in Reqs : Request(req)
  <2> DEFINE x == IF guard = "if-range" THEN Held
                  ELSE IF guard = "if-range date" THEN Dated ELSE No
             y == IF guard = "if-match" THEN Held ELSE No
             z == IF guard = "date" THEN Held ELSE No
             req == [NoRequest EXCEPT !.accept = accept, !.range = Rest, !.ifRange = x,
                                      !.ifMatch = y, !.unmodifiedSince = z]
  <2>1. Request(req)
    BY <1>3, Zenon DEF Resume
  <2>2. x \in {No, Held, Dated} /\ y \in {No, Held} /\ z \in {No, Held}
    BY Zenon
  <2>3. req \in Reqs
    <3> HIDE DEF x, y, z
    <3> QED
      BY <2>2, ResumeSends
  <2> HIDE DEF req
  <2> QED
    BY <2>1, <2>3, Zenon
<1>4. ASSUME NEW method \in {"GET", "HEAD", "POST"}, NEW none \in {No, Held, Any},
             NEW since \in {No, Held}, Revalidate(accept, method, none, since)
      PROVE  \E req \in Reqs : Request(req)
  BY <1>4, RevalidateSends, Zenon DEF Revalidate
<1> QED
  BY <1>1, <1>2, <1>3, <1>4, Zenon

-----------------------------------------------------------------------------
(* Steps.                                                                  *)

(* What fits goes on fitting as the resource changes.                      *)
LEMMA FitsStay ==
    ASSUME UNCHANGED <<kind, tagging>>, current \in Version, current' \in Version,
           current <= current', NEW tag, NEW o, Fits(tag, o)
    PROVE  Fits(tag, o)'
<1>1. TagOf(o.version, o.coding)' = TagOf(o.version, o.coding)
  BY TagsStay
<1>2. ASSUME Outdated(tag) PROVE Outdated(tag)'
  <2>1. PICK w \in Version : w < current /\ tag.names = <<"stat", Stat(w), "">>
    BY <1>2 DEF Outdated, Gone
  <2>2. w < current => w < current'
    BY VersionsAreNat
  <2> QED
    BY <1>2, <2>1, <2>2 DEF Outdated, Gone
<1> QED
  BY <1>1, <1>2 DEF Fits

(* What a client holds stays true of the resource as that moves on.        *)
LEMMA HoldingsStay ==
    ASSUME Typed, Holdings, UNCHANGED <<kind, tagging, copy, seen>>, current' \in Version,
           current <= current'
    PROVE  Holdings'
<1>1. current \in Version
  BY DEF Typed
<1>2. \A tag, o : Fits(tag, o) => Fits(tag, o)'
  BY <1>1, FitsStay
<1>3. Tags' = Tags
  BY TagsStay
<1> QED
  BY <1>2, <1>3 DEF Holdings

(* A 304 to a client that named its tag confirms its copy.                 *)
LEMMA MatchConfirms ==
    ASSUME Typed, Holdings, NEW answer, NEW req, Good(answer, req), answer.status = 304,
           req.ifNoneMatch = Held, NEW i \in 1..Len(copy.octets)
    PROVE  \/ copy.octets[i].version = answer.version
           \/ tagging = "weak" /\ Alike[copy.octets[i].version] = Alike[answer.version]
<1> DEFINE o == copy.octets[i]
<1>1. /\ answer.version = current /\ answer.tag = TagOf(current, answer.coding)
      /\ copy.tag # NoTag /\ answer.tag.names = copy.tag.names /\ copy.tag \in Tags
  BY DEF Good, WeakMatch, Typed, Copies
<1>2. copy.tag.names # NoTag.names
  BY <1>1, TagKinds
<1>3. copy.tag.names = TagOf(o.version, o.coding).names \/ Outdated(copy.tag)
  BY DEF Holdings, Fits
<1>4. ~Outdated(copy.tag)
  <2>0. \A w \in Version : w < current => w # current
    BY VersionsAreNat
  <2> SUFFICES ASSUME kind = "directory", NEW w \in Version, w < current,
                      copy.tag.names = <<"stat", Stat(w), "">>
               PROVE  FALSE
    BY DEF Outdated, Gone
  <2>1. TagOf(current, answer.coding).names = <<"stat", Stat(current), "">>
    BY <1>1, <1>2, TaggingTells DEF TagOf
  <2>2. <<"stat", Stat(current), "">> = <<"stat", Stat(w), "">>
    BY <1>1, <2>1
  <2>3. current = w
    BY <2>2, StatTells DEF Typed
  <2> QED
    BY <2>0, <2>3
<1> HIDE DEF o
<1>5. TagOf(o.version, o.coding).names = TagOf(current, answer.coding).names
  BY <1>1, <1>3, <1>4
<1>6. o.version \in Version /\ current \in Version
  <2>1. copy.octets \in Seq(Octets) /\ i \in 1..Len(copy.octets)
    BY DEF Typed, Copies
  <2>2. o \in Octets
    BY <2>1, ElementOfSeq DEF o
  <2> QED
    BY <2>2 DEF Octets, Typed
<1>7. \/ o.version = current
      \/ tagging = "weak" /\ Alike[o.version] = Alike[current]
  BY <1>1, <1>2, <1>3, <1>4, <1>5, <1>6, NamesTell
<1> QED
  BY <1>1, <1>7 DEF o

(* A request is answered.                                                  *)
LEMMA RequestKeeps == ASSUME DInv, NEW req \in Reqs, Request(req) PROVE DInv'
<1> USE DEF DInv
<1>1. PICK answer \in Answers(req) :
        LET opens == kind = "directory" /\ answer.status \in {200, 206}
        IN  /\ sent' = req /\ resp' = answer /\ got' = <<>>
            /\ handle' = current /\ live' = (kind = "directory") /\ raced' = {}
            /\ pc' = IF opens THEN "open" ELSE IF HasBody(req, answer) THEN "body" ELSE "answered"
  BY DEF Request
<1>2. UNCHANGED <<kind, tagging, current, copy, seen>>
  BY DEF Request
<1>3. Good(answer, req)
  BY AnswersGood
<1>4. Len(got') = 0 /\ got' \in Seq(Octets)
  BY <1>1, EmptySeq
<1>5. /\ resp' = answer /\ sent' = req /\ handle' = current /\ raced' = {}
      /\ pc' \in {"open", "body", "answered"}
      /\ pc' = "open" => kind = "directory" /\ answer.status \in {200, 206}
      /\ pc' = "body" => HasBody(req, answer)
  BY <1>1
<1>6. live' <=> kind = "directory"
  BY <1>1, Zenon
<1>7. pc' \in {"open", "body"} => answer.status \in {200, 206}
  BY <1>5 DEF HasBody
<1>8. /\ answer \in Heads
      /\ pc' \in {"open", "body"} =>
           /\ answer.version = current /\ answer.first >= 0
           /\ answer.tag = TagOf(answer.version, answer.coding)
           /\ Strong(answer.tag) /\ kind # "asset" => answer.coding = "identity"
           /\ answer.status = 206 /\ (req.ifRange = Held \/ req.ifMatch = Held) =>
                StrongMatch(copy.tag, answer.tag)
  BY <1>3, <1>7 DEF Good
<1>9. Typed'
  BY <1>2, <1>4, <1>5, <1>8, TagsStay DEF Typed, Sending
<1>10. Sourced'
  BY <1>2, <1>5, <1>6, <1>8, VersionAssumption DEF Sourced, Typed, Sending, Version
<1>11. Framed'
  <2>1. pc' = "body" => answer.last >= answer.first
    BY <1>5 DEF HasBody
  <2>2. answer.first \in Int /\ answer.last \in Int
    BY <1>8 DEF Heads
  <2> QED
    BY <1>4, <1>5, <1>8, <2>1, <2>2 DEF Framed, Sending
<1>12. Headed'
  <2>1. TagOf(resp.version, resp.coding)' = TagOf(answer.version, answer.coding)
    BY <1>2, <1>5 DEF TagOf
  <2> QED
    BY <1>2, <1>5, <1>8, <2>1 DEF Headed, Sending, Strong, StrongMatch, WeakMatch
<1>13. Holdings'
  BY <1>2, HoldingsStay DEF Typed, Version
<1>14. ConfirmedIsCurrent'
  <2>1. DOMAIN copy.octets = 1..Len(copy.octets)
    BY LenProperties DEF Typed, Copies
  <2> QED
    BY <1>2, <1>3, <1>5, <2>1, MatchConfirms DEF ConfirmedIsCurrent
<1> QED
  BY <1>9, <1>10, <1>11, <1>12, <1>13, <1>14

(* Steps that leave the head and the client alone.                         *)
LEMMA HeadStays ==
    ASSUME Typed, Headed, Holdings, ConfirmedIsCurrent,
           UNCHANGED <<kind, tagging, resp, sent, copy, seen>>,
           current' \in Version, current <= current',
           pc' \in Sending \cup {"open"} => pc \in Sending \cup {"open"}
    PROVE  Headed' /\ Holdings' /\ ConfirmedIsCurrent'
<1>1. TagOf(resp.version, resp.coding)' = TagOf(resp.version, resp.coding)
  BY DEF TagOf
<1>2. Headed'
  BY <1>1 DEF Headed, Strong, StrongMatch, WeakMatch, Sending
<1>3. ConfirmedIsCurrent'
  BY DEF ConfirmedIsCurrent
<1> QED
  BY <1>2, <1>3, HoldingsStay

(* A file is opened.                                                       *)
LEMMA OpenKeeps == ASSUME DInv, Open PROVE DInv'
<1> USE DEF DInv
<1>1. /\ pc = "open" /\ handle' = current /\ pc' \in {"body", "answered"}
      /\ pc' = "body" => HasBody(sent, resp)
      /\ UNCHANGED <<kind, tagging, current, sent, resp, got, copy, seen, raced>>
  BY DEF Open
<1>2. live' /\ kind = "directory"
  BY <1>1, Zenon DEF Open, Sourced
<1>3. Typed'
  BY <1>1, TagsStay DEF Typed, Sending
<1>4. Sourced'
  BY <1>1, <1>2 DEF Sourced, Sending
<1>5. Framed'
  <2>1. Len(got) = 0
    BY <1>1 DEF Framed, Sending
  <2>2. pc' = "body" => resp.last >= resp.first /\ resp.first >= 0
    BY <1>1 DEF HasBody, Headed
  <2>3. resp.first \in Int /\ resp.last \in Int
    BY DEF Typed, Heads
  <2> QED
    BY <1>1, <2>1, <2>2, <2>3 DEF Framed, Sending
<1>6. current <= current' /\ current' \in Version
  BY <1>1, VersionsAreNat DEF Typed
<1> QED
  BY <1>1, <1>3, <1>4, <1>5, <1>6, HeadStays DEF Sending

(* A file is gone by the time it is opened.                                *)
LEMMA OpenFailsKeeps == ASSUME DInv, OpenFails PROVE DInv'
<1> USE DEF DInv
<1>1. /\ pc = "open" /\ pc' = "answered" /\ resp' = [resp EXCEPT !.status = 404]
      /\ UNCHANGED <<kind, tagging, current, handle, sent, got, copy, seen, raced>>
  BY DEF OpenFails
<1>2. live' = live
  BY DEF OpenFails
<1>3. resp' \in Heads /\ resp'.status = 404
  <2>1. resp \in Heads
    BY DEF Typed
  <2>2. /\ [resp EXCEPT !.status = 404] \in Heads
        /\ [resp EXCEPT !.status = 404].status = 404
    BY <2>1, StatusIs
  <2>3. resp' \in Heads
    BY <1>1, <2>2, TagsStay, Zenon
  <2> QED
    BY <1>1, <2>2, <2>3, Zenon
<1>4. Typed'
  BY <1>1, <1>3, TagsStay DEF Typed
<1>5. Sourced'
  BY <1>1, <1>2 DEF Sourced, Sending
<1>6. Framed'
  <2>1. Len(got) = 0
    BY <1>1 DEF Framed, Sending
  <2> QED
    BY <1>1, <2>1 DEF Framed, Sending
<1>7. Headed' /\ ConfirmedIsCurrent'
  BY <1>1, <1>3 DEF Headed, ConfirmedIsCurrent, Sending
<1>8. Holdings'
  BY <1>1, VersionsAreNat, HoldingsStay DEF Typed
<1> QED
  BY <1>4, <1>5, <1>6, <1>7, <1>8

(* What a read takes is of the source, in order, within the part.          *)
LEMMA ReadTakes ==
    ASSUME DInv, NEW k \in Given, Read(k)
    PROVE  \E n \in Nat :
             /\ Cursor + n <= resp.last + 1
             /\ got' \in Seq(Octets) /\ Len(got') = Len(got) + n
             /\ \A i \in 1..Len(got) : got'[i] = got[i]
             /\ \A i \in 1..n : got'[Len(got) + i] = Octet(handle, resp.coding, Cursor + i - 1)
<1> DEFINE room == SpanLast - Cursor + 1
           n == AtMost(k, room)
<1>1. /\ resp.first \in Int /\ resp.last \in Int /\ Len(got) \in Nat /\ got \in Seq(Octets)
      /\ resp.coding \in Coding /\ handle \in Version
  BY LenProperties, VersionsAreNat DEF DInv, Typed, Heads
<1>2. Cursor \in Int /\ Cursor <= resp.last
  BY <1>1 DEF Read, Exhausted, Cursor
<1>3. SpanLast \in Int /\ Cursor <= SpanLast /\ SpanLast <= resp.last
  BY <1>1, <1>2, SpanAssumption DEF SpanLast, AtMost
<1>4. k \in Nat
  <2> HIDE DEF SpanLast, Cursor
  <2> QED
    BY <1>2, <1>3 DEF Given
<1>5. n \in Nat /\ Cursor + n <= resp.last + 1
  BY <1>1, <1>2, <1>3, <1>4 DEF AtMost
<1>6. got' = got \o Take(n)
  BY DEF Read
<1> HIDE DEF n
<1>7. /\ Take(n) \in Seq(Octets) /\ Len(Take(n)) = n
      /\ \A i \in 1..n : Take(n)[i] = Octet(handle, resp.coding, Cursor + i - 1)
  <2>1. \A i \in 1..n : Octet(handle, resp.coding, Cursor + i - 1) \in Octets
    BY <1>1, <1>2, <1>5 DEF Octet, Octets
  <2>2. Take(n) = [i \in 1..n |-> Octet(handle, resp.coding, Cursor + i - 1)]
    BY Zenon DEF Take
  <2> HIDE DEF Octet, Take, Octets
  <2>3. Take(n) \in Seq(Octets)
    BY <1>5, <2>1, <2>2, IsASeq
  <2>4. DOMAIN Take(n) = 1..n
    BY <2>2
  <2>5. Len(Take(n)) = n
    BY <1>5, <2>3, <2>4, LenProperties
  <2> QED
    BY <2>2, <2>3, <2>5
<1>8. /\ got' \in Seq(Octets) /\ Len(got') = Len(got) + n
      /\ \A i \in 1..(Len(got) + n) :
            got'[i] = IF i <= Len(got) THEN got[i] ELSE Take(n)[i - Len(got)]
  BY <1>1, <1>6, <1>7, ConcatProperties
<1>9. \A i \in 1..Len(got) : got'[i] = got[i]
  BY <1>1, <1>5, <1>8
<1>10. \A i \in 1..n : got'[Len(got) + i] = Take(n)[i]
  BY <1>1, <1>5, <1>8
<1> QED
  BY <1>5, <1>7, <1>8, <1>9, <1>10

(* A read adds to the body, or fails it.                                   *)
LEMMA ReadKeeps == ASSUME DInv, NEW k \in Given, Read(k) PROVE DInv'
<1> USE DEF DInv
<1>1. /\ pc = "body" /\ pc' \in {"body", "failed"}
      /\ UNCHANGED <<kind, tagging, current, handle, sent, resp, copy, seen, raced>>
  BY DEF Read
<1>2. live' = live
  BY DEF Read
<1>3. PICK n \in Nat :
         /\ Cursor + n <= resp.last + 1
         /\ got' \in Seq(Octets) /\ Len(got') = Len(got) + n
         /\ \A i \in 1..Len(got) : got'[i] = got[i]
         /\ \A i \in 1..n : got'[Len(got) + i] = Octet(handle, resp.coding, Cursor + i - 1)
  BY ReadTakes
<1>4. Typed'
  BY <1>1, <1>3, TagsStay DEF Typed, Sending
<1>5. Sourced'
  BY <1>1, <1>2 DEF Sourced, Sending
<1>6. /\ resp.first \in Int /\ resp.last \in Int /\ Len(got) \in Nat
  BY LenProperties DEF Typed, Heads
<1>7. \A i \in 1..Len(got') :
        \/ i \in 1..Len(got) /\ got'[i] = got[i]
        \/ /\ i - Len(got) \in 1..n
           /\ got'[i] = Octet(handle, resp.coding, Cursor + (i - Len(got)) - 1)
  <2> TAKE i \in 1..Len(got')
  <2>1. CASE i <= Len(got)
    BY <1>3, <1>6, <2>1
  <2>2. CASE i > Len(got)
    <3>1. i - Len(got) \in 1..n /\ Len(got) + (i - Len(got)) = i
      BY <1>3, <1>6, <2>2
    <3> QED
      BY <1>3, <3>1
  <2> QED
    BY <1>3, <1>6, <2>1, <2>2
<1>8. ASSUME NEW i \in 1..Len(got')
      PROVE  /\ got'[i].coding = resp.coding /\ got'[i].at = resp.first + i - 1
             /\ "rewritten" \notin raced => got'[i].version = handle
             /\ raced = {} => got'[i].version = resp.version
  <2>1. CASE i \in 1..Len(got) /\ got'[i] = got[i]
    BY <1>1, <2>1 DEF Framed, Sending
  <2>2. CASE got'[i] = Octet(handle, resp.coding, Cursor + (i - Len(got)) - 1)
    <3>1. i \in Int
      BY <1>3, <1>6
    <3>2. Cursor + (i - Len(got)) - 1 = resp.first + i - 1
      BY <1>6, <3>1 DEF Cursor
    <3>3. raced = {} => handle = resp.version
      BY <1>1 DEF Sourced, Sending
    <3> QED
      BY <2>2, <3>2, <3>3 DEF Octet
  <2> QED
    BY <1>7, <2>1, <2>2
<1>9. Framed'
  <2>1. resp.first + Len(got') <= resp.last + 1
    BY <1>3, <1>6 DEF Cursor
  <2> QED
    BY <1>1, <1>8, <2>1 DEF Framed, Sending
<1>10. current <= current' /\ current' \in Version
  BY <1>1, VersionsAreNat DEF Typed
<1> QED
  BY <1>1, <1>4, <1>5, <1>9, <1>10, HeadStays DEF Sending

(* A body ends after its last octet, or fails anywhere.                    *)
LEMMA BodyStopsKeeps == ASSUME DInv, BodyEnds \/ BodyFails PROVE DInv'
<1> USE DEF DInv
<1>1. /\ pc = "body" /\ pc' \in {"ended", "failed"} /\ (pc' = "ended" => Exhausted)
      /\ UNCHANGED <<kind, tagging, current, handle, sent, resp, got, copy, seen, raced>>
  BY DEF BodyEnds, BodyFails
<1>2. live' = live
  BY DEF BodyEnds, BodyFails
<1>3. Typed'
  BY <1>1, TagsStay DEF Typed, Sending
<1>4. Sourced'
  BY <1>1, <1>2 DEF Sourced, Sending
<1>5. Framed'
  <2>1. resp.first \in Int /\ resp.last \in Int /\ Len(got) \in Nat
    BY LenProperties DEF Typed, Heads
  <2>2. resp.first + Len(got) <= resp.last + 1
    BY <1>1 DEF Framed, Sending
  <2>3. pc' = "ended" => resp.first + Len(got) = resp.last + 1
    BY <1>1, <2>1, <2>2 DEF Exhausted, Cursor
  <2> QED
    BY <1>1, <2>3 DEF Framed, Sending
<1>6. current <= current' /\ current' \in Version
  BY <1>1, VersionsAreNat DEF Typed
<1> QED
  BY <1>1, <1>3, <1>4, <1>5, <1>6, HeadStays DEF Sending

(* The resource changes, under whatever is being sent of it.               *)
LEMMA ChangeKeeps == ASSUME DInv, Replace \/ Rewrite PROVE DInv'
<1> USE DEF DInv
<1>1. /\ current' = current + 1 /\ current < Len(Versions)
      /\ UNCHANGED <<kind, tagging, pc, sent, resp, got, copy, seen>>
  BY DEF Replace, Rewrite
<1>2. current \in Nat /\ current' \in Version /\ current <= current' /\ handle' \in Version
  <2>1. Len(Versions) \in Nat /\ current \in 1..Len(Versions)
    BY VersionAssumption, LenProperties DEF Typed, Version
  <2>2. current' \in Version
    BY <1>1, <2>1 DEF Version
  <2>3. handle' \in {handle, current'}
    BY <1>1 DEF Replace, Rewrite
  <2> QED
    BY <1>1, <2>1, <2>2, <2>3 DEF Typed
<1>3. Typed'
  BY <1>1, <1>2, TagsStay DEF Typed
<1>4. /\ raced \subseteq raced'
      /\ kind # "directory" => (pc # "open" => raced' = raced)
      /\ handle' # handle => "rewritten" \in raced' \/ pc = "idle"
  <2>1. CASE Replace
    BY <2>1 DEF Replace
  <2>2. CASE Rewrite
    BY <2>2 DEF Rewrite
  <2> QED
    BY <2>1, <2>2
<1>5. raced' = {} => raced = {} /\ pc # "open"
  <2>1. raced' = {} => raced = {}
    BY <1>4
  <2>2. pc = "open" /\ raced = {} => live
    BY DEF Sourced
  <2> QED
    BY <2>1, <2>2 DEF Replace, Rewrite
<1>6. Sourced'
  <2>1. live' => kind' = "directory"
    BY <1>1, Zenon DEF Sourced, Replace, Rewrite
  <2>2. kind # "directory" => raced' = {} /\ pc # "open"
    BY <1>4 DEF Sourced
  <2>3. pc \in Sending /\ raced' = {} => handle' = resp.version
    BY <1>4, <1>5 DEF Sourced, Sending
  <2>4. pc \in Sending \cup {"open"} =>
           /\ resp.version \in Version /\ resp.version <= current' /\ resp.version < current'
    <3>1. \A v \in Version : v <= current => v <= current' /\ v < current'
      BY <1>1, <1>2, VersionsAreNat
    <3> QED
      BY <3>1 DEF Sourced
  <2> QED
    BY <1>1, <1>5, <2>1, <2>2, <2>3, <2>4 DEF Sourced
<1>7. Framed'
  <2>1. pc = "idle" => Len(got) = 0
    BY DEF Framed, Sending
  <2>2. "rewritten" \notin raced' => \A i \in 1..Len(got) : got[i].version = handle'
    BY <1>4, <2>1 DEF Framed
  <2> QED
    BY <1>1, <1>4, <1>5, <2>2 DEF Framed
<1> QED
  BY <1>1, <1>2, <1>3, <1>6, <1>7, HeadStays

(* The client is between requests.                                         *)
Idle == pc = "idle" /\ resp = NoAnswer /\ got = <<>> /\ handle = current /\ ~live /\ raced = {}

(* No answer is a head that no rule was applied to.                        *)
LEMMA NoAnswerIs == NoAnswer \in Heads /\ NoAnswer.status = 0
<1>1. NoTag \in Tags
  BY DEF Tags
<1> HIDE DEF NoTag
<1> QED
  BY <1>1 DEF NoAnswer, Heads, Coding

Resting ==
    /\ kind \in Kind /\ current \in Version /\ copy \in Copies /\ Holdings /\ Idle
    /\ tagging \in Tagging[kind]

(* Between requests the invariant is about the client's copy alone.        *)
LEMMA IdleIs == Resting => DInv
<1> SUFFICES ASSUME Resting PROVE DInv
  OBVIOUS
<1> USE DEF Resting
<1>1. Len(got) = 0 /\ got \in Seq(Octets)
  BY EmptySeq DEF Idle
<1>2. resp \in Heads /\ resp.status = 0
  BY NoAnswerIs DEF Idle
<1> HIDE DEF NoAnswer
<1>3. pc = "idle" /\ handle = current /\ raced = {} /\ ~live
  BY Zenon DEF Idle
<1>4. Typed
  BY <1>1, <1>2, <1>3 DEF Typed
<1>5. Sourced /\ Headed
  BY <1>3 DEF Sourced, Headed, Sending
<1>6. Framed /\ ConfirmedIsCurrent
  BY <1>1, <1>2, <1>3 DEF Framed, ConfirmedIsCurrent, Sending
<1> QED
  BY <1>4, <1>5, <1>6 DEF DInv

(* Octets may be held under the tag they are sent with.                    *)
LEMMA GotFits ==
    ASSUME DInv, pc \in Sending, NEW i \in 1..Len(got)
    PROVE  Fits(resp.tag, got[i])
<1> USE DEF DInv
<1>1. got[i].coding = resp.coding /\ (raced = {} => got[i].version = resp.version)
  BY DEF Framed
<1>2. /\ resp.tag = TagOf(resp.version, resp.coding)
      /\ Strong(resp.tag) /\ kind # "asset" => resp.coding = "identity"
  BY DEF Headed
<1>3. CASE raced = {}
  BY <1>1, <1>2, <1>3 DEF Fits
<1>4. CASE raced # {}
  <2>1. kind = "directory" /\ resp.version \in Version /\ resp.version < current
    BY <1>4 DEF Sourced
  <2>2. CASE tagging = "own"
    <3>1. \A v, c : TagOf(v, c).names = <<"stat", Stat(v), "">>
      BY <2>1, <2>2 DEF TagOf
    <3>2. resp.tag.names = <<"stat", Stat(resp.version), "">>
      BY <1>2, <3>1, Zenon
    <3>3. Outdated(resp.tag)
      BY <2>1, <3>2 DEF Outdated, Gone
    <3> QED
      BY <1>1, <1>2, <3>3 DEF Fits
  <2>3. CASE tagging = "none"
    <3>1. \A v, c : TagOf(v, c) = NoTag
      BY <2>1, <2>3 DEF TagOf
    <3>2. resp.tag.names = TagOf(got[i].version, got[i].coding).names
      BY <1>2, <3>1, Zenon
    <3> QED
      BY <1>1, <1>2, <3>2 DEF Fits
  <2> QED
    BY <2>1, <2>2, <2>3, TaggingTells
<1> QED
  BY <1>3, <1>4

(* A copy of one answer.                                                   *)
Holdable(c) ==
    /\ c \in Copies /\ (c.answers > 1 => Strong(c.tag))
    /\ \A i \in 1..Len(c.octets) : Fits(c.tag, c.octets[i]) /\ c.octets[i].at = i - 1

(* What a whole body, or its beginning, was received as is such a copy.    *)
LEMMA FreshHeld ==
    ASSUME DInv, (pc \in Sending /\ resp.first = 0) \/ pc = "answered"
    PROVE  Holdable(Fresh)
<1>1. Fresh \in Copies /\ Fresh.answers = 1 /\ Fresh.octets = got /\ Fresh.tag = resp.tag
  BY DEF DInv, Typed, Heads, Copies, Fresh
<1>2. pc = "answered" => Len(got) = 0
  BY DEF DInv, Framed, Sending
<1>3. ASSUME NEW i \in 1..Len(got) PROVE Fits(resp.tag, got[i]) /\ got[i].at = i - 1
  <2>1. pc \in Sending /\ resp.first = 0
    BY <1>2, LenProperties DEF DInv, Typed
  <2>2. i \in Int /\ got[i].at = 0 + i - 1
    BY <2>1, LenProperties DEF DInv, Typed, Framed
  <2> QED
    BY <2>1, <2>2, GotFits
<1> QED
  BY <1>1, <1>3 DEF Holdable

(* No copy is one of no answer.                                            *)
LEMMA NothingHeld == Holdable(Nothing)
<1>1. Nothing.octets = <<>> /\ Nothing.answers = 0
  BY DEF Nothing
<1>2. <<>> \in Seq(Octets) /\ Len(<<>>) = 0
  BY EmptySeq
<1>3. NoTag \in Tags
  BY DEF Tags
<1>4. Nothing \in Copies
  <2> HIDE DEF NoTag
  <2> QED
    BY <1>2, <1>3 DEF Nothing, Copies
<1> QED
  BY <1>1, <1>2, <1>4 DEF Holdable

(* A part is appended where a strong tag says it belongs.                  *)
LEMMA AppendHeld ==
    ASSUME DInv, pc \in Sending, resp.status = 206, Continues
    PROVE  Holdable([copy EXCEPT !.octets = @ \o got, !.answers = AtMost(@ + 1, 2)])
<1> DEFINE c == [copy EXCEPT !.octets = copy.octets \o got]
           d == [c EXCEPT !.answers = AtMost(copy.answers + 1, 2)]
<1> USE DEF DInv
<1>1. StrongMatch(copy.tag, resp.tag) \/ StrongMatch(resp.tag, copy.tag)
  BY DEF Continues, Headed
<1>2. Strong(copy.tag) /\ Strong(resp.tag) /\ copy.tag.names = resp.tag.names
  BY <1>1 DEF StrongMatch, WeakMatch, Strong
<1>3. \A o : Fits(resp.tag, o) => Fits(copy.tag, o)
  <2>1. Outdated(resp.tag) => Outdated(copy.tag)
    BY <1>2 DEF Outdated
  <2> QED
    BY <1>2, <2>1 DEF Fits
<1>4. /\ copy.octets \in Seq(Octets) /\ got \in Seq(Octets) /\ copy.answers \in Nat
      /\ copy \in Copies /\ Len(copy.octets) \in Nat /\ Len(got) \in Nat
      /\ resp.first = Len(copy.octets)
  BY LenProperties DEF Typed, Copies, Continues
<1>5. /\ copy.octets \o got \in Seq(Octets)
      /\ Len(copy.octets \o got) = Len(copy.octets) + Len(got)
      /\ \A i \in 1..(Len(copy.octets) + Len(got)) :
           (copy.octets \o got)[i] =
              IF i <= Len(copy.octets) THEN copy.octets[i] ELSE got[i - Len(copy.octets)]
  BY <1>4, ConcatProperties
<1>6. /\ c \in Copies /\ c.octets = copy.octets \o got /\ c.tag = copy.tag
  BY <1>4, <1>5 DEF Copies
<1>7. /\ d \in Copies /\ d.octets = copy.octets \o got /\ d.tag = copy.tag
  <2>1. AtMost(copy.answers + 1, 2) \in Nat
    BY <1>4 DEF AtMost
  <2> HIDE DEF c
  <2> QED
    BY <1>6, <2>1 DEF Copies
<1>8. [copy EXCEPT !.octets = @ \o got, !.answers = AtMost(@ + 1, 2)] = d
  <2>1. c.answers = copy.answers
    BY <1>4 DEF Copies
  <2> QED
    BY <2>1, Zenon
<1>9. ASSUME NEW i \in 1..(Len(copy.octets) + Len(got))
      PROVE  /\ Fits(copy.tag, (copy.octets \o got)[i])
             /\ (copy.octets \o got)[i].at = i - 1
  <2>1. CASE i <= Len(copy.octets)
    <3>1. i \in 1..Len(copy.octets) /\ (copy.octets \o got)[i] = copy.octets[i]
      BY <1>4, <1>5, <2>1
    <3> QED
      BY <3>1 DEF Holdings
  <2>2. CASE ~(i <= Len(copy.octets))
    <3> DEFINE j == i - Len(copy.octets)
    <3>1. j \in 1..Len(got) /\ (copy.octets \o got)[i] = got[j]
      BY <1>4, <1>5, <2>2
    <3>2. Fits(resp.tag, got[j]) /\ got[j].at = resp.first + j - 1
      BY <3>1, GotFits DEF Framed
    <3>3. resp.first + j - 1 = i - 1
      BY <1>4
    <3> QED
      BY <1>3, <3>1, <3>2, <3>3
  <2> QED
    BY <2>1, <2>2
<1> HIDE DEF d
<1> QED
  BY <1>2, <1>5, <1>7, <1>8, <1>9 DEF Holdable

(* What the client has received under strong tags, with this body.         *)
LEMMA SeenHeld ==
    ASSUME DInv, pc \in Sending, Receive, NEW s \in seen'
    PROVE  /\ s = <<s[1], s[2], s[3]>> /\ Strong(s[1]) /\ s[1] \in Tags
           /\ Fits(s[1], [version |-> s[2], coding |-> s[3], at |-> 0])
<1>1. CASE s \in seen
  BY <1>1 DEF DInv, Holdings
<1>2. CASE s \notin seen
  <2>1. DOMAIN got = 1..Len(got)
    BY LenProperties DEF DInv, Typed
  <2>2. PICK i \in 1..Len(got) :
           /\ s = <<resp.tag, got[i].version, got[i].coding>> /\ StronglyTagged(resp)
    <3>1. s \in {<<resp.tag, got[j].version, got[j].coding>> :
                    j \in IF StronglyTagged(resp) THEN DOMAIN got ELSE {}}
      BY <1>2 DEF Receive
    <3>2. PICK j \in IF StronglyTagged(resp) THEN DOMAIN got ELSE {} :
             s = <<resp.tag, got[j].version, got[j].coding>>
      BY <3>1
    <3>3. StronglyTagged(resp) /\ j \in 1..Len(got)
      BY <2>1, <3>2
    <3> QED
      BY <3>2, <3>3
  <2>3. s[1] = resp.tag /\ s[2] = got[i].version /\ s[3] = got[i].coding
    BY <2>2
  <2>4. Strong(resp.tag) /\ resp.tag \in Tags /\ Fits(resp.tag, got[i])
    BY <2>2, GotFits DEF StronglyTagged, Strong, DInv, Typed, Heads
  <2>5. Fits(resp.tag, [version |-> got[i].version, coding |-> got[i].coding, at |-> 0])
    BY <2>4 DEF Fits
  <2> QED
    BY <2>2, <2>3, <2>4, <2>5
<1> QED
  BY <1>1, <1>2

(* A body, or a head alone, is received.                                   *)
LEMMA ReceiveKeeps == ASSUME DInv, Receive \/ ReceiveHead PROVE DInv'
<1> USE DEF DInv
<1>1. /\ UNCHANGED <<kind, tagging, current>> /\ Idle'
  BY Zenon DEF Receive, ReceiveHead, Idle
<1>2. Holdable(copy)
  BY DEF Holdable, Typed, Holdings
<1>3. Holdable(copy')
  <2>1. CASE Receive
    <3>1. pc \in Sending /\ copy' = Kept
      BY <2>1 DEF Receive, Sending
    <3>2. Holdable(Kept)
      <4>1. CASE resp.status = 206 /\ Continues
        <5>1. Kept = [copy EXCEPT !.octets = @ \o got, !.answers = AtMost(@ + 1, 2)]
          BY <4>1, Zenon DEF Kept
        <5>2. Holdable([copy EXCEPT !.octets = @ \o got, !.answers = AtMost(@ + 1, 2)])
          BY <3>1, <4>1, AppendHeld
        <5> QED
          BY <5>1, <5>2, Zenon
      <4>2. CASE ~(resp.status = 206 /\ Continues) /\ resp.first = 0
        <5>1. Kept = Fresh
          BY <4>2, Zenon DEF Kept
        <5> QED
          BY <3>1, <4>2, <5>1, FreshHeld
      <4>3. CASE ~(resp.status = 206 /\ Continues) /\ resp.first # 0
        <5>1. Kept = Nothing
          BY <4>3, Zenon DEF Kept
        <5> QED
          BY <5>1, NothingHeld
      <4> QED
        BY <4>1, <4>2, <4>3
    <3> QED
      BY <3>1, <3>2, Zenon
  <2>2. CASE ReceiveHead
    <3>1. pc = "answered" /\ (copy' = Fresh \/ copy' = copy)
      BY <2>2, Zenon DEF ReceiveHead
    <3> QED
      BY <1>2, <3>1, FreshHeld, Zenon
  <2> QED
    BY <2>1, <2>2
<1>4. ASSUME NEW s \in seen'
      PROVE  /\ s = <<s[1], s[2], s[3]>> /\ Strong(s[1]) /\ s[1] \in Tags
             /\ Fits(s[1], [version |-> s[2], coding |-> s[3], at |-> 0])
  <2>1. CASE Receive
    BY <2>1, SeenHeld DEF Receive, Sending
  <2>2. CASE ReceiveHead
    BY <2>2 DEF ReceiveHead, Holdings
  <2> QED
    BY <2>1, <2>2
<1>5. current \in Version /\ current' = current /\ current <= current'
  BY <1>1, VersionsAreNat DEF Typed
<1>6. \A tag, o : Fits(tag, o) => Fits(tag, o)'
  BY <1>1, <1>5, FitsStay
<1>7. Tags' = Tags /\ Copies' = Copies
  BY <1>1, TagsStay
<1>8. Holdings'
  BY <1>3, <1>4, <1>6, <1>7 DEF Holdable, Holdings
<1>9. copy' \in Copies'
  BY <1>3, <1>7 DEF Holdable
<1>10. /\ kind' \in Kind /\ current' \in Version
       /\ tagging' \in Tagging[kind']
  BY <1>1 DEF Typed
<1>11. Resting'
  BY <1>1, <1>8, <1>9, <1>10 DEF Resting
<1>12. (Resting => DInv)'
  BY IdleIs, PTL
<1> QED
  BY <1>11, <1>12

(* Nothing was asked for yet.                                              *)
LEMMA InitD == Init => DInv
<1> SUFFICES ASSUME Init PROVE DInv
  OBVIOUS
<1>1. Idle /\ copy = Nothing /\ seen = {} /\ current = 1 /\ kind \in Kind
  BY KindAssumption, Zenon DEF Init, Idle
<1>2. Holdings /\ copy \in Copies
  BY <1>1, NothingHeld DEF Holdable, Holdings
<1>3. tagging \in Tagging[kind]
  BY DEF Init
<1> QED
  BY <1>1, <1>2, <1>3, VersionsAreNat, IdleIs DEF Resting

(* The invariant is inductive.                                             *)
LEMMA DInvStep == DInv /\ [Next]_vars => DInv'
<1> SUFFICES ASSUME DInv, [Next]_vars PROVE DInv'
  OBVIOUS
<1>1. CASE UNCHANGED vars
  <2>1. /\ UNCHANGED <<kind, tagging, resp, sent, copy, seen>>
        /\ UNCHANGED <<current, handle, pc, got, raced>>
    BY <1>1 DEF vars
  <2>2. live' = live
    BY <1>1 DEF vars
  <2>3. Typed' /\ Framed'
    BY <2>1, TagsStay DEF DInv, Typed, Framed
  <2>4. Sourced'
    BY <2>1, <2>2 DEF DInv, Sourced
  <2>5. current <= current' /\ current' \in Version
    BY <2>1, VersionsAreNat DEF DInv, Typed
  <2> QED
    BY <2>1, <2>3, <2>4, <2>5, HeadStays DEF DInv
<1>2. CASE Asks
  <2>1. \E req \in Reqs : Request(req)
    BY <1>2, AsksARequest DEF DInv
  <2> QED
    BY <2>1, RequestKeeps
<1>3. CASE \E k \in Given : Read(k)
  BY <1>3, ReadKeeps
<1>4. CASE Open \/ OpenFails \/ BodyEnds \/ BodyFails
  BY <1>4, OpenKeeps, OpenFailsKeeps, BodyStopsKeeps
<1>5. CASE Replace \/ Rewrite \/ Receive \/ ReceiveHead
  BY <1>5, ChangeKeeps, ReceiveKeeps
<1> QED
  BY <1>1, <1>2, <1>3, <1>4, <1>5, Zenon DEF Next, Asks

(* The inductive invariant of downloads: what an answer says of the        *)
(* resource, how much of it was sent, and what a client may hold.          *)
THEOREM DInvHolds == Spec => []DInv
  BY InitD, DInvStep, PTL DEF Spec

-----------------------------------------------------------------------------
(* All octets of a sequence are of one version and coding.                 *)
LEMMA OneOrigin ==
    ASSUME NEW s, NEW v, NEW c, \A i \in DOMAIN s : s[i].version = v /\ s[i].coding = c
    PROVE  Cardinality(Origins(s)) <= 1
<1>1. Origins(s) \subseteq {<<v, c>>}
  BY DEF Origins
<1>2. IsFiniteSet({<<v, c>>}) /\ Cardinality({<<v, c>>}) = 1
  BY FS_Singleton
<1>3. Cardinality(Origins(s)) <= Cardinality({<<v, c>>})
  BY <1>1, <1>2, FS_Subset
<1> QED
  BY <1>2, <1>3

(* Under one strong tag there is one version in one coding.                *)
LEMMA StrongTells ==
    ASSUME Typed, NEW tag \in Tags, Strong(tag), NEW o, NEW p, Fits(tag, o), Fits(tag, p)
    PROVE  o.version = p.version /\ o.coding = p.coding
<1>1. kind = "asset" \/ (kind \in {"served", "plain"} /\ tagging = "strong")
  BY TagKinds
<1>2. tag.names = TagOf(o.version, o.coding).names /\ tag.names = TagOf(p.version, p.coding).names
  BY <1>1 DEF Fits, Outdated, Gone
<1>3. tag.names # NoTag.names
  BY TagKinds DEF Strong
<1>4. tagging # "weak" /\ kind # "directory"
  BY <1>1, TaggingTells
<1>5. o.version = p.version /\ (kind = "asset" => o.coding = p.coding)
  <2>1. /\ TagOf(o.version, o.coding).names = TagOf(p.version, p.coding).names
        /\ TagOf(o.version, o.coding).names # NoTag.names
    BY <1>2, <1>3
  <2>2. \A v, w, c, d :
           TagOf(v, c).names = TagOf(w, d).names /\ TagOf(v, c).names # NoTag.names =>
              (v = w /\ (kind = "asset" => c = d)) \/ tagging = "weak"
    BY <1>4, NamesTell
  <2>3. (o.version = p.version /\ (kind = "asset" => o.coding = p.coding)) \/ tagging = "weak"
    BY <2>1, <2>2
  <2> QED
    BY <1>4, <2>3
<1>6. kind # "asset" => o.coding = "identity" /\ p.coding = "identity"
  BY DEF Fits
<1> QED
  BY <1>5, <1>6

(* A copy that was put together from parts is of one version and coding,   *)
(* whatever changed between them: only a strong tag ever joins two parts.  *)
THEOREM PartsBelongTogether == Spec => []NoSplicing
<1>1. DInv => NoSplicing
  <2> SUFFICES ASSUME DInv, copy.answers > 1
               PROVE  /\ Cardinality(Origins(copy.octets)) <= 1
                      /\ \A i \in DOMAIN copy.octets : copy.octets[i].at = i - 1
    BY DEF NoSplicing
  <2> USE DEF DInv
  <2>1. DOMAIN copy.octets = 1..Len(copy.octets) /\ copy.tag \in Tags
    BY LenProperties DEF Typed, Copies
  <2>2. \A i, j \in DOMAIN copy.octets :
           /\ copy.octets[i].version = copy.octets[j].version
           /\ copy.octets[i].coding = copy.octets[j].coding
    BY <2>1, StrongTells DEF Holdings
  <2>3. \E v, c : \A i \in DOMAIN copy.octets :
           copy.octets[i].version = v /\ copy.octets[i].coding = c
    <3>1. CASE DOMAIN copy.octets = {}
      BY <3>1
    <3>2. ASSUME NEW j \in DOMAIN copy.octets
          PROVE  \E v, c : \A i \in DOMAIN copy.octets :
                    copy.octets[i].version = v /\ copy.octets[i].coding = c
      <4>1. \A i \in DOMAIN copy.octets :
               /\ copy.octets[i].version = copy.octets[j].version
               /\ copy.octets[i].coding = copy.octets[j].coding
        BY <2>2
      <4> QED
        BY <4>1, Zenon
    <3> QED
      BY <3>1, <3>2
  <2> QED
    BY <2>1, <2>3, OneOrigin DEF Holdings
<1> QED
  BY <1>1, DInvHolds, PTL

(* A 304 to a client that named its tag confirms octets of the current     *)
(* version: a tag that octets were received under by a race names a        *)
(* version that never comes back.                                          *)
THEOREM ConfirmationsAreCurrent == Spec => []ConfirmedIsCurrent
<1>1. DInv => ConfirmedIsCurrent
  BY DEF DInv
<1> QED
  BY <1>1, DInvHolds, PTL

(* A body that ends has the octets its head announced, however the source  *)
(* cuts its reads.                                                         *)
THEOREM BodiesMatchTheirHeads == Spec => []DeliveredAsFramed
<1>1. DInv => DeliveredAsFramed
  <2> SUFFICES ASSUME DInv, pc = "ended"
               PROVE  /\ Len(got) = resp.last - resp.first + 1
                      /\ \A i \in DOMAIN got : got[i].at = resp.first + i - 1
    BY DEF DeliveredAsFramed
  <2>1. /\ DOMAIN got = 1..Len(got) /\ Len(got) \in Nat
        /\ resp.first \in Int /\ resp.last \in Int
    BY LenProperties DEF DInv, Typed, Heads
  <2>2. resp.first + Len(got) = resp.last + 1
    BY DEF DInv, Framed, Sending
  <2>3. \A i \in DOMAIN got : got[i].at = resp.first + i - 1
    BY <2>1 DEF DInv, Framed, Sending
  <2> QED
    BY <2>1, <2>2, <2>3
<1> QED
  BY <1>1, DInvHolds, PTL

(* A file renamed over while it is sent is sent as it was opened.          *)
THEOREM BodiesOfOneVersion == Spec => []BodyOfOneVersion
<1>1. DInv => BodyOfOneVersion
  <2> SUFFICES ASSUME DInv PROVE BodyOfOneVersion
    OBVIOUS
  <2>1. DOMAIN got = 1..Len(got)
    BY LenProperties DEF DInv, Typed
  <2>2. \A i \in 1..Len(got) : pc \in Sending
    BY <2>1 DEF DInv, Framed
  <2>3. \A i \in DOMAIN got : got[i].coding = resp.coding
    BY <2>1, <2>2 DEF DInv, Framed
  <2>4. "rewritten" \notin raced => Cardinality(Origins(got)) <= 1
    <3>1. "rewritten" \notin raced => \A i \in DOMAIN got : got[i].version = handle
      BY <2>1 DEF DInv, Framed
    <3> QED
      BY <2>3, <3>1, OneOrigin
  <2>5. raced = {} => \A i \in DOMAIN got : got[i].version = resp.version
    BY <2>1 DEF DInv, Framed
  <2> QED
    BY <2>4, <2>5 DEF BodyOfOneVersion
<1> QED
  BY <1>1, DInvHolds, PTL

(* All that is ever sent under a strong tag is of one version and coding.  *)
THEOREM StrongTagsNameOne == Spec => []OneTagOneRepresentation
<1>1. DInv => OneTagOneRepresentation
  <2> SUFFICES ASSUME DInv, NEW a \in seen, NEW b \in seen, a[1] = b[1] PROVE a = b
    BY DEF OneTagOneRepresentation
  <2> DEFINE o == [version |-> a[2], coding |-> a[3], at |-> 0]
             p == [version |-> b[2], coding |-> b[3], at |-> 0]
  <2>1. /\ a = <<a[1], a[2], a[3]>> /\ Strong(a[1]) /\ a[1] \in Tags /\ Fits(a[1], o)
        /\ b = <<b[1], b[2], b[3]>> /\ Fits(b[1], p)
    BY Zenon DEF DInv, Holdings
  <2>2. o.version = a[2] /\ o.coding = a[3] /\ p.version = b[2] /\ p.coding = b[3]
    OBVIOUS
  <2> HIDE DEF o, p
  <2>3. o.version = p.version /\ o.coding = p.coding
    <3>1. Fits(a[1], p)
      BY <2>1, Zenon
    <3> QED
      BY <2>1, <3>1, StrongTells DEF DInv
  <2>4. <<a[1], a[2], a[3]>> = <<b[1], b[2], b[3]>>
    BY <2>2, <2>3
  <2> QED
    BY <2>1, <2>4, Zenon
<1> QED
  BY <1>1, DInvHolds, PTL
=============================================================================
