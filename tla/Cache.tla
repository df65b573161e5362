-------------------------------- MODULE Cache --------------------------------
(***************************************************************************)
(* The Cache interceptor, its storing rules and its store:                 *)
(* crates/kynos/src/middleware/cache/{mod,freshness,store}.rs.             *)
(*                                                                         *)
(* Requests run concurrently and share the store, perhaps with other       *)
(* instances of the program, so every await of `intercept` is a step of    *)
(* its own: the lookup, the handler, each invalidation, the buffering of   *)
(* the body and the put.  A client that disconnects drops the future       *)
(* between any two of them.  The store is the application's and is taken   *)
(* by the contract CacheStore states.                                      *)
(*                                                                         *)
(* A target stands for the namespace, authority, route and request target  *)
(* of a PrimaryKey.  The handler is honest: what it answers depends on the *)
(* resource's version, on the fields its Vary lists and, when it answers   *)
(* cross-origin, on Origin.                                                *)
(***************************************************************************)
EXTENDS Integers, FiniteSets

CONSTANTS
    Requests,          \* requests, each served at most once
    Targets,           \* what a key names besides the method
    Fields, Values,    \* request fields a response may vary on, their values
    Asked,             \* the requests that clients send
    Answers,           \* the responses that handlers give
    Unstated,          \* a lifetime the response does not state
    Unreadable,        \* one it states unreadably, or twice
    DefaultFreshness,  \* default_freshness, or Unstated
    MaxTime            \* bound of the clock

Method == {"GET", "HEAD", "QUERY", "PUT"}
Lifetime == Nat \cup {Unstated, Unreadable}

RequestRecord ==
    [routed : BOOLEAN, method : Method, target : Targets,
     fields : [Fields -> Values], authorized : BOOLEAN, noCache : BOOLEAN,
     noStore : BOOLEAN]

AnswerRecord ==
    [status : {200, 201, 404, 500}, noStore : BOOLEAN,
     private : BOOLEAN, noCache : BOOLEAN, public : BOOLEAN,
     setCookie : BOOLEAN, crossOrigin : BOOLEAN, fits : BOOLEAN,
     vary : SUBSET (Fields \cup {"*"}), sMaxage : Lifetime, maxAge : Lifetime,
     expires : Lifetime]

ASSUME RequestAssumption == Asked \subseteq RequestRecord /\ Asked # {}
ASSUME AnswerAssumption == Answers \subseteq AnswerRecord
ASSUME LifetimeAssumption ==
    /\ Unstated \notin Nat /\ Unreadable \notin Nat /\ Unstated # Unreadable
    /\ DefaultFreshness \in Nat \cup {Unstated}
ASSUME BoundAssumption == MaxTime \in Nat /\ "origin" \in Fields /\ "*" \notin Fields

VARIABLES
    pc,       \* where each request stands in `intercept`
    asked,    \* what it asked
    secured,  \* whether the operations declare a security requirement now
    guarded,  \* whether they did when the request was routed
    found,    \* what store.get returned to it
    answer,   \* what its handler answered, and at which version
    store,    \* the stored responses
    version,  \* how often each target was written
    now,      \* the system clock
    hit,      \* history: the stored response a request was served
    dropped,  \* history: the keys a write has invalidated
    before    \* history: the writes answered when a request arrived

vars == <<pc, asked, secured, guarded, found, answer, store, version, now, hit,
          dropped, before>>

-----------------------------------------------------------------------------
(* What the rules decide.                                                  *)

Safe(a) == a.method \in {"GET", "HEAD", "QUERY"}
StorableMethod(a) == a.method \in {"GET", "HEAD"}
Storing(a) == a.routed /\ StorableMethod(a) /\ ~a.noStore

(* Mutant: one key for all the methods of a target.                        *)
KeyOfTarget(a) == [method |-> "GET", target |-> a.target]

PrimaryKey(a) == [method |-> a.method, target |-> a.target]

(* The statuses stand for their classes: 404 is among CACHEABLE and 201 is *)
(* not.                                                                    *)
Cacheable(s) == s.status \in {200, 404}
NonError(s) == s.status \in {200, 201}

Seconds(stated) == IF stated = Unreadable THEN 0 ELSE stated

(* Mutant: a lifetime that cannot be read is as good as none.              *)
FreshnessOrDefault(s) ==
    LET usable == {l \in {s.sMaxage, s.maxAge, s.expires} : l \in Nat}
    IN  IF usable # {} THEN CHOOSE l \in usable : TRUE ELSE DefaultFreshness

(* The first lifetime present decides; the default is for none stated.     *)
Freshness(s) ==
    IF s.sMaxage # Unstated THEN Seconds(s.sMaxage)
    ELSE IF s.maxAge # Unstated THEN Seconds(s.maxAge)
    ELSE IF s.expires # Unstated THEN Seconds(s.expires)
    ELSE DefaultFreshness

(* An s-maxage with an argument, readable or not, makes a response shared; *)
(* one without is left out here, since it is stale from the start.         *)
Shared(s) == s.public \/ s.sMaxage # Unstated

(* Mutant: only the Authorization field tells an authenticated request.    *)
StorableUnguarded(a, isGuarded, s) ==
    /\ Cacheable(s)
    /\ ~a.noStore
    /\ ~s.noStore /\ ~s.private /\ ~s.noCache
    /\ "*" \notin s.vary
    /\ ~s.setCookie
    /\ a.authorized => Shared(s)
    /\ Freshness(s) # Unstated

Storable(a, isGuarded, s) ==
    /\ Cacheable(s)
    /\ ~a.noStore
    /\ ~s.noStore /\ ~s.private /\ ~s.noCache
    /\ "*" \notin s.vary
    /\ ~s.setCookie
    /\ isGuarded \/ a.authorized => Shared(s)
    /\ Freshness(s) # Unstated

RefusesCrossOrigin(s) == s.crossOrigin /\ "origin" \notin s.vary

SelectedBy(e, a) == \A f \in e.said.vary : e.fields[f] = a.fields[f]
SameVariant(e, d) ==
    e.said.vary = d.said.vary /\ \A f \in e.said.vary : e.fields[f] = d.fields[f]

(* Zero when the clock was set back past the recording.                    *)
Age(e) == IF now < e.recordedAt THEN 0 ELSE now - e.recordedAt
IsFresh(e) == Age(e) < Freshness(e.said)

(* Mutant: what was stored may be served.                                  *)
ServableStored(e, r) == SelectedBy(e, asked[r]) /\ IsFresh(e)

Servable(e, r) ==
    /\ SelectedBy(e, asked[r])
    /\ guarded[r] => Shared(e.said)
    /\ IsFresh(e)

-----------------------------------------------------------------------------
NoAnswer == [version |-> 0]
NoHit == [none |-> TRUE]
PC == {"new", "get", "choose", "handle", "invalidateGet", "invalidateHead",
       "buffer", "put", "answered", "gone"}

Key == [method : Method, target : Targets]

(* A stored response; `after` is history: the writes that had invalidated  *)
(* its key when it was put.                                                *)
StoredResponse ==
    [key : Key, said : Answers, fields : [Fields -> Values], recordedAt : 0..MaxTime,
     version : Nat, personal : BOOLEAN, after : SUBSET Requests]

TypeOK ==
    /\ pc \in [Requests -> PC]
    /\ \A r \in Requests : pc[r] # "new" => asked[r] \in Asked
    /\ secured \in BOOLEAN /\ guarded \in [Requests -> BOOLEAN]
    /\ found \in [Requests -> SUBSET StoredResponse]
    /\ store \subseteq StoredResponse
    /\ \A e \in store : e.key.method \in {"GET", "HEAD"}
    /\ \A e, d \in store : e.key = d.key /\ SameVariant(e, d) => e = d
    /\ version \in [Targets -> Nat] /\ now \in 0..MaxTime
    /\ \A r \in Requests : hit[r] = NoHit \/ hit[r] \in StoredResponse
    /\ dropped \in [Requests -> SUBSET Key]
    /\ before \in [Requests -> SUBSET Requests]

Init ==
    /\ pc = [r \in Requests |-> "new"]
    /\ asked = [r \in Requests |-> CHOOSE a \in Asked : TRUE]
    /\ secured \in BOOLEAN /\ guarded = [r \in Requests |-> FALSE]
    /\ found = [r \in Requests |-> {}]
    /\ answer = [r \in Requests |-> NoAnswer]
    /\ store = {}
    /\ version = [t \in Targets |-> 0]
    /\ now = 0
    /\ hit = [r \in Requests |-> NoHit]
    /\ dropped = [r \in Requests |-> {}]
    /\ before = [r \in Requests |-> {}]

Goto(r, where) == pc' = [pc EXCEPT ![r] = where]

(* The write was answered, and successfully.                               *)
Written(w) ==
    /\ pc[w] = "answered" /\ asked[w].routed /\ ~Safe(asked[w])
    /\ NonError(answer[w].said)

(* A request reaches the interceptor, which reads the operation's guard    *)
(* and the request's directives.                                           *)
Arrive(r) ==
    /\ pc[r] = "new"
    /\ \E a \in Asked :
         /\ asked' = [asked EXCEPT ![r] = a]
         /\ Goto(r, IF a.routed /\ ~a.noCache THEN "get" ELSE "handle")
         /\ before' = [before EXCEPT ![r] =
              {w \in Requests : Written(w) /\ asked[w].target = a.target}]
    /\ guarded' = [guarded EXCEPT ![r] = secured]
    /\ UNCHANGED <<secured, found, answer, store, version, now, hit, dropped>>

(* store.get(&key): every variant of the key.                              *)
Get(r) ==
    /\ pc[r] = "get"
    /\ found' = [found EXCEPT ![r] = {e \in store : e.key = PrimaryKey(asked[r])}]
    /\ Goto(r, "choose")
    /\ UNCHANGED <<asked, secured, guarded, answer, store, version, now, hit,
                   dropped, before>>

(* The filters and the first match, in whatever order the store returned.  *)
Choose(r) ==
    /\ pc[r] = "choose"
    /\ LET hits == {e \in found[r] : Servable(e, r)}
       IN  \/ /\ hits # {}
              /\ \E e \in hits : hit' = [hit EXCEPT ![r] = e]
              /\ Goto(r, "answered")
           \/ /\ hits = {}
              /\ Goto(r, "handle") /\ UNCHANGED hit
    /\ found' = [found EXCEPT ![r] = {}]
    /\ UNCHANGED <<asked, secured, guarded, answer, store, version, now, dropped,
                   before>>

(* next.run: the handler reads or writes the resource, and answers.        *)
Handle(r) ==
    /\ pc[r] = "handle"
    /\ \E s \in Answers :
         LET a == asked[r]
             written == a.method = "PUT" /\ NonError(s)
             v == version[a.target] + IF written THEN 1 ELSE 0
         IN  /\ version' = [version EXCEPT ![a.target] = v]
             /\ answer' = [answer EXCEPT ![r] = [said |-> s, version |-> v]]
             /\ Goto(r, IF a.routed /\ ~Safe(a) /\ NonError(s) THEN "invalidateGet"
                        ELSE IF Storing(a) /\ Storable(a, guarded[r], s) THEN "buffer"
                        ELSE "answered")
    /\ UNCHANGED <<asked, secured, guarded, found, store, now, hit, dropped, before>>

(* The URI's stored entries are under GET and HEAD, each an await.         *)
Invalidate(r, method) ==
    LET key == [method |-> method, target |-> asked[r].target]
    IN  /\ store' = {e \in store : e.key # key}
        /\ dropped' = [dropped EXCEPT ![r] = @ \cup {key}]
        /\ UNCHANGED <<asked, secured, guarded, found, answer, version, now, hit,
                       before>>

InvalidateGet(r) ==
    pc[r] = "invalidateGet" /\ Invalidate(r, "GET") /\ Goto(r, "invalidateHead")

(* Mutant: GET alone is dropped.                                           *)
InvalidateHeadSkipped(r) ==
    /\ pc[r] = "invalidateHead" /\ Goto(r, "answered")
    /\ UNCHANGED <<asked, secured, guarded, found, answer, store, version, now,
                   hit, dropped, before>>

InvalidateHead(r) ==
    pc[r] = "invalidateHead" /\ Invalidate(r, "HEAD") /\ Goto(r, "answered")

(* A body of a known length within the limit is read whole; the read may   *)
(* fail, and a cross-origin answer that does not say so is not kept.       *)
Buffer(r) ==
    LET s == answer[r].said
    IN  /\ pc[r] = "buffer"
        /\ \/ /\ s.fits /\ ~RefusesCrossOrigin(s)
              /\ answer' = [answer EXCEPT ![r] =
                   [said |-> s, version |-> @.version, recordedAt |-> now]]
              /\ Goto(r, "put")
           \/ Goto(r, "answered") /\ UNCHANGED answer
        /\ UNCHANGED <<asked, secured, guarded, found, store, version, now, hit,
                       dropped, before>>

(* What the response is to the one who asked: nobody else's business.      *)
Personal(r, s) ==
    \/ s.private \/ s.noStore \/ s.setCookie
    \/ (guarded[r] \/ asked[r].authorized) /\ ~Shared(s)

(* store.put(key, stored): replaces the variant the contract names.        *)
Put(r) ==
    LET key == PrimaryKey(asked[r])
        new == [key |-> key, said |-> answer[r].said, fields |-> asked[r].fields,
                recordedAt |-> answer[r].recordedAt, version |-> answer[r].version,
                personal |-> Personal(r, answer[r].said),
                after |-> {w \in Requests : key \in dropped[w]}]
    IN  /\ pc[r] = "put"
        /\ store' = {e \in store : ~(e.key = key /\ SameVariant(e, new))} \cup {new}
        /\ Goto(r, "answered")
        /\ UNCHANGED <<asked, secured, guarded, found, answer, version, now, hit,
                       dropped, before>>

(* The client goes away and the request's future is dropped at its await.  *)
Cancel(r) ==
    /\ pc[r] \notin {"new", "answered", "gone"}
    /\ Goto(r, "gone")
    /\ found' = [found EXCEPT ![r] = {}]
    /\ UNCHANGED <<asked, secured, guarded, answer, store, version, now, hit,
                   dropped, before>>

(* A rolling deploy adds or removes the operations' guard; the store and   *)
(* the requests of the older instance stay.                                *)
Redeploy ==
    /\ secured' = ~secured
    /\ UNCHANGED <<pc, asked, guarded, found, answer, store, version, now, hit,
                   dropped, before>>

(* The system clock goes on, or is set.                                    *)
ClockMoves ==
    /\ now' \in 0..MaxTime
    /\ UNCHANGED <<pc, asked, secured, guarded, found, answer, store, version, hit,
                   dropped, before>>

Step(r) ==
    \/ Arrive(r) \/ Get(r) \/ Choose(r) \/ Handle(r) \/ InvalidateGet(r)
    \/ InvalidateHead(r) \/ Buffer(r) \/ Put(r) \/ Cancel(r)

Next == (\E r \in Requests : Step(r)) \/ Redeploy \/ ClockMoves

Spec == Init /\ [][Next]_vars

-----------------------------------------------------------------------------
Hits == {r \in Requests : hit[r] # NoHit}
(* What the representation of a response depends on.                       *)
DependsOn(s) == s.vary \cup IF s.crossOrigin THEN {"origin"} ELSE {}

(* A write drops what was stored: a hit for a request that came after the  *)
(* write was answered was put after the write's own invalidation, under    *)
(* GET and under HEAD, whatever was in flight meanwhile.                   *)
SurvivorsWerePutLater ==
    \A r \in Hits : before[r] \subseteq hit[r].after

(* A hit is what the handler would have answered this request at the       *)
(* version stored: its method's, its target's, its negotiation's and its   *)
(* origin's; a method that is not stored always reaches the handler.       *)
RightRepresentation ==
    \A r \in Hits :
       LET e == hit[r]  a == asked[r]
       IN  /\ StorableMethod(a) /\ e.key = [method |-> a.method, target |-> a.target]
           /\ \A f \in DependsOn(e.said) : e.fields[f] = a.fields[f]

(* Nobody is served what was another's: a hit was neither marked personal  *)
(* nor produced behind credentials without a word that it may be shared.   *)
NobodyElses == \A r \in Hits : ~hit[r].personal

(* A guard covers what was stored before it: an operation that declares a  *)
(* requirement serves only what its response said may be shared.           *)
GuardCoversOldEntries ==
    \A r \in Hits : guarded[r] => Shared(hit[r].said)

(* A response whose stated lifetime is zero, unreadable or repeated is     *)
(* never reused, default or not, wherever the clock is set.                *)
NeverFreshNeverReused ==
    \A r \in Hits :
       LET said == hit[r].said
           stated == <<said.sMaxage, said.maxAge, said.expires>>
       IN  \A i \in 1..3 :
              stated[i] # Unstated /\ (\A j \in 1..(i - 1) : stated[j] = Unstated)
                 => stated[i] \in Nat \ {0}

(* The client that made a change reads it back: a request that came after  *)
(* a write was answered is not served the copy taken before it.            *)
NextGetSeesWrite ==
    \A r \in Hits : \A w \in before[r] : hit[r].version >= answer[w].version
=============================================================================
