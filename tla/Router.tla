------------------------------- MODULE Router -------------------------------
(***************************************************************************)
(* Building a router and what its table answers: Router and Group of       *)
(* crates/kynos/src/router/{mod,group,build,install}.rs, the table of      *)
(* router/dispatch.rs and the preflight of middleware/cors/preflight.rs.   *)
(*                                                                         *)
(* An application writes builder calls in any order: a root router, one    *)
(* router that is nested or merged into it, and groups absorbed by either. *)
(* Each call is a step.  Interceptors are names; those in Cors are CORS    *)
(* interceptors.  A template is a sequence of segments, "{}" a variable    *)
(* and a last "" the trailing slash, so "/" is <<"">>.  Descriptions,      *)
(* catch-alls and the names of variables are left out, as is what compiles *)
(* only without a second Cors in one chain.                                *)
(***************************************************************************)
EXTENDS Integers, Sequences, FiniteSets, SequencesExt

CONSTANTS
    Endpoints,     \* the operations an application has: name to declaration
    Interceptors,  \* its interceptors, each applied at most once
    Cors,          \* those that are a Cors
    Override,      \* what allow_methods says of one, or {} when it was not called
    GroupPrefixes, \* what groups are written with; <<>> for "/"
    NestPrefixes,  \* prefixes of the nested router; <<>> for merge
    MaxCalls       \* bound: the calls of one application, but for those that
                   \* absorb a scope

Method == {"GET", "HEAD", "PUT", "QUERY", "OPTIONS"}
None == -1         \* Option::None of an index
NoScope == "none"
Guard == "guard"
Slash == ""        \* the empty segment after a trailing slash

(* No segment but the last is empty: what PathTemplate::parse lets through. *)
Template == {t \in Seq(STRING) : t # <<>> /\ \A i \in 1..(Len(t) - 1) : t[i] # Slash}
Prefix == {p \in Seq(STRING) : \A i \in 1..Len(p) : p[i] # Slash}

ASSUME EndpointAssumption ==
    \A e \in DOMAIN Endpoints :
       Endpoints[e].method \in Method /\ Endpoints[e].path \in Template
ASSUME PrefixAssumption ==
    (\A p \in GroupPrefixes : p \in Prefix) /\ (\A p \in NestPrefixes : p \in Prefix)
ASSUME InterceptorAssumption == Guard \notin Interceptors
ASSUME CorsAssumption ==
    Cors \subseteq Interceptors /\ Override \in [Cors -> SUBSET Method]
ASSUME BoundAssumption == MaxCalls \in Nat

VARIABLES
    scope,   \* the root router, the nested one and the group being written
    table,   \* the match table: template to operations, once it is built
    phase,   \* "writing", "built", or "refused"
    calls,   \* how many builder calls were made
    wrote    \* history: what was called on every scope, in order

vars == <<scope, table, phase, calls, wrote>>

Scope == {"root", "nested", "group"}
Routers == {"root", "nested"}

(* What was called on a scope, or on the scopes around an operation,       *)
(* outermost first; and whether one of them catches panics.                *)
History == [calls : Seq(Interceptors \cup {Guard}), catch : BOOLEAN]
NothingWritten == [calls |-> <<>>, catch |-> FALSE]
Around(outer, inner) ==
    [calls |-> outer.calls \o inner.calls, catch |-> outer.catch \/ inner.catch]

MountedRecord ==
    [endpoint : DOMAIN Endpoints, path : Template, interceptors : Seq(Interceptors),
     guardAt : Int, catch : BOOLEAN, within : History]
ScopeRecord ==
    [mounted : Seq(MountedRecord), interceptors : Seq(Interceptors), guardFirst : Int,
     catch : BOOLEAN, policySet : BOOLEAN, violated : BOOLEAN]

TypeOK ==
    /\ scope \in [Scope -> ScopeRecord]
    /\ wrote \in [Scope -> History]
    /\ phase \in {"writing", "built", "refused"} /\ calls \in 0..MaxCalls
    /\ \A t \in DOMAIN table : t \in Template

Empty == [mounted |-> <<>>, interceptors |-> <<>>, guardFirst |-> None,
          catch |-> FALSE, policySet |-> FALSE, violated |-> FALSE]

Init ==
    /\ scope = [s \in Scope |-> Empty]
    /\ table = << >>
    /\ phase = "writing" /\ calls = 0
    /\ wrote = [s \in Scope |-> NothingWritten]

-----------------------------------------------------------------------------
(* Builder calls.                                                          *)

HasCors(chain) == \E i \in DOMAIN chain : chain[i] \in Cors

(* Scopes are values of their own: how calls on two of them interleave     *)
(* makes no difference, so one that is begun is written to its end.        *)
Within(s) == ({"group"} \cup IF s = "root" THEN {"nested"} ELSE {}) \ {s}
Absorbs(s) == phase = "writing" /\ \A inner \in Within(s) : scope[inner] = Empty
Calls(s) == Absorbs(s) /\ calls < MaxCalls /\ calls' = calls + 1

(* An endpoint's history is that of the scopes around it.                  *)
Mounted(e) ==
    [endpoint |-> e, path |-> Endpoints[e].path, interceptors |-> <<>>,
     guardAt |-> None, catch |-> FALSE, within |-> NothingWritten]

Names == UNION {{scope[s].mounted[i].endpoint : i \in DOMAIN scope[s].mounted} : s \in Scope}
Applied ==
    UNION {ToSet(scope[s].interceptors)
             \cup UNION {ToSet(scope[s].mounted[i].interceptors) : i \in DOMAIN scope[s].mounted}
           : s \in Scope}

Mount(s, e) ==
    /\ Calls(s)
    /\ e \notin Names
    /\ scope' = [scope EXCEPT ![s].mounted = Append(@, Mounted(e))]
    /\ UNCHANGED <<table, phase, wrote>>

(* Covers the endpoints mounted before it too.                             *)
Intercept(s, n) ==
    /\ Calls(s)
    /\ n \notin Applied
    /\ n \in Cors =>
         /\ ~HasCors(scope[s].interceptors)
         /\ \A i \in DOMAIN scope[s].mounted : ~HasCors(scope[s].mounted[i].interceptors)
    /\ scope' = [scope EXCEPT ![s].interceptors = Append(@, n)]
    /\ wrote' = [wrote EXCEPT ![s].calls = Append(@, n)]
    /\ UNCHANGED <<table, phase>>

GuardFirst(s) ==
    /\ Calls(s)
    /\ scope' = [scope EXCEPT ![s].guardFirst =
                    IF @ = None THEN Len(scope[s].interceptors) ELSE @]
    /\ wrote' = [wrote EXCEPT ![s].calls = Append(@, Guard)]
    /\ UNCHANGED <<table, phase>>

CatchPanics(s) ==
    /\ Calls(s)
    /\ ~scope[s].catch
    /\ scope' = [scope EXCEPT ![s].catch = TRUE]
    /\ wrote' = [wrote EXCEPT ![s].catch = TRUE]
    /\ UNCHANGED <<table, phase>>

(* trailing_slashes; what is answered is defined for every policy below.   *)
TrailingSlashes(s) ==
    /\ Calls(s)
    /\ ~scope[s].policySet
    /\ scope' = [scope EXCEPT ![s].policySet = TRUE]
    /\ UNCHANGED <<table, phase, wrote>>

(* Mutant: the innermost point wins.                                       *)
GuardPointInner(outerAt, outerLen, innerAt) ==
    IF innerAt # None THEN innerAt + outerLen ELSE outerAt

(* The outermost point asked for wins.                                     *)
GuardPoint(outerAt, outerLen, innerAt) ==
    IF outerAt # None THEN outerAt
    ELSE IF innerAt # None THEN innerAt + outerLen ELSE None

Compatible(outer, mounted) ==
    HasCors(outer) => \A i \in DOMAIN mounted : ~HasCors(mounted[i].interceptors)

(* A group's endpoints go into a router, each with the group's chain.      *)
Group(x, prefix) ==
    LET g == scope["group"]
        absorbed == [i \in DOMAIN g.mounted |->
            [g.mounted[i] EXCEPT !.path = prefix \o @,
                                 !.interceptors = g.interceptors,
                                 !.guardAt = g.guardFirst,
                                 !.catch = g.catch,
                                 !.within = Around(wrote["group"], @)]]
    IN  /\ Absorbs("group")
        /\ g.mounted # <<>>
        /\ x = "root" => scope["nested"] = Empty
        /\ Compatible(scope[x].interceptors, absorbed)
        /\ scope' = [scope EXCEPT ![x].mounted = @ \o absorbed, !["group"] = Empty]
        /\ wrote' = [wrote EXCEPT !["group"] = NothingWritten]
        /\ UNCHANGED <<table, phase, calls>>

(* absorb_router, for nest and for merge: what covered the other router's  *)
(* operations goes with them, and a policy of its own is a violation.      *)
Nest(prefix) ==
    LET other == scope["nested"]
        absorbed == [i \in DOMAIN other.mounted |->
            [other.mounted[i] EXCEPT
                !.path = prefix \o @,
                !.interceptors = other.interceptors \o @,
                !.guardAt = GuardPoint(other.guardFirst, Len(other.interceptors), @),
                !.catch = @ \/ other.catch,
                !.within = Around(wrote["nested"], @)]]
    IN  /\ Absorbs("nested")
        /\ other.mounted # <<>>
        /\ Compatible(scope["root"].interceptors, absorbed)
        /\ scope' = [scope EXCEPT !["root"].mounted = @ \o absorbed,
                                  !["root"].violated = @ \/ other.policySet,
                                  !["nested"] = Empty]
        /\ wrote' = [wrote EXCEPT !["nested"] = NothingWritten]
        /\ UNCHANGED <<table, phase, calls>>

-----------------------------------------------------------------------------
(* Building the table.                                                     *)

(* `covering`: the root's chain around the operation's, and its guard.     *)
Covering(root, m) ==
    LET chain == root.interceptors \o m.interceptors
        at == GuardPoint(root.guardFirst, Len(root.interceptors), m.guardAt)
    IN  IF at # None /\ Endpoints[m.endpoint].guarded
        THEN InsertAt(chain, at + 1, Guard) ELSE chain

Served(root, m) ==
    [method |-> Endpoints[m.endpoint].method, endpoint |-> m.endpoint,
     chain |-> Covering(root, m), catch |-> m.catch \/ root.catch]

(* The entry of a path holds its operations by their place in the order    *)
(* they were mounted in.                                                   *)
PathsOf(mounted) == {mounted[i].path : i \in DOMAIN mounted}
At(mounted, t) == {i \in DOMAIN mounted : mounted[i].path = t}
TableOf(root) ==
    [t \in PathsOf(root.mounted) |->
        [i \in At(root.mounted, t) |-> Served(root, root.mounted[i])]]

(* describe refuses the same method declared twice on one path.            *)
Duplicates(mounted) ==
    \E i, j \in DOMAIN mounted :
       /\ i # j /\ mounted[i].path = mounted[j].path
       /\ Endpoints[mounted[i].endpoint].method = Endpoints[mounted[j].endpoint].method

Build ==
    LET root == scope["root"]
    IN  /\ Absorbs("root") /\ root.mounted # <<>>
        /\ IF root.violated \/ Duplicates(root.mounted)
           THEN phase' = "refused" /\ UNCHANGED table
           ELSE phase' = "built" /\ table' = TableOf(root)
        /\ UNCHANGED <<scope, calls, wrote>>

Finished == (phase # "writing" \/ calls = MaxCalls) /\ UNCHANGED vars

Next ==
    \/ \E s \in Scope, e \in DOMAIN Endpoints : Mount(s, e)
    \/ \E s \in Scope, n \in Interceptors : Intercept(s, n)
    \/ \E s \in Scope : GuardFirst(s) \/ CatchPanics(s)
    \/ \E s \in Routers : TrailingSlashes(s)
    \/ \E x \in Routers, prefix \in GroupPrefixes : Group(x, prefix)
    \/ \E prefix \in NestPrefixes : Nest(prefix)
    \/ Build
    \/ Finished

Spec == Init /\ [][Next]_vars

-----------------------------------------------------------------------------
(* What one path of the table answers, before a preflight is installed.    *)

Declared(ops) == {ops[i].method : i \in DOMAIN ops}

(* A QUERY operation that names what it accepts.                           *)
AcceptsQuery(ops) ==
    \E i \in DOMAIN ops : ops[i].method = "QUERY" /\ Endpoints[ops[i].endpoint].accepts
AnswersOptions(ops) == AcceptsQuery(ops) /\ "OPTIONS" \notin Declared(ops)

(* Mutant: a HEAD has no operation but its own.                            *)
PositionExact(ops, method) == {i \in DOMAIN ops : ops[i].method = method}

(* The operation a method selects: a HEAD falls to the GET.                *)
Position(ops, method) ==
    LET own == {i \in DOMAIN ops : ops[i].method = method}
    IN  IF own = {} /\ method = "HEAD"
        THEN {i \in DOMAIN ops : ops[i].method = "GET"} ELSE own

Allow(ops) ==
    LET listed == Declared(ops) \cup IF AnswersOptions(ops) THEN {"OPTIONS"} ELSE {}
    IN  IF "GET" \in listed THEN listed \cup {"HEAD"} ELSE listed

Implemented(entries) ==
    UNION {LET ops == table[t]
           IN  Declared(ops)
                 \cup (IF "GET" \in Declared(ops) THEN {"HEAD"} ELSE {})
                 \cup (IF AnswersOptions(ops) THEN {"OPTIONS"} ELSE {}) : t \in entries}

(* The preflight of a path: which Cors covers which of its methods.        *)
FirstCors(chain) ==
    IF HasCors(chain)
    THEN chain[CHOOSE i \in DOMAIN chain :
                 chain[i] \in Cors /\ \A j \in 1..(i - 1) : chain[j] \notin Cors]
    ELSE NoScope
CorsOf(ops) == {FirstCors(ops[i].chain) : i \in DOMAIN ops} \ {NoScope}

(* Mutant: the HEAD a GET answers belongs to no scope.                     *)
CoveredDeclared(ops, c) ==
    {ops[i].method : i \in {j \in DOMAIN ops : FirstCors(ops[j].chain) = c}}

Covered(ops, c) ==
    LET methods == {ops[i].method : i \in {j \in DOMAIN ops : FirstCors(ops[j].chain) = c}}
    IN  IF "GET" \in methods /\ "HEAD" \notin Declared(ops)
        THEN methods \cup {"HEAD"} ELSE methods

HasPreflight(ops) == "OPTIONS" \notin Declared(ops) /\ CorsOf(ops) # {}

ServedMethods(t) == Implemented({t})

Advertised(t, c) ==
    LET ops == table[t]
        uncovered == {m \in ServedMethods(t) : \A d \in CorsOf(ops) : m \notin Covered(ops, d)}
    IN  (IF Override[c] # {} THEN Override[c] ELSE Covered(ops, c)) \ uncovered

(* The first operation, in the order mounted, whose Cors overrides for m.  *)
Overriding(ops, m) ==
    {i \in DOMAIN ops : LET c == FirstCors(ops[i].chain)
                        IN  c # NoScope /\ m \in Override[c]}

ScopeFor(t, m) ==
    LET ops == table[t]
        covering == {c \in CorsOf(ops) : m \in Covered(ops, c)}
        overriding == Overriding(ops, m)
    IN  IF covering # {} THEN CHOOSE c \in covering : TRUE
        ELSE IF m \in ServedMethods(t) \/ overriding = {} THEN NoScope
        ELSE FirstCors(ops[CHOOSE i \in overriding : \A j \in overriding : i <= j].chain)

-----------------------------------------------------------------------------
(* Matching a path.                                                        *)

(* A variable matches one segment that is not empty.                       *)
Matches(t, path) ==
    /\ Len(t) = Len(path)
    /\ \A i \in DOMAIN t : t[i] = path[i] \/ (t[i] = "{}" /\ path[i] # Slash)

(* matchit prefers the literal at the first segment where two differ.      *)
Prior(t, u) ==
    \E i \in DOMAIN t : /\ t[i] # "{}" /\ u[i] = "{}"
                        /\ \A j \in 1..(i - 1) : t[j] = u[j]

Best(templates, path) ==
    {t \in templates : Matches(t, path)
        /\ \A u \in templates : Matches(u, path) /\ u # t => Prior(t, u)}

(* flip_trailing_slash; "/" has no other spelling.                         *)
Flippable(path) == path # <<Slash>>
FlipTrailingSlash(path) == IF Last(path) = Slash THEN Front(path) ELSE Append(path, Slash)

(* Mutant: a spelling is flipped only one way.                             *)
FlippedSpellingsBare(templates) ==
    {FlipTrailingSlash(t) : t \in {u \in templates : Last(u) # Slash}} \ templates

(* The spellings Lenient adds: one that is declared keeps its own entry.   *)
FlippedSpellings(templates) ==
    {FlipTrailingSlash(t) : t \in {u \in templates : Flippable(u)}} \ templates

(* The entry that serves a path under a policy, {} when there is none.     *)
StrictEntry(path) == Best(DOMAIN table, path)

LenientEntry(path) ==
    LET flipped == FlippedSpellings(DOMAIN table)
        spelled == Best(DOMAIN table \cup flipped, path)
    IN  {IF t \in flipped THEN FlipTrailingSlash(t) ELSE t : t \in spelled}

(* Where Redirect sends a path that nothing matches.                       *)
RedirectTarget(path) ==
    {q \in {FlipTrailingSlash(p) : p \in {path} \ {<<Slash>>}} : StrictEntry(q) # {}}

(* The preflight's answer to an OPTIONS that is none.                      *)
NotAPreflight(ops) ==
    IF "OPTIONS" \notin Implemented(DOMAIN table) THEN "501"
    ELSE IF AcceptsQuery(ops) THEN "options" ELSE "405"

(* What a method gets on a path that one entry matches.                    *)
Verdict(t, method) ==
    LET ops == table[t]
    IN  IF method = "OPTIONS" /\ HasPreflight(ops) THEN NotAPreflight(ops)
        ELSE IF Position(ops, method) # {} THEN "operation"
        ELSE IF method = "OPTIONS" /\ AnswersOptions(ops) THEN "options"
        ELSE IF method \in Implemented(DOMAIN table) THEN "405" ELSE "501"

(* What a request gets: the answer and the entry it comes from.            *)
Answered(policy, path, method) ==
    LET entry == IF policy = "Lenient" THEN LenientEntry(path) ELSE StrictEntry(path)
        unmatched == IF method \notin Implemented(DOMAIN table) THEN "501"
                     ELSE IF policy = "Redirect" /\ RedirectTarget(path) # {} THEN "308"
                     ELSE "404"
    IN  <<IF entry = {} THEN unmatched ELSE Verdict(CHOOSE t \in entry : TRUE, method), entry>>

-----------------------------------------------------------------------------
(* What the application wrote around an operation: the calls on every      *)
(* scope, outermost first.                                                 *)
Written(m) == wrote["root"].calls \o m.within.calls

(* Of these an operation keeps the interceptors and, when it is guarded,   *)
(* the first of the calls that ask for the guard.                          *)
Kept(m) ==
    LET flat == Written(m)
    IN  {k \in DOMAIN flat : flat[k] = Guard =>
           Endpoints[m.endpoint].guarded /\ \A j \in 1..(k - 1) : flat[j] # Guard}

(* A chain consists of the kept places of a sequence, in their order.      *)
InOrder(chain, flat, kept) ==
    \E place \in [DOMAIN chain -> kept] :
       /\ \A i, j \in DOMAIN chain : i < j => place[i] < place[j]
       /\ \A k \in kept : \E i \in DOMAIN chain : place[i] = k
       /\ \A i \in DOMAIN chain : chain[i] = flat[place[i]]

(* Whatever the order of mount, intercept, guard_first, group and nest, an *)
(* operation runs under the interceptors of the scopes around it, in the   *)
(* order written, outermost first; its guard runs once, where the          *)
(* outermost scope that asked put it; and its panics are caught when a     *)
(* scope around it catches them.                                           *)
ChainsAsWritten ==
    phase = "built" =>
        \A t \in DOMAIN table : \A i \in DOMAIN table[t] :
           LET op == table[t][i]
               m == scope["root"].mounted[i]
           IN  /\ InOrder(op.chain, Written(m), Kept(m))
               /\ op.catch <=> wrote["root"].catch \/ m.within.catch

(* Allow tells the truth: it lists a method exactly when the path answers  *)
(* it, a plain OPTIONS included whether or not a preflight was installed;  *)
(* and a 501 is said only of a method no path of the service answers.      *)
AllowIsTrue ==
    phase = "built" =>
        \A t \in DOMAIN table, m \in Method :
           /\ m \in Allow(table[t]) <=> Verdict(t, m) \in {"operation", "options"}
           /\ Verdict(t, m) = "501" => \A u \in DOMAIN table : m \notin Allow(table[u])

(* A preflight speaks for what would run: it approves a served method with *)
(* the Cors that the operation answering it runs under, refuses one that   *)
(* runs under none, and never advertises it.                               *)
PreflightIsTrue ==
    phase = "built" =>
        \A t \in DOMAIN table : HasPreflight(table[t]) =>
           \A m \in Method \ {"OPTIONS"} : \A i \in Position(table[t], m) :
              /\ ScopeFor(t, m) = FirstCors(table[t][i].chain)
              /\ FirstCors(table[t][i].chain) = NoScope =>
                   \A c \in CorsOf(table[t]) : m \notin Advertised(t, c)

(* What a template matches, in the segments of the table, and its flips.   *)
Segments == UNION {ToSet(t) : t \in DOMAIN table} \ {"{}"}
Spelled(t) == {p \in [DOMAIN t -> Segments \cup {"v"}] :
                 Matches(t, p) /\ \A i \in DOMAIN t : t[i] # "{}" => p[i] = t[i]}
Declares == UNION {Spelled(t) : t \in DOMAIN table}
Paths == Declares \cup {FlipTrailingSlash(p) : p \in Declares \ {<<Slash>>}}

(* The slash policies agree: where no declared template matches a path,   *)
(* Lenient answers every method as the client of Redirect is answered once *)
(* it followed the redirect, which is never to another redirect.           *)
Followed(path, method) ==
    LET first == Answered("Redirect", path, method)
    IN  IF first[1] = "308"
        THEN Answered("Redirect", FlipTrailingSlash(path), method) ELSE first
SlashPoliciesAgree ==
    phase = "built" =>
        \A p \in Paths : StrictEntry(p) = {} =>
            \A m \in Method :
               /\ Followed(p, m)[1] # "308"
               /\ LET lenient == Answered("Lenient", p, m)
                  IN  lenient[1] = Followed(p, m)[1]
                      /\ (lenient[1] # "501" => lenient[2] = Followed(p, m)[2])

(* "A declared spelling always wins over a flipped one": what a declared   *)
(* template matches is served by it under Lenient too.                     *)
DeclaredSpellingWins ==
    phase = "built" =>
        \A p \in Paths : StrictEntry(p) # {} => LenientEntry(p) = StrictEntry(p)
=============================================================================
