---------------------------- MODULE RouterProofs ----------------------------
(***************************************************************************)
(* Proofs about Router for every set of operations, interceptors and       *)
(* prefixes, and every order of builder calls.                             *)
(***************************************************************************)
EXTENDS Router, SequenceTheorems, WellFoundedInduction, TLAPS

-----------------------------------------------------------------------------
(* What an entry answers.                                                  *)

(* A method selects an operation when it is declared, or is the HEAD of a  *)
(* declared GET.                                                           *)
LEMMA PositionIs ==
    ASSUME NEW ops, NEW m
    PROVE  Position(ops, m) # {} <=>
             m \in Declared(ops) \/ (m = "HEAD" /\ "GET" \in Declared(ops))
  BY DEF Position, Declared

(* What the service implements is what its entries allow.                  *)
LEMMA ImplementedIs ==
    ASSUME NEW entries, NEW m
    PROVE  m \in Implemented(entries) <=> \E t \in entries : m \in Allow(table[t])
  <1>1. ASSUME NEW ops
        PROVE  m \in Allow(ops) <=>
                 m \in Declared(ops)
                         \cup (IF "GET" \in Declared(ops) THEN {"HEAD"} ELSE {})
                         \cup (IF AnswersOptions(ops) THEN {"OPTIONS"} ELSE {})
    BY DEF Allow
  <1>2. \A t \in entries : m \in Allow(table[t]) <=>
          m \in Declared(table[t])
                  \cup (IF "GET" \in Declared(table[t]) THEN {"HEAD"} ELSE {})
                  \cup (IF AnswersOptions(table[t]) THEN {"OPTIONS"} ELSE {})
    BY <1>1
  <1> QED BY <1>2 DEF Implemented

(* A method is allowed on a path when an operation answers it, or OPTIONS  *)
(* does.                                                                   *)
LEMMA AllowIs ==
    ASSUME NEW ops, NEW m
    PROVE  m \in Allow(ops) <=>
             Position(ops, m) # {} \/ (m = "OPTIONS" /\ AnswersOptions(ops))
  BY PositionIs DEF Allow

(* What each method gets on an entry of the table is what Allow says of    *)
(* the entry and of the service, whether a preflight answers for it or not. *)
LEMMA VerdictIs ==
    ASSUME NEW t \in DOMAIN table, NEW m
    PROVE  /\ m \in Allow(table[t]) <=> Verdict(t, m) \in {"operation", "options"}
           /\ Verdict(t, m) = "501" <=> m \notin Implemented(DOMAIN table)
           /\ Verdict(t, m) \in {"operation", "options", "405", "501"}
  <1> DEFINE ops == table[t]
  <1>1. m \in Allow(ops) => m \in Implemented(DOMAIN table)
    BY ImplementedIs
  <1>2. m \in Allow(ops) <=> Position(ops, m) # {} \/ (m = "OPTIONS" /\ AnswersOptions(ops))
    BY AllowIs
  <1>3. CASE m = "OPTIONS" /\ HasPreflight(ops)
    <2>1. "OPTIONS" \notin Declared(ops) BY <1>3 DEF HasPreflight
    <2>2. Position(ops, m) = {} BY <1>3, <2>1, PositionIs
    <2>3. AnswersOptions(ops) <=> AcceptsQuery(ops) BY <2>1 DEF AnswersOptions
    <2>4. Verdict(t, m) = NotAPreflight(ops) BY <1>3 DEF Verdict
    <2> QED BY <1>1, <1>2, <1>3, <2>2, <2>3, <2>4 DEF NotAPreflight
  <1>4. CASE ~(m = "OPTIONS" /\ HasPreflight(ops))
    <2>1. Verdict(t, m) =
            IF Position(ops, m) # {} THEN "operation"
            ELSE IF m = "OPTIONS" /\ AnswersOptions(ops) THEN "options"
            ELSE IF m \in Implemented(DOMAIN table) THEN "405" ELSE "501"
      BY <1>4 DEF Verdict
    <2> QED BY <1>1, <1>2, <2>1
  <1> QED BY <1>3, <1>4

(* Allow tells the truth of every path, and a 501 of the whole service, in *)
(* every table, however it was built.                                      *)
THEOREM AllowTellsTheTruth == Spec => []AllowIsTrue
  <1>1. AllowIsTrue
    <2> SUFFICES ASSUME NEW t \in DOMAIN table, NEW m \in Method
                 PROVE  /\ m \in Allow(table[t]) <=> Verdict(t, m) \in {"operation", "options"}
                        /\ Verdict(t, m) = "501" => \A u \in DOMAIN table : m \notin Allow(table[u])
      BY DEF AllowIsTrue
    <2> QED BY VerdictIs, ImplementedIs
  <1> QED BY <1>1, PTL

-----------------------------------------------------------------------------
(* Types.                                                                  *)

(* A concatenation is of the segments, or calls, of both its parts.        *)
LEMMA Joined ==
    ASSUME NEW S, NEW s \in Seq(S), NEW t \in Seq(S)
    PROVE  /\ s \o t \in Seq(S) /\ Len(s \o t) = Len(s) + Len(t)
           /\ \A i \in 1..Len(s) : (s \o t)[i] = s[i]
           /\ \A i \in 1..Len(t) : (s \o t)[Len(s) + i] = t[i]
  OBVIOUS

(* A prefix before a template is a template: as PathTemplate::with_prefix  *)
(* joins them, no segment but the last is empty.                           *)
LEMMA PrefixedIsTemplate ==
    ASSUME NEW p \in Prefix, NEW t \in Template
    PROVE  p \o t \in Template
  <1> DEFINE q == p \o t
  <1>1. p \in Seq(STRING) /\ t \in Seq(STRING) /\ Len(t) \in Nat /\ Len(p) \in Nat /\ Len(t) > 0
    <2>1. p \in Seq(STRING) /\ t \in Seq(STRING) /\ t # <<>> BY DEF Prefix, Template
    <2> QED BY <2>1, EmptySeq
  <1>2. /\ q \in Seq(STRING) /\ Len(q) = Len(p) + Len(t)
        /\ \A i \in 1..Len(p) : q[i] = p[i]
        /\ \A i \in 1..Len(t) : q[Len(p) + i] = t[i]
    BY <1>1, Joined
  <1> HIDE DEF q
  <1>3. q # <<>> BY <1>1, <1>2
  <1>4. ASSUME NEW i \in 1..(Len(q) - 1) PROVE q[i] # Slash
    <2>1. CASE i <= Len(p)
      <3>1. q[i] = p[i] /\ i \in 1..Len(p) BY <1>1, <1>2, <2>1
      <3> QED BY <3>1 DEF Prefix
    <2>2. CASE i > Len(p)
      <3> DEFINE j == i - Len(p)
      <3>1. j \in 1..(Len(t) - 1) /\ i = Len(p) + j BY <1>1, <1>2, <2>2
      <3> HIDE DEF j
      <3>2. q[i] = t[j] BY <1>1, <1>2, <3>1
      <3> QED BY <3>1, <3>2 DEF Template
    <2>3. i <= Len(p) \/ i > Len(p) BY <1>1
    <2> QED BY <2>1, <2>2, <2>3
  <1> QED BY <1>2, <1>3, <1>4 DEF Template, q

(* The histories of scopes one inside the other make a history.            *)
LEMMA AroundIsHistory ==
    ASSUME NEW outer \in History, NEW inner \in History
    PROVE  Around(outer, inner) \in History
  <1>1. outer.calls \o inner.calls \in Seq(Interceptors \cup {Guard}) BY DEF History
  <1> QED BY <1>1 DEF Around, History

(* Empty scopes and new operations are well typed.                         *)
LEMMA EmptyIsTyped == Empty \in ScopeRecord /\ NothingWritten \in History
  BY DEF Empty, ScopeRecord, None, NothingWritten, History

LEMMA MountedIsTyped ==
    ASSUME NEW e \in DOMAIN Endpoints
    PROVE  Mounted(e) \in MountedRecord
  BY EmptyIsTyped, EndpointAssumption DEF Mounted, MountedRecord, None

(* What a group adds to its operations, and what a router that is nested   *)
(* adds to its own.                                                        *)
Grouped(g, m, w, prefix) ==
    [m EXCEPT !.path = prefix \o @, !.interceptors = g.interceptors,
              !.guardAt = g.guardFirst, !.catch = g.catch, !.within = Around(w, @)]
Nested(other, m, w, prefix) ==
    [m EXCEPT !.path = prefix \o @,
              !.interceptors = other.interceptors \o @,
              !.guardAt = GuardPoint(other.guardFirst, Len(other.interceptors), @),
              !.catch = @ \/ other.catch,
              !.within = Around(w, @)]

(* Operations that are absorbed stay well typed.                           *)
LEMMA AbsorbedIsTyped ==
    ASSUME NEW g \in ScopeRecord, NEW m \in MountedRecord, NEW w \in History,
           NEW prefix \in Prefix
    PROVE  Grouped(g, m, w, prefix) \in MountedRecord /\ Nested(g, m, w, prefix) \in MountedRecord
  <1>1. prefix \o m.path \in Template BY PrefixedIsTemplate DEF MountedRecord
  <1>2. Around(w, m.within) \in History BY AroundIsHistory DEF MountedRecord
  <1>3. g.interceptors \in Seq(Interceptors) /\ g.guardFirst \in Int /\ g.catch \in BOOLEAN
    BY DEF ScopeRecord
  <1>4. m.interceptors \in Seq(Interceptors) /\ m.guardAt \in Int /\ m.catch \in BOOLEAN
    BY DEF MountedRecord
  <1>5. g.interceptors \o m.interceptors \in Seq(Interceptors) BY <1>3, <1>4
  <1>6. GuardPoint(g.guardFirst, Len(g.interceptors), m.guardAt) \in Int
    BY <1>3, <1>4 DEF GuardPoint, None
  <1>7. (m.catch \/ g.catch) \in BOOLEAN BY <1>3, <1>4
  <1>8. Grouped(g, m, w, prefix) \in MountedRecord
    BY <1>1, <1>2, <1>3 DEF Grouped, MountedRecord
  <1>9. Nested(g, m, w, prefix) \in MountedRecord
    BY <1>1, <1>2, <1>5, <1>6, <1>7 DEF Nested, MountedRecord
  <1> QED BY <1>8, <1>9

(* What a scope's actions leave of the types.                              *)
LEMMA TypesStep ==
    ASSUME TypeOK, [Next]_vars
    PROVE  TypeOK'
  <1> USE DEF TypeOK
  <1> DEFINE Fits == scope' \in [Scope -> ScopeRecord] /\ wrote' \in [Scope -> History]
  <1>1. ASSUME NEW s \in Scope
        PROVE  /\ scope[s] \in ScopeRecord /\ wrote[s] \in History
               /\ scope[s].mounted \in Seq(MountedRecord)
               /\ scope[s].interceptors \in Seq(Interceptors)
               /\ scope[s].guardFirst \in Int /\ scope[s].catch \in BOOLEAN
               /\ scope[s].policySet \in BOOLEAN /\ scope[s].violated \in BOOLEAN
               /\ wrote[s].calls \in Seq(Interceptors \cup {Guard}) /\ wrote[s].catch \in BOOLEAN
    BY <1>1 DEF ScopeRecord, History
  <1>2. ASSUME NEW s \in Scope, Calls(s) PROVE calls' \in 0..MaxCalls
    BY <1>2, BoundAssumption DEF Calls
  <1>3. ASSUME NEW s \in Scope, NEW e \in DOMAIN Endpoints, Mount(s, e) PROVE TypeOK'
    <2>1. Append(scope[s].mounted, Mounted(e)) \in Seq(MountedRecord)
      BY <1>1, MountedIsTyped, AppendProperties
    <2>2. scope' \in [Scope -> ScopeRecord] BY <1>1, <1>3, <2>1 DEF Mount, ScopeRecord
    <2> QED BY <1>2, <1>3, <2>2 DEF Mount
  <1>4. ASSUME NEW s \in Scope, NEW n \in Interceptors, Intercept(s, n) PROVE TypeOK'
    <2>1. Append(scope[s].interceptors, n) \in Seq(Interceptors)
      BY <1>1, AppendProperties
    <2>2. Append(wrote[s].calls, n) \in Seq(Interceptors \cup {Guard})
      BY <1>1, AppendProperties
    <2>3. scope' \in [Scope -> ScopeRecord] BY <1>1, <1>4, <2>1 DEF Intercept, ScopeRecord
    <2>4. wrote' \in [Scope -> History] BY <1>1, <1>4, <2>2 DEF Intercept, History
    <2> QED BY <1>2, <1>4, <2>3, <2>4 DEF Intercept
  <1>5. ASSUME NEW s \in Scope, GuardFirst(s) PROVE TypeOK'
    <2>1. Append(wrote[s].calls, Guard) \in Seq(Interceptors \cup {Guard})
      BY <1>1, AppendProperties
    <2>2. Len(scope[s].interceptors) \in Int BY <1>1
    <2>3. scope' \in [Scope -> ScopeRecord] BY <1>1, <1>5, <2>2 DEF GuardFirst, ScopeRecord
    <2>4. wrote' \in [Scope -> History] BY <1>1, <1>5, <2>1 DEF GuardFirst, History
    <2> QED BY <1>2, <1>5, <2>3, <2>4 DEF GuardFirst
  <1>6. ASSUME NEW s \in Scope, CatchPanics(s) PROVE TypeOK'
    <2>1. scope' \in [Scope -> ScopeRecord] BY <1>1, <1>6 DEF CatchPanics, ScopeRecord
    <2>2. wrote' \in [Scope -> History] BY <1>1, <1>6 DEF CatchPanics, History
    <2> QED BY <1>2, <1>6, <2>1, <2>2 DEF CatchPanics
  <1>7. ASSUME NEW s \in Routers, TrailingSlashes(s) PROVE TypeOK'
    <2>1. s \in Scope BY DEF Routers, Scope
    <2>2. scope' \in [Scope -> ScopeRecord]
      BY <1>1, <1>7, <2>1 DEF TrailingSlashes, ScopeRecord
    <2> QED BY <1>2, <1>7, <2>1, <2>2 DEF TrailingSlashes
  <1>8. ASSUME NEW x \in Routers, NEW prefix \in GroupPrefixes, Group(x, prefix) PROVE TypeOK'
    <2> DEFINE g == scope["group"]
               absorbed == [i \in DOMAIN g.mounted |->
                              Grouped(g, g.mounted[i], wrote["group"], prefix)]
    <2>1. "group" \in Scope /\ x \in Scope /\ x # "group" BY DEF Scope, Routers
    <2>2. \A i \in DOMAIN g.mounted : g.mounted[i] \in MountedRecord BY <1>1, <2>1
    <2>3. prefix \in Prefix BY PrefixAssumption
    <2>4. \A i \in DOMAIN g.mounted :
            Grouped(g, g.mounted[i], wrote["group"], prefix) \in MountedRecord
      BY <1>1, <2>1, <2>2, <2>3, AbsorbedIsTyped
    <2>5. DOMAIN g.mounted = 1..Len(g.mounted) /\ Len(g.mounted) \in Nat BY <1>1, <2>1
    <2>6. absorbed \in Seq(MountedRecord) BY <2>4, <2>5
    <2>7. scope[x].mounted \o absorbed \in Seq(MountedRecord) BY <1>1, <2>1, <2>6
    <2>8. /\ scope' = [scope EXCEPT ![x].mounted = @ \o absorbed, !["group"] = Empty]
          /\ wrote' = [wrote EXCEPT !["group"] = NothingWritten]
          /\ UNCHANGED <<table, phase, calls>>
      BY <1>8 DEF Group, Grouped
    <2> HIDE DEF absorbed, g
    <2>9. scope' \in [Scope -> ScopeRecord]
      BY <1>1, <2>1, <2>7, <2>8, EmptyIsTyped DEF ScopeRecord
    <2> QED BY <2>1, <2>8, <2>9, EmptyIsTyped
  <1>9. ASSUME NEW prefix \in NestPrefixes, Nest(prefix) PROVE TypeOK'
    <2> DEFINE other == scope["nested"]
               absorbed == [i \in DOMAIN other.mounted |->
                              Nested(other, other.mounted[i], wrote["nested"], prefix)]
    <2>1. "nested" \in Scope /\ "root" \in Scope BY DEF Scope
    <2>2. \A i \in DOMAIN other.mounted : other.mounted[i] \in MountedRecord BY <1>1, <2>1
    <2>3. prefix \in Prefix BY PrefixAssumption
    <2>4. \A i \in DOMAIN other.mounted :
            Nested(other, other.mounted[i], wrote["nested"], prefix) \in MountedRecord
      BY <1>1, <2>1, <2>2, <2>3, AbsorbedIsTyped
    <2>5. DOMAIN other.mounted = 1..Len(other.mounted) /\ Len(other.mounted) \in Nat
      BY <1>1, <2>1
    <2>6. absorbed \in Seq(MountedRecord) BY <2>4, <2>5
    <2>7. scope["root"].mounted \o absorbed \in Seq(MountedRecord) BY <1>1, <2>1, <2>6
    <2>8. /\ scope' = [scope EXCEPT !["root"].mounted = @ \o absorbed,
                                    !["root"].violated = @ \/ other.policySet,
                                    !["nested"] = Empty]
          /\ wrote' = [wrote EXCEPT !["nested"] = NothingWritten]
          /\ UNCHANGED <<table, phase, calls>>
      BY <1>9 DEF Nest, Nested
    <2>9. (scope["root"].violated \/ other.policySet) \in BOOLEAN BY <1>1, <2>1
    <2> DEFINE v == scope["root"].violated \/ other.policySet
               root == [scope["root"] EXCEPT !.mounted = @ \o absorbed, !.violated = v]
    <2>10. root \in ScopeRecord
      <3> HIDE DEF absorbed, v
      <3> QED BY <1>1, <2>1, <2>7, <2>9 DEF ScopeRecord, v
    <2>11. scope' = [scope EXCEPT !["root"] = root, !["nested"] = Empty]
      <3> HIDE DEF absorbed
      <3> QED BY <2>1, <2>8
    <2> HIDE DEF absorbed, other, root
    <2>12. scope' \in [Scope -> ScopeRecord] BY <2>1, <2>10, <2>11, EmptyIsTyped
    <2> QED BY <2>1, <2>8, <2>12, EmptyIsTyped
  <1>10. CASE Build
    <2>1. "root" \in Scope BY DEF Scope
    <2>2. \A t \in DOMAIN TableOf(scope["root"]) : t \in Template
      <3>1. \A i \in DOMAIN scope["root"].mounted : scope["root"].mounted[i] \in MountedRecord
        BY <1>1, <2>1
      <3> QED BY <3>1 DEF TableOf, PathsOf, MountedRecord
    <2> QED BY <1>10, <2>2 DEF Build
  <1>11. CASE UNCHANGED vars BY <1>11 DEF vars
  <1> QED BY <1>3, <1>4, <1>5, <1>6, <1>7, <1>8, <1>9, <1>10, <1>11 DEF Next, Finished

(* The scopes, the table and what was written keep their types.            *)
THEOREM RouterTypeCorrect == Spec => []TypeOK
  <1>1. Init => TypeOK
    BY EmptyIsTyped, BoundAssumption DEF Init, TypeOK
  <1> QED BY <1>1, TypesStep, PTL DEF Spec

-----------------------------------------------------------------------------
(* What is built is what was written.                                      *)

(* The table is made of the operations the root router has, which stay as  *)
(* they are once it is built, and no two on one path have one method.      *)
Built ==
    phase = "built" => table = TableOf(scope["root"]) /\ ~Duplicates(scope["root"].mounted)

(* Nothing is written to a router that is built.                           *)
LEMMA BuiltStep ==
    ASSUME Built, [Next]_vars
    PROVE  Built'
  <1>1. CASE phase = "writing" /\ ~Build
    <2>1. phase' = "writing"
      BY <1>1 DEF Next, Mount, Intercept, GuardFirst, CatchPanics, TrailingSlashes, Calls,
                  Absorbs, Group, Nest, Finished, vars
    <2> QED BY <2>1 DEF Built
  <1>2. CASE phase # "writing" /\ ~Build
    <2>1. UNCHANGED vars
      BY <1>2 DEF Next, Mount, Intercept, GuardFirst, CatchPanics, TrailingSlashes, Calls,
                  Absorbs, Group, Nest, Finished
    <2> QED BY <2>1 DEF Built, vars
  <1>3. CASE Build BY <1>3 DEF Build, Built
  <1> QED BY <1>1, <1>2, <1>3

(* The table of every router that is built is that of its operations.      *)
LEMMA AlwaysBuilt == Spec => []Built
  <1>1. Init => Built BY DEF Init, Built
  <1> QED BY <1>1, BuiltStep, PTL DEF Spec

(* An entry has one operation for a method.                                *)
LEMMA OneOperationForAMethod ==
    ASSUME Built, phase = "built",
           NEW t \in DOMAIN table, NEW i \in DOMAIN table[t], NEW j \in DOMAIN table[t],
           table[t][i].method = table[t][j].method
    PROVE  i = j
  <1> DEFINE mounted == scope["root"].mounted
  <1>1. table = TableOf(scope["root"]) /\ ~Duplicates(mounted) BY DEF Built
  <1>2. table[t] = [k \in At(mounted, t) |-> Served(scope["root"], mounted[k])]
    BY <1>1 DEF TableOf
  <1>3. /\ i \in DOMAIN mounted /\ mounted[i].path = t
        /\ j \in DOMAIN mounted /\ mounted[j].path = t
    BY <1>2 DEF At
  <1>4. /\ table[t][i].method = Endpoints[mounted[i].endpoint].method
        /\ table[t][j].method = Endpoints[mounted[j].endpoint].method
    BY <1>2 DEF Served
  <1> QED BY <1>1, <1>3, <1>4 DEF Duplicates

(* Which Cors covers a method is which one its operation runs under.       *)
LEMMA CoveredIs ==
    ASSUME NEW ops, NEW m, NEW c, NEW i \in Position(ops, m),
           \A j, k \in DOMAIN ops : ops[j].method = ops[k].method => j = k
    PROVE  m \in Covered(ops, c) <=> FirstCors(ops[i].chain) = c
  <1> DEFINE methods == {ops[k].method : k \in {j \in DOMAIN ops : FirstCors(ops[j].chain) = c}}
  <1>1. i \in DOMAIN ops BY DEF Position
  <1>2. ops[i].method \in methods <=> FirstCors(ops[i].chain) = c BY <1>1
  <1>3. CASE ops[i].method = m
    <2>1. m \in Declared(ops) BY <1>1, <1>3 DEF Declared
    <2> QED BY <1>2, <1>3, <2>1 DEF Covered
  <1>4. CASE ops[i].method # m
    <2>1. m = "HEAD" /\ ops[i].method = "GET" /\ "HEAD" \notin Declared(ops)
      BY <1>1, <1>4 DEF Position, Declared
    <2>2. "HEAD" \notin methods BY <2>1 DEF Declared
    <2> QED BY <1>2, <2>1, <2>2 DEF Covered
  <1> QED BY <1>3, <1>4

(* A method that selects an operation is served.                           *)
LEMMA SelectedIsServed ==
    ASSUME NEW t, NEW m, Position(table[t], m) # {}
    PROVE  m \in ServedMethods(t)
  BY AllowIs, ImplementedIs DEF ServedMethods

(* A preflight approves with the Cors the operation runs under, and        *)
(* neither approves nor advertises one that runs under none, on every path *)
(* of every router that is built.                                          *)
THEOREM PreflightSpeaksForTheOperation == Spec => []PreflightIsTrue
  <1>1. ASSUME Built PROVE PreflightIsTrue
    <2> SUFFICES ASSUME phase = "built", NEW t \in DOMAIN table,
                        NEW m \in Method \ {"OPTIONS"}, NEW i \in Position(table[t], m)
                 PROVE  /\ ScopeFor(t, m) = FirstCors(table[t][i].chain)
                        /\ FirstCors(table[t][i].chain) = NoScope =>
                             \A c \in CorsOf(table[t]) : m \notin Advertised(t, c)
      BY DEF PreflightIsTrue
    <2> DEFINE ops == table[t]
               own == FirstCors(ops[i].chain)
    <2>1. \A c : m \in Covered(ops, c) <=> own = c
      BY <1>1, OneOperationForAMethod, CoveredIs
    <2>2. m \in ServedMethods(t) BY SelectedIsServed
    <2>3. own \in CorsOf(ops) <=> own # NoScope
      BY DEF Position, CorsOf
    <2> HIDE DEF own
    <2>4. CASE own = NoScope
      <3>1. \A c \in CorsOf(ops) : m \notin Covered(ops, c) BY <2>1, <2>3, <2>4
      <3>2. ScopeFor(t, m) = NoScope BY <2>2, <3>1 DEF ScopeFor
      <3>3. \A c \in CorsOf(ops) : m \notin Advertised(t, c) BY <2>2, <3>1 DEF Advertised
      <3> QED BY <2>4, <3>2, <3>3 DEF own
    <2>5. CASE own # NoScope
      <3>1. {c \in CorsOf(ops) : m \in Covered(ops, c)} = {own} BY <2>1, <2>3, <2>5
      <3>2. ScopeFor(t, m) = CHOOSE c \in {own} : TRUE BY <3>1 DEF ScopeFor
      <3> QED BY <2>5, <3>2 DEF own
    <2> QED BY <2>4, <2>5
  <1> QED BY <1>1, AlwaysBuilt, PTL

-----------------------------------------------------------------------------
(* Chains.                                                                 *)

(* A chain has every interceptor of what was called and no other, in the   *)
(* order of the calls.                                                     *)
Places(place, flat, chain) ==
    /\ place \in [1..Len(chain) -> 1..Len(flat)]
    /\ \A i, j \in 1..Len(chain) : i < j => place[i] < place[j]
    /\ \A i \in 1..Len(chain) : chain[i] # Guard /\ flat[place[i]] = chain[i]
    /\ \A k \in 1..Len(flat) : flat[k] # Guard => \E i \in 1..Len(chain) : place[i] = k

(* The first call that asked for the guard.                                *)
FirstAsk(flat, g) ==
    /\ g \in 1..Len(flat) /\ flat[g] = Guard
    /\ \A k \in 1..(g - 1) : flat[k] # Guard

(* The guard's point is after those that were called before the first call *)
(* that asked for it.                                                      *)
Asked(place, flat, chain, at) ==
    IF at = None THEN \A k \in 1..Len(flat) : flat[k] # Guard
    ELSE /\ at \in 0..Len(chain)
         /\ \E g \in 1..Len(flat) :
              /\ FirstAsk(flat, g)
              /\ \A i \in 1..Len(chain) : place[i] < g <=> i <= at

Follows(flat, chain, at) ==
    \E place : Places(place, flat, chain) /\ Asked(place, flat, chain, at)

(* What a single call leaves, and none.                                    *)
LEMMA NoCallFollows == Follows(<<>>, <<>>, None)
  <1> DEFINE place == [i \in 1..0 |-> i]
  <1>1. Places(place, <<>>, <<>>) BY DEF Places
  <1>2. Asked(place, <<>>, <<>>, None) BY DEF Asked
  <1> QED BY <1>1, <1>2 DEF Follows

LEMMA InterceptorFollows ==
    ASSUME NEW n, n # Guard
    PROVE  Follows(<<n>>, <<n>>, None)
  <1> DEFINE place == [i \in 1..1 |-> 1]
  <1>1. Len(<<n>>) = 1 /\ <<n>>[1] = n OBVIOUS
  <1>2. Places(place, <<n>>, <<n>>) BY <1>1 DEF Places
  <1>3. Asked(place, <<n>>, <<n>>, None) BY <1>1 DEF Asked
  <1> QED BY <1>2, <1>3 DEF Follows

LEMMA GuardFollows == Follows(<<Guard>>, <<>>, 0)
  <1> DEFINE place == [i \in 1..0 |-> i]
  <1>1. Len(<<Guard>>) = 1 /\ <<Guard>>[1] = Guard OBVIOUS
  <1>2. Places(place, <<Guard>>, <<>>) BY <1>1 DEF Places
  <1>3. FirstAsk(<<Guard>>, 1) BY <1>1 DEF FirstAsk
  <1>4. Asked(place, <<Guard>>, <<>>, 0) BY <1>1, <1>3 DEF Asked, None
  <1> QED BY <1>2, <1>4 DEF Follows

(* A scope in another: the calls and the chains are put one after the      *)
(* other, and the outermost point that was asked for is the guard's.       *)
LEMMA JoinedFollows ==
    ASSUME NEW S, NEW f1 \in Seq(S), NEW f2 \in Seq(S), NEW c1 \in Seq(S), NEW c2 \in Seq(S),
           NEW a1, NEW a2, Follows(f1, c1, a1), Follows(f2, c2, a2)
    PROVE  Follows(f1 \o f2, c1 \o c2, GuardPoint(a1, Len(c1), a2))
  <1>1. PICK p1 : Places(p1, f1, c1) /\ Asked(p1, f1, c1, a1) BY DEF Follows
  <1>2. PICK p2 : Places(p2, f2, c2) /\ Asked(p2, f2, c2, a2) BY DEF Follows
  <1> DEFINE F == Len(f1)  C == Len(c1)  G == Len(f2)  D == Len(c2)
             flat == f1 \o f2
             chain == c1 \o c2
             at == GuardPoint(a1, C, a2)
             place == [i \in 1..(C + D) |-> IF i <= C THEN p1[i] ELSE F + p2[i - C]]
  <1>3. F \in Nat /\ C \in Nat /\ G \in Nat /\ D \in Nat OBVIOUS
  <1>4. /\ Len(flat) = F + G
        /\ \A k \in 1..F : flat[k] = f1[k]
        /\ \A k \in 1..G : flat[F + k] = f2[k]
    BY Joined
  <1>5. /\ Len(chain) = C + D
        /\ \A i \in 1..C : chain[i] = c1[i]
        /\ \A i \in 1..D : chain[C + i] = c2[i]
    BY Joined
  <1>6. /\ p1 \in [1..C -> 1..F]
        /\ \A i, j \in 1..C : i < j => p1[i] < p1[j]
        /\ \A i \in 1..C : c1[i] # Guard /\ f1[p1[i]] = c1[i]
        /\ \A k \in 1..F : f1[k] # Guard => \E i \in 1..C : p1[i] = k
    BY <1>1 DEF Places
  <1>7. /\ p2 \in [1..D -> 1..G]
        /\ \A i, j \in 1..D : i < j => p2[i] < p2[j]
        /\ \A i \in 1..D : c2[i] # Guard /\ f2[p2[i]] = c2[i]
        /\ \A k \in 1..G : f2[k] # Guard => \E i \in 1..D : p2[i] = k
    BY <1>2 DEF Places
  <1>8. IF a1 = None THEN \A k \in 1..F : f1[k] # Guard
        ELSE /\ a1 \in 0..C
             /\ \E g \in 1..F : FirstAsk(f1, g) /\ \A i \in 1..C : p1[i] < g <=> i <= a1
    BY <1>1 DEF Asked
  <1>9. IF a2 = None THEN \A k \in 1..G : f2[k] # Guard
        ELSE /\ a2 \in 0..D
             /\ \E g \in 1..G : FirstAsk(f2, g) /\ \A i \in 1..D : p2[i] < g <=> i <= a2
    BY <1>2 DEF Asked
  <1> HIDE DEF flat, chain, F, C, G, D
  <1>10. /\ \A i \in 1..C : place[i] = p1[i]
         /\ \A i \in 1..D : place[C + i] = F + p2[i]
         /\ place \in [1..(C + D) -> 1..(F + G)]
    <2>1. ASSUME NEW i \in 1..C PROVE place[i] = p1[i] /\ p1[i] \in 1..F
      <3>1. i \in 1..(C + D) /\ i <= C BY <1>3
      <3> QED BY <3>1, <1>6
    <2>2. ASSUME NEW i \in 1..D PROVE place[C + i] = F + p2[i] /\ p2[i] \in 1..G
      <3>1. C + i \in 1..(C + D) /\ ~(C + i <= C) /\ (C + i) - C = i BY <1>3
      <3> QED BY <3>1, <1>7
    <2>3. ASSUME NEW i \in 1..(C + D) PROVE place[i] \in 1..(F + G)
      <3>1. CASE i <= C
        <4>1. i \in 1..C BY <1>3, <3>1
        <4>2. place[i] \in 1..F BY <2>1, <4>1
        <4> QED BY <1>3, <4>2
      <3>2. CASE i > C
        <4>1. i - C \in 1..D /\ i = C + (i - C) BY <1>3, <3>2
        <4>2. place[i] = F + p2[i - C] /\ p2[i - C] \in 1..G BY <2>2, <4>1
        <4> QED BY <1>3, <4>2
      <3> QED BY <1>3, <3>1, <3>2
    <2> QED BY <2>1, <2>2, <2>3
  <1> HIDE DEF place
  <1>11. ASSUME NEW i \in 1..(C + D), ~(i \in 1..C) PROVE \E j \in 1..D : i = C + j
    <2>1. i - C \in 1..D /\ i = C + (i - C) BY <1>3, <1>11
    <2> QED BY <2>1
  <1>12. ASSUME NEW k \in 1..(F + G), ~(k \in 1..F) PROVE \E j \in 1..G : k = F + j
    <2>1. k - F \in 1..G /\ k = F + (k - F) BY <1>3, <1>12
    <2> QED BY <2>1
  <1>13. ASSUME NEW i \in 1..(C + D), NEW j \in 1..(C + D), i < j PROVE place[i] < place[j]
    <2>1. CASE i \in 1..C /\ j \in 1..C BY <1>6, <1>10, <1>13, <2>1
    <2>2. CASE i \in 1..C /\ j \notin 1..C
      <3>1. PICK y \in 1..D : j = C + y BY <1>11, <2>2
      <3>2. place[i] \in 1..F BY <1>6, <1>10, <2>2
      <3>3. place[j] = F + p2[y] /\ p2[y] \in 1..G BY <1>7, <1>10, <3>1
      <3> QED BY <1>3, <3>2, <3>3
    <2>3. CASE i \notin 1..C /\ j \in 1..C BY <1>3, <1>13, <2>3
    <2>4. CASE i \notin 1..C /\ j \notin 1..C
      <3>1. PICK x \in 1..D : i = C + x BY <1>11, <2>4
      <3>2. PICK y \in 1..D : j = C + y BY <1>11, <2>4
      <3>3. x < y BY <1>3, <1>13, <3>1, <3>2
      <3>4. /\ place[i] = F + p2[x] /\ p2[x] \in 1..G
            /\ place[j] = F + p2[y] /\ p2[y] \in 1..G
            /\ p2[x] < p2[y]
        BY <1>7, <1>10, <3>1, <3>2, <3>3
      <3> QED BY <1>3, <3>4
    <2> QED BY <2>1, <2>2, <2>3, <2>4
  <1>14. ASSUME NEW i \in 1..(C + D) PROVE chain[i] # Guard /\ flat[place[i]] = chain[i]
    <2>1. CASE i \in 1..C
      <3>1. place[i] = p1[i] /\ p1[i] \in 1..F /\ chain[i] = c1[i] BY <1>5, <1>6, <1>10, <2>1
      <3>2. flat[place[i]] = f1[p1[i]] BY <1>4, <3>1
      <3> QED BY <1>6, <2>1, <3>1, <3>2
    <2>2. CASE i \notin 1..C
      <3>1. PICK j \in 1..D : i = C + j BY <1>11, <2>2
      <3>2. place[i] = F + p2[j] /\ p2[j] \in 1..G BY <1>7, <1>10, <3>1
      <3>3. flat[place[i]] = f2[p2[j]] BY <1>4, <3>2
      <3> QED BY <1>5, <1>7, <3>1, <3>3
    <2> QED BY <2>1, <2>2
  <1>15. ASSUME NEW k \in 1..(F + G), flat[k] # Guard
         PROVE  \E i \in 1..(C + D) : place[i] = k
    <2>1. CASE k \in 1..F
      <3>1. PICK i \in 1..C : p1[i] = k BY <1>4, <1>6, <1>15, <2>1
      <3>2. i \in 1..(C + D) BY <1>3
      <3> QED BY <1>10, <3>1, <3>2
    <2>2. CASE k \notin 1..F
      <3>1. PICK j \in 1..G : k = F + j BY <1>12, <2>2
      <3>2. f2[j] # Guard BY <1>4, <1>15, <3>1
      <3>3. PICK i \in 1..D : p2[i] = j BY <1>7, <3>2
      <3>4. C + i \in 1..(C + D) BY <1>3
      <3> QED BY <1>10, <3>1, <3>3, <3>4
    <2> QED BY <2>1, <2>2
  <1>16. Places(place, flat, chain)
    BY <1>4, <1>5, <1>10, <1>13, <1>14, <1>15 DEF Places
  <1>17. Asked(place, flat, chain, at)
    <2>1. CASE a1 # None
      <3>1. at = a1 BY <2>1 DEF GuardPoint
      <3>2. PICK g \in 1..F : FirstAsk(f1, g) /\ \A i \in 1..C : p1[i] < g <=> i <= a1
        BY <1>8, <2>1
      <3>3. a1 \in 0..C BY <1>8, <2>1
      <3>4. g \in 1..(F + G) BY <1>3
      <3>5. FirstAsk(flat, g)
        <4>1. \A k \in 1..(g - 1) : k \in 1..F BY <1>3
        <4> QED BY <1>4, <3>2, <3>4, <4>1 DEF FirstAsk
      <3>6. ASSUME NEW i \in 1..(C + D) PROVE place[i] < g <=> i <= a1
        <4>1. CASE i \in 1..C BY <1>10, <3>2, <4>1
        <4>2. CASE i \notin 1..C
          <5>1. PICK j \in 1..D : i = C + j BY <1>11, <4>2
          <5>2. place[i] = F + p2[j] /\ p2[j] \in 1..G BY <1>7, <1>10, <5>1
          <5> QED BY <1>3, <3>3, <5>1, <5>2
        <4> QED BY <4>1, <4>2
      <3>7. a1 \in 0..(C + D) BY <1>3, <3>3
      <3> QED BY <1>4, <1>5, <2>1, <3>1, <3>4, <3>5, <3>6, <3>7 DEF Asked
    <2>2. CASE a1 = None /\ a2 # None
      <3>1. at = a2 + C BY <2>2 DEF GuardPoint
      <3>2. PICK g \in 1..G : FirstAsk(f2, g) /\ \A i \in 1..D : p2[i] < g <=> i <= a2
        BY <1>9, <2>2
      <3>3. a2 \in 0..D BY <1>9, <2>2
      <3>4. F + g \in 1..(F + G) BY <1>3
      <3>5. FirstAsk(flat, F + g)
        <4>1. flat[F + g] = Guard BY <1>4, <3>2 DEF FirstAsk
        <4>2. ASSUME NEW k \in 1..((F + g) - 1) PROVE flat[k] # Guard
          <5>1. k \in 1..(F + G) BY <1>3
          <5>2. CASE k \in 1..F BY <1>4, <1>8, <2>2, <5>2
          <5>3. CASE k \notin 1..F
            <6>1. PICK j \in 1..G : k = F + j BY <1>12, <5>1, <5>3
            <6>2. j \in 1..(g - 1) BY <1>3, <6>1
            <6> QED BY <1>4, <3>2, <6>1, <6>2 DEF FirstAsk
          <5> QED BY <5>2, <5>3
        <4> QED BY <1>4, <3>4, <4>1, <4>2 DEF FirstAsk
      <3>6. ASSUME NEW i \in 1..(C + D) PROVE place[i] < F + g <=> i <= a2 + C
        <4>1. CASE i \in 1..C
          <5>1. place[i] \in 1..F BY <1>6, <1>10, <4>1
          <5> QED BY <1>3, <3>3, <4>1, <5>1
        <4>2. CASE i \notin 1..C
          <5>1. PICK j \in 1..D : i = C + j BY <1>11, <4>2
          <5>2. place[i] = F + p2[j] /\ p2[j] \in 1..G BY <1>7, <1>10, <5>1
          <5>3. p2[j] < g <=> j <= a2 BY <3>2
          <5> QED BY <1>3, <3>3, <5>1, <5>2, <5>3
        <4> QED BY <4>1, <4>2
      <3>7. a2 + C \in 0..(C + D) /\ a2 + C # None BY <1>3, <3>3 DEF None
      <3> QED BY <1>4, <1>5, <3>1, <3>4, <3>5, <3>6, <3>7 DEF Asked
    <2>3. CASE a1 = None /\ a2 = None
      <3>1. at = None BY <2>3 DEF GuardPoint
      <3>2. ASSUME NEW k \in 1..(F + G) PROVE flat[k] # Guard
        <4>1. CASE k \in 1..F BY <1>4, <1>8, <2>3, <4>1
        <4>2. CASE k \notin 1..F
          <5>1. PICK j \in 1..G : k = F + j BY <1>12, <4>2
          <5> QED BY <1>4, <1>9, <2>3, <5>1
        <4> QED BY <4>1, <4>2
      <3> QED BY <1>4, <3>1, <3>2 DEF Asked
    <2> QED BY <2>1, <2>2, <2>3
  <1> QED BY <1>16, <1>17 DEF Follows, flat, chain, C

(* What an insertion puts where.                                           *)
LEMMA Inserted ==
    ASSUME NEW S, NEW s \in Seq(S), NEW e \in S, NEW n \in 1..(Len(s) + 1),
           NEW q, q = InsertAt(s, n, e)
    PROVE  /\ q \in Seq(S) /\ Len(q) = Len(s) + 1
           /\ \A i \in 1..(n - 1) : q[i] = s[i]
           /\ q[n] = e
           /\ \A i \in n..Len(s) : q[i + 1] = s[i]
  <1> DEFINE at == n - 1
  <1>0. at \in 0..Len(s) /\ at + 1 = n OBVIOUS
  <1> HIDE DEF at
  <1> DEFINE N == Len(s)
             before == SubSeq(s, 1, at)
             after == SubSeq(s, at + 1, N)
             first == before \o <<e>>
             r == first \o after
  <1>1. N \in Nat /\ at \in Int /\ 0 <= at /\ at <= N BY <1>0
  <1>2. /\ before \in Seq(S) /\ Len(before) = at
        /\ \A i \in 1..at : before[i] = s[i]
    <2>1. \A i \in 1..at : s[i] \in S BY <1>1
    <2>2. 1 \in Int /\ at \in Int BY <1>1
    <2>3. /\ before \in Seq(S) /\ Len(before) = IF 1 <= at THEN at - 1 + 1 ELSE 0
          /\ \A i \in 1..(at - 1 + 1) : before[i] = s[1 + i - 1]
      BY <2>1, <2>2, SubSeqProperties
    <2> HIDE DEF before
    <2>4. Len(before) = at BY <1>1, <2>3
    <2>5. ASSUME NEW i \in 1..at PROVE before[i] = s[i]
      <3>1. i \in 1..(at - 1 + 1) /\ 1 + i - 1 = i BY <1>1
      <3> QED BY <2>3, <3>1
    <2> QED BY <2>3, <2>4, <2>5
  <1>3. /\ after \in Seq(S) /\ Len(after) = N - at
        /\ \A i \in 1..(N - at) : after[i] = s[at + i]
    <2>1. \A i \in (at + 1)..N : s[i] \in S BY <1>1
    <2>2. at + 1 \in Int /\ N \in Int BY <1>1
    <2>3. /\ after \in Seq(S)
          /\ Len(after) = IF at + 1 <= N THEN N - (at + 1) + 1 ELSE 0
          /\ \A i \in 1..(N - (at + 1) + 1) : after[i] = s[(at + 1) + i - 1]
      BY <2>1, <2>2, SubSeqProperties
    <2> HIDE DEF after, N
    <2>4. Len(after) = N - at BY <1>1, <2>3
    <2>5. ASSUME NEW i \in 1..(N - at) PROVE after[i] = s[at + i]
      <3>1. i \in 1..(N - (at + 1) + 1) /\ (at + 1) + i - 1 = at + i BY <1>1
      <3> QED BY <2>3, <3>1
    <2> QED BY <2>3, <2>4, <2>5
  <1>4. <<e>> \in Seq(S) /\ Len(<<e>>) = 1 /\ <<e>>[1] = e OBVIOUS
  <1> HIDE DEF before, after, N
  <1>5. /\ first \in Seq(S) /\ Len(first) = at + 1
        /\ \A i \in 1..at : first[i] = s[i]
        /\ first[at + 1] = e
    <2>1. /\ first \in Seq(S) /\ Len(first) = at + 1
          /\ \A i \in 1..at : first[i] = before[i]
          /\ \A i \in 1..1 : first[at + i] = <<e>>[i]
      BY <1>2, <1>4, Joined
    <2> QED BY <1>2, <1>4, <2>1
  <1> HIDE DEF first
  <1>6. /\ r \in Seq(S) /\ Len(r) = at + 1 + (N - at)
        /\ \A i \in 1..(at + 1) : r[i] = first[i]
        /\ \A i \in 1..(N - at) : r[(at + 1) + i] = after[i]
    <2>1. first \in Seq(S) /\ after \in Seq(S) BY <1>3, <1>5
    <2>3. ASSUME NEW x \in Seq(S), NEW y \in Seq(S)
          PROVE  /\ x \o y \in Seq(S) /\ Len(x \o y) = Len(x) + Len(y)
                 /\ \A i \in 1..Len(x) : (x \o y)[i] = x[i]
                 /\ \A i \in 1..Len(y) : (x \o y)[Len(x) + i] = y[i]
      BY Joined
    <2>2. /\ r \in Seq(S) /\ Len(r) = Len(first) + Len(after)
          /\ \A i \in 1..Len(first) : r[i] = first[i]
          /\ \A i \in 1..Len(after) : r[Len(first) + i] = after[i]
      BY <2>1, <2>3
    <2> HIDE DEF r
    <2> QED BY <1>3, <1>5, <2>2
  <1>7. r = q
    <2>1. (at + 1) - 1 = at BY <1>1
    <2> QED BY <1>0, <2>1 DEF InsertAt, first, before, after, N
  <1> HIDE DEF r
  <1>8. ASSUME NEW i \in 1..at PROVE r[i] = s[i]
    <2>1. i \in 1..(at + 1) BY <1>1
    <2> QED BY <1>5, <1>6, <2>1
  <1>9. r[at + 1] = e
    <2>1. at + 1 \in 1..(at + 1) BY <1>1
    <2> QED BY <1>5, <1>6, <2>1
  <1>10. ASSUME NEW i \in (at + 1)..N PROVE r[i + 1] = s[i]
    <2> DEFINE j == i - at
    <2>1. j \in 1..(N - at) /\ (at + 1) + j = i + 1 /\ at + j = i BY <1>1
    <2> HIDE DEF j
    <2>2. r[(at + 1) + j] = after[j] /\ after[j] = s[at + j] BY <1>3, <1>6, <2>1
    <2> QED BY <2>1, <2>2
  <1>11. Len(r) = N + 1 BY <1>1, <1>6
  <1>12. at = n - 1 BY DEF at
  <1> QED BY <1>0, <1>6, <1>7, <1>8, <1>9, <1>10, <1>11, <1>12 DEF N

(* An operation that is not guarded, or that no scope asked to guard, runs *)
(* under the interceptors that were called.                                *)
LEMMA InterceptorsInOrder ==
    ASSUME NEW S, NEW flat \in Seq(S), NEW chain \in Seq(S), NEW at, Follows(flat, chain, at)
    PROVE  InOrder(chain, flat, {k \in DOMAIN flat : flat[k] # Guard})
  <1>1. PICK place : Places(place, flat, chain) BY DEF Follows
  <1> DEFINE kept == {k \in DOMAIN flat : flat[k] # Guard}
  <1>2. DOMAIN chain = 1..Len(chain) /\ DOMAIN flat = 1..Len(flat) OBVIOUS
  <1>3. place \in [DOMAIN chain -> kept] BY <1>1, <1>2 DEF Places
  <1>4. \A k \in kept : \E i \in DOMAIN chain : place[i] = k BY <1>1, <1>2 DEF Places
  <1>5. \A i, j \in DOMAIN chain : i < j => place[i] < place[j] BY <1>1, <1>2 DEF Places
  <1>6. \A i \in DOMAIN chain : chain[i] = flat[place[i]] BY <1>1, <1>2 DEF Places
  <1> HIDE DEF kept
  <1>7. InOrder(chain, flat, kept) BY <1>3, <1>4, <1>5, <1>6 DEF InOrder
  <1> QED BY <1>7 DEF kept

(* One that is guarded has the guard where it was first asked for.         *)
LEMMA GuardInOrder ==
    ASSUME NEW S, NEW flat \in Seq(S), NEW chain \in Seq(S), Guard \in S,
           NEW at, at # None, Follows(flat, chain, at)
    PROVE  InOrder(InsertAt(chain, at + 1, Guard), flat,
                   {k \in DOMAIN flat : flat[k] = Guard => \A j \in 1..(k - 1) : flat[j] # Guard})
  <1>1. PICK p : Places(p, flat, chain) /\ Asked(p, flat, chain, at) BY DEF Follows
  <1> DEFINE C == Len(chain)  F == Len(flat)
             r == InsertAt(chain, at + 1, Guard)
             kept == {k \in DOMAIN flat : flat[k] = Guard => \A j \in 1..(k - 1) : flat[j] # Guard}
  <1>2. C \in Nat /\ F \in Nat /\ DOMAIN flat = 1..F OBVIOUS
  <1>3. /\ p \in [1..C -> 1..F]
        /\ \A i, j \in 1..C : i < j => p[i] < p[j]
        /\ \A i \in 1..C : chain[i] # Guard /\ flat[p[i]] = chain[i]
        /\ \A k \in 1..F : flat[k] # Guard => \E i \in 1..C : p[i] = k
    BY <1>1 DEF Places
  <1>4. at \in 0..C BY <1>1 DEF Asked
  <1>5. PICK g \in 1..F : FirstAsk(flat, g) /\ \A i \in 1..C : p[i] < g <=> i <= at
    BY <1>1 DEF Asked
  <1>6. /\ r \in Seq(S) /\ Len(r) = C + 1
        /\ \A i \in 1..at : r[i] = chain[i]
        /\ r[at + 1] = Guard
        /\ \A i \in (at + 1)..C : r[i + 1] = chain[i]
    <2> DEFINE n == at + 1
    <2>1. n \in 1..(Len(chain) + 1) /\ n - 1 = at BY <1>4
    <2>2. r = InsertAt(chain, n, Guard) OBVIOUS
    <2> HIDE DEF n, r, C
    <2>3. /\ r \in Seq(S) /\ Len(r) = Len(chain) + 1
          /\ \A i \in 1..(n - 1) : r[i] = chain[i]
          /\ r[n] = Guard
          /\ \A i \in n..Len(chain) : r[i + 1] = chain[i]
      BY <2>1, <2>2, Inserted
    <2> QED BY <2>1, <2>3 DEF n, C
  <1>7. DOMAIN r = 1..(C + 1) BY <1>6
  <1> HIDE DEF C, F, r
  <1> DEFINE place == [i \in 1..(C + 1) |->
                         IF i <= at THEN p[i] ELSE IF i = at + 1 THEN g ELSE p[i - 1]]
  <1>8. ASSUME NEW i \in 1..at
        PROVE  i \in 1..C /\ i \in 1..(C + 1) /\ place[i] = p[i] /\ p[i] \in 1..F /\ p[i] < g
    <2>1. i \in 1..C /\ i \in 1..(C + 1) /\ i <= at BY <1>2, <1>4
    <2>2. place[i] = p[i] BY <2>1
    <2> HIDE DEF place
    <2> QED BY <1>3, <1>5, <2>1, <2>2
  <1>9. at + 1 \in 1..(C + 1) /\ place[at + 1] = g
    <2>1. at + 1 \in 1..(C + 1) /\ ~(at + 1 <= at) BY <1>2, <1>4
    <2> QED BY <2>1
  <1>10. ASSUME NEW i \in (at + 1)..C
         PROVE  i \in 1..C /\ i + 1 \in 1..(C + 1) /\ place[i + 1] = p[i] /\ p[i] \in 1..F /\ p[i] > g
    <2>1. /\ i \in 1..C /\ i + 1 \in 1..(C + 1) /\ ~(i + 1 <= at) /\ i + 1 # at + 1
          /\ (i + 1) - 1 = i /\ ~(i <= at)
      BY <1>2, <1>4
    <2>2. place[i + 1] = p[i] BY <2>1
    <2> HIDE DEF place
    <2>3. p[i] # g BY <1>3, <1>5, <2>1 DEF FirstAsk
    <2>4. p[i] \in 1..F /\ ~(p[i] < g) BY <1>3, <1>5, <2>1
    <2>5. p[i] > g BY <1>2, <2>3, <2>4
    <2> QED BY <2>1, <2>2, <2>4, <2>5
  <1>11. ASSUME NEW i \in 1..(C + 1)
         PROVE  i \in 1..at \/ i = at + 1 \/ \E j \in (at + 1)..C : i = j + 1
    <2>1. CASE i > at + 1
      <3>1. i - 1 \in (at + 1)..C /\ i = (i - 1) + 1 BY <1>2, <1>4, <2>1
      <3> QED BY <3>1
    <2>2. CASE ~(i > at + 1) BY <1>2, <1>4, <2>2
    <2> QED BY <2>1, <2>2
  <1>12. DOMAIN place = 1..(C + 1) OBVIOUS
  <1>13. place = [i \in DOMAIN place |-> place[i]] OBVIOUS
  <1> HIDE DEF place
  <1>14. g \in kept /\ flat[g] = Guard BY <1>2, <1>5 DEF FirstAsk
  <1>15. ASSUME NEW i \in 1..C PROVE p[i] \in kept BY <1>2, <1>3
  <1> HIDE DEF kept
  <1>16. ASSUME NEW i \in 1..(C + 1) PROVE place[i] \in kept /\ r[i] = flat[place[i]]
    <2>1. CASE i \in 1..at BY <1>3, <1>6, <1>8, <1>15, <2>1
    <2>2. CASE i = at + 1 BY <1>6, <1>9, <1>14, <2>2
    <2>3. CASE \E j \in (at + 1)..C : i = j + 1
      <3>1. PICK j \in (at + 1)..C : i = j + 1 BY <2>3
      <3>2. j \in 1..C /\ place[i] = p[j] /\ r[i] = chain[j] BY <1>6, <1>10, <3>1
      <3> QED BY <1>3, <1>15, <3>2
    <2> QED BY <1>11, <2>1, <2>2, <2>3
  <1>17. ASSUME NEW i \in 1..(C + 1), NEW j \in 1..(C + 1), i < j PROVE place[i] < place[j]
    <2>1. CASE i \in 1..at /\ j \in 1..at BY <1>3, <1>8, <1>17, <2>1
    <2>2. CASE i \in 1..at /\ j = at + 1 BY <1>8, <1>9, <2>2
    <2>3. CASE i \in 1..at /\ \E y \in (at + 1)..C : j = y + 1
      <3>1. PICK y \in (at + 1)..C : j = y + 1 BY <2>3
      <3>2. place[i] \in 1..F /\ place[i] < g BY <1>8, <2>3
      <3>3. place[j] \in 1..F /\ place[j] > g BY <1>10, <3>1
      <3> QED BY <1>2, <1>5, <3>2, <3>3
    <2>4. CASE i = at + 1 /\ \E y \in (at + 1)..C : j = y + 1
      <3>1. PICK y \in (at + 1)..C : j = y + 1 BY <2>4
      <3>2. place[j] \in 1..F /\ place[j] > g BY <1>10, <3>1
      <3> QED BY <1>2, <1>5, <1>9, <2>4, <3>2
    <2>5. CASE (\E x \in (at + 1)..C : i = x + 1) /\ \E y \in (at + 1)..C : j = y + 1
      <3>1. PICK x \in (at + 1)..C : i = x + 1 BY <2>5
      <3>2. PICK y \in (at + 1)..C : j = y + 1 BY <2>5
      <3>3. x < y BY <1>2, <1>4, <1>17, <3>1, <3>2
      <3>4. place[i] = p[x] /\ place[j] = p[y] /\ x \in 1..C /\ y \in 1..C
        BY <1>10, <3>1, <3>2
      <3> QED BY <1>3, <3>3, <3>4
    <2>6. CASE (i = at + 1 \/ \E x \in (at + 1)..C : i = x + 1) /\ j \in 1..(at + 1)
      <3>1. j <= at + 1 /\ at + 1 <= i BY <1>2, <1>4, <2>6
      <3> QED BY <1>2, <1>4, <1>17, <3>1
    <2>7. \A k \in 1..at : k \in 1..(at + 1) BY <1>4
    <2>8. at + 1 \in 1..(at + 1) BY <1>4
    <2> QED BY <1>11, <2>1, <2>2, <2>3, <2>4, <2>5, <2>6, <2>7, <2>8
  <1>18. ASSUME NEW k \in kept PROVE \E i \in 1..(C + 1) : place[i] = k
    <2>1. k \in 1..F /\ (flat[k] = Guard => \A j \in 1..(k - 1) : flat[j] # Guard)
      BY <1>2 DEF kept
    <2>2. CASE flat[k] = Guard
      <3>1. k = g
        <4>1. ~(k < g)
          <5>1. k < g => k \in 1..(g - 1) BY <1>2, <1>5, <2>1
          <5> QED BY <1>5, <2>2, <5>1 DEF FirstAsk
        <4>2. ~(g < k)
          <5>1. g < k => g \in 1..(k - 1) BY <1>2, <1>5, <2>1
          <5> QED BY <1>14, <2>1, <2>2, <5>1
        <4> QED BY <1>2, <1>5, <2>1, <4>1, <4>2
      <3> QED BY <1>9, <3>1
    <2>3. CASE flat[k] # Guard
      <3>1. PICK i \in 1..C : p[i] = k BY <1>3, <2>1, <2>3
      <3>2. i \in 1..at \/ i \in (at + 1)..C BY <1>2, <1>4
      <3> QED BY <1>8, <1>10, <3>1, <3>2
    <2> QED BY <2>2, <2>3
  <1>19. place \in [DOMAIN r -> kept] BY <1>7, <1>12, <1>13, <1>16
  <1>20. InOrder(r, flat, kept) BY <1>7, <1>16, <1>17, <1>18, <1>19 DEF InOrder
  <1> QED BY <1>20 DEF r, kept

(* What was called around an operation that is mounted is what it carries. *)
Wrapped(m) == Follows(m.within.calls, m.interceptors, m.guardAt) /\ m.catch = m.within.catch

(* So it is of a scope; nothing was called around what a group has mounted *)
(* before the group is absorbed.                                           *)
OrderedScope(s, sc, w) ==
    /\ Follows(w.calls, sc.interceptors, sc.guardFirst) /\ sc.catch = w.catch
    /\ \A i \in DOMAIN sc.mounted :
          /\ Wrapped(sc.mounted[i])
          /\ s = "group" => sc.mounted[i] = Mounted(sc.mounted[i].endpoint)
Ordered == \A s \in Scope : OrderedScope(s, scope[s], wrote[s])

(* A scope at its start, and an operation, carry nothing.                  *)
LEMMA EmptyIsOrdered == \A s \in Scope : OrderedScope(s, Empty, NothingWritten)
  BY NoCallFollows DEF OrderedScope, Empty, NothingWritten

LEMMA MountedIsWrapped == \A e : Wrapped(Mounted(e)) /\ Mounted(e) = Mounted(Mounted(e).endpoint)
  BY NoCallFollows DEF Wrapped, Mounted, NothingWritten

(* An operation that is absorbed carries what was called on the scope that *)
(* had it, outside what it carried before.                                 *)
LEMMA AbsorbedIsWrapped ==
    ASSUME NEW sc \in ScopeRecord, NEW m \in MountedRecord, NEW w \in History, NEW prefix,
           Follows(w.calls, sc.interceptors, sc.guardFirst), sc.catch = w.catch, Wrapped(m)
    PROVE  /\ Wrapped(Nested(sc, m, w, prefix))
           /\ m = Mounted(m.endpoint) => Wrapped(Grouped(sc, m, w, prefix))
  <1> DEFINE S == Interceptors \cup {Guard}
             n == Nested(sc, m, w, prefix)
             g == Grouped(sc, m, w, prefix)
  <1>1. /\ w.calls \in Seq(S) /\ m.within.calls \in Seq(S)
        /\ sc.interceptors \in Seq(S) /\ m.interceptors \in Seq(S)
        /\ m.catch \in BOOLEAN /\ sc.catch \in BOOLEAN
    <2>1. sc.interceptors \in Seq(Interceptors) /\ m.interceptors \in Seq(Interceptors)
      BY DEF ScopeRecord, MountedRecord
    <2>2. sc.interceptors \in Seq(S) /\ m.interceptors \in Seq(S) BY <2>1, SeqMonotonic
    <2>3. m.within \in History BY DEF MountedRecord
    <2>4. w.calls \in Seq(S) /\ m.within.calls \in Seq(S) BY <2>3 DEF History
    <2>5. m.catch \in BOOLEAN /\ sc.catch \in BOOLEAN BY DEF ScopeRecord, MountedRecord
    <2> QED BY <2>2, <2>4, <2>5
  <1>2. /\ n.interceptors = sc.interceptors \o m.interceptors
        /\ n.guardAt = GuardPoint(sc.guardFirst, Len(sc.interceptors), m.guardAt)
        /\ n.catch = (m.catch \/ sc.catch)
        /\ n.within = Around(w, m.within)
    BY DEF Nested, MountedRecord
  <1>3. /\ g.interceptors = sc.interceptors
        /\ g.guardAt = sc.guardFirst
        /\ g.catch = sc.catch
        /\ g.within = Around(w, m.within)
    BY DEF Grouped, MountedRecord
  <1>4. Around(w, m.within).calls = w.calls \o m.within.calls
    BY DEF Around
  <1>5. Around(w, m.within).catch = (w.catch \/ m.within.catch)
    BY DEF Around
  <1> HIDE DEF n, g, S
  <1>6. Follows(w.calls \o m.within.calls, sc.interceptors \o m.interceptors,
                GuardPoint(sc.guardFirst, Len(sc.interceptors), m.guardAt))
    BY <1>1, JoinedFollows DEF Wrapped
  <1>7. Wrapped(n)
    <2>1. Follows(n.within.calls, n.interceptors, n.guardAt) BY <1>2, <1>4, <1>6
    <2>2. n.catch = n.within.catch BY <1>1, <1>2, <1>5 DEF Wrapped
    <2> QED BY <2>1, <2>2 DEF Wrapped
  <1>8. ASSUME m = Mounted(m.endpoint) PROVE Wrapped(g)
    <2>1. m.within = NothingWritten BY <1>8 DEF Mounted
    <2>2. g.within.calls = w.calls
      BY <1>1, <1>3, <1>4, <2>1, ConcatEmptySeq DEF NothingWritten
    <2>3. g.within.catch = g.catch BY <1>1, <1>3, <1>5, <2>1 DEF NothingWritten
    <2> QED BY <1>3, <2>2, <2>3 DEF Wrapped
  <1> QED BY <1>7, <1>8 DEF n, g

(* Operations joined to others are as they were.                           *)
LEMMA JoinedAreWrapped ==
    ASSUME NEW a \in Seq(MountedRecord), NEW b \in Seq(MountedRecord),
           \A i \in DOMAIN a : Wrapped(a[i]), \A i \in DOMAIN b : Wrapped(b[i])
    PROVE  \A i \in DOMAIN (a \o b) : Wrapped((a \o b)[i])
  <1> DEFINE c == a \o b
  <1>1. /\ Len(a) \in Nat /\ DOMAIN a = 1..Len(a)
        /\ Len(b) \in Nat /\ DOMAIN b = 1..Len(b)
        /\ c \in Seq(MountedRecord) /\ DOMAIN c = 1..Len(c) /\ Len(c) = Len(a) + Len(b)
    OBVIOUS
  <1>2. /\ \A i \in 1..Len(a) : c[i] = a[i]
        /\ \A i \in 1..Len(b) : c[Len(a) + i] = b[i]
    BY Joined
  <1> HIDE DEF c
  <1>3. ASSUME NEW i \in DOMAIN c PROVE Wrapped(c[i])
    <2>1. CASE i <= Len(a) BY <1>1, <1>2, <2>1
    <2>2. CASE i > Len(a)
      <3> DEFINE j == i - Len(a)
      <3>1. j \in 1..Len(b) /\ i = Len(a) + j BY <1>1, <2>2
      <3> HIDE DEF j
      <3> QED BY <1>1, <1>2, <3>1
    <2> QED BY <1>1, <2>1, <2>2
  <1> QED BY <1>3 DEF c

(* Every call keeps the chains as what was called.                         *)
LEMMA OrderedStep ==
    ASSUME TypeOK, Ordered, [Next]_vars
    PROVE  Ordered'
  <1> DEFINE S == Interceptors \cup {Guard}
  <1>1. ASSUME NEW s \in Scope
        PROVE  /\ OrderedScope(s, scope[s], wrote[s])
               /\ scope[s] \in ScopeRecord /\ wrote[s] \in History
               /\ scope[s].mounted \in Seq(MountedRecord)
               /\ scope[s].interceptors \in Seq(Interceptors) /\ scope[s].interceptors \in Seq(S)
               /\ scope[s].guardFirst \in Int /\ scope[s].catch \in BOOLEAN
               /\ wrote[s].calls \in Seq(S) /\ wrote[s].catch \in BOOLEAN
               /\ DOMAIN scope[s].mounted = 1..Len(scope[s].mounted)
    <2>1. scope[s] \in ScopeRecord /\ wrote[s] \in History BY DEF TypeOK
    <2>2. /\ scope[s].mounted \in Seq(MountedRecord) /\ scope[s].interceptors \in Seq(Interceptors)
          /\ scope[s].guardFirst \in Int /\ scope[s].catch \in BOOLEAN
      BY <2>1 DEF ScopeRecord
    <2>3. scope[s].interceptors \in Seq(S) BY <2>2, SeqMonotonic
    <2>4. wrote[s].calls \in Seq(S) /\ wrote[s].catch \in BOOLEAN BY <2>1 DEF History
    <2> QED BY <2>1, <2>2, <2>3, <2>4 DEF Ordered
  <1>2. scope = [s \in Scope |-> scope[s]] /\ wrote = [s \in Scope |-> wrote[s]] BY DEF TypeOK
  <1> HIDE DEF S
  <1>3. ASSUME NEW s \in Scope,
               \A q \in Scope \ {s} : scope'[q] = scope[q] /\ wrote'[q] = wrote[q],
               OrderedScope(s, scope'[s], wrote'[s])
        PROVE  Ordered'
    <2>1. \A q \in Scope : OrderedScope(q, scope'[q], wrote'[q]) BY <1>1, <1>3
    <2> QED BY <2>1 DEF Ordered, OrderedScope, Wrapped, Mounted, Follows, Places, Asked,
                          FirstAsk, NothingWritten
  <1>4. ASSUME NEW s \in Scope, NEW e \in DOMAIN Endpoints, Mount(s, e) PROVE Ordered'
    <2> DEFINE a == scope[s].mounted  b == <<Mounted(e)>>
    <2>1. /\ scope'[s] = [scope[s] EXCEPT !.mounted = Append(@, Mounted(e))]
          /\ wrote' = wrote
          /\ \A q \in Scope \ {s} : scope'[q] = scope[q]
      BY <1>2, <1>4 DEF Mount
    <2>2. /\ scope'[s].interceptors = scope[s].interceptors
          /\ scope'[s].guardFirst = scope[s].guardFirst
          /\ scope'[s].catch = scope[s].catch
          /\ scope'[s].mounted = Append(a, Mounted(e))
      BY <1>1, <2>1 DEF ScopeRecord
    <2>3. a \in Seq(MountedRecord) /\ Mounted(e) \in MountedRecord BY <1>1, MountedIsTyped
    <2>4. ASSUME NEW i \in DOMAIN Append(a, Mounted(e))
          PROVE  /\ Wrapped(Append(a, Mounted(e))[i])
                 /\ s = "group" => Append(a, Mounted(e))[i]
                                     = Mounted(Append(a, Mounted(e))[i].endpoint)
      <3>1. Append(a, Mounted(e))[i] = Mounted(e)
              \/ (i \in DOMAIN a /\ Append(a, Mounted(e))[i] = a[i])
        BY <2>3, AppendProperties
      <3> QED BY <1>1, <3>1, MountedIsWrapped DEF OrderedScope
    <2>5. OrderedScope(s, scope'[s], wrote'[s])
      <3> HIDE DEF a
      <3> QED BY <1>1, <2>1, <2>2, <2>4 DEF OrderedScope
    <2> QED BY <1>3, <2>1, <2>5
  <1>5. ASSUME NEW s \in Scope, NEW n \in Interceptors, Intercept(s, n) PROVE Ordered'
    <2>1. /\ scope'[s] = [scope[s] EXCEPT !.interceptors = Append(@, n)]
          /\ wrote'[s] = [wrote[s] EXCEPT !.calls = Append(@, n)]
          /\ \A q \in Scope \ {s} : scope'[q] = scope[q] /\ wrote'[q] = wrote[q]
      BY <1>2, <1>5 DEF Intercept
    <2>2. /\ scope'[s].interceptors = Append(scope[s].interceptors, n)
          /\ scope'[s].guardFirst = scope[s].guardFirst
          /\ scope'[s].catch = scope[s].catch
          /\ scope'[s].mounted = scope[s].mounted
          /\ wrote'[s].calls = Append(wrote[s].calls, n)
          /\ wrote'[s].catch = wrote[s].catch
      BY <1>1, <2>1 DEF ScopeRecord, History
    <2>3. n \in S /\ <<n>> \in Seq(S) /\ n # Guard BY InterceptorAssumption DEF S
    <2>4. /\ Append(scope[s].interceptors, n) = scope[s].interceptors \o <<n>>
          /\ Append(wrote[s].calls, n) = wrote[s].calls \o <<n>>
      BY <1>1, <2>3, AppendIsConcat
    <2>5. GuardPoint(scope[s].guardFirst, Len(scope[s].interceptors), None) = scope[s].guardFirst
      BY DEF GuardPoint
    <2>6. Follows(wrote[s].calls, scope[s].interceptors, scope[s].guardFirst)
      BY <1>1 DEF OrderedScope
    <2>7. Follows(<<n>>, <<n>>, None) BY <2>3, InterceptorFollows
    <2>8. Follows(wrote[s].calls \o <<n>>, scope[s].interceptors \o <<n>>,
                  GuardPoint(scope[s].guardFirst, Len(scope[s].interceptors), None))
      BY <1>1, <2>3, <2>6, <2>7, JoinedFollows
    <2>9. Follows(wrote'[s].calls, scope'[s].interceptors, scope'[s].guardFirst)
      BY <2>2, <2>4, <2>5, <2>8
    <2>10. OrderedScope(s, scope'[s], wrote'[s]) BY <1>1, <2>2, <2>9 DEF OrderedScope
    <2> QED BY <1>3, <2>1, <2>10
  <1>6. ASSUME NEW s \in Scope, GuardFirst(s) PROVE Ordered'
    <2> DEFINE at == IF scope[s].guardFirst = None THEN Len(scope[s].interceptors)
                     ELSE scope[s].guardFirst
    <2>1. /\ scope'[s] = [scope[s] EXCEPT !.guardFirst = at]
          /\ wrote'[s] = [wrote[s] EXCEPT !.calls = Append(@, Guard)]
          /\ \A q \in Scope \ {s} : scope'[q] = scope[q] /\ wrote'[q] = wrote[q]
      BY <1>2, <1>6 DEF GuardFirst
    <2>2. /\ scope'[s].interceptors = scope[s].interceptors
          /\ scope'[s].guardFirst = at
          /\ scope'[s].catch = scope[s].catch
          /\ scope'[s].mounted = scope[s].mounted
          /\ wrote'[s].calls = Append(wrote[s].calls, Guard)
          /\ wrote'[s].catch = wrote[s].catch
      <3> HIDE DEF at
      <3> QED BY <1>1, <2>1 DEF ScopeRecord, History
    <2>3. Guard \in S /\ <<Guard>> \in Seq(S) /\ <<>> \in Seq(S) BY DEF S
    <2>4. /\ scope[s].interceptors = scope[s].interceptors \o <<>>
          /\ Append(wrote[s].calls, Guard) = wrote[s].calls \o <<Guard>>
      BY <1>1, <2>3, AppendIsConcat, ConcatEmptySeq
    <2>5. GuardPoint(scope[s].guardFirst, Len(scope[s].interceptors), 0) = at
      <3>1. Len(scope[s].interceptors) \in Nat BY <1>1
      <3> QED BY <3>1 DEF GuardPoint, None
    <2>6. Follows(wrote[s].calls, scope[s].interceptors, scope[s].guardFirst)
      BY <1>1 DEF OrderedScope
    <2>7. Follows(wrote[s].calls \o <<Guard>>, scope[s].interceptors \o <<>>,
                  GuardPoint(scope[s].guardFirst, Len(scope[s].interceptors), 0))
      BY <1>1, <2>3, <2>6, GuardFollows, JoinedFollows
    <2> HIDE DEF at
    <2>8. Follows(wrote'[s].calls, scope'[s].interceptors, scope'[s].guardFirst)
      BY <2>2, <2>4, <2>5, <2>7
    <2>9. OrderedScope(s, scope'[s], wrote'[s]) BY <1>1, <2>2, <2>8 DEF OrderedScope
    <2> QED BY <1>3, <2>1, <2>9
  <1>7. ASSUME NEW s \in Scope, CatchPanics(s) PROVE Ordered'
    <2>1. /\ scope'[s] = [scope[s] EXCEPT !.catch = TRUE]
          /\ wrote'[s] = [wrote[s] EXCEPT !.catch = TRUE]
          /\ \A q \in Scope \ {s} : scope'[q] = scope[q] /\ wrote'[q] = wrote[q]
      BY <1>2, <1>7 DEF CatchPanics
    <2>2. /\ scope'[s].interceptors = scope[s].interceptors
          /\ scope'[s].guardFirst = scope[s].guardFirst
          /\ scope'[s].mounted = scope[s].mounted
          /\ scope'[s].catch = TRUE /\ wrote'[s].catch = TRUE
          /\ wrote'[s].calls = wrote[s].calls
      BY <1>1, <2>1 DEF ScopeRecord, History
    <2>3. OrderedScope(s, scope'[s], wrote'[s]) BY <1>1, <2>2 DEF OrderedScope
    <2> QED BY <1>3, <2>1, <2>3
  <1>8. ASSUME NEW s \in Routers, TrailingSlashes(s) PROVE Ordered'
    <2>1. s \in Scope BY DEF Routers, Scope
    <2>2. /\ scope'[s] = [scope[s] EXCEPT !.policySet = TRUE] /\ wrote' = wrote
          /\ \A q \in Scope \ {s} : scope'[q] = scope[q]
      BY <1>2, <1>8, <2>1 DEF TrailingSlashes
    <2>3. /\ scope'[s].interceptors = scope[s].interceptors
          /\ scope'[s].guardFirst = scope[s].guardFirst
          /\ scope'[s].mounted = scope[s].mounted
          /\ scope'[s].catch = scope[s].catch
      BY <1>1, <2>1, <2>2 DEF ScopeRecord
    <2>4. OrderedScope(s, scope'[s], wrote'[s]) BY <1>1, <2>1, <2>2, <2>3 DEF OrderedScope
    <2> QED BY <1>3, <2>1, <2>2, <2>4
  <1>9. ASSUME NEW x \in Scope, NEW y \in Scope, x # y, x # "group",
               NEW absorbed \in Seq(MountedRecord),
               \A i \in DOMAIN absorbed : Wrapped(absorbed[i]),
               scope'[y] = Empty, wrote'[y] = NothingWritten,
               scope'[x] \in ScopeRecord, wrote'[x] = wrote[x],
               scope'[x].mounted = scope[x].mounted \o absorbed,
               scope'[x].interceptors = scope[x].interceptors,
               scope'[x].guardFirst = scope[x].guardFirst,
               scope'[x].catch = scope[x].catch,
               \A q \in Scope \ {x, y} : scope'[q] = scope[q] /\ wrote'[q] = wrote[q]
        PROVE  Ordered'
    <2>1. \A i \in DOMAIN scope[x].mounted : Wrapped(scope[x].mounted[i])
      BY <1>1 DEF OrderedScope
    <2>2. \A i \in DOMAIN scope'[x].mounted : Wrapped(scope'[x].mounted[i])
      BY <1>1, <1>9, <2>1, JoinedAreWrapped
    <2>3. OrderedScope(x, scope'[x], wrote'[x]) BY <1>1, <1>9, <2>2 DEF OrderedScope
    <2>4. OrderedScope(y, scope'[y], wrote'[y]) BY <1>9, EmptyIsOrdered
    <2>5. \A q \in Scope : OrderedScope(q, scope'[q], wrote'[q]) BY <1>1, <1>9, <2>3, <2>4
    <2> QED BY <2>5 DEF Ordered, OrderedScope, Wrapped, Mounted, Follows, Places, Asked,
                          FirstAsk, NothingWritten
  <1>10. scope' \in [Scope -> ScopeRecord] /\ wrote' \in [Scope -> History]
    BY TypesStep DEF TypeOK
  <1>11. ASSUME NEW x \in Routers, NEW prefix \in GroupPrefixes, Group(x, prefix) PROVE Ordered'
    <2> DEFINE g == scope["group"]
               absorbed == [i \in DOMAIN g.mounted |->
                              Grouped(g, g.mounted[i], wrote["group"], prefix)]
    <2>1. "group" \in Scope /\ x \in Scope /\ x # "group" BY DEF Scope, Routers
    <2>2. \A i \in DOMAIN g.mounted : g.mounted[i] \in MountedRecord BY <1>1, <2>1
    <2>3. prefix \in Prefix BY PrefixAssumption
    <2>4. \A i \in DOMAIN g.mounted :
            /\ Grouped(g, g.mounted[i], wrote["group"], prefix) \in MountedRecord
            /\ Wrapped(Grouped(g, g.mounted[i], wrote["group"], prefix))
      BY <1>1, <2>1, <2>2, <2>3, AbsorbedIsTyped, AbsorbedIsWrapped DEF OrderedScope
    <2>5. DOMAIN g.mounted = 1..Len(g.mounted) /\ Len(g.mounted) \in Nat BY <1>1, <2>1
    <2>6. absorbed \in Seq(MountedRecord) BY <2>4, <2>5
    <2>7. \A i \in DOMAIN absorbed : Wrapped(absorbed[i]) BY <2>4
    <2>8. /\ scope' = [scope EXCEPT ![x].mounted = @ \o absorbed, !["group"] = Empty]
          /\ wrote' = [wrote EXCEPT !["group"] = NothingWritten]
      BY <1>11 DEF Group, Grouped
    <2> HIDE DEF absorbed, g
    <2>9. /\ scope'[x] = [scope[x] EXCEPT !.mounted = @ \o absorbed] /\ wrote'[x] = wrote[x]
          /\ scope'["group"] = Empty /\ wrote'["group"] = NothingWritten
          /\ \A q \in Scope \ {x, "group"} : scope'[q] = scope[q] /\ wrote'[q] = wrote[q]
      BY <1>2, <2>1, <2>8
    <2>10. /\ scope'[x].mounted = scope[x].mounted \o absorbed
           /\ scope'[x].interceptors = scope[x].interceptors
           /\ scope'[x].guardFirst = scope[x].guardFirst
           /\ scope'[x].catch = scope[x].catch
      BY <1>1, <2>1, <2>9 DEF ScopeRecord
    <2>11. scope'[x] \in ScopeRecord BY <1>10, <2>1
    <2> QED BY <1>9, <2>1, <2>6, <2>7, <2>9, <2>10, <2>11
  <1>12. ASSUME NEW prefix \in NestPrefixes, Nest(prefix) PROVE Ordered'
    <2> DEFINE other == scope["nested"]
               absorbed == [i \in DOMAIN other.mounted |->
                              Nested(other, other.mounted[i], wrote["nested"], prefix)]
               v == scope["root"].violated \/ other.policySet
    <2>1. "nested" \in Scope /\ "root" \in Scope BY DEF Scope
    <2>2. \A i \in DOMAIN other.mounted : other.mounted[i] \in MountedRecord BY <1>1, <2>1
    <2>3. prefix \in Prefix BY PrefixAssumption
    <2>4. \A i \in DOMAIN other.mounted :
            /\ Nested(other, other.mounted[i], wrote["nested"], prefix) \in MountedRecord
            /\ Wrapped(Nested(other, other.mounted[i], wrote["nested"], prefix))
      BY <1>1, <2>1, <2>2, <2>3, AbsorbedIsTyped, AbsorbedIsWrapped DEF OrderedScope
    <2>5. DOMAIN other.mounted = 1..Len(other.mounted) /\ Len(other.mounted) \in Nat
      BY <1>1, <2>1
    <2>6. absorbed \in Seq(MountedRecord) BY <2>4, <2>5
    <2>7. \A i \in DOMAIN absorbed : Wrapped(absorbed[i]) BY <2>4
    <2>8. /\ scope' = [scope EXCEPT !["root"].mounted = @ \o absorbed,
                                    !["root"].violated = @ \/ other.policySet,
                                    !["nested"] = Empty]
          /\ wrote' = [wrote EXCEPT !["nested"] = NothingWritten]
      BY <1>12 DEF Nest, Nested
    <2>9. /\ scope'["root"] = [scope["root"] EXCEPT !.mounted = @ \o absorbed, !.violated = v]
          /\ wrote'["root"] = wrote["root"]
          /\ scope'["nested"] = Empty /\ wrote'["nested"] = NothingWritten
          /\ \A q \in Scope \ {"root", "nested"} : scope'[q] = scope[q] /\ wrote'[q] = wrote[q]
      <3> HIDE DEF absorbed
      <3> QED BY <1>2, <2>1, <2>8
    <2> HIDE DEF absorbed, other, v
    <2>10. /\ scope'["root"].mounted = scope["root"].mounted \o absorbed
           /\ scope'["root"].interceptors = scope["root"].interceptors
           /\ scope'["root"].guardFirst = scope["root"].guardFirst
           /\ scope'["root"].catch = scope["root"].catch
      BY <1>1, <2>1, <2>9 DEF ScopeRecord
    <2>11. scope'["root"] \in ScopeRecord BY <1>10, <2>1
    <2> QED BY <1>9, <2>1, <2>6, <2>7, <2>9, <2>10, <2>11
  <1>13. ASSUME UNCHANGED <<scope, wrote>> PROVE Ordered'
    <2>1. \A q \in Scope : OrderedScope(q, scope'[q], wrote'[q]) BY <1>1, <1>13
    <2> QED BY <2>1 DEF Ordered, OrderedScope, Wrapped, Mounted, Follows, Places, Asked,
                          FirstAsk, NothingWritten
  <1>14. CASE Build BY <1>13, <1>14 DEF Build
  <1>15. CASE UNCHANGED vars BY <1>13, <1>15 DEF vars
  <1> QED BY <1>4, <1>5, <1>6, <1>7, <1>8, <1>11, <1>12, <1>14, <1>15 DEF Next, Finished

(* In every state that is reached.                                         *)
LEMMA AlwaysOrdered == Spec => []Ordered
  <1>1. Init => Ordered
    BY EmptyIsOrdered DEF Init, Ordered
  <1> QED BY <1>1, OrderedStep, RouterTypeCorrect, PTL DEF Spec

(* Every operation of every router that is built runs under the            *)
(* interceptors of the scopes around it in the order they were called,     *)
(* with its guard once, where the outermost scope that asked put it, and   *)
(* its panics caught exactly when one of those scopes catches them.        *)
THEOREM ChainsFollowTheCalls == Spec => []ChainsAsWritten
  <1>1. ASSUME TypeOK, Ordered, Built PROVE ChainsAsWritten
    <2> SUFFICES ASSUME phase = "built", NEW t \in DOMAIN table, NEW i \in DOMAIN table[t]
                 PROVE  LET op == table[t][i]
                            m == scope["root"].mounted[i]
                        IN  /\ InOrder(op.chain, Written(m), Kept(m))
                            /\ op.catch <=> wrote["root"].catch \/ m.within.catch
      BY DEF ChainsAsWritten
    <2> DEFINE root == scope["root"]
               m == root.mounted[i]
               w == wrote["root"]
               S == Interceptors \cup {Guard}
               flat == w.calls \o m.within.calls
               chain == root.interceptors \o m.interceptors
               at == GuardPoint(root.guardFirst, Len(root.interceptors), m.guardAt)
    <2>1. i \in DOMAIN root.mounted /\ table[t][i] = Served(root, m)
      <3>1. table = TableOf(scope["root"]) BY <1>1 DEF Built
      <3>2. table[t] = [k \in At(root.mounted, t) |-> Served(root, root.mounted[k])]
        BY <3>1 DEF TableOf
      <3> QED BY <3>2 DEF At
    <2>2. "root" \in Scope BY DEF Scope
    <2>3. root \in ScopeRecord /\ w \in History BY <1>1, <2>2 DEF TypeOK
    <2>4. m \in MountedRecord /\ root.interceptors \in Seq(Interceptors)
          /\ root.catch \in BOOLEAN /\ w.calls \in Seq(S)
      BY <2>1, <2>3 DEF ScopeRecord, History
    <2>5. /\ m.within \in History /\ m.interceptors \in Seq(Interceptors)
          /\ m.catch \in BOOLEAN
      BY <2>4 DEF MountedRecord
    <2>6. m.within.calls \in Seq(S) BY <2>5 DEF History
    <2>7. /\ Follows(w.calls, root.interceptors, root.guardFirst) /\ root.catch = w.catch
          /\ Wrapped(m)
      BY <1>1, <2>1, <2>2 DEF Ordered, OrderedScope
    <2>8. root.interceptors \in Seq(S) /\ m.interceptors \in Seq(S)
      BY <2>4, <2>5, SeqMonotonic
    <2>9. flat \in Seq(S) /\ chain \in Seq(S) /\ Guard \in S BY <2>4, <2>6, <2>8
    <2>10. Follows(flat, chain, at)
      <3> HIDE DEF S, m, w, root
      <3> QED BY <2>4, <2>6, <2>7, <2>8, JoinedFollows DEF Wrapped
    <2>11. Written(m) = flat BY DEF Written
    <2>12. table[t][i].chain =
             IF at # None /\ Endpoints[m.endpoint].guarded
             THEN InsertAt(chain, at + 1, Guard) ELSE chain
      BY <2>1 DEF Served, Covering
    <2>13. table[t][i].catch <=> w.catch \/ m.within.catch
      <3>1. table[t][i].catch = (m.catch \/ root.catch) BY <2>1 DEF Served
      <3> QED BY <2>4, <2>5, <2>7, <3>1 DEF Wrapped
    <2> HIDE DEF flat, chain, at, S, m, w, root
    <2>14. Kept(m) = {k \in DOMAIN flat : flat[k] = Guard =>
                        Endpoints[m.endpoint].guarded /\ \A j \in 1..(k - 1) : flat[j] # Guard}
      BY <2>11 DEF Kept
    <2>15. InOrder(table[t][i].chain, Written(m), Kept(m))
      <3>1. CASE at # None /\ Endpoints[m.endpoint].guarded
        <4>1. Kept(m) = {k \in DOMAIN flat :
                           flat[k] = Guard => \A j \in 1..(k - 1) : flat[j] # Guard}
          BY <2>14, <3>1
        <4> QED BY <2>9, <2>10, <2>11, <2>12, <3>1, <4>1, GuardInOrder
      <3>2. CASE ~(at # None /\ Endpoints[m.endpoint].guarded)
        <4>1. at = None => \A k \in DOMAIN flat : flat[k] # Guard
          BY <2>9, <2>10 DEF Follows, Asked
        <4>2. Kept(m) = {k \in DOMAIN flat : flat[k] # Guard}
          BY <2>14, <3>2, <4>1
        <4>3. table[t][i].chain = chain BY <2>12, <3>2
        <4> QED BY <2>9, <2>10, <2>11, <4>2, <4>3, InterceptorsInOrder
      <3> QED BY <3>1, <3>2
    <2> QED BY <2>13, <2>15 DEF m, w, root
  <1> QED BY <1>1, RouterTypeCorrect, AlwaysOrdered, AlwaysBuilt, PTL

-----------------------------------------------------------------------------
(* Trailing slashes.                                                       *)

(* A set of naturals that is not empty has a least member.                 *)
LEMMA HasLeast ==
    ASSUME NEW T, T \subseteq Nat, T # {}
    PROVE  \E x \in T : \A y \in T : x <= y
  <1> DEFINE R == {ss \in Nat \X Nat : ss[1] < ss[2]}
  <1>1. IsWellFoundedOn(R, Nat) BY NatLessThanWellFounded, Zenon DEF OpToRel
  <1>2. \A x, y \in Nat : <<y, x>> \notin R => x <= y OBVIOUS
  <1>3. \E x \in T : \A y \in T : ~(<<y, x>> \in R)
    <2> HIDE DEF R
    <2> QED BY <1>1, WFMin, Zenon
  <1> HIDE DEF R
  <1>4. PICK x \in T : \A y \in T : <<y, x>> \notin R BY <1>3
  <1>5. \A y \in T : x <= y BY <1>2, <1>4
  <1> QED BY <1>5

(* Where templates match a path, one of them is preferred to every other:  *)
(* at each segment in turn, those with a literal there are preferred.      *)
LEMMA BestExists ==
    ASSUME NEW T, T \subseteq Seq(STRING), NEW p, NEW t0 \in T, Matches(t0, p)
    PROVE  Best(T, p) # {}
  <1> DEFINE M == {u \in T : Matches(u, p)}
             n == Len(p)
             Leads(t, k) == \A u \in M : (\A j \in 1..k : u[j] = t[j]) \/ Prior(t, u)
             Bad == {k \in 0..n : ~\E t \in M : Leads(t, k)}
  <1>1. ASSUME NEW u \in M
        PROVE  /\ u \in Seq(STRING) /\ Len(u) = n /\ DOMAIN u = 1..n /\ n \in Nat
               /\ \A i \in 1..n : u[i] = p[i] \/ u[i] = "{}"
    <2>1. u \in Seq(STRING) /\ Matches(u, p) OBVIOUS
    <2>2. Len(u) \in Nat /\ DOMAIN u = 1..Len(u) BY <2>1, LenProperties
    <2>3. Len(u) = n /\ \A i \in DOMAIN u : u[i] = p[i] \/ u[i] = "{}" BY <2>1 DEF Matches
    <2> HIDE DEF n
    <2> QED BY <2>1, <2>2, <2>3
  <1>2. t0 \in M OBVIOUS
  <1>3. n \in Nat BY <1>1, <1>2
  <1>4. M \subseteq T /\ \A u \in T : u \in M <=> Matches(u, p) OBVIOUS
  <1> HIDE DEF M, n
  <1>5. 0 \notin Bad
    <2>1. Leads(t0, 0) OBVIOUS
    <2> QED BY <1>2, <2>1
  <1>6. ASSUME NEW k \in Nat, k + 1 <= n, NEW t \in M, Leads(t, k)
        PROVE  \E s \in M : Leads(s, k + 1)
    <2>1. k + 1 \in 1..n /\ k + 1 \in Nat BY <1>3, <1>6
    <2>2. \A u \in M : u[k + 1] = p[k + 1] \/ u[k + 1] = "{}" BY <1>1, <2>1
    <2>3. ASSUME NEW u \in M, NEW s \in M, \A j \in 1..k : u[j] = s[j], u[k + 1] = s[k + 1]
          PROVE  \A j \in 1..(k + 1) : u[j] = s[j]
      <3>1. \A j \in 1..(k + 1) : j \in 1..k \/ j = k + 1 OBVIOUS
      <3> QED BY <2>3, <3>1
    <2>4. ASSUME NEW u \in M, NEW s \in M, \A j \in 1..k : u[j] = s[j],
                 s[k + 1] # "{}", u[k + 1] = "{}"
          PROVE  Prior(s, u)
      <3>1. (k + 1) - 1 = k OBVIOUS
      <3>2. \A j \in 1..((k + 1) - 1) : s[j] = u[j] BY <2>4, <3>1
      <3>3. k + 1 \in DOMAIN s BY <1>1, <2>1
      <3> QED BY <2>4, <3>2, <3>3 DEF Prior
    <2>5. ASSUME NEW s \in M, s[k + 1] # "{}", \A j \in 1..k : s[j] = t[j]
          PROVE  Leads(s, k + 1)
      <3> SUFFICES ASSUME NEW u \in M
                   PROVE  (\A j \in 1..(k + 1) : u[j] = s[j]) \/ Prior(s, u)
        OBVIOUS
      <3>1. CASE \A j \in 1..k : u[j] = t[j]
        <4>1. \A j \in 1..k : u[j] = s[j] BY <2>5, <3>1
        <4>2. u[k + 1] = s[k + 1] \/ u[k + 1] = "{}" BY <2>2, <2>5
        <4> QED BY <2>3, <2>4, <2>5, <4>1, <4>2
      <3>2. CASE Prior(t, u) /\ ~\A j \in 1..k : u[j] = t[j]
        <4>1. PICK i \in DOMAIN t : /\ t[i] # "{}" /\ u[i] = "{}"
                                    /\ \A j \in 1..(i - 1) : t[j] = u[j]
          BY <3>2 DEF Prior
        <4>2. i \in 1..n BY <1>1
        <4>3. i <= k
          <5>1. i > k => \A j \in 1..k : j \in 1..(i - 1) BY <1>3, <4>2
          <5>2. i > k => \A j \in 1..k : t[j] = u[j] BY <4>1, <5>1
          <5>3. ~(i > k) BY <3>2, <5>2
          <5> QED BY <1>3, <4>2, <5>3
        <4>4. i \in 1..k /\ \A j \in 1..(i - 1) : j \in 1..k BY <1>3, <4>2, <4>3
        <4>5. s[i] # "{}" /\ \A j \in 1..(i - 1) : s[j] = u[j] BY <2>5, <4>1, <4>4
        <4>6. i \in DOMAIN s BY <1>1, <4>2
        <4>7. Prior(s, u) BY <4>1, <4>5, <4>6 DEF Prior
        <4> QED BY <4>7
      <3> QED BY <1>6, <3>1, <3>2
    <2>6. CASE t[k + 1] # "{}" BY <2>5, <2>6
    <2>7. CASE \E s \in M : s[k + 1] # "{}" /\ \A j \in 1..k : s[j] = t[j] BY <2>5, <2>7
    <2>8. CASE /\ t[k + 1] = "{}"
               /\ \A s \in M : (\A j \in 1..k : s[j] = t[j]) => s[k + 1] = "{}"
      <3>1. \A u \in M : (\A j \in 1..(k + 1) : u[j] = t[j]) \/ Prior(t, u)
        BY <1>6, <2>3, <2>8
      <3> QED BY <3>1
    <2> QED BY <2>6, <2>7, <2>8
  <1>7. Bad = {}
    <2> SUFFICES ASSUME Bad # {} PROVE FALSE OBVIOUS
    <2>1. Bad \subseteq Nat BY <1>3
    <2>2. PICK k \in Bad : \A j \in Bad : k <= j
      <3> HIDE DEF Bad
      <3> QED BY <2>1, HasLeast
    <2>3. k \in 1..n BY <1>3, <1>5, <2>2
    <2>4. k - 1 \in Nat /\ k - 1 \in 0..n /\ ~(k <= k - 1) /\ (k - 1) + 1 = k
      BY <1>3, <2>3
    <2>5. k - 1 \notin Bad
      <3> HIDE DEF Bad
      <3> QED BY <2>2, <2>4
    <2>6. PICK t \in M : Leads(t, k - 1) BY <2>4, <2>5
    <2>7. \E s \in M : Leads(s, (k - 1) + 1)
      <3> HIDE DEF Leads
      <3>1. (k - 1) + 1 <= n BY <1>3, <2>3
      <3> QED BY <1>6, <2>4, <2>6, <3>1
    <2>8. \E s \in M : Leads(s, k)
      <3> HIDE DEF Leads
      <3> QED BY <2>4, <2>7
    <2> QED BY <2>2, <2>8
  <1>8. PICK t \in M : Leads(t, n)
    <2>1. n \in 0..n BY <1>3
    <2> QED BY <1>7, <2>1
  <1>9. ASSUME NEW u \in T, Matches(u, p), u # t PROVE Prior(t, u)
    <2>1. u \in M BY <1>4, <1>9
    <2>2. ~\A j \in 1..n : u[j] = t[j]
      <3>1. u \in Seq(STRING) /\ t \in Seq(STRING) /\ Len(u) = n /\ Len(t) = n BY <1>1, <2>1
      <3> QED BY <1>9, <3>1, SeqEqual
    <2> QED BY <1>8, <2>1, <2>2
  <1>10. t \in Best(T, p) BY <1>4, <1>9 DEF Best
  <1> QED BY <1>10

(* Templates and paths that have another spelling, and one that is another *)
(* with a slash after it.                                                  *)
Segment == STRING \cup {Slash, "v"}
Spelling == {t \in Seq(Segment) : t # <<>> /\ \A i \in 1..(Len(t) - 1) : t[i] # Slash}
Plain == {t \in Spelling : Flippable(t)}
Slashed(s, t) ==
    /\ Len(t) = Len(s) + 1 /\ t[Len(s) + 1] = Slash
    /\ \A i \in 1..Len(s) : t[i] = s[i] /\ s[i] # Slash

(* What a template of that kind is made of.                                *)
LEMMA PlainIs ==
    ASSUME NEW t \in Plain
    PROVE  /\ t \in Seq(Segment) /\ Len(t) \in Nat /\ Len(t) > 0 /\ DOMAIN t = 1..Len(t)
           /\ \A i \in 1..(Len(t) - 1) : t[i] # Slash
           /\ t[Len(t)] = Slash => Len(t) > 1
  <1>1. /\ t \in Seq(Segment) /\ t # <<>> /\ t # <<Slash>>
        /\ \A i \in 1..(Len(t) - 1) : t[i] # Slash
    BY DEF Plain, Spelling, Flippable
  <1>2. Len(t) \in Nat /\ Len(t) > 0 /\ DOMAIN t = 1..Len(t) BY <1>1, EmptySeq, LenProperties
  <1>3. ASSUME Len(t) = 1, t[1] = Slash PROVE FALSE
    <2>1. <<Slash>> \in Seq(Segment) /\ Len(<<Slash>>) = 1 /\ <<Slash>>[1] = Slash
      BY DEF Segment
    <2>2. \A i \in 1..Len(t) : t[i] = <<Slash>>[i] BY <1>3, <2>1
    <2>3. t = <<Slash>> BY <1>1, <1>3, <2>1, <2>2, SeqEqual
    <2> QED BY <1>1, <2>3
  <1> QED BY <1>1, <1>2, <1>3

(* Flipping drops the slash that is there or puts one that is not.         *)
LEMMA FlipIs ==
    ASSUME NEW t \in Plain, NEW f, f = FlipTrailingSlash(t)
    PROVE  /\ f \in Plain
           /\ t[Len(t)] = Slash => Slashed(f, t) /\ f[Len(f)] # Slash
           /\ t[Len(t)] # Slash => Slashed(t, f) /\ f[Len(f)] = Slash
  <1> DEFINE n == Len(t)
  <1>1. /\ t \in Seq(Segment) /\ n \in Nat /\ n > 0
        /\ \A i \in 1..(n - 1) : t[i] # Slash
        /\ t[n] = Slash => n > 1
    BY PlainIs
  <1>2. (\A i \in 1..n : t[i] \in Segment) /\ Slash \in Segment BY <1>1 DEF Segment
  <1> HIDE DEF n
  <1>3. CASE t[n] = Slash
    <2> DEFINE k == n - 1
    <2>1. f = SubSeq(t, 1, k) BY <1>3 DEF FlipTrailingSlash, Last, Front, n
    <2>2. k \in Nat /\ k > 0 /\ n = k + 1 BY <1>1, <1>3
    <2> HIDE DEF k
    <2>3. /\ f \in Seq(Segment) /\ Len(f) = k
          /\ \A i \in 1..k : f[i] = t[i]
      <3>1. \A i \in 1..k : t[i] \in Segment BY <1>2, <2>2
      <3>2. /\ f \in Seq(Segment) /\ Len(f) = IF 1 <= k THEN k - 1 + 1 ELSE 0
            /\ \A i \in 1..(k - 1 + 1) : f[i] = t[1 + i - 1]
        BY <2>1, <2>2, <3>1, SubSeqProperties
      <3>3. Len(f) = k BY <2>2, <3>2
      <3>4. ASSUME NEW i \in 1..k PROVE f[i] = t[i]
        <4>1. i \in 1..(k - 1 + 1) /\ 1 + i - 1 = i BY <2>2
        <4> QED BY <3>2, <4>1
      <3> QED BY <3>2, <3>3, <3>4
    <2>4. \A i \in 1..k : f[i] # Slash BY <1>1, <2>2, <2>3
    <2>5. f[k] # Slash /\ f # <<>> /\ f # <<Slash>>
      <3>1. k \in 1..k BY <2>2
      <3>2. f[k] # Slash BY <2>4, <3>1
      <3>3. f # <<>> BY <2>2, <2>3
      <3>4. f # <<Slash>>
        <4>1. Len(<<Slash>>) = 1 /\ <<Slash>>[1] = Slash OBVIOUS
        <4> QED BY <2>3, <3>2, <4>1
      <3> QED BY <3>2, <3>3, <3>4
    <2>6. \A i \in 1..(Len(f) - 1) : f[i] # Slash BY <2>2, <2>3, <2>4
    <2>7. f \in Plain BY <2>3, <2>5, <2>6 DEF Plain, Spelling, Flippable
    <2>8. Slashed(f, t) BY <1>3, <2>2, <2>3, <2>4 DEF Slashed, n
    <2> QED BY <1>3, <2>3, <2>5, <2>7, <2>8 DEF n
  <1>4. CASE t[n] # Slash
    <2>1. f = Append(t, Slash) BY <1>4 DEF FlipTrailingSlash, Last, n
    <2>2. /\ f \in Seq(Segment) /\ Len(f) = n + 1 /\ f[n + 1] = Slash /\ f # <<>>
          /\ \A i \in 1..n : f[i] = t[i]
      BY <1>1, <1>2, <2>1, AppendProperties DEF n
    <2>3. \A i \in 1..n : t[i] # Slash
      <3>1. \A i \in 1..n : i \in 1..(n - 1) \/ i = n BY <1>1
      <3> QED BY <1>1, <1>4, <3>1
    <2>4. f # <<Slash>>
      <3>1. Len(<<Slash>>) = 1 OBVIOUS
      <3> QED BY <1>1, <2>2, <3>1
    <2>5. \A i \in 1..(Len(f) - 1) : f[i] # Slash
      <3>1. Len(f) - 1 = n BY <1>1, <2>2
      <3> QED BY <2>2, <2>3, <3>1
    <2>6. f \in Plain BY <2>2, <2>4, <2>5 DEF Plain, Spelling, Flippable
    <2>7. Slashed(t, f) BY <2>2, <2>3 DEF Slashed, n
    <2> QED BY <1>4, <2>2, <2>6, <2>7 DEF n
  <1> QED BY <1>3, <1>4

(* Flipping twice is nothing.                                              *)
LEMMA FlipTwice ==
    ASSUME NEW t \in Plain
    PROVE  /\ FlipTrailingSlash(t) \in Plain
           /\ FlipTrailingSlash(FlipTrailingSlash(t)) = t
  <1>1. PICK f : f = FlipTrailingSlash(t) OBVIOUS
  <1>2. PICK g : g = FlipTrailingSlash(f) OBVIOUS
  <1>3. /\ f \in Plain
        /\ t[Len(t)] = Slash => Slashed(f, t) /\ f[Len(f)] # Slash
        /\ t[Len(t)] # Slash => Slashed(t, f) /\ f[Len(f)] = Slash
    BY <1>1, FlipIs
  <1>4. /\ g \in Plain
        /\ f[Len(f)] = Slash => Slashed(g, f)
        /\ f[Len(f)] # Slash => Slashed(f, g)
    BY <1>2, <1>3, FlipIs
  <1>5. /\ t \in Seq(Segment) /\ Len(t) \in Nat
        /\ f \in Seq(Segment) /\ Len(f) \in Nat
        /\ g \in Seq(Segment) /\ Len(g) \in Nat
    BY <1>3, <1>4, PlainIs
  <1>6. CASE t[Len(t)] = Slash
    <2>1. Slashed(f, t) /\ Slashed(f, g) BY <1>3, <1>4, <1>6
    <2>2. Len(t) = Len(f) + 1 /\ Len(g) = Len(f) + 1 BY <2>1 DEF Slashed
    <2>3. \A i \in 1..Len(t) : i \in 1..Len(f) \/ i = Len(f) + 1 BY <1>5, <2>2
    <2>4. \A i \in 1..Len(t) : t[i] = g[i] BY <2>1, <2>3 DEF Slashed
    <2> QED BY <1>1, <1>2, <1>3, <1>5, <2>2, <2>4, SeqEqual
  <1>7. CASE t[Len(t)] # Slash
    <2>1. Slashed(t, f) /\ Slashed(g, f) BY <1>3, <1>4, <1>7
    <2>2. Len(t) = Len(g) BY <1>5, <2>1 DEF Slashed
    <2>3. \A i \in 1..Len(t) : t[i] = g[i] BY <2>1, <2>2 DEF Slashed
    <2> QED BY <1>1, <1>2, <1>3, <1>5, <2>2, <2>3, SeqEqual
  <1> QED BY <1>6, <1>7

(* A template ends in a slash exactly when the paths it matches do.        *)
LEMMA SlashMatchesSlash ==
    ASSUME NEW t \in Plain, NEW p, Matches(t, p)
    PROVE  Len(t) = Len(p) /\ (t[Len(t)] = Slash <=> p[Len(p)] = Slash)
  <1>1. Len(t) \in DOMAIN t BY PlainIs
  <1>2. Len(t) = Len(p) BY DEF Matches
  <1>3. t[Len(t)] = p[Len(t)] \/ (t[Len(t)] = "{}" /\ p[Len(t)] # Slash) BY <1>1 DEF Matches
  <1>4. Slash # "{}" BY DEF Slash
  <1> QED BY <1>2, <1>3, <1>4

(* What the other spelling of a template matches, the template matches the *)
(* other spelling of.                                                      *)
LEMMA MatchesFlipped ==
    ASSUME NEW t \in Plain, NEW p \in Plain, NEW f, f = FlipTrailingSlash(t),
           NEW q, q = FlipTrailingSlash(p), Matches(f, p)
    PROVE  Matches(t, q)
  <1>1. /\ f \in Plain
        /\ t[Len(t)] = Slash => Slashed(f, t) /\ f[Len(f)] # Slash
        /\ t[Len(t)] # Slash => Slashed(t, f) /\ f[Len(f)] = Slash
    BY FlipIs
  <1>2. /\ q \in Plain
        /\ p[Len(p)] = Slash => Slashed(q, p) /\ q[Len(q)] # Slash
        /\ p[Len(p)] # Slash => Slashed(p, q) /\ q[Len(q)] = Slash
    BY FlipIs
  <1>3. Len(f) = Len(p) /\ (f[Len(f)] = Slash <=> p[Len(p)] = Slash) BY <1>1, SlashMatchesSlash
  <1>4. /\ DOMAIN t = 1..Len(t) /\ Len(t) \in Nat
        /\ DOMAIN f = 1..Len(f) /\ Len(f) \in Nat
        /\ Len(p) \in Nat /\ Len(q) \in Nat
    BY <1>1, <1>2, PlainIs
  <1>5. \A i \in 1..Len(f) : f[i] = p[i] \/ (f[i] = "{}" /\ p[i] # Slash) BY <1>4 DEF Matches
  <1>6. CASE t[Len(t)] = Slash
    <2>1. Slashed(f, t) /\ Slashed(p, q) BY <1>1, <1>2, <1>3, <1>6
    <2>2. Len(t) = Len(f) + 1 /\ Len(q) = Len(f) + 1 BY <1>3, <2>1 DEF Slashed
    <2>3. t[Len(f) + 1] = Slash /\ q[Len(f) + 1] = Slash BY <1>3, <2>1 DEF Slashed
    <2>4. \A i \in 1..Len(f) : t[i] = f[i] /\ q[i] = p[i] BY <1>3, <2>1 DEF Slashed
    <2>5. \A i \in 1..Len(t) : i \in 1..Len(f) \/ i = Len(f) + 1 BY <1>4, <2>2
    <2>6. \A i \in 1..Len(t) : t[i] = q[i] \/ (t[i] = "{}" /\ q[i] # Slash)
      BY <1>5, <2>3, <2>4, <2>5
    <2> QED BY <1>4, <2>2, <2>6 DEF Matches
  <1>7. CASE t[Len(t)] # Slash
    <2>1. Slashed(t, f) /\ Slashed(q, p) BY <1>1, <1>2, <1>3, <1>7
    <2>2. Len(f) = Len(t) + 1 /\ Len(q) = Len(t)
      <3>1. Len(f) = Len(t) + 1 /\ Len(p) = Len(q) + 1 BY <2>1 DEF Slashed
      <3>2. Len(f) = Len(p) BY <1>3
      <3>3. Len(t) \in Nat /\ Len(q) \in Nat BY <1>4
      <3> QED BY <3>1, <3>2, <3>3
    <2>3. \A i \in 1..Len(t) : t[i] = f[i] /\ q[i] = p[i] BY <2>1, <2>2 DEF Slashed
    <2>4. \A i \in 1..Len(t) : i \in 1..Len(f) BY <1>4, <2>2
    <2>5. \A i \in 1..Len(t) : t[i] = q[i] \/ (t[i] = "{}" /\ q[i] # Slash)
      BY <1>5, <2>3, <2>4
    <2> QED BY <1>4, <2>2, <2>5 DEF Matches
  <1> QED BY <1>6, <1>7

(* And the other way.                                                      *)
LEMMA MatchesFlip ==
    ASSUME NEW t \in Plain, NEW p \in Plain
    PROVE  Matches(FlipTrailingSlash(t), p) <=> Matches(t, FlipTrailingSlash(p))
  <1>1. PICK f : f = FlipTrailingSlash(t) OBVIOUS
  <1>2. PICK q : q = FlipTrailingSlash(p) OBVIOUS
  <1>3. /\ f \in Plain /\ t = FlipTrailingSlash(f)
        /\ q \in Plain /\ p = FlipTrailingSlash(q)
    BY <1>1, <1>2, FlipTwice
  <1>4. Matches(f, p) => Matches(t, q) BY <1>1, <1>2, MatchesFlipped
  <1>5. Matches(t, q) => Matches(f, p) BY <1>3, MatchesFlipped
  <1> QED BY <1>1, <1>2, <1>4, <1>5

(* Of two templates that match one path, the other spelling of the one     *)
(* that is preferred is preferred.                                         *)
LEMMA PriorFlipped ==
    ASSUME NEW t \in Plain, NEW u \in Plain, NEW p, Matches(t, p), Matches(u, p),
           NEW f, f = FlipTrailingSlash(t), NEW g, g = FlipTrailingSlash(u), Prior(t, u)
    PROVE  Prior(f, g)
  <1>1. Len(t) = Len(u) /\ (t[Len(t)] = Slash <=> u[Len(u)] = Slash) BY SlashMatchesSlash
  <1>2. /\ DOMAIN t = 1..Len(t) /\ Len(t) \in Nat /\ Len(u) \in Nat BY PlainIs
  <1>3. /\ f \in Plain
        /\ t[Len(t)] = Slash => Slashed(f, t)
        /\ t[Len(t)] # Slash => Slashed(t, f)
    BY FlipIs
  <1>4. /\ g \in Plain
        /\ u[Len(u)] = Slash => Slashed(g, u)
        /\ u[Len(u)] # Slash => Slashed(u, g)
    BY FlipIs
  <1>5. /\ DOMAIN f = 1..Len(f) /\ Len(f) \in Nat /\ Len(g) \in Nat BY <1>3, <1>4, PlainIs
  <1>6. PICK i \in 1..Len(t) : /\ t[i] # "{}" /\ u[i] = "{}"
                               /\ \A j \in 1..(i - 1) : t[j] = u[j]
    BY <1>2 DEF Prior
  <1>7. CASE t[Len(t)] = Slash
    <2>1. Slashed(f, t) /\ Slashed(g, u) BY <1>1, <1>3, <1>4, <1>7
    <2>2. Len(t) = Len(f) + 1 /\ Len(g) = Len(f)
      <3>1. Len(t) = Len(f) + 1 /\ Len(u) = Len(g) + 1 BY <2>1 DEF Slashed
      <3>2. Len(t) = Len(u) BY <1>1
      <3>3. Len(f) \in Nat /\ Len(g) \in Nat BY <1>5
      <3> QED BY <3>1, <3>2, <3>3
    <2>3. i # Len(t) BY <1>1, <1>6, <1>7
    <2>4. i \in 1..Len(f) /\ \A j \in 1..(i - 1) : j \in 1..Len(f) BY <1>5, <2>2, <2>3
    <2>5. \A j \in 1..Len(f) : t[j] = f[j] /\ u[j] = g[j] BY <2>1, <2>2 DEF Slashed
    <2>6. f[i] # "{}" /\ g[i] = "{}" /\ \A j \in 1..(i - 1) : f[j] = g[j]
      BY <1>6, <2>4, <2>5
    <2> QED BY <1>5, <2>4, <2>6 DEF Prior
  <1>8. CASE t[Len(t)] # Slash
    <2>1. Slashed(t, f) /\ Slashed(u, g) BY <1>1, <1>3, <1>4, <1>8
    <2>2. i \in 1..Len(f) /\ \A j \in 1..(i - 1) : j \in 1..Len(t)
      BY <1>2, <2>1 DEF Slashed
    <2>3. \A j \in 1..Len(t) : f[j] = t[j] /\ g[j] = u[j] BY <1>1, <2>1 DEF Slashed
    <2>4. f[i] # "{}" /\ g[i] = "{}" /\ \A j \in 1..(i - 1) : f[j] = g[j]
      BY <1>6, <2>2, <2>3
    <2> QED BY <1>5, <2>2, <2>4 DEF Prior
  <1> QED BY <1>7, <1>8

(* The templates of the table, and the paths of the property, are such     *)
(* spellings.                                                              *)
LEMMA TemplatesAreSpellings == Template \subseteq Spelling
  <1>1. ASSUME NEW t \in Template PROVE t \in Spelling
    <2>1. t \in Seq(STRING) BY DEF Template
    <2>2. STRING \subseteq Segment BY DEF Segment
    <2>3. t \in Seq(Segment) BY <2>1, <2>2, SeqMonotonic
    <2> QED BY <2>3 DEF Template, Spelling
  <1> QED BY <1>1

LEMMA PathsAreSpellings ==
    ASSUME \A t \in DOMAIN table : t \in Template, NEW p \in Paths
    PROVE  p \in Spelling
  <1>1. Segments \cup {"v"} \subseteq Segment
    <2>1. ASSUME NEW t \in DOMAIN table, NEW i \in DOMAIN t PROVE t[i] \in Segment
      <3>1. t \in Spelling BY TemplatesAreSpellings
      <3>2. t \in Seq(Segment) BY <3>1 DEF Spelling
      <3>3. i \in 1..Len(t) BY <3>2, LenProperties
      <3> QED BY <3>2, <3>3, ElementOfSeq
    <2>2. ASSUME NEW x \in Segments PROVE x \in Segment
      <3>1. PICK t \in DOMAIN table : x \in ToSet(t) BY DEF Segments
      <3>2. PICK i \in DOMAIN t : x = t[i] BY <3>1 DEF ToSet
      <3> QED BY <2>1, <3>2
    <2> QED BY <2>2 DEF Segment
  <1>2. ASSUME NEW q \in Declares PROVE q \in Spelling
    <2>1. PICK t \in DOMAIN table : q \in Spelled(t) BY DEF Declares
    <2>2. t \in Spelling BY <2>1, TemplatesAreSpellings
    <2>3. /\ t \in Seq(Segment) /\ t # <<>>
          /\ \A i \in 1..(Len(t) - 1) : t[i] # Slash
      BY <2>2 DEF Spelling
    <2>4. Len(t) \in Nat /\ Len(t) > 0 /\ DOMAIN t = 1..Len(t)
      BY <2>3, EmptySeq, LenProperties
    <2>5. /\ q \in [DOMAIN t -> Segments \cup {"v"}] /\ Matches(t, q)
          /\ \A i \in DOMAIN t : t[i] # "{}" => q[i] = t[i]
      BY <2>1 DEF Spelled
    <2>6. q \in [1..Len(t) -> Segment] BY <1>1, <2>4, <2>5
    <2>7. q \in Seq(Segment) BY <2>4, <2>6
    <2>8. Len(q) = Len(t) BY <2>5 DEF Matches
    <2>9. q # <<>>
      <3>1. Len(<<>>) = 0 OBVIOUS
      <3> QED BY <2>4, <2>8, <3>1
    <2>10. ASSUME NEW i \in 1..(Len(q) - 1) PROVE q[i] # Slash
      <3>1. i \in DOMAIN t /\ i \in 1..(Len(t) - 1) BY <2>4, <2>8
      <3>2. t[i] = q[i] \/ (t[i] = "{}" /\ q[i] # Slash) BY <2>5, <3>1 DEF Matches
      <3> QED BY <2>3, <3>1, <3>2
    <2> QED BY <2>7, <2>9, <2>10 DEF Spelling
  <1>3. ASSUME NEW q \in Declares \ {<<Slash>>} PROVE FlipTrailingSlash(q) \in Spelling
    <2>1. q \in Plain BY <1>2, <1>3 DEF Plain, Flippable
    <2>2. FlipTrailingSlash(q) \in Plain BY <2>1, FlipTwice
    <2> QED BY <2>2 DEF Plain
  <1> QED BY <1>2, <1>3 DEF Paths

(* No spelling that was flipped matches "/".                               *)
LEMMA RootIsNotFlipped ==
    ASSUME NEW t \in Plain
    PROVE  ~Matches(t, <<Slash>>)
  <1> SUFFICES ASSUME Matches(t, <<Slash>>) PROVE FALSE OBVIOUS
  <1>1. Len(<<Slash>>) = 1 /\ <<Slash>>[1] = Slash OBVIOUS
  <1>2. Len(t) = Len(<<Slash>>) /\ (t[Len(t)] = Slash <=> <<Slash>>[Len(<<Slash>>)] = Slash)
    BY SlashMatchesSlash
  <1>3. Len(t) = 1 BY <1>1, <1>2
  <1>4. t[Len(t)] = Slash BY <1>1, <1>2
  <1>5. Len(t) > 1 BY <1>4, PlainIs
  <1> QED BY <1>3, <1>5

(* Where no declared template matches a path, the entry Lenient serves is  *)
(* the one that the other spelling of the path has.                        *)
LEMMA LenientIs ==
    ASSUME \A t \in DOMAIN table : t \in Template,
           NEW p \in Spelling, StrictEntry(p) = {}
    PROVE  LenientEntry(p) = IF Flippable(p) THEN StrictEntry(FlipTrailingSlash(p)) ELSE {}
  <1> DEFINE T == DOMAIN table
             F == FlippedSpellings(T)
             q == FlipTrailingSlash(p)
             spelled == Best(T \cup F, p)
  <1>1. T \subseteq Spelling BY TemplatesAreSpellings
  <1>2. ASSUME NEW t \in T PROVE ~Matches(t, p)
    <2>1. T \subseteq Seq(STRING) BY DEF Template
    <2>2. Matches(t, p) => Best(T, p) # {} BY <2>1, BestExists
    <2> QED BY <2>2 DEF StrictEntry
  <1>3. ASSUME NEW f \in F
        PROVE  \E t \in T : t \in Plain /\ f = FlipTrailingSlash(t) /\ f \in Plain
                              /\ t = FlipTrailingSlash(f)
    <2>1. PICK t \in T : Flippable(t) /\ f = FlipTrailingSlash(t) BY DEF FlippedSpellings
    <2>2. t \in Plain BY <1>1, <2>1 DEF Plain
    <2> QED BY <2>1, <2>2, FlipTwice
  <1>4. ASSUME NEW t \in T, Flippable(t), Matches(FlipTrailingSlash(t), p)
        PROVE  FlipTrailingSlash(t) \in F
    <2>1. FlipTrailingSlash(t) \notin T BY <1>2, <1>4
    <2> QED BY <1>4, <2>1 DEF FlippedSpellings
  <1>5. LenientEntry(p) = {IF t \in F THEN FlipTrailingSlash(t) ELSE t : t \in spelled}
    BY DEF LenientEntry
  <1>6. /\ \A f \in spelled : f \in T \cup F /\ Matches(f, p)
                                /\ \A g \in T \cup F : Matches(g, p) /\ g # f => Prior(f, g)
        /\ \A f \in T \cup F :
              Matches(f, p) /\ (\A g \in T \cup F : Matches(g, p) /\ g # f => Prior(f, g))
                => f \in spelled
    BY DEF Best
  <1>7. /\ \A t \in StrictEntry(q) : t \in T /\ Matches(t, q)
                                       /\ \A u \in T : Matches(u, q) /\ u # t => Prior(t, u)
        /\ \A t \in T :
              Matches(t, q) /\ (\A u \in T : Matches(u, q) /\ u # t => Prior(t, u))
                => t \in StrictEntry(q)
    BY DEF StrictEntry, Best
  <1> HIDE DEF T, F, spelled
  <1>8. ASSUME NEW f \in spelled PROVE f \in F /\ Matches(f, p) BY <1>2, <1>6
  <1>9. CASE ~Flippable(p)
    <2>1. p = <<Slash>> BY <1>9 DEF Flippable
    <2>2. spelled = {}
      <3>1. ASSUME NEW f \in spelled PROVE FALSE
        <4>1. f \in F /\ Matches(f, <<Slash>>) BY <1>8, <2>1
        <4>2. f \in Plain BY <1>3, <4>1
        <4> QED BY <4>1, <4>2, RootIsNotFlipped
      <3> QED BY <3>1
    <2> QED BY <1>5, <1>9, <2>2
  <1>10. CASE Flippable(p)
    <2>1. p \in Plain BY <1>10 DEF Plain
    <2>2. q \in Plain BY <2>1, FlipTwice
    <2>3. ASSUME NEW t \in T, Matches(t, q) PROVE t \in Plain
      <3>1. t # <<Slash>>
        <4> SUFFICES ASSUME t = <<Slash>> PROVE FALSE OBVIOUS
        <4>1. Len(<<Slash>>) = 1 /\ DOMAIN <<Slash>> = 1..1 /\ <<Slash>>[1] = Slash OBVIOUS
        <4>2. Matches(<<Slash>>, q) BY <2>3
        <4> HIDE DEF q
        <4>3. Len(<<Slash>>) = Len(q) BY <4>2 DEF Matches
        <4>4. Len(q) = 1 /\ 1 \in DOMAIN <<Slash>> BY <4>1, <4>3
        <4>5. <<Slash>>[1] = q[1] \/ <<Slash>>[1] = "{}" BY <4>2, <4>4 DEF Matches
        <4>6. Slash # "{}" BY DEF Slash
        <4>7. q[Len(q)] = Slash BY <4>1, <4>4, <4>5, <4>6
        <4>8. Len(q) > 1 BY <2>2, <4>7, PlainIs
        <4>9. Len(q) = 1 BY <4>4
        <4> QED BY <4>8, <4>9
      <3> QED BY <1>1, <3>1 DEF Plain, Flippable
    <2>4. ASSUME NEW f \in spelled PROVE FlipTrailingSlash(f) \in StrictEntry(q)
      <3>1. f \in F /\ Matches(f, p) BY <1>8
      <3>2. PICK t \in T : t \in Plain /\ f = FlipTrailingSlash(t) /\ f \in Plain
                             /\ t = FlipTrailingSlash(f)
        BY <1>3, <3>1
      <3>3. Matches(t, q) BY <2>1, <3>1, <3>2, MatchesFlip
      <3>4. ASSUME NEW u \in T, Matches(u, q), u # t PROVE Prior(t, u)
        <4>1. u \in Plain BY <2>3, <3>4
        <4>2. PICK g : g = FlipTrailingSlash(u) OBVIOUS
        <4>3. g \in Plain /\ u = FlipTrailingSlash(g) BY <4>1, <4>2, FlipTwice
        <4>4. Matches(g, p) BY <2>1, <3>4, <4>1, <4>2, MatchesFlip
        <4>5. g \in F BY <1>4, <4>1, <4>2, <4>4 DEF Plain
        <4>6. g # f BY <3>2, <3>4, <4>3
        <4>7. Prior(f, g) BY <1>6, <4>4, <4>5, <4>6
        <4> QED BY <3>1, <3>2, <4>3, <4>4, <4>7, PriorFlipped
      <3>5. t \in StrictEntry(q) BY <1>7, <3>3, <3>4
      <3> QED BY <3>2, <3>5
    <2>5. ASSUME NEW t \in StrictEntry(q)
          PROVE  FlipTrailingSlash(t) \in spelled /\ t = FlipTrailingSlash(FlipTrailingSlash(t))
      <3>1. t \in T /\ Matches(t, q) BY <1>7
      <3>2. t \in Plain BY <2>3, <3>1
      <3>3. PICK f : f = FlipTrailingSlash(t) OBVIOUS
      <3>4. f \in Plain /\ t = FlipTrailingSlash(f) BY <3>2, <3>3, FlipTwice
      <3>5. Matches(f, p) BY <2>1, <3>1, <3>2, <3>3, MatchesFlip
      <3>6. f \in F BY <1>4, <3>1, <3>2, <3>3, <3>5 DEF Plain
      <3>7. ASSUME NEW g \in T \cup F, Matches(g, p), g # f PROVE Prior(f, g)
        <4>1. g \in F BY <1>2, <3>7
        <4>2. PICK u \in T : u \in Plain /\ g = FlipTrailingSlash(u) /\ g \in Plain
                               /\ u = FlipTrailingSlash(g)
          BY <1>3, <4>1
        <4>3. Matches(u, q) BY <2>1, <3>7, <4>2, MatchesFlip
        <4>4. u # t BY <3>3, <3>7, <4>2
        <4>5. Prior(t, u) BY <1>7, <4>2, <4>3, <4>4
        <4> QED BY <3>1, <3>2, <3>3, <4>2, <4>3, <4>5, PriorFlipped
      <3>8. f \in spelled BY <1>6, <3>5, <3>6, <3>7
      <3> QED BY <3>3, <3>4, <3>8
    <2>6. LenientEntry(p) = {FlipTrailingSlash(f) : f \in spelled} BY <1>5, <1>8
    <2>7. LenientEntry(p) = StrictEntry(q)
      <3> HIDE DEF q
      <3> QED BY <2>4, <2>5, <2>6
    <2> QED BY <1>10, <2>7
  <1> QED BY <1>9, <1>10

(* The slash policies agree on every path of every router that is built.   *)
THEOREM PoliciesAgree == Spec => []SlashPoliciesAgree
  <1>1. ASSUME TypeOK PROVE SlashPoliciesAgree
    <2> SUFFICES ASSUME phase = "built", NEW p \in Paths, StrictEntry(p) = {},
                        NEW m \in Method
                 PROVE  /\ Followed(p, m)[1] # "308"
                        /\ LET lenient == Answered("Lenient", p, m)
                           IN  lenient[1] = Followed(p, m)[1]
                               /\ (lenient[1] # "501" => lenient[2] = Followed(p, m)[2])
      BY DEF SlashPoliciesAgree
    <2> DEFINE q == FlipTrailingSlash(p)
               lenient == Answered("Lenient", p, m)
               first == Answered("Redirect", p, m)
               second == Answered("Redirect", q, m)
               says == Verdict(CHOOSE t \in StrictEntry(q) : TRUE, m)
    <2>1. p \in Spelling BY <1>1, PathsAreSpellings DEF TypeOK
    <2>2. LenientEntry(p) = IF Flippable(p) THEN StrictEntry(q) ELSE {}
      BY <1>1, <2>1, LenientIs DEF TypeOK
    <2>3. RedirectTarget(p) # {} <=> LenientEntry(p) # {}
      BY <2>2 DEF RedirectTarget, Flippable
    <2>4. /\ first[2] = {}
          /\ first[1] = IF m \notin Implemented(DOMAIN table) THEN "501"
                        ELSE IF RedirectTarget(p) # {} THEN "308" ELSE "404"
      BY DEF Answered
    <2>5. Followed(p, m) = IF first[1] = "308" THEN second ELSE first
      BY DEF Followed
    <2>6. ASSUME StrictEntry(q) # {}
          PROVE  /\ says = "501" <=> m \notin Implemented(DOMAIN table)
                 /\ says # "308"
      <3>1. (CHOOSE t \in StrictEntry(q) : TRUE) \in StrictEntry(q) BY <2>6
      <3>2. (CHOOSE t \in StrictEntry(q) : TRUE) \in DOMAIN table
        BY <3>1 DEF StrictEntry, Best
      <3> QED BY <3>2, VerdictIs
    <2>7. /\ lenient[2] = LenientEntry(p)
          /\ LenientEntry(p) = {} =>
               lenient[1] = IF m \notin Implemented(DOMAIN table) THEN "501" ELSE "404"
          /\ LenientEntry(p) # {} => lenient[1] = Verdict(CHOOSE t \in LenientEntry(p) : TRUE, m)
      BY DEF Answered
    <2>8. StrictEntry(q) # {} => second[1] = says /\ second[2] = StrictEntry(q)
      BY DEF Answered
    <2> HIDE DEF lenient, first, second, says, q
    <2>9. CASE LenientEntry(p) = {}
      <3>1. Followed(p, m) = first BY <2>3, <2>4, <2>5, <2>9
      <3>2. lenient[1] = first[1] /\ first[1] # "308" BY <2>3, <2>4, <2>7, <2>9
      <3> QED BY <2>4, <2>7, <2>9, <3>1, <3>2 DEF lenient
    <2>10. CASE LenientEntry(p) # {}
      <3>1. LenientEntry(p) = StrictEntry(q) /\ StrictEntry(q) # {} BY <2>2, <2>10
      <3>2. lenient[1] = says /\ lenient[2] = StrictEntry(q) BY <2>7, <3>1 DEF says
      <3>3. CASE m \notin Implemented(DOMAIN table)
        <4>1. first[1] = "501" BY <2>4, <3>3
        <4>2. Followed(p, m) = first BY <2>5, <4>1
        <4>3. lenient[1] = "501" BY <2>6, <3>1, <3>2, <3>3
        <4> QED BY <4>1, <4>2, <4>3 DEF lenient
      <3>4. CASE m \in Implemented(DOMAIN table)
        <4>1. Followed(p, m) = second BY <2>3, <2>4, <2>5, <2>10, <3>4
        <4>2. second[1] = says /\ second[2] = StrictEntry(q) /\ says # "308"
          BY <2>6, <2>8, <3>1
        <4> QED BY <3>2, <4>1, <4>2 DEF lenient
      <3> QED BY <3>3, <3>4
    <2> QED BY <2>9, <2>10
  <1> QED BY <1>1, RouterTypeCorrect, PTL
=============================================================================
