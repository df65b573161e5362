# Verification of kynos

kynos is a REST framework for Rust: an application declares operations, and
kynos serves them over HTTP/1.1 and HTTP/2, with interceptors around each
handler. This directory specifies the part of it where several tasks, timers
and clients act on shared state, and the part that decides what a request is
answered with: the router's table, and validators and ranges. It model-checks
them with TLC on small instances, and proves the main properties with TLAPS for
every value of the parameters.

Paths below are relative to `src/crates/kynos/src/` unless they begin with
`src/`.

## 1. Inventory

### The parts, and how they fit together

A `BoundServer` runs one accept loop for each listener. Each loop takes a
permit of the connection semaphore, accepts a connection, and spawns a task
for it in a JoinSet of its own. The task does the TLS handshake, waits for the
first byte, and drives hyper's codec. The codec hands every request head to
the service: the router picks an operation, its chain of interceptors runs
around the handler, and the response's body goes back to hyper, which reads
and drops it on its own schedule. A watch channel, the *lifecycle*, tells
loops and connections that the server drains or is forced to stop; an
unbounded channel carries the failures of listeners back to `serve`.

| Part | State | Operations | What is hard about it | What makes it correct |
|---|---|---|---|---|
| Server lifecycle: `server/mod.rs`, `accept.rs`, `lifecycle.rs`, `shutdown/` | the lifecycle channel, the semaphore, the failure channel, one JoinSet of loops and one of connections for each loop | serve, accept, back off, drain, force, signal, drop | the branches of a `select!` are polled one after the other while other workers run; an abort does not wait; a permit crosses tasks | permits are conserved; a drain cuts nothing; a stop ends, and leaves nothing behind; an error is reported |
| Connection: `server/connection.rs` | `draining`, `head_seen`, the first-head deadline, the idle wait | handshake, first byte, drive, drain, unheard, idle | biased branches; a timer that elapses as a head arrives; a protocol that ALPN settled before anything was read | timers cut no request; an idle close is announced; a silent or unused connection ends |
| HTTP/2 stream counting: `server/protocol/http2.rs` | two atomic counters and a `Notify` | open, drop, idle | two separate atomic loads; a wake-up between a read and an await | no wake-up is lost; "idle" means that nothing was in flight |
| Request body: `server/request_body.rs`, `middleware/limits/body_size.rs`, `extract/body/limit.rs` | an idle timer, a deadline, what was read | poll a frame, collect, extract | two clocks and the client's own failure race, in nested layers | a whole body is all of it; a refusal is earned; a clock fires on silence; the response closes what it cut |
| Cache: `middleware/cache/` | a store shared by requests, perhaps by processes | look up, run the handler, invalidate, buffer, put | every await is a gap; the store outlives a deployment; the clock may go back | a hit is the right representation, nobody else's, still covered by the guard; a write drops what was stored |
| Concurrency limit: `middleware/limits/concurrency.rs`, `http/body/watched.rs` | a semaphore with a queue; a report armed in each body | acquire, wait, shed, answer, frame, drop | a slot granted as the wait expires; a slot that travels into the body | slots are conserved; bodies are reported once and truly; waits end |
| Rate limit: `middleware/rate_limit/` | counters in the application's store | check, read, spend | counters are read, then incremented; integer arithmetic at the window's seam; a store that fails | refusals are free; the overshoot is bounded; Retry-After suffices |
| Router: `router/`, `middleware/cors/preflight.rs` | scopes being written; a table built once | mount, intercept, guard_first, catch_panics, group, nest, merge, build; dispatch | builder calls in any order; an index into a chain that grows at its front; spellings and methods nobody declared | every operation runs under the chain as written; Allow, 405, 501 and preflights tell the truth; slash policies agree |
| Dispatcher, recovery and clocks: `router/dispatch.rs`, `dispatch/recovery.rs`, `middleware/limits/{timeout,body_timeout}.rs`, `middleware/mod.rs` | one exchange: its chain, its body, what observers were told | serve, recover, time out, finish, poll, drop | a panic at each scope, a chain dropped at each await, two watches over one body | observers are told once and truly; clocks cut what they bound; bounded exchanges end |
| Validators and ranges: `http/etag.rs`, `response/range/`, `router/assets/`, `middleware/{conditional,compression}` | a representation that changes under its readers | fetch, resume, revalidate; open, read a span | a file replaced between stat, open and reads; weak tags and dates of one second; a coding applied after tagging | no splicing; a 304 confirms the current version; a body is as long as its head says; a strong tag names one sequence of octets |
| Other interceptors: `middleware/` | none, or an encoder over one response | compression, decompression, CORS, CSRF, cookies, hosts, ids, tracing | the codecs of other crates | fields as the RFCs have them |
| Extractors and responses: `extract/`, `response/`, `http/` | one request's or response's | parse, validate, negotiate, format, stream records and events | framing across frames; keep-alive against events | what is written parses back |
| Documentation: `router/docs/` | pages rendered once | look up, serve | - | - |
| Handlers, dependency injection, security, errors: `handler/`, `di/`, `security/`, `error/` | none | decided by the compiler; tables of statuses | - | - |
| Schema and OpenAPI: `schema/`, `src/crates/kynos-openapi` | a document tree | derive, validate, emit | the size of the rules | an emitted document is valid |
| Macros: `src/crates/kynos-macros` | none | generate code | - | - |
| Test client, profiling driver, unchecked constructors | none of their own | drive the above | - | - |

`PROJECT.json` lists these as components, each with its sources, and lists as
hazards the lines where a test would hardly reach what can go wrong.

### Where it is hard

* **Interleaving.** `serve` and the accept loops poll branch after branch;
  drops of HTTP/2 streams run on other tasks; cached and counted requests meet
  in a store between awaits.
* **Timers against late arrivals.** First-head deadline, idle timeout,
  shutdown timeout, `queue_for`, `Timeout`, `BodyTimeout`, request-body idle
  timeout and body deadline: each can elapse as what it waits for arrives.
* **Partial failure.** Panics and aborts of tasks, failed accepts, dropped
  futures, resets and failing stores must give back what was taken and must
  not pass for success.
* **Change under a reader.** Files and resources change between a stat, an
  open, two reads and two requests of one client.
* **Long sequences of legal calls.** Scopes, groups and nested routers are
  written and absorbed in any order.
* **Liveness.** Clients and handlers may stay silent for ever; stops, waits
  and reads must end all the same.

## 2. Plan

Done, in this order: the lifecycle with its abstract specification, stream
counting, the connection, the cache, the two limits, the request body; then the
connection composed with its streams, the exchange composed with the
concurrency limit, the router, and downloads (validators, ranges, files and
codings). Proofs: the lifecycle and the safety of its abstract specification, the
streams and the connection, the cache, the request body, the concurrency limit
with the exchange around it, the rate limit, downloads, and the router.

What could be added, in order of what it would tell:

1. **Streams of records and events**: framing across frame boundaries, the
   keep-alive timer against events, resumption from a last event id.
2. **The expansion limit of decompression** under `RequestBody`'s layers.
3. **Binding**: several listeners of which one fails to bind. To check: nothing
   stays bound when one fails.

Every safety property of a passing run is a theorem. What has none is liveness,
which is out of the prover's reach (section 5).

## 3. Modules

Actions carry the names of the code's functions or branches, and each module
opens with what it abstracts. The `map` of `PROJECT.json` gives the lines of
every definition. Definitions headed "Mutant" are variants with a plausible
defect, one for each property, under which the property fails; nothing else
uses them.

**`ServerLifecycle`** - the `serve` future (`pc`), one accept loop for each
listener (`loop`), one task for each connection (`conn`, `owner`), and what
they share: `lifecycle`, `permits`, `failures`. A poll of a `select!` branch is
an action where another worker can act between it and the next: `PollFailures`,
`PollJoin`, `PollShutdown`, then `PollForce`, `PollJoinAll`, `PollSleep`. A loop
acquires, polls the stop, accepts or fails, backs off, drains. `DropServe`,
`LoopPanics` and `ConnAborted` are the ways a task ends from outside. tokio's
JoinSet aborts what it holds when dropped, and the abort takes effect at the
next await of the task, if there is one.

**`GracefulStop`** - what a caller may rely on: connections are served, a stop
drains, perhaps it is forced, then it returns; a connection is cut only by
force, by a dropped server or by a crash; a successful return leaves none cut
or live, and one that failed leaves none but by a forced or crashed stop.
`ServerLifecycle` implements it, with `PhaseSeen`, `StatusSeen`, `CrashSeen` and
`OkSeen` as the refinement mapping. Its liveness, that a stop ends in a return,
is part of it.

**`Streams`** - one action for each atomic operation: `Open`, `Drop`
(fetch_add), `DropWakes` (load and notify), and the idle loop's `Enable`,
`ReadClosed`, `ReadOpened`, `Woken`, `TimerFires`, `Recheck`. The `Notify` has
tokio's rules: one permit, one waiter, and the notification of a waiter that is
dropped unpolled is passed on.

**`Connection`** - one task from handshake to end, in the order of its biased
`select!`, extending `Streams`: request heads and the polls of the idle wait are
steps of this task, and streams end on tasks of their own, between any two of
them. A poll of the wait that has begun is not stopped by a stop that comes
meanwhile; a stop that is read drops a suspended wait and begins another
(`Abandon`, `Again`). hyper is taken by what the code relies on.

**`RequestBody`** - the layers over one body: `PollIdle` (the server's timer),
`Deadlined` (the interceptor's), `Collect` (the interceptor that buffers),
`ReadWire` and `ReadHeld` (the extractor's capped read), and a reader of its
own that may abandon a pending read and come back. A poll goes through all
layers in one step. Octets are counted; an unread frame is the offset in the
body at which it ends. A client may send any number of frames without data,
which restart the idle wait and count towards no limit. What ends a buffered
read, `ReadsEnd`, has therefore two parts. `EitherClockEndsReads` supposes that
the client stops sending such frames at some time: each of its octets counts
towards a limit, and each gap towards the clock. `DeadlineEndsReads` is about
the deadline, for a client that may go on for ever. It supposes
`KeepsUp`, that the reader reads faster than the client sends: both forms of
the deadline are asked only by a poll that finds nothing to read.

**`Cache`** - `intercept` await by await: `Get`, `Choose`, `Handle`,
`InvalidateGet`, `InvalidateHead`, `Buffer`, `Put`, with `Cancel` between any
two. What may be stored (`Storable`), how long (`Freshness`) and for whom
(`SelectedBy`, `Servable`) are predicates over records of what requests and
responses say. `Redeploy` adds a guard over an old store; `ClockMoves` sets the
system clock, back too.

**`Concurrency`** - `acquire` with and without a queue, and the watched body.
The wait polls the semaphore before its clock, in two steps. A drop releases
the inner body, then reports; the report gives back the slot.

**`Exchange`** - one request through the dispatcher, extending `Concurrency`,
with which it shares every step of the wait, the slot and the watched body.
Around the handler stand, from the outside, the router's recovery, `Timeout`,
`Concurrency`, `BodyTimeout` and the endpoint's recovery; each may be absent, by
the request's `config`. `Serve`, `Handle`, `EndpointRecovers`, `RouterRecovers`,
`Abandon` and `TimesOut` are the ways a chain goes; `WithoutContent` and
`Respond` are `finish`; `Polled`, `DropSent` and `OuterReports` are the body
under the observers' watch. `told` is what observers heard, in order.

**`Router`** - builder calls on a root router, one router to be nested or
merged, and the group being written; `Build` makes the table. What the table
answers (`Verdict`, `Answered`, `Allow`, `ScopeFor`, `Advertised`) are operators
over it; the entry of a path holds its operations by their place in the order
they were mounted in. `wrote` remembers the calls on each scope, and an
operation that is absorbed takes them along (`within`), so that the chains of
the table can be compared with what was called: `InOrder` says that a chain
consists of the `Kept` calls of the scopes around its operation, in their order.
Templates are those that `PathTemplate::parse` lets through, none of whose
segments but the last is empty. Scopes are values of their own in the code, so
only one order of calls on independent scopes is explored (`Within`).

**`Downloads`** - one resource, its versions, and a client that fetches,
resumes and revalidates it. `Request` decides the head of the answer
(`Delivered` for the three kinds that know ranges, `Plain` for a handler under
`Conditional` and `Compression`); `Open`, `Read`, `BodyEnds` and `BodyFails` are
the body, span by span; `Replace` and `Rewrite` change the resource at any
point. An octet is the version, coding and position it comes from, which is
what the properties compare. The tag of a file is made of its length and
modification time (`Stat`), and a file whose time cannot be read has none.

**`RateLimit`** - the two passes of `check` over quotas: reads, then
increments. `Estimate` and `RecoversIn` are the code's integer arithmetic in
milliseconds.

The `*Proofs` modules hold the theorems; the `MC*` modules hold TLC's constants
and symmetry.

## 4. Runs

| Run | Instance | States | Shows |
|---|---|---|---|
| `lifecycle_safety` | 2 TLS listeners, 3 connections, 2 permits, zero and non-zero shutdown timeout | 2.65 M | permits are conserved; only force, a dropped server or a panic cuts; a return stops everything; a stop lets in one late connection for each listener at most |
| `lifecycle_liveness` | 2 listeners, 1 connection, 1 permit | 232 k | no connection outlives a server whose handlers yield; `GracefulStop` is implemented, its liveness (a stop ends in a return) included |
| `lifecycle_lost_failure` | 1 listener, 1 connection | - | finding 1 |
| `connection` | 3 requests, TLS, deadline and idle timeout on | 160 k | no lost wake-up; idle means quiet; timers cut no request; an idle close comes a whole period after its GOAWAY; unused and stopped connections end |
| `request_body` | bodies of up to 4 octets in frames of 1 or 3 and any number of frames of 0, 2 of them unread; limits 3 and 2 (the default); idle limit 2; deadlines 1 and 3 | 193 k | whole means all; refusals are earned; clocks fire on silence; cut bodies close; buffered reads end, and under a deadline also when a client trickles for ever |
| `cache` | 2 requests over 9 kinds of request and 8 of response, or 3 that read and write one target; clock 0..1 | 1.03 M | a hit is the right representation, nobody else's, covered by the guard of today, never of an unreadable lifetime, and put after every earlier write dropped its key |
| `cache_race` | 3 requests on one target, the clock still | - | finding 2 |
| `exchange` | 3 requests, 2 of which may queue, 1 slot; one request of three configurations, two that compete | 231 k | slots are conserved; in-flight is bounded; observers are told once and truly; an idle limit cuts silence only; waits and bounded exchanges end |
| `ratelimit` | windows of 2 and 4 ms, ceilings 1 and 3, 3 requests, 2 at once, a failing store for one, 4 ms of time | 1.59 M | refusals spend nothing; overshoot is less than the number checked at once; Retry-After suffices |
| `router` | 3 operations on 2 overlapping templates, 3 interceptors of which 2 are a Cors, 5 calls besides those that absorb | 480 k | chains as written; Allow, 405 and 501 are true; preflights are true; slash policies agree |
| `router_lenient` | `/a/` and `/{x}` | - | finding 3 |
| `downloads` | 4 versions, of the same length, shrunk and empty; two codings; spans of 2 octets | 154 k | no splicing; 304 means current; bodies as framed; a body is of one version; a strong tag names one representation |

**Why the bounds are enough.** Two listeners make one fail while the other
serves, and let a permit pass from one to the other; three connections on two
permits make a loop wait for a permit that an ended connection gives back.
Liveness needs one connection that stays. With three streams one is in flight,
one is ending and one opens at once. A body of four octets passes both limits
by one, meets them exactly, and splits before and after them; an idle limit of
2 lies between the deadlines 1 and 3, so either clock can be first, and can be
armed twice. With two frames unread one can arrive behind another that is about
to be read; those already read are not counted, so a client may send frames
without data for ever. A write and the two requests around it are all that the
invalidation properties speak of; each rule of the cache has a response that
only it refuses. Three requests on one slot make one hold it, one wait and one
be refused, and let the slot be granted to the one as the wait expires; requests
share nothing but slots, so one of them goes through the configurations, which
between them have each recovery scope, `Timeout`, both clocks and HEAD. The
clock of `ratelimit` crosses the end of both windows, with counters carried
over. Four builder calls mount two operations under two interceptors or guards
in different scopes, which is what a misplaced prepend needs, and a fifth asks
for the guard in one more of them; three mount the three operations. Four versions let a download see a change that keeps the
length, one that shortens the file below the client's copy, and an empty one.

**Bounds in the modules.** `MaxTime` (`Cache`, `RateLimit`), `MaxOctets` and
`MaxUnread` (`RequestBody`), `InFlight` (`RateLimit`), `MaxCalls` (`Router`, which
does not count the calls that absorb a scope), `Versions` (`Downloads`); the sets
of requests, connections and streams are finite and each member is used once.
The state constraint `InScope` of `MCCache` keeps the third request to plain
reads and writes of one target. `exchange` and `ratelimit` do not check for
deadlock, because they end when every request was served or the clock is at its
bound.

**Types.** The type invariants are not among the runs' properties: each one
stated is a theorem (of the lifecycle, the connection with its idle wait, the
slots of `Concurrency`, the cache, the request body, the rate limit and the
router), and the proofs about `Exchange` and `Downloads` carry the types they
need in their inductive invariants.

### Fairness

What the runtime does is assumed to happen: a woken task is polled, a timer
elapses, an aborted accept loop (which always awaits) is dropped. In
`ServerLifecycle` these are `ServerStep`, `LoopStep`, `LoopAborted` and
`ShutdownTimerFires`; in `Connection` `TaskStep`, which includes the polls of the
idle wait, the two timers, the end of the handshake (it has a timeout), the
second half of a stream's drop, and `Http1Drained`, hyper's closing of an idle
HTTP/1 connection it was asked to drain; in `Exchange` the clocks of the wait,
of `Timeout` and of `BodyTimeout`, the polls of a woken task (`Runs`), the drop of
a body that is at its end or failed, and, for `Readers` only, the polls of a
client that reads; in `RequestBody` `Tick` and the polls of the buffering
readers. Nothing is assumed of other clients, handlers, producers of
bodies, signals or the application's own readers. An abort of a connection takes effect only if its
handler yields, so `ConnectionsEnd` has that as an explicit hypothesis,
`Yielding`, and the return that `GracefulStop` promises does without it. `Cache`,
`RateLimit`, `Router` and `Downloads` state safety only.

The fairness of every specification is weak. One part of `ReadsEnd` has a
hypothesis that is more: `DeadlineEndsReads` is of a client that sends at every moment, under
which a poll that finds nothing is possible again and again but never for long,
so `KeepsUp` says of the reader that such polls happen (`SF`), of `ReadWire` and
of the interceptor's timeout. A reader that found a frame at each of its polls
would never ask the deadline; that is the code's order (`Deadlined::poll_frame`
and `tokio::time::timeout` poll the body first), and its doc says that a reader
that is late is not taken for a client that is.

### Findings

1. **The error of a listener can be lost** (`lifecycle_lost_failure`,
   `server/mod.rs:653`). `serve` polls the failure channel, then the JoinSet. A
   loop that gives up and ends between the two polls is joined first; its error
   stays in the channel and `serve` returns `Ok`, though its doc promises the
   error.
2. **A slow GET can undo an invalidation** (`cache_race`,
   `middleware/cache/mod.rs:405`). A GET whose handler ran before a PUT may put
   its response after the PUT's invalidations. The next GET gets the copy from
   before the PUT, which a test's doc calls the one failure a cache must not
   have.
3. **A flipped spelling can displace a declared one** (`router_lenient`,
   `router/build.rs:298`). Under `Lenient` the other spelling of each template is
   inserted unless it collides. The literal `/a`, flipped from a declared `/a/`,
   does not collide with a declared `/{x}` and is preferred to it, though the
   doc says that a declared spelling always wins.

Remarks that no run is about:

* `recovers_in` is given the sum of the two windows' weights and always waits
  out the current window, even when the weight of the previous one, which
  decays within it, is what refuses. Retry-After may then be later than the
  "earliest instant" of its doc (`middleware/rate_limit/quota.rs:270`); what is
  checked is that it suffices.
* `recovers_in` rounds the decay of the carried count down to whole
  milliseconds (`middleware/rate_limit/quota.rs:149`), so the wait it returns can
  end 1 ms before the instant its doc speaks of (line 131). It does so only if
  more can be counted than the window has milliseconds: with a window of 2 ms
  and a ceiling of 3, a client that waits exactly as long may be refused again.
  `WaitingIsEnough` proves that nobody is where ceiling and requests in flight
  stay within the window's milliseconds and one, as they do in `ratelimit` and
  for quotas well below a thousand requests a second; `AMillisecondMoreIsEnough` that
  nobody ever waits short by more than 1 ms.
* The idle timer of a request body is not paused when a reader abandons a
  pending read: `waiting` is cleared by a frame only. A reader that comes back
  later than the limit fails at once. What holds, and is proved, is that the
  client was silent for the whole limit.

## 5. Proofs

Eight modules hold theorems; every one is checked by TLAPS to its leaves. They
assume only the named `ASSUME`s of the modules: finite sets of listeners,
connections, streams and requests; natural numbers for limits, positive where
the code refuses or cannot have zero (`MaxConnections`, the idle limit, the
concurrency limit, windows and ceilings, the span of a read); at least one quota;
well-typed records for the cache's requests and responses, the configurations of
an exchange, and the ranges and versions of a download, of which no two have
both length and modification time in common (`StatAssumption`); for the router,
templates and prefixes that parse, and a guard that is none of the interceptors.
TLC evaluates these on every run. One theorem, `WaitingIsEnough`, has a hypothesis of its own.

* **`ServerLifecycleProofs`** - `TypeCorrect` and `PermitsAreConserved`, for
  any number of listeners, connections and permits. `TypeOK` is not inductive:
  that `permits` stays within its range when a task ends follows only from the
  balance of free, held and serving permits. So the invariant is `Typed`, the
  types without that range, together with `Balanced`; the balance is counted
  with `CountMoves`, one lemma for all the paths on which one task changes
  state. `StopInv` is the invariant of a stop: which phases of `serve` go with
  which value of the channel (`Phases`, `Unreturned`), that a loop that is over
  left no connection alive but aborted ones (`Gone`), that what was joined is over
  (`Joined`), and that an aborted connection has its excuse (`Told`). From it
  follow `OnlyForceCuts` and `ReturnLeavesNothingOpen`. `LateInv` adds that a
  loop with a late connection does not accept again, which gives
  `OneLateAcceptAtMost`. `KeepsGracefulStop` is the safety half of the
  refinement: the initial state and every step of the server are those of
  `GracefulStop`, or a stutter.
* **`ConnectionProofs`** - first of `Streams`: `NoWakeupIsLost` and
  `IdleMeansQuiet`, for any number of streams. Inductive invariant: `Typed`,
  `Flags`, `Counted` (the counters are the numbers of streams begun and ended),
  `Readings` (what the two readings say of the counters while the wait goes on)
  and `Waking` (while the waiter has not been notified, the drop that leaves
  nothing in flight has still to read `opened`). The argument is the one the
  code's comments make: `closed` is read before `opened`, and both only grow.
  Then of the connection: `ConnectionImplementsStreams`, every behaviour of a
  connection is one of `Streams`, so that the theorems above hold in the
  composition, and `ConnectionLosesNoWakeup` restates one. `CInv` adds that a
  request is in flight exactly when its stream is open (`Tracked`), which lets
  what the idle wait found about counters say something about requests, and
  that `head_seen` covers every request (`Heard`); it gives
  `NoTimerCutsARequest`. `IdleClosesAreAnnounced` needs one fact more, that a
  wait asleep in a drain fell asleep after the GOAWAY (`Announces`).
  `ConnectionTypeCorrect` bounds the counters, which the code never resets, and
  every reading of them by the number of requests.
* **`CacheProofs`** - for any requests, targets, handlers and store contents.
  `WritesDropWhatWasStored` rests on `Ordered`, `HalfDropped`, `Dropped` and
  `Preceded`, which follow a write's two invalidations in time.
  `HitsMayBeServed`, `HitsRepresentTheRequest` and `GuardsCoverWhatWasStored`
  rest on `Admitted`, `Sameorigin` and `Filed`: all that is in the store passed
  the storing rules under some guard, and `Servable` asks about the guard of
  now. `CacheTypeCorrect` shows also that the store never holds two responses
  of one variant, and `NeverFreshIsNeverReused` that what was served had a
  lifetime its fields state, or the default, and not an unreadable one.
* **`RequestBodyProofs`** - `ClocksOnlyFireOnSilence`, from `TimerIsSilence`
  (what the timer has run is no more than the silence so far);
  `CutBodiesAlwaysClose`; and `WholeAlwaysMeansAll`, from `Accounted` (what was
  read ends where the next unread frame begins), `Unfailed` (a reader that goes
  on saw no failure) and `Stands` (what was handed on is what was read). Frames
  are known by their end offsets, so that the account of octets needs no
  induction over the sequence of frames. `RefusalsAreEarned` and
  `BodyTypeCorrect` share `SizeInv`: besides the types, `Cleared`, what the
  interceptor has made sure of by the time an extractor reads.
* **`ExchangeProofs`** - `ExchangesShareSlots`: every step of an exchange is one
  of `Concurrency` or leaves the slots alone, so that `SlotInv`, proved of
  `Concurrency` for any number of requests and any limit, holds of exchanges.
  It says who stands in the queue (`Queued`), where the slot of each request is
  (`Bodies`), and that free, granted and used slots come to the limit; the last
  holds across a release to the queue because that release either grants one
  waiter or frees one slot. `NoSlotIsLost` and `AtMostLimitInFlight` are of
  that, and so is `SlotTypesCorrect`: the semaphore never holds more permits than
  it was made with. `ObserversHearTheTruth` rests on `ExchangeInv`: what observers have been
  told is a function (`Story`) of where the exchange stands (`PlacedAt`), and
  the two watches over one body agree (`AgreeAt`). `IdleLimitsCutSilence` adds
  `Quiet`: a producer that has nothing has had nothing since its clock began.
* **`RateLimitProofs`** - for any quotas, any number of requests and any stretch
  of time; the estimator's integer arithmetic is proved, not sampled.
  `RefusalsSpendNothing` is of the order of the two passes (`Gates`,
  `Decisive`). `OvershootStaysBounded` is of what may still be spent: in every
  window, what was counted and the requests that read less than the ceiling and
  have not spent yet (`Hopefuls`) stay below the ceiling and the number in
  flight (`Capped`); of the two windows that an estimate weighs, the sum of both
  by their weights does (`Seam`), those requests again included. Each read
  brings in one request at most, below the ceiling at that moment, and each
  spend trades one for a count. `WaitingIsEnough` and
  `AMillisecondMoreIsEnough` compute the estimate of every quota at the end of
  Retry-After, the longest of the waits, whether that is in the same window,
  the next or a later one. Under the hypothesis of the first no more is counted
  than the window has milliseconds, so what the rounded decay leaves out, less
  than a millisecond, is less than one request.
* **`DownloadsProofs`** - for any number of versions of any lengths, any classes
  of versions an application tags alike, any ranges and any span. `DInv`
  follows an octet from the source to the client's copy beside its tag:
  `Sourced` (which version is open, and what became of the file since its
  stat), `Framed` (what was read is what the head announced), `Headed` (the tag
  of an answer is of its version) and `Holdings` (the octets a client holds
  under a tag are those of a version it names, or of a file whose named version
  is gone for good, so that the tag will not match again). From it follow
  `PartsBelongTogether`, `ConfirmationsAreCurrent`, `BodiesMatchTheirHeads`,
  `BodiesOfOneVersion` and `StrongTagsNameOne`.
* **`RouterProofs`** - for any operations, templates, prefixes and interceptors,
  and any number and order of builder calls. `AllowTellsTheTruth` holds of every
  table, however it came about: `Allow`, the implemented set and the verdict are
  three readings of one rule (`AllowIs`, `ImplementedIs`, `VerdictIs`), whether a
  preflight answers for the path or not. `PreflightSpeaksForTheOperation` needs
  `Built`, that the table is made of the root's operations and that no two on
  one path have one method, so that a method belongs to one Cors
  (`CoveredIs`). `ChainsFollowTheCalls` rests on `Ordered`: in every scope, and
  in every operation that was absorbed, the chain is what was called without
  the guards (`Places`), and the guard's point stands after exactly the
  interceptors called before the first call that asked for it (`Asked`).
  `JoinedFollows` is the heart of it: putting one scope around another keeps the
  relation when the outer point wins and the inner is moved by the length of the
  outer chain, and `GuardInOrder` that inserting the guard there gives the calls
  kept, in order. `PoliciesAgree`: flipping is its own inverse (`FlipTwice`), a
  flipped template matches a path when the template matches the flipped path
  (`MatchesFlip`), and flipping keeps matchit's preference (`PriorFlipped`);
  where no declared template matches, the flipped ones compete among themselves
  only, because of several templates that match one is always preferred
  (`BestExists`, segment by segment). It is by way of `LenientIs` that the
  entry Lenient serves is the one at the other end of the redirect.
  `RouterTypeCorrect` gives the types these use.

**Model-checked only.** Liveness: fairness and `ENABLED` are beyond the prover,
so `ConnectionsEnd` and the liveness half of `ImplementsGracefulStop`,
`UnusedEnds` and `StopIsSeen`, `WaitsEnd` and `BoundedExchangesEnd`, and
`ReadsEnd` stay with TLC. A theorem by induction over data is out of reach when
it must take a predicate as a parameter. A set of numbers does have its least
member by `HasLeast`, which is how `DownloadsProofs` finds the first range that
can be satisfied and `RouterProofs` the preferred template; and where a fold over
calls or scopes would ask for induction, the chains of `Router` are compared by
the places of their members instead.

## 6. Not modelled

* hyper, rustls, tokio and the application's stores appear only by what kynos
  relies on; such definitions are marked external in the map.
* Wording, logging, header syntax, dates and the spelling of rate-limit fields;
  the derived entity tag of a cached response. A bare `s-maxage` without a
  value is left out of the cache's lifetimes.
* A rate-limit quota of zero; the in-process entry `serve_stream`.
* `Router`: descriptions, catch-alls, the names of variables, segments that mix
  a variable with literals, and security requirements beyond whether an
  operation is guarded. Interceptors attached to an endpoint itself
  (`EndpointBuilder::intercept`), an endpoint's own `Cors` included: chains are
  those of the scopes around an operation.
* `Downloads`: multipart ranges, QUERY as a method that is validated, the
  compression policy's list of media types and its least size, the spelling of
  tags and dates. Versions of a file are assumed to differ in length or
  modification time (`StatAssumption`), because its tag is made of nothing else.
* The parts of section 1 that keep no state beyond one request or that the
  compiler decides. They are most of the repository's lines: the OpenAPI model
  with its validation and emission, the macros, schemas, the parsers and
  formatters of `http/`, `extract/` and `response/`, the rejection tables of
  `error/`, dependency injection, the test client and the profiling driver.
  There is no interleaving, failure or order of events in them for a model
  checker to explore, and a specification of a parser or of a table of document
  rules would repeat its code. Their own tests, which run them on values, are
  the better instrument.
* Server-sent events, records of JSON lines, the streaming encoder of
  `Compression`, and decompression; section 2 says what would be worth checking.
