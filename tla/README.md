# thttpd-rs in TLA+

Specifications of two programs of this repository: the web server
`thttpd` (crate `thttpd-core` and its helpers) and the proxy `thttpd-migrate`
that moves traffic from the C server to it. TLC checks them on small instances,
TLAPS proves a part of the properties for every value of the constants.
`PROJECT.json` lists components, runs, mutants, the map from definitions to
source lines, findings, hazards and theorems.

## The system

**Server.** `main` and `startup.rs` read the configuration, fork, change root and
user and bind; the parent waits for the daemon's report. Then one thread runs a
loop over an edge-triggered `mio::Poll` (`eventloop.rs`). A pass checks for a SIGUSR1 drain, polls, accepts, handles the
events of the batch, resumes connections whose pause is over and updates the
throttle averages. A connection is Reading, Sending, Pausing or Lingering
(`connection.rs`). Requests are parsed (`thttpd-http`), answered with a file from
the cache of mappings (`thttpd-mmc`), an error page or the output of a CGI script,
and charged to the rules of the throttle table (`throttle.rs`).

**Proxy.** A tokio program on several threads. Each request picks a backend by
weight (`router.rs`), is admitted by that backend's circuit breaker
(`circuit.rs`), forwarded (`server.rs`, `forwarder.rs`), and in shadow mode
mirrored to a second backend (`shadow.rs`), whose answer is compared with the
first (`diff.rs`). A health checker probes backends (`health.rs`). A control
socket changes weights, rolls back and drains (`control.rs`, `state.rs`), and a
periodic writer saves `state.json`.

The two programs share no state. Inside the server, loop and throttle table
are tightly coupled and modelled together; timers, cache, CGI pipes, start-up and
the parsers meet the loop only through calls and results. Inside the proxy,
router, pool and control plane are modelled together, and so are the handlers of
shadow mode with both breakers.

## Modules

| Module | What it models |
|---|---|
| `BreakerOps` | the breaker as a record, one operator per method of `circuit.rs` |
| `Breaker` | requests that share one breaker; every method is one step; cancellation |
| `BreakerThreads` | the same methods, one step per atomic access or critical section |
| `Messages` | headers forwarded, bodies captured, responses compared |
| `Shadow` | handlers and mirror tasks of shadow mode with both breakers |
| `PlainProxy` | what a proxy promises its client: the specification `Shadow` implements |
| `Health` | the health checker |
| `Diff` | normalisation of header lines |
| `ControlPlane` | control commands, state writer, routing and drain of the proxy |
| `Throttle` | the throttle table as a function, one operator per method |
| `EventLoop` | the server's loop, its handlers, the throttle table, sockets and clients |
| `Timers` | the timer wheel |
| `Alarms` | what a timer service promises: the specification `Timers` implements |
| `Cache` | the cache of mapped files over a file system that changes |
| `Cgi` | a dispatch, its script and the three pipes |
| `Startup` | `main` with forks, status pipe and pidfile |
| `Roots` | the serving directory and the log's path through chroot and chdir |
| `RequestHead` | the machine that finds the end of a request head, fed in pieces |
| `Settings`, `Dates`, `Ranges`, `Paths` | algorithms, with reference definitions |
| `ShadowProofs`, `BackendProofs`, `ControlPlaneProofs` | theorems about the proxy: breaker and shadow mode; breaker by access and health; control plane |
| `EventLoopProofs`, `EventLoopPollProofs` | theorems about the server's loop: counts of senders; readiness and throttling |
| `StartupProofs`, `ServerPartsProofs` | theorems about the rest of the server: start-up and paths; timers, cache, CGI, ranges |
| `NumberLemmas` | least and greatest elements, for induction by the least counterexample |
| `MCProxy`, `MCServer`, `MCBreakerThreads`, `MCEventLoop`, `MCControlPlane` | instances for TLC |

`Breaker` and `BreakerThreads` extend `BreakerOps`; `Shadow` extends `BreakerOps`
and `Messages`; `EventLoop` extends `Throttle`. Operators whose comment starts with
"Slip" or "A slip" are plausible bugs; no specification uses them. They serve as mutants: put in
place of the definition after them, they must break a property.

`MCProxy` and `MCServer` each check several independent parts: the initial
state chooses a `part`, and only that part moves. The state space is the sum of
theirs. A pure algorithm is checked by a step that takes a `sample` of its inputs.

### Breaker, BreakerThreads

State: `state`, `opened_at`, `probe_in_flight`, `window` of the breaker, and
where each request (task) is. Time is reduced to the comparisons the code makes:
`opened_at` is None, fresh (within the cool-off) or cooled, and the window may
expire at any step. `Breaker` has the actions `Admit` (`try_admit` after
`can_route`), `Finish` (`record`), `Unmirrored` (`release_probe` of the shadow
path), `Cancel` (hyper drops the handler with its connection), `CoolOff` and
`WindowExpires`. `PatientSpec` is `Spec` without `Cancel`.

`BreakerThreads` splits the methods at every load, store, compare-exchange and
mutex section, and takes them as sequentially consistent. The code uses Relaxed and
Acquire/Release accesses, which allow more behaviours: what the runs and theorems
show of interleavings is shown under sequential consistency, and what they refute
is refuted for the code as well.
It has no cancellation, so what it shows of HalfOpen is about requests that end.

### Throttle, EventLoop

State: the loop's `phase` and the slots it has still to handle (`todo`), the slab
(`conn`), the table (`entry`), the averages timer (`due`), and the environment:
sockets with their clients, the listen queue, signals. One action is one handler
run to its end, since the code is single-threaded. `Poll` takes the ready
sockets into a batch and consumes their events; `register` raises an event at
once when the socket is ready, as a (re)registration with epoll does; `reregister`
does nothing for a socket that is not registered, as mio's error is ignored.

Abstractions:

* Input and output are counted in units. A request is malformed, static or CGI,
  with a number of head and body units, and a response is a number of header and
  body units.
* Time is whole seconds on one clock. `elapsed` and the pause deadline of a
  connection and `due` advance together.
* A CGI script runs inside its handler, as in the code; every outcome (refused,
  done, failed) is possible. The child and its pipes are in `Cgi`.
* `Match` stands for the patterns (`Paths`). File contents and mappings (`Cache`),
  access logging, SIGHUP (`Roots`) and the timer wheel (`Timers`; nobody adds a
  timer to it) are left out here.
* `Dispatch` has no case for a Free or Pausing slot: `NoStaleEvent` shows that an
  event for one never is in the batch.

### ControlPlane

State: the pool's weights, the stored config, the drain flag, `control_lock`, the
handlers, the state writer and `state.json`, the accept loop and the proxied
connections. A step of a handler is one weight written, the config replaced, the
file written; a step of `decide` is one weight read, so that a request sees any
mixture of old and new weights a real one may see.

Abstractions:

* Health and breakers are the set `up`, which changes at any moment (`Flip`):
  whatever the health checker or the breakers do is included.
* Weights are small, so sums do not wrap. `FullWeight` stands for 100.
* The pool is a map from names, so `Order` has each name once (`ControlConfig`),
  and dropping a refused candidate by name (`retain`) drops one entry.
* A command is chosen when the lock is taken; what precedes it reads the socket
  and changes nothing. A failed write leaves `file = None`: nothing is claimed of
  the file until the next write.
* Forwarding is one step (`Finish`). Canary is active-active, as in the code.
* `promised`, `promise`, `steady` and `late` are history: the rollback in force,
  the one in force when a request arrived, whether nothing changed since then, and
  the connections accepted since the drain.

### Shadow, Messages, PlainProxy

State: the two breakers; for each call the handler's place (`pc`), the request,
what the primary received, its answer, what the client was given and the body
being captured; for each mirror its own place. A step ends at an await: a frame,
an admission, an outcome, the spawn. A body is a number of units, a header line is
a model value. Lines whose value is not visible ASCII (`Opaque`) are kept apart,
because the code turns them into text, with an empty value (`Blank`), in requests, in
what it compares and in responses that have been captured for a mirror, and passes
them on as they are in other responses. A client's x-request-id
lines are a sequence, of which the first is used. The refinement to `PlainProxy` forgets breakers, capture and
mirrors, and says what stage each call is at; `PlainProxy` allows a response either
form of its headers (`userHeaders`, `mirroredHeaders`). Whether a backend is healthy is read
anew at each place where the code reads it.

The code detaches the mirror, so its steps come at any time, after the call and
its client included. A probe of the primary can be lost with its client, as in
`Breaker`; that is why `ShadowProbeIsHeld` is about the shadow's breaker only.

### Health, Diff

`Health` probes one backend per step, in rounds; `probes` is the history of
outcomes the property reads. `Diff` groups header lines by name, replaces
timestamps and sorts values, as the code does.

### Timers, Alarms

The heap is a set of entries, since its order is a function of deadline and id.
`cancel` marks an id; the mark is removed when its entry is popped. `Alarms` has
neither heap nor marks: an alarm is pending or revoked, and a run rings exactly
the pending ones that are due. The mapping takes marked entries as revoked.
`reset` of a cancelled timer that is still in the heap schedules its callback again, under
a new id, and it rings: `Alarms` has an action of its own for it (`Revive`).
(The comment at `thttpd-timers/src/lib.rs:104-106` says `None` "if no live timer with `id`
exists", which can be read otherwise.)

### Cache

A file has an inode, a size and a status-change time; other processes overwrite or replace
it. `Map`, `Release` (the end of a response) and `Cleanup` are the operations, and
idle times take the place of `last_used`. The size the head announces comes from a
`stat` of its own in `serve_static`, which is not modelled.

### Cgi

A request is counted first (`Count`). It may end without a script, each way with its
own decrement: there is no such file (`NotFound`), a throttle rule rejects it
(`Rejected`), the spawn fails (`SpawnFails`). Otherwise the server spawns, writes the body, closes stdin, reads stdout to its end, then
stderr if stdout was empty, and waits for the exit. The script is any sequence of
reads and writes, a closing of stdout and an exit; it chooses a call before the
call can block. How the status is taken from the script's header is left out.

### Startup, Roots, Settings

`Main` lists the steps of `main`. A process is at one of them; a step may fail, the
daemon may panic, any process may be killed. Two starts share pidfile and port.
The daemon reports success (`main.rs:159`) before it registers the listener with
`mio` and enters the loop, and the model keeps that order.
`Roots` keeps texts of paths and the places they name apart: `chroot` and `chdir`
change the places, and the code rewrites the texts. Paths are lists of names, with
or without a leading slash (`RootsConfig`). `Settings` applies the
configuration file, the collected flags and the replay of toggles.

### RequestHead, Dates, Ranges, Paths

Bytes are the classes the code tells apart. The references are definitions of
another kind: a head ends after two words and a line break, or after three and an
empty line; days are counted by a closed formula of the Gregorian calendar; a range is
the interval asked for; a path is walked by depth; a pattern is a language built
from its tokens, and a pattern with `|` the union of its alternatives. A range
that ends before it starts can make the slice of `eventloop.rs:1424-1427` panic, and a range
of an empty file its arithmetic, in a build with overflow checks (`checked`); `Panic`
is then the body.

## Runs

| Run | States | Question |
|---|---|---|
| `proxy` | 299,463 | are the parts of the proxy right one by one: breaker, shadow mode, health, comparison of headers? |
| `breaker_threads` | 34,622 | can an interleaving of single accesses leave HalfOpen without a task that resolves it? |
| `control_plane` | 527,664 | are updates lost, is the file stale, does a rollback decide later requests, does a drain end? |
| `event_loop` | 1,225,215 | does registration follow state, is an edge lost? |
| `event_loop_throttled` | 1,846,139 | do counts of senders balance, can an event reach a closed or paused slot, is a paused slot off the poll, does anybody exceed the rule? |
| `event_loop_live` | 86,134 | does a throttled transfer end, of a file or a script, through pauses and a drain? |
| `server_parts` | 255,548 | are the other parts of the server right one by one? |

What they check, by part:

| Part | Properties | Show |
|---|---|---|
| breaker | FieldsAgree | fields updated one by one describe one situation |
| breaker, by access | HalfOpenHasResolver, HalfOpenIsResolved | a HalfOpen breaker is resolved if requests end |
| shadow | LooksLikePlainProxy | the client gets what a plain proxy would give, bodies around the cap included; a header value that is not text may arrive empty |
| | NeverWaitsForShadow | a call ends whatever its mirror does |
| | ShadowProbeIsHeld, OneOutcomePerCall | a probe of the shadow has an owner; no return path records twice or not at all |
| | SilenceMeansEqual | no report means the answers agree |
| health | HealthFollowsProbes | health is decided by the last run of equal outcomes that was long enough |
| headers | MismatchIsBagDifference | order never matters, repetition always does |
| control plane | WeightsAtRest, FileIsCurrent | no update is lost, no older snapshot overwrites a newer one |
| | RollbackDecides | a request that comes after a rollback goes where it says |
| | OneLateConnection, DrainEnds | a drain stops the accept loop and comes to its end |
| event loop | InterestMatchesState, NoStaleEvent, NoLostWakeup | edge-triggered readiness is handled on every path |
| throttling | SendersBalance, BodyWithinRule, TransfersEnd | rules are given back, obeyed, and stop nobody for ever |
| timers | KeepsAlarmPromise | lazy cancellation implements immediate cancellation |
| cache | ServedIsCurrent, InUseStaysCached, IdleIsEvicted | no stale mapping, no eviction under a response, no leak |
| cgi | CountReturns, DispatchEnds | the count is given back on every path, and a full stderr pipe is the only deadlock |
| startup | ServesSafely, StatusIsTrue, ParentEnds | a server serves jailed and unprivileged if configured; the parent ends; its status 0 means that the daemon had set itself up, its status 1 that no daemon is left |
| head | HeadFoundAtItsEnd | how reads cut a request is invisible |
| roots | ServedPlaceIsKept, LogStaysInPlace | paths still name the same places after chroot and chdir |
| algorithms | DatesRoundTrip, DatesAreGregorian, RangesAreExact, NormalPathIsTheWalk, MatchIsTheLanguage, LastOptionWins | agreement with the reference definitions; for ranges, except where the code panics |

The type invariants (`TypeOK`, `CgiTypeOK` and so on) document the variables and
are not listed in the runs; the proofs use those of the breaker, the timers and the
cache. Four more properties are
proved and not repeated by a run: `KeptWindowIsBelowThreshold` and
`IdleOpenBreakerRecovers` of the breaker with atomic methods, `MarksHitTheirTimer`
and `AgeBounded`.

Five runs end in a violation; each refutes what a comment, a document or a test
says, and `findings` quotes it:

* `breaker_stranded`: a probe whose client goes away is dropped with no outcome,
  and the breaker stays half-open.
* `breaker_threads_recover`: mixed stores of concurrent `trip`, `close` and
  `try_admit` can leave the breaker Open with no trip time, or with a slot nobody
  holds; it then never admits again.
* `event_loop_share`: with more senders than bytes per second the fair share is 0,
  which the code takes for "no limit".
* `shadow_diverges`: equal answers are reported as different, because hop-by-hop
  headers are taken off the primary's answer before the comparison and not off the shadow's.
* `startup_report`: the parent exits with status 0, and the daemon then fails to
  register its listener and never serves.

Further behaviours of the models that no run asserts or excludes:

* A late outcome of a request admitted before the trip resolves another request's
  probe, so two probes can be in flight (`circuit.rs` speaks of exactly one).
* A connection whose response is sent lingers until its client acts.
* A script that fills the stderr pipe before it closes stdout blocks the server.
* A start that fails to bind has already overwritten the pidfile of the one that serves.
* An expiry age halved to 0 stays 0.
* A log path that is relative, or outside the jail, is reopened somewhere else.

### Bounds

* Breaker: three requests are a probe, an older request whose outcome comes late,
  and a second probe. `MinRequests = 1` and a threshold of two thirds, with windows
  of up to four outcomes, make trip, close and windows that stay below reachable.
  Two tasks suffice in the passing threads run to interleave any two methods; the
  violation uses three.
* Shadow: two calls share the breakers. The cap is one unit, and bodies are empty,
  equal to it and longer by one and by two units, so frames end before, at and across it. One
  request and one answer carry each class of header.
* Health: thresholds 3 and 2 and five probes of each of two backends; longer runs
  repeat.
* Control plane: two backends, weights 0 and 1, two handlers, one proxied
  connection (connections interact only through the pool and the loop). The
  commands are a cutover, a change of one weight, an unknown name, a rollback, a
  drain and a snapshot.
* Event loop: two slots are needed for stale events and for sharing a rule, and
  the symmetry of slots is used in runs without temporal properties. A buffer of
  two units fills up; requests are shorter than, equal to and longer than it.
  Responses are longer than the send buffer, so writes are partial. `MaxBytes`
  stops new clients once a period has carried that much, which bounds the
  averages; `MaxElapsed` is long enough to pay for the longest body. The live run
  has one slot. Overlapping rules are left to the theorem `SendersAlwaysBalance`.
* Timers: three timers, two delays and a clock of four let a mark outlive its
  timer and a periodic timer come twice. Cache: one path, two inodes and two sizes
  give every change of a file; a default age of 3 rounds when halved.
* CGI: a body fits into the pipe, as 60000 bytes fit into 65536; a script may
  write one unit more than a pipe holds, to each. Start-up: two starts.
* Head: all sequences of six bytes, and of five after a request line, in all cuts.
  Algorithms: the sets in `MCServer` (instants from 1970 to 2037, all patterns of up to
  four tokens on names of up to three, and so on).

`CHECK_DEADLOCK FALSE` is set where the system really stops: a bound is reached,
a sample has been taken, a script and the server block, or the process exits.

### Fairness

* `BreakerThreads!FairSpec`: every task is scheduled (tokio polls ready tasks). A
  request in flight need not end; that it does is a hypothesis of
  `HalfOpenIsResolved`.
* Shadow: a handler that can go on does, and the client and the primary go on or
  their connection breaks. The latter is a premise about the peers, not something
  the code enforces (only connecting has a timeout). Nothing is assumed of mirrors
  and the shadow backend, which is the point of `NeverWaitsForShadow`.
* `EventLoop!FairSpec`: the loop's steps and the clock go on, and nothing is
  assumed of clients. `TransfersEnd` has the hypotheses that a client keeps taking
  data or leaves and that accept loops end (`AcceptLoopsEnd`): a flood of new
  connections could keep one going.
* `ControlPlane!FairSpec`: the accept loop is polled and its two timers fire.
* Cache: the loop comes to its cleanup again and again, and time passes. CGI: the
  server runs and the script is not stopped. Start-up: processes are scheduled.

## Proofs

Theorems hold for every number of requests, tasks, calls, slots, rules, timers and
files and for all configurations that satisfy the named assumptions
(`BreakerConfig`, `HealthConfig`, `ThrottleConfig`, `EventLoopConfig`,
`TimersConfig`, `CacheConfig`, `MessagesConfig`, `ShadowConfig`, `ControlConfig`,
`CgiConfig`, `RootsConfig`). One theorem, `BodiesStayWithinRules`, has a further hypothesis.

### Proxy

* `FieldsAlwaysAgree`: `Spec => []FieldsAgree`, together with the type of the
  breaker. `FieldsAgree` is inductive once the types are: each method leaves one
  of the three situations Closed, Open, HalfOpen with its fields.
* `OpenBreakerRecovers` follows from it.
* `WindowStaysBelow`: the window is empty after a trip or a close, and `record`
  compares every new outcome at once.
* `HalfOpenIsProbed`: without `Cancel`, `PatientSpec => []HalfOpenHasProbe`. It is
  inductive by itself: the only step to HalfOpen makes its request the probe, and
  the end of a probe, with or without an outcome, leaves HalfOpen. No passing run
  repeats it. The full `Spec` refutes it (`breaker_stranded`).
* `ThreadsTyped` and `HalfOpenAlwaysHasResolver`: for any number of tasks and any
  interleaving. The invariant is strengthened with `Promoting`: a task about to
  store HalfOpen holds the slot it claimed, so it is the probe once it has stored
  it. A task that has decided to resolve stays a resolver until its own store of
  Open or Closed.
* `HealthAlwaysFollowsProbes`: the property looks back through the whole history of
  probes, the code keeps two counters. `Tallied` says that the counters are the
  lengths of the two runs the history ends with and that the health is the verdict
  so far; `ProbeDecides` and `VerdictMoves` say what one more outcome does to the
  set of decisive probes and to its last member.
* `ShadowLooksLikePlainProxy` (refinement of `PlainProxy`): the strengthening
  (`Conserved`) says that what is buffered, kept as the tail of a split frame and
  still unread add up to the body. `FrameConserves` shows a frame keeps the sum,
  whatever the cap. What the theorem promises of headers is what the code does:
  a captured response has its values turned into text, any other one has not. Each step of a handler is a step of the plain proxy or a
  stutter, and each step of a mirror is a stutter.
* `ShadowProbeIsAlwaysHeld`: with the agreement of the breaker's fields, and that a
  call which has not got to the spawn has no task. `EveryCallHasOneOutcome`: each place of
  the handler determines how many outcomes were recorded (`OutcomeInv`).
* `SilenceAlwaysMeansEqual`: `ComparedInv` says that the shadow's answer is recorded
  only when its task ends, after which the primary's no longer changes. A
  comparison that reports nothing has compared status, headers and size
  (`NothingReported`), and stripping hop-by-hop headers twice takes nothing more
  away than stripping them once (`StrippedOnce`).
* `WeightsAgreeAtRest`, `FileIsAlwaysCurrent`: neither property is inductive, since
  a command passes through states where pool and config differ. `ControlInv` says
  that whoever is in the middle of something holds `control_lock` (`Exclusive`),
  that the pool of a half-applied command has the new weights where it has been and
  the config's where it has not (`HalfWay`), and that the writer's snapshot stays true
  while it holds the lock. `AtMostOneLateConnection`: an accept after the drain
  leaves `select`, and the check before the next one ends the loop (`LateInv`).
* `RollbackAlwaysDecides`: requests read the pool weight by weight without the lock,
  so the invariant (`RollbackInv`) speaks of requests under way. While a rollback is
  in force all weight is on its target and, in shadow mode, the target is the
  primary (`InForce`). A request bound by it has no candidate but the target, and
  has not passed over it while it was available (`Bound`). A handler that
  carries out a rollback has taken back every earlier promise with its first write,
  and when it comes to save its own is true (`Carrying`, from `HalfWay` with nothing
  left to apply).

### Server

* `SendersAlwaysBalance`: `Spec => []SendersBalance`. The strengthening (`Shape`)
  says that the slab and the table are functions of records and that a Free or
  Reading slot holds no rule. Every step is shown to keep the rules held, to give
  a slot that holds none a set of rules, or to take a slot's rules away
  (`BalanceStep`); `CountFollows` turns each case into a fact about the
  cardinality of the holders.
* `InterestAlwaysMatches`, `EventsAreNeverStale`, `WakeupsAreNeverLost` are proved
  together, from one invariant (`WakeInv`) that relates each slot, its socket, and
  whether the batch or the list of pauses to resume still holds the slot (`Fits`). None
  of the three is inductive: a handler relies on the registration to see what is
  there already, and on the event it consumes for what it may leave unread. Every
  handler is shown to change its own slot only (`Alone`) and to leave it `Settled`;
  a client's step raises the event that the server waits for (`ClientWakes`).
* `BodiesStayWithinRules`: `ASSUME Generous PROVE Spec => []BodyWithinRule`. `Generous`
  says that every rule allows at least as many bytes per second as there are slots.
  Without it a share may be rounded down to 0, which the code takes for "no limit",
  and the run `event_loop_share` shows what follows. Under it every share is positive
  and within each of the slot's rules (`Paced`), and a slot has had no more than its
  rules allow so far (`Steady`).
* `ServingIsSafe`: a process that is past a step of `main` has what the step gives
  (`Equipped`). `StatusSaysTheTruth`: status 0 is about what precedes the daemon's report
  (`startup_report` shows what may still fail after it). `Truth` relates pipe, writers, parent, middle
  process and daemon of one start; that the parent exits 1 only when no daemon can
  serve any more needs that a byte of failure is written by a daemon that ends, and
  end of file comes only when no process that could still write is left.
* `MarksAlwaysHitTheirTimer` and `WheelKeepsAlarmPromise` (refinement of `Alarms`):
  the inductive invariant is the type and that every id in the heap and every mark
  is below `next_id`, so that a mark never meets an id handed out after it. A run of
  the wheel is then a ring of the due alarms, and a reset postpones a pending alarm or
  revives a revoked one.
* `AgeAlwaysBounded` needs only the two branches of `adapted`. `InUseAlwaysCached`
  is inductive with the types: a cleanup keeps what is in use, and an entry that is
  touched keeps its mapping (`MappingIgnoresIdle`).
* `AlwaysServesCurrent`: an entry is about the file that had its key (`KeyInv`).
* `CountAlwaysReturns`: the count is 1 exactly while a dispatch is under way.
* `EveryRangeIsExact` is about a definition, for every size and header: the bytes are
  those asked for, except that a reversed range, and in a checked build a range of an
  empty file, may panic.
* `ServedPlaceAlwaysKept`, `LogAlwaysStaysInPlace`: `RootsInv` says that the root moves
  only by chroot, which leaves the serving directory as `/`; the rest is algebra of
  joined paths (`Joins`, `PrefixAndRest`, `NamesAssociate`).

### Only model-checked

* Liveness (`HalfOpenIsResolved`, `TransfersEnd`, `DrainEnds`, `NeverWaitsForShadow`,
  `IdleIsEvicted`, `DispatchEnds`, `ParentEnds`): out of the prover's reach.
* `HeadFoundAtItsEnd`, `DatesRoundTrip`, `DatesAreGregorian`,
  `NormalPathIsTheWalk`, `MatchIsTheLanguage`, `LastOptionWins` and
  `MismatchIsBagDifference`: they compare recursive definitions or folds with a
  reference, for which the prover has no induction.

Every safety invariant and action property of a passing run that is not in the
second group is a theorem.

## Not modelled

* Which file, index, listing or redirect a path leads to, authentication, MIME types,
  error pages: functions of the file system and of tables, without state between
  requests. Their outcomes are among the answers `EventLoop` chooses from.
* Splitting of the request line and headers into fields, option spelling, the
  textual normalisers of `diff.rs`, the status in a script's header, layout of responses, listings and log lines:
  text processing without state.
* Links of a directory listing and their percent escapes: text as well. A listing's
  HREF is `/` and the request's path, so it begins with two slashes, and
  `normalize_path` refuses such a path.
* The name of the weekday in a date: a table lookup (`format_http_date`'s table begins
  with Sun, and 1970-01-01, day 0, was a Thursday).
* Trailers of HTTP messages.
* Metrics, tracing, the migration CLI, the socket protocol of the control plane:
  output, or input that changes nothing before a command is chosen.
* Poll tokens: a pure mapping.
* Weak memory: atomic accesses are sequentially consistent.
* The gap between the `stat` of `serve_static` and the one in the cache.
* The legacy C server, the differential harness and its pipeline.
