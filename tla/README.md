# castle+ in TLA+

castle+ is a reverse proxy and process supervisor built on raw `epoll`: one
event loop per core serves HTTP and HTTPS clients and relays each request to a
backend process; a supervisor thread launches those backends, restarts them and
takes them down; a control thread answers an operator; `main()` starts all of it
and stops it in order. This directory holds TLA+ specifications of its parts
and of how they meet, the TLC runs that check them, and proofs that TLAPS checks.

## Inventory

| Component | State it keeps | Operations | Hard behaviour |
|---|---|---|---|
| `Supervisor` (`src/supervisor`) | one `Service` per backend (pid, state, backoff, failure window, clocks, health), `shutting_down_`, `kill_deadline_`, an uptime snapshot read by other threads | `start`, `on_sigchld`, `on_tick`, `do_restart`, `begin_shutdown`, `stop` | children die at any moment, SIGCHLD coalesces, pids are reused, fork fails, posted tasks race ticks and the shutdown |
| `EventLoop` (`src/net`) | handlers, `pending_close_`, `tasks_`, `running_` | `run`, `post`, `stop`, `update`, `request_close`, idle sweep | doorbell and queue are two steps; a batch holds events of handlers that an earlier event may have doomed |
| `HttpConnection` and `BackendConnection` (`src/http`) | two buffers, two pointers to each other, request state, pauses, interests, last block of each side | `drive` and its pumps, `process_head`, `forward_body`, the callbacks between the two, `flush`, timeouts | re-entrant calls, edge-triggered epoll, backpressure in both directions, resets, refused connects |
| `PlainTransport`, `TlsTransport` | the socket, the OpenSSL object | `handshake`, `recv`, `send` | over TLS either call may block in either direction |
| `Listener`, connection cap | accept queue, a process-wide counter | `on_readable` | check-then-create across threads; EMFILE under edge triggering |
| `RateLimiter` | token buckets per address, an overflow bucket | `allow`, `spend`, `prune_locked` | the clock is read before the lock; a full table |
| `TlsContext` | the current `SSL_CTX` | `init`, `reload`, `wrap` | reload frees while others wrap |
| `ControlServer` | one admin session at a time | commands, `stop` | blocking writes, answers that time out |
| `Router` | the routes | `load`, `match` | ties between prefixes and hosts |
| Service manifest (`src/config`) | the parsed sections | `parse_services_file` | a file refused in the middle; values that change when stored |
| Command autocorrect (`src/util`) | the dictionary | `fix` | the length window, ties |
| `ConnectivityMonitor` | `NetState`, `stop_` | `run`, `stop` | a stop during a probe; log and state are two steps |
| `Log` | file, cursor, ring of critical entries | `log_msg`, `log_pull_new` | appends between two pulls, a file that cannot be opened |
| `EchoConnection` | one buffer | `on_readable`, `flush` | a full socket under edge triggering; unbounded buffer |
| `main` | none of its own | start-up, signal wait, reload, order of stops | a start that fails halfway; commands that race the teardown |

The components meet in a few places. Every handler runs on its loop's thread;
other threads reach a loop only through `post` and `stop`. The control plane
posts to the supervisor and waits, with a timeout, for the answer. The HTTP
threads read the supervisor's uptime snapshot under a mutex. The client and
backend connections of one request call each other directly on one thread.
Listeners of all threads share the connection counter and the rate limiter.

What makes each part correct, beyond types:

* Supervisor: a child has exactly one owner and the state says so, no exit and no task is lost, the
  breaker trips exactly after too many recent failures, nothing is launched
  without a reason, and a stop ends with no child left.
* Proxy pair: no dangling or null pointer, bounded buffers, no readiness lost,
  no pause without an end, one response per request and all of it, and every
  request ends.
* Admission: the cap is exceeded by at most the number of racing threads, the
  counters follow the connections through every failure, and no accept round
  leaves connections behind unless it ran out of descriptors.
* Rate limiter: no client gets more than `burst + rate * t`; pruning is free.
* TLS reload: a freed context is never used, every context is freed exactly
  when its last user is gone; a failed reload changes nothing.
* Control plane and `main()`: SIGTERM ends the program wherever the session
  is, unless an admin has stopped reading in the middle of a reply; every posted command is answered, truthfully; nothing is left
  running when start-up fails; what is posted to outlives who posts.
* Log and internet watch: no line is skipped; one line per outage and per
  recovery; a reported outage is explained in the ring.
* Configuration, routes, suggestions: what is loaded is what was written, the
  most specific route is matched, the nearest command is suggested.
* Echo: everything sent comes back before the connection closes, and the loop
  never sleeps on work.

`PROJECT.json` lists the components, the hazards with the line each one bites
at, and which property answers which hazard.

## Modules

| Module | Models | Role |
|---|---|---|
| `Supervisor` | `supervisor.cpp`, `service.h`, the loop's `run`/`post`/`run_pending_tasks`/`stop`, the stops of `main()` | specification and properties |
| `SupervisorProofs` | | theorems about `Supervisor` |
| `MCSupervisor` | | small instances, pid symmetry |
| `HttpProxy` | `http_connection.cpp`, `backend_connection.cpp`, the loop's dispatch, deferred close and idle sweep, the transports' outcomes | specification and properties |
| `HttpProxyProofs` | | theorems about `HttpProxy` |
| `HttpProxyFlow` | | more of them: pauses and wake-ups |
| `MCHttpProxy` | | small instances |
| `TokenBucket` | | abstract specification of a rate limiter |
| `RateLimiter`, `RateLimiterProofs`, `MCRateLimiter` | `rate_limiter.cpp` | implements `TokenBucket`, and the proof |
| `Admission`, `AdmissionProofs`, `MCAdmission` | `listener.cpp`, `conn_limit.h`, `tls_context.cpp`, `EventLoop::add`, the connections' constructors and destructors | composition of listeners, cap and TLS context |
| `ControlPlane`, `ControlPlaneProofs`, `MCControlPlane` | `main()`, `control_server.cpp`, `connectivity.cpp`, `log.h`, the posting side of the loops | composition of all threads from start to exit |
| `ConfigFiles` | `Router::load`, `parse_services_file` | both parsers, line by line |
| `Router` | `Router::match` | the loop over the routes |
| `AutoCorrect` | `autocorrect.hpp`, the end of `dispatch_command` | the distance of two words, and the loop over the dictionary |
| `EchoConnection` | `echo_connection.cpp`, the loop's dispatch | specification and properties |
| `MCParts` | | one small instance of the last four |
| `PartsProofs` | | theorems about the same four |

Definitions whose comment starts with "Mutant" are faulty variants of the
definition that follows. No specification uses them; substituted for that
definition, each one breaks the property that `PROJECT.json` names, which shows
that the property depends on that line of code.

### Supervisor

`svc[s]` is the `Service` record, `proc` the kernel's process table (`free`,
`run`, `term` and `kill` for a signalled child, `zombie`). The thread's place is
`pc`. It leaves `wait` with a `batch` of ready descriptors and handles them in
any order: `DrainSignal`/`Reap`/`ReapDone` are `on_sigchld`,
`TickBegin`/`TickSpawn`/`TickProbe`/`TickEnd` and `TickShutdown` are `on_tick`,
`DrainWakeup`/`SwapTasks`/`RunRestart`/`BeginShutdown`/`TasksDone` run the posted
tasks. `on_tick` reads the clock once and then visits the services one at a
time, because a health probe blocks and children, posts and time go on
meanwhile: `dueBy` and `probeBy` are what that one reading made due. `post` is
two steps (`PostRestart` or `SupervisorStop`, then `Ring`), as in the code. Any
`fork` may fail.

Time is relative: an instant in the code is here the number of seconds until or
since it, and stops at the threshold the code compares it with. That is exact,
because the code only ever compares. A clock that was never set stands at its
threshold, as the epoch does. Behaviours of any length stay in a finite space,
with no bound on the clock, the restarts or the failures.

Left out because nothing in `src/supervisor` decides by them: `restart_count`,
`failure_count`, the times and texts of the last failure and of the outage, the
names, the reports. `start()`'s failing system calls end the program before the
loop runs. The control plane is one thread, so at most one `post` of its own is
half done. Two services of one name would share `do_restart`'s lookup; the model
has one index per service.

### HttpProxy

One client connection and the backend it opens. Bytes are counted in units.
The two handlers call into each other and back while they run, so the call
stack is a variable: `todo` lists the function parts still to run, innermost
first, and every action is one part up to its next call. `c` and `b` are the two
objects; `c.backend` and `b.client` stand for the raw pointers; `closing` is
`pending_close_`; `net` holds both sockets' kernel buffers. `relayed` and
`replied` split `responded_` into its two causes, so that a property can name
them. `crashed` is the null dereference the code can reach: the model stops
there, as the process does.

Epoll is edge-triggered as in Linux: an fd enters the ready list (`queued`) when
an event it is registered for happens, or when `EPOLL_CTL_MOD` finds it ready;
`epoll_wait` reports what is then ready and takes it off the list. Peers send,
read, close, reset, accept or refuse between any two steps of the loop. The
constant `Faults` says which failures an instance has.

Abstracted: the head's contents (`process_head`'s outcomes are a choice between
waiting, rejecting, an internal path, a failed dial and forwarding with any
`Content-Length` up to the bound); the sizes of castle's own responses
(`ReplyLen`, one unit for a HEAD); the records inside TLS (the handshake
succeeds once client bytes are there, or blocks either way, or fails); idleness
(between two sweeps any handler may have been idle for longer than
`timeout_`). `EINTR` is retried in place by the code and is not modelled.
Statistics are left out.

### RateLimiter

Tokens are counted in quanta, `Price` of them to a token, and the unit of time
is the time in which the rate yields one quantum, so that the code's doubles
become integers without losing the fractions (rounding of doubles is not
modelled). `ReadClock` is the line before the lock; a caller may get its turn up
to `MaxLag` later, with others in between, so `elapsed` can be negative and a
bucket's `last` can go back. `AllowTracked`, `AllowNew` and `AllowOverflow` are
the three ways through `allow`, the call of `prune_locked` included.

`TokenBucket` is what a limiter promises: each key has a credit of at most burst
plus slack, which grows with time, is lowered by every served connection and is
enough for every refused one not to have been due; a key may be forgotten when
it is back at a full burst. `ImplementsTokenBucket` maps the credit of a key to
the refill its bucket would get now. `MaxLag` is the slack: the code cannot do
better, since a caller's late turn takes the bucket's clock back and the same
time is then credited again. That is bounded by the longest wait, once per
pruning (`WithinAllowance`).

### Admission

One thread per worker walks through `on_readable` step by step (`pc`), so that
reading the cap, wrapping, constructing and registering interleave with the
other workers. `edge` is epoll's one report per arrival. `refs` are OpenSSL's
reference counts; `wrap` is split at the point where it has read `ctx_` and
`SSL_new` has not yet taken its reference, which is what the shared lock
protects, and `reload` into build, swap and free. `Fds` are the descriptors the
process has for client sockets (backends' sockets and others are a constant part
of the limit): `open` are those in use, `cfd` the one a worker's `on_readable`
holds, and a connection in `conns` knows its loop, its socket and its SSL's
context, so that each socket and each reference can be asked for its owner. A
plain or echo server is the same without the two wrap steps.

### ControlPlane

`main` walks through start-up (each step may fail; a return runs the
destructors, which is the same `stop` as in an orderly end), waits for a signal
and works through `Order`. The control thread polls, writes, reads, dispatches
and waits for answers; a posted command is known by its ticket, so that a late
answer to one command is never mistaken for an answer to another. Deadlines are
not counted: as long as an answer is missing, its deadline may pass. Each
worker loop and the supervisor are task queues here; what the supervisor does
with a command, and that its stop ends, is in `Supervisor`. Commands that need
no other thread are one (`ping`); the two reports are one (`services`).

The log file is a count of lines: any thread may add one, a write may fail, and
the reader may find the file unreadable for one pull. SIGHUP is `Admission`'s.

### ConfigFiles, Router, AutoCorrect

A line of a file is known by its kind or key and its value; a value is abstract
up to what the code tells apart (an address has a colon or not, a host or none
and a port; a text where a number is due begins with one or not, and may have more
after it). `strtol` clamps to a long and the casts wrap: the widths are the
constants `IntMax` and `LongMax`, 2^31 - 1 and 2^63 - 1 in castle's build, which the
run scales down to 16 bits and 100000 (both above a port). `Assign` and `EndOfFile` stand for both parsers, which share their structure. A path in
`Router` is a sequence of characters and a host a name with or without port and
capitals, so that the normalisation is what the code does, no more. Words in
`AutoCorrect` are sequences of letters, with the code's own table of key
distances; the dictionary and the budget are constants, which `MCParts` sets to
those of `dispatch_command`. `LookAtWord` is one round of the loop in `fix`.

What a file means is defined apart from how it is read: a line belongs to the
section with as many headers up to it (`CountTo`), a key has the last value given
in its section (`Given`), and `Means` says key by key what a text stands for, without
the conversions: the text itself, `on` for true, the number it writes if an int can
hold it, the address with that port. A text that is no number stands for nothing
there: the code loads it all the same (below), and the property says nothing of it.
An argument of `args` is a maximal run without a blank outside quotes, a blank being
outside when the number of quotes before it is even (`Spells`).

### EchoConnection

The handler with its one buffer, the two halves of the socket, and the loop's
batch. Bytes are units; since `out_` is a queue, its length stands for it.

## Runs

| Run | Shows | Instance |
|---|---|---|
| `sup_safety` | ownership, nothing lost, truthful reports, shutdown | 2 services (one autorestarted and probed, one neither), 2 pids, 1 queued task |
| `sup_timing` | breaker, quarantine, reasons for a launch | 1 service, backoff 1-3 s, window 4 s, limit 2, stable after 3 s, grace 2 s |
| `sup_live` | a stop ends, with restarts queued before it; a backoff is retried | 2 services, 1 pid, 1 queued task, fairness |
| `proxy_safety` | pointers, bounds, edges, pauses, one response | plaintext, every fault, body 2, response 3, high-water mark 1 |
| `proxy_tls` | edges over TLS, crossed waits included, with idle sweeps | buffers of 2, head of 2 units, body 1, response 3 |
| `proxy_live` | every request ends | body 3, response 3, socket buffers of one unit (both directions pause and resume), no faults, fairness |
| `limiter` | allowance and table size, refinement of `TokenBucket` | 2 threads, 3 clients, a table of 2, 2 quanta per token, burst of 1.5 tokens, lag 1, 4 ticks |
| `admission` | cap, nothing leaked (counters, reference counts), no freed context, drained queues | 2 workers, cap 2, 4 descriptors, queues of 2, 3 contexts (2 reloads) |
| `control` | clean start and stop, honest answers, log and watch, termination | 2 loops, 4 setups, 2 posted commands, 3 log lines, ring of 2, fairness |
| `parts` | parsers, match, suggestions, echo | files of 5 (routes) and 4 (services) lines; tables of 3 routes; every one-slip misspelling of every command; 6 units through sockets of 2 |
| `proxy_truncate`, `proxy_null` | disagreements of code and comments, below | the smallest instance that shows each |

Why the bounds are enough. Two pids are enough for a pid to be reused while
another child lives, and for fork to find none free; the liveness run has one,
so that the two services also compete for it. Two services are enough for
one to be visited by a tick while another changes. In `sup_timing` every clock
has room below, at and above its threshold, the backoff doubles once, and is cut
off at its maximum, and failures leave the window one by one. In the proxy a
socket buffer of one unit is full after each write, so that every write may
block; the high-water mark is crossed by two units; the request and response are
long enough to pause, resume and pause again. Pids are interchangeable (no
action orders them), so they are a symmetry set in the two safety runs of the
supervisor; no liveness run uses symmetry. In `limiter` three clients are one
more than the table holds, so that pruning and the overflow bucket both happen;
four ticks refill a bucket to full after a payment, and its threads and clients
are symmetric. In `admission` two workers find the last slot together, which
reaches the bound of `SoftCap`; a second reload happens while connections of two
older contexts live; four descriptors run out, while both workers hold one. In `control` two tickets are
enough for the answer of one to be late for the other, and three lines for a
pull, an append and another pull; the setups divide the commands so that each is
sent where its outcome depends on something. `parts` is a disjoint union: its
four parts share no state, and a behaviour is a behaviour of one of them.

Fairness. `Supervisor`: the thread is scheduled, a thread inside `post` finishes
it, time passes, and a child that was sent SIGKILL ends. No other exit and no
operator action is assumed. `HttpProxy`: the loop is scheduled, the client sends
its request and reads the response, the backend accepts, reads the request and
ends its response once it has all of it. The code promises nothing for peers
that stop: there the idle sweep ends the connection, if a timeout is configured.
`ControlPlane`: main, the control thread and the watch are scheduled, a loop that
was told to stop runs what it has and ends (for the supervisor this is
`ShutdownCompletes`); a loop that was not told to stop may leave a task waiting
for ever, as a wedged one would. Nothing is assumed of the admin, who may stop
reading at any point. `CommandsAnswered` holds all the same; `TermEnds` has the
assumption it needs in its statement (`AdminReads`: the session is not left for ever
with a full socket), since `write_all` blocks and `stop()` joins the thread that is
in it. Without that assumption the claim does not hold (see the next section).

## Where the code differs from its comments

Two have a run of their own, each with the comment it contradicts:

* `CloseDrained` (`proxy_truncate`): `pump_write` resumes a paused backend once
  the buffer is empty; the resumed backend may deliver the tail and its EOF
  before the call returns, and the outer `pump_write` then closes with the tail
  unsent. It needs a paused download.
* `NoNullBackend` (`proxy_null`): a send that fails inside `forward_body` clears
  `backend_`, which the next line dereferences when body bytes are left.

The others follow from the definitions and have none:

* `control_server.cpp:3` says that a shutdown "interrupts even a parked admin
  session". It does while the session waits in `poll`; in `write_all`
  (`control_server.cpp:44`) nothing watches `stop_fd_`. An admin that goes on sending
  commands and no longer reads fills its socket, the control thread stays in
  `write`, and `stop()`, the first of `main()`'s stops, waits for that thread: TLC
  refutes `TermEnds` without its hypothesis `AdminReads`.
* `service_config.cpp:2` calls the manifest "strict on purpose: a typo [...] should
  fail loudly, not silently", but `health_interval`, `backoff_min` and `backoff_max`
  take any text: a word is 0, what follows a number is ignored, and a number beyond
  an int becomes another one (`Convert`). `LoadedAsWritten` is the part that holds.
* `http_connection.cpp:377`: when that failing send was the last of the body, the
  state goes from `Closing` back to `Streaming`, and the connection is not closed
  after the 502 but by the idle sweep.
* `supervisor.cpp:128`: a failed fork in an operator's restart returns before
  `is_down` is cleared, so `backendstatus` shows a service in backoff as
  permanently down (`service.h:69` says the flag is only meaningful otherwise).
* `service.h:54` says of the failure window that its size "IS the current
  in-window failure count", but it is pruned only when a failure is recorded; the
  breaker, which looks just after that, counts correctly (`QuarantineEarned`).
* `schedule_restart` measures how long a service ran from its last launch, so
  time spent in backoff after failed forks resets the backoff as if it had run.
* `control_server.cpp:351`: a restart whose answer is late is reported as "no such
  service", and happens all the same. `RestartHonest` is the half that holds.
* `listener.cpp:39` leaves the loop on EMFILE to "let the loop come back to us";
  with an edge-triggered listener it comes back with the next arrival only
  (`starved` in `QueueDrained`).
* `log.h:115`: a pull that cannot open the file sets the cursor to 0, and the next
  one returns every line again. None is skipped (`LogPulled`).
* The manifest is lenient in three more ways: text after a port is ignored (as in the
  routes file), an unclosed quote is accepted, and two sections may have one name.
* A route whose `host` names a port never matches: `load` keeps the port, `match`
  strips it from the request.
* `echo_connection.cpp:2` promises "proper backpressure"; the buffer has no bound.

## Proofs

`SupervisorProofs` proves for every number of services, set of pids and value
of the timing constants (`ConstantsAssumption` asks only that they are naturals,
that `NoPid` is no pid, and that the flags are sets of services):

* `TypeCorrect`: `TypeOK`.
* `ChildrenOwned`: `OneOwnerPerChild`.
* `NothingLost`: `NoLostExit` and `NoLostTask`.
* `ReportsFollowChild`: `UptimeAgrees` and `HealthOfChild`.
* `CleanShutdown`: `ShutdownSignalsAll` and `NoOrphans`.
* `BreakerCorrect`: `BreakerHolds` and `QuarantineEarned`.
* `RelaunchesJustified`: the action property `RelaunchJustified`.

The safety theorems share one inductive invariant, `SafetyInv` = `TypeOK`,
`ChildInv`, `StopInv`, `NoLostExit` and `NoLostTask`. Ownership alone is not
inductive: a launch preserves it only because a service that is launched holds
no child, which is known from its state, so `RunningIffChild` ties state to pid
and `NotLaunchedYet` covers `start()`. `NoOrphans` needs to know that nothing is
launched once the loop is told to stop: `ShutdownLast` says that
`begin_shutdown` is the last task ever queued (this is where the order of the
stops in `main()` enters), and `StopDrained` that no launching tick overlaps the
shutdown. The breaker's theorem has its own invariant (`BreakersOk`): the ages
in a window are sorted, and a quarantined window spans no more than
`kFailureWindow`. The launch theorem needs `DueStillDue`: what one clock reading
made due stays due until the tick comes to it.

`RateLimiterProofs` proves for every set of threads, finite set of clients, table
size, price, burst of at least one token, and lag:

* `LimitsKept`: `LimitsHold`.
* `RefinesTokenBucket`: `ImplementsTokenBucket`, step by step.

`LimiterInv` is `TypeOK`, `TurnsInTime` (a waiting caller's reading of the clock is
at most `MaxLag` old), `NoDebt` and `Accounts`. The allowance is not inductive: a
late turn sets a bucket's clock back and may leave it negative tokens.
`NoDebt` says that the time since then makes up for them, which makes the
bucket's worth a natural number, and `Accounts` that what was spent plus what the
bucket is worth now comes from burst, time and forgiven turns. `SpendFacts`,
about one turn on one bucket, serves all three ways through `allow` in both
theorems.

`AdmissionProofs` proves for every finite set of workers and descriptors, cap,
queue length and number of reloads:

* `CapIsSoft`: `SoftCap`. `SlotsTaken` is the stronger count that also has those
  who have looked at the cap and not counted themselves yet.
* `NothingEverLeaks`: `NothingLeaks`. Each step moves at most one element from one
  of the sets to another, and the library's facts about cardinality do the rest;
  `Wrapping` keeps a new context apart from all those in use.
* `ContextsOutliveWraps`: `NoFreedContext`, from the reference count and from
  `Wrapping`: between reading `ctx_` and `SSL_new` the lock keeps `ctx_` as it is.
* `QueuesDrained`: `QueueDrained`.

`ControlPlaneProofs` proves for every finite set of loops (named otherwise than the
three other threads), every set of setups and all bounds, with three invariants
that share only the setup's types:

* `ControlStopsFirst` and `ExitsClean`: `ServersOutlive` and `CleanExit`, from
  `StartedInOrder` (what runs at each place of start-up, so that a failing step
  stops no thread that is not there) and `StoppedInOrder` (a stage begins when
  the threads of the earlier ones have ended).
* `NoLineSkipped` and `OutagesAreLogged`: `LogPulled` and `OutagesLogged`, from
  `WatchInv`, which ties the published state, the watch's own and the ring.
* `HealthIsHonest` and `RestartsAreHonest`: `HonestHealth` and `RestartHonest`.
  Tickets are never reused, so an answer is one to the command that waits.

`PartsProofs` proves, of the files for every set of lines and any length, of the
router for every set of names and characters, every table and every request, of
the suggestions for every dictionary, budget and input (`AutoCorrectAssumption`
asks that the budget is below `SIZE_MAX`, where the search starts), and of the echo
for every socket size and number of units:

* `LoadsWhatIsWritten`: `LoadedAsWritten`. The invariant `CfgInv` says it of the part
  of the file that was read: `result` is `AsWritten`, and every port in it fits 16
  bits. `FileGrows` says what one more line does to the sections and to the lines
  given for each key, and there is a lemma per kind of line. `ConvertMeans` is about
  the conversions: a port that passed the check was not clamped by `strtol` and is not
  changed by the cast to 16 bits (`StrtolKeeps`), a number that an int can hold is not
  changed by the cast to `int` (`ToIntKeeps`), for any widths with `IntMax <= LongMax`
  and a long that holds more than a port (`WidthAssumption`); and `SplitSpells` says of a text of any length that `split_args` returns the arguments
  it spells. It is an induction over the characters whose hypothesis is in terms of
  counts: so many arguments started, so many characters of the current one, the
  quotes so far even or odd.
* `SuggestsNearest`: `NearestCommand`. The invariant `ACInv` has the best of the words
  looked at. That the window of lengths leaves out no near word is `DistanceBound`:
  two words are at least two apart for each letter that one is longer. This is an
  induction over the rounds of `fixHelper` (`CompareWithin`), which also shows that
  its loop ends, with both indices inside the words, within as many rounds as the two
  words have letters; `CompareForms` has the five ways through a round.
* `MatchIsMostSpecific`: `MostSpecific`. The inductive invariant is `BestOf(at - 1)`:
  of the routes looked at so far, `best` is the most specific that serves the
  request. Two lemmas connect the code's tests with the reference definition:
  `Applies` with `Serves`, and `Beats` with the order of `Rank`.
* `EchoesWhole`: `EchoedWhole`, from `NoneLost` (a unit is in one of four places)
  and `ClosesLast`.
* `EchoNeverStalls`: `EchoAwake`, with `Noticed`: what the loop has seen at each
  place unless an edge came in meanwhile.

The inductions over data rest on `Least`, that a set of naturals has a smallest
element (from the library's `WFMin`): `Induct` is induction for a set, and
`RecursionExists` and `Agree` say that a function defined by a first value and a
step exists and has those values. The library's own induction theorems take an operator as a
parameter, which the provers cannot instantiate.

`HttpProxyProofs` proves for every size of request, response, reply, chunk, socket
buffer and marks (the high one positive, the low one not above it; the code's are
256 KiB and 64 KiB), with and without TLS and timeouts and for every set of faults:

* `TypeCorrect`: `TypeOK`.
* `PointersNeverDangle`: `PointersLive`.
* `NeverTwoResponses`: `OneResponse`.
* `BuffersStayBounded`: `BoundedBuffers`. A reply of castle's own is put into the
  buffer as a whole and has its own bound.

The proof is in layers, each resting on those before. `Types`. `Core` adds
`Discipline` (which functions are only ever innermost on the call stack: the
stack grows through re-entrant calls, and this is all that is needed to know of
its depth), `LifeInv` (a handler that is in epoll's list, in the batch, on the
stack or in `pending_close_` still exists, and a backend to be closed has let go
of its client) and `PointerInv`. `ResponseInv` says that a client which castle
answers has no backend any more. `BufferInv` has the three moments at which a
buffer may be above the mark with the reader not paused yet (`DownInv`, `UpInv`:
the function that pauses it is on top of the stack, or directly under it), and
`HeadInv` for the bytes that were read with the head. For each layer, one lemma
names the steps that do not touch it, and the others get a lemma of their own.

`HttpProxyFlow` goes on from there:

* `PausesAlwaysEnd`: `PausesEnd`. A `forward_body` on the stack may pause the client
  after its `send` has run the backend's `flush` and, with it, `on_backend_drained`
  or `on_backend_error`. `ForwardInv` says which functions can stand above it, that
  those of an answer find no backend, and that the client is not paused meanwhile
  (so a notice that arrives inside `send` is not the one the pause waits for).
  `PauseInv` is then inductive: `DownPause` ties the two flags of the response's
  direction together except while `resume_reads` runs, `UpPause` says that a paused
  client has `highWater` set and a buffer above the low mark, or that `flush`,
  `fail` or the notice itself is about to run.

* `NoEdgeLost`: `EdgesKept`. At rest every direction a handler wants and its socket
  has is registered and in epoll's ready list. While functions run this is not so:
  a read or a write that returned EAGAIN has used up the edge, and the interest is
  registered only by the last function of the chain. `EdgeInv` therefore says what is
  still owed. `BackendEdges` and `ClientEdges` say of each direction that the interest
  is registered or a function on the stack will register it, and that a readiness is
  in epoll's list, in the batch, or before a function on the stack that will use it.
  `CrossIn` and `CrossOut` say so of the crossed waits of TLS: a read that blocks for
  writability found the socket full, a write that blocks for readability found nothing
  to read, and the interest is registered by the same `recompute_interest`.
  The debts are only paid if the calls come in the right order, which is `OrderInv`:
  after `pump_read` comes `drive_write`, after `pump_write` (and after what is left of
  it once a backend was resumed inside it) comes `recompute_interest` or the rest of
  the backend's delivery, which ends with it; and what runs inside `pump_write` only
  delivers or ends. Two cases of the client need more: a TLS write that stops waiting
  for the client's bytes is woken by the change of its interest (`Stale`), and what
  was delivered inside `pump_write` has been registered when it goes on
  (`EndInterest`). `FreshInv` and `EarlyInv` cover the time before the dial and
  before the handshake.

Every invariant of the passing runs is proved but one. Only model-checked:
`SlipCorrected`, which is about castle's own fifteen commands, and of which the run
enumerates every case; and the temporal properties, since liveness under fairness is out of the prover's reach:
`ShutdownCompletes` and the others of `sup_live`, `RequestEnds`, and the termination
and answering of `control`.

## Not modelled

Option parsing in `main()` (its results are constants), the parsing of HTTP heads
(`picohttpparser` is vendored; its verdicts are choices), OpenSSL beyond blocking
and reference counts, the reading of `/proc`, dates and the texts of reports and
log lines: pure conversions or I/O without state that another part depends on.
`Logger`'s `editWrites`, `readLast` and `clearLast` are never called by castle.

## Running it

    tlc -config MCSupervisor_safety.cfg MCSupervisor
    tlc -config MCHttpProxy_safety.cfg MCHttpProxy
    tlc -config MCControlPlane.cfg MCControlPlane
    tlapm SupervisorProofs.tla
    tlapm HttpProxyFlow.tla
    tlapm PartsProofs.tla
