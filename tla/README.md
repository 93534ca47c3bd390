# Formal model of botasaurus-scrape-api

A scrape of this service is a race. An event loop admits it, gives it a deadline
and may reclaim its browser at any moment; a worker thread boots Chromium, drives
it and cleans up; a daemon thread keeps one more Chromium warm for whoever comes
next; a listener thread collects XHR bodies; every request prunes the directories
the others use; and all of these threads share a handful of locks until the
lifespan ends. These modules model that: TLA+ specifications of the parts that
share state, TLC configurations that check them on small instances, and proofs of
the safety properties, that hold for every value of the constants.

Paths are relative to the repository (`app/...` is `src/app/...` in `PROJECT.json`).

## 1. Inventory

| Component | State it keeps | Operations | Modelled |
|---|---|---|---|
| `WarmDriverPool` (`app/engine/warm_pool.py`) | slot `_spare`, `_desired`, `_adopted_dirs`, `_building`, refill times, `_stop`, `_wake` | `take`, `notify_scrape_finished`, `release_adopted`, `live_spare_dirs`, `shutdown`, the refill loop (TTL reap, stale reap, deferral, build) | `WarmPool` |
| `ScraperEngine` (`app/engine/orchestrator.py`), `app/infra/runtime_cleanup.py` | `_active_request_ids`, runtime root | `execute`, id registry, prune | `ScrapeLease`, `WarmPoolPrune` |
| `ScrapeSession` (`app/engine/session.py`) | `driver`, directories, `_close_lock` | enter, `prepare_profile_dirs`, `force_close`, exit | `ScrapeLease`; the adopted half in `WarmPool` |
| `WorkLease`, `HostConcurrencyGate` (`app/engine/work_lease.py`) | deadline, phase snapshot, abort flag, reclaim hooks; permits | `run`, `reclaim`, `mark`, `timeout_error`; `acquire`, `release` | `ScrapeLease` |
| `ScrapeService` (`app/domain/scrape_service.py`), `app/infra/request_id.py` | none of its own, except a gate | `process`: request id, guard, `_run`, `_finish_outcome` | `ScrapeService` before admission, `ScrapeLease` from there |
| `UrlGuard` (`app/security/url_guard.py`) | none | `validate`, `validate_proxy`, `is_blocked_ip` | `UrlGuard` |
| Browser tier (`app/engine/browser_tier.py`, `strategies.py`, `budget.py`) | the attempt under way | boot, attempt loop, readiness wait, settle, failure paths | boot in `ScrapeLease` and `ScrapeTiers`, loop in `BrowserTier` |
| Request tier (`app/engine/request_tier.py`) | none | one HTTP exchange, verdict, escalation | `ScrapeTiers` |
| `XhrCollector` (`app/infra/xhr_collector.py`) | pending, ready, collected, aggregate, document | CDP handlers, `harvest`, `reset` | `XhrCollector` |
| `ChallengeDetector` (`app/infra/detector.py`) | none | `detect` | `ChallengeDetector` |
| `RuntimeStatsReporter` (`app/infra/runtime_stats.py`), lifespan (`app/main.py`) | background thread, `_stop`; engine, pool, executor | `start`, `stop`, the heartbeat; start and end of the service | their threads and locks in `ServiceLocks` |
| Envelope, API, schemas, metadata, telemetry, scripts | see `PROJECT.json` | | no: section 8 |

How they interact:

- `ScrapeService.process` and `_run` run on the event loop. `process` settles the
  request id and asks the `UrlGuard` for its verdict on target and proxy, which
  resolves names **on the event loop** and before the deadline starts. `WorkLease.run` gets a permit,
  submits `ScraperEngine.execute` to the executor and waits for it, shielded, up
  to the deadline. At the deadline `reclaim()` sets the abort flag and calls the
  session's `force_close` **on the event loop**, while the worker goes on.
- `execute` on its worker opens a `ScrapeSession`, which registers the request
  id, prunes the runtime root, and removes its directory when it exits.
- `run_browser_tier` asks the pool for a warm driver (`take`), or makes a profile
  and boots one. Afterwards `execute` tells the pool what fingerprint was used.
- The pool's daemon builds the next spare. The prune must not remove the spare's
  directory: it asks `live_spare_dirs()`.
- The heartbeat reads the number of active ids and whether a spare is ready. The
  lifespan's end stops the reporter, shuts the pool down and lets go of the
  executor, while workers may still be busy.
- The prune takes the pool's lock under the engine's id lock; drivers and spares
  are closed and removed under the pool's lock; a session's driver is taken under
  its own lock and closed without it.
- The attempt loop resets the collector between attempts and harvests it at the
  end; CDP events come on a thread of their own.

What makes each part correct:

- **Pool.** A spare goes to one request, which gets the fingerprint it asked for;
  every Chromium has an owner who will close it, and keeps its profile directory
  until then; no wakeup or timer is lost; after `shutdown()` nothing is left.
- **Prune.** It removes no directory in use.
- **Guard.** What passes is usable and not blocked, what is answered 403 is blocked,
  in whatever way a name resolves; what is answered 400 or 500 was not usable.
- **Lease, session, service.** Everyone is answered, even if a worker hangs;
  however reclaim and exit race, each driver is closed once and none is left
  behind; two requests under one id never share a directory, and nobody removes one
  in use (section 6 has the exception); permits go back; a
  504 names the phase truthfully, and an id is refused only while somebody has it.
- **Locks.** No circular wait; the event loop waits for no lock that is held around
  a blocking call, so for no driver that another thread closes (those it reclaims it
  does close itself); the lifespan ends whatever hangs.
- **Tiers.** HTTP is tried and left as the execution mode says. Fail closed: a page
  with a sign of a challenge is no success, and is not loaded again unless a bypass
  was tried and the page then looked clean; one without is no challenge; attempts are
  bounded, and time is but for what a look at the page takes.
- **Collector.** The caps hold while events arrive, and retries start afresh.

## 2. Modules

| Module | What it is |
|---|---|
| `SpareLifecycle` | the abstract specification: absent, building, ready, leased |
| `WarmPool` | the pool in detail; implements `SpareLifecycle` |
| `WarmPoolPrune` | `WarmPool` composed with the prune, entry by entry |
| `ScrapeLease` | one scrape from admission to answer, several at a time: its state, actions and invariants |
| `UrlGuard` | the verdict on a URL, and a reference definition of it |
| `ScrapeService` | a request from its arrival: id, guard, then `ScrapeLease`; the specification of both |
| `ScrapeContract` | the abstract specification of a scrape: served, launched, closed, ended, answered; implemented by `ScrapeService` |
| `ServiceLocks` | every thread of the process as the locks it takes, and the end of the lifespan |
| `ChallengeDetector` | what the signs of a page amount to, and which signs each caller shows |
| `BrowserTier` | the attempt loop of one scrape |
| `ScrapeTiers` | `BrowserTier` after the request tier, the escalation and the boot |
| `XhrCollector` | the collector, its listener and its worker |
| `MC*` | instances for TLC (symmetry sets, constant functions) |
| `SpareLifecycleProofs`, `ScrapeContractProofs` | invariants of the two abstract specifications |
| `WarmPoolInduction` | the inductive invariant of the pool and its proof |
| `WarmPoolProofs` | the pool's safety properties, from the invariant; what a prune puts at risk; the pool implements `SpareLifecycle` |
| `ScrapeServiceProofs` | the inductive invariant of lease and service, their safety properties, and that the service implements `ScrapeContract` |
| `ScrapeTiersProofs` | the inductive invariant of tiers and attempt loop, and their safety properties |
| `ServiceLocksProofs` | the order of the locks, for any number of workers |
| `XhrCollectorProofs` | the inductive invariant of the collector and its properties |

Definitions marked `Faulty:` stand directly before the definition they vary. They
are not used by any specification: each is a bug somebody could write in that
place, and putting it in place of the definition violates one property. The pairs
are in `PROJECT.json`, `mutants`; they show that each property depends on the code.

### WarmPool and the code

Variables carry the names of the fields without the underscore. One action is one
section under `_lock`, or one blocking step outside of it. The daemon's position
(`daemon`) runs through `_refill_loop`:

    boot -> head -> waiting -> clear -> check -> reap -> refill -> head
                                                           |
            mkdir -> factory -> install | abort -> finish <-+   (then head)

and a request's (`req`) through what `take`, the session and
`notify_scrape_finished` do for it:

    idle -> probing -> driving -> closed -> removed -> notify -> setDesired -> setWake -> idle
         -> cold (miss, or unhealthy spare) ------------^

An exception in `execute` skips the notify. `notify_scrape_finished` is three
actions, since it reads `_stop` and writes `_desired` and the event without the
lock. `ShutdownClear` may happen with the daemon anywhere: `join` and the poll of
`_building` have timeouts. `ReclaimDriver`/`CloseReclaimed` are the deadline's
`force_close`, which takes the driver out of the session first and closes it
second. A killed process is an `Init` with directories left over.

*Closed* and *removed* mean that `driver.close()` was called and that the directory
was given to `rmtree`. Both swallow their failures (`driver_protocol.py:91-96`,
`ignore_errors=True`), and no code of the repository looks at the result: the
properties say who does it, once, in which order, and that nobody is forgotten.

Abstractions: a spare's id is its Chromium and its directory. `time.monotonic()`
readings become ages (`spareAge`, `sinceRefill`) and countdowns (`refillIn`,
`waitFor`) that saturate, so time runs for ever in finitely many states; the
values 0.0 that stand for "never" are -1. Memory pressure, `mkdir` and the factory
succeed or fail nondeterministically. The hard-coded 30-second defer is
`PressureRetry`.

### WarmPoolPrune and the code

`prune_runtime_dirs` in four kinds of steps: the snapshot of `live_spare_dirs()`,
`iterdir()`, one step per entry, the end. The engine's id lock makes it one prune
at a time; the pool goes on in between.

### ScrapeLease and the code

`co` is where the coroutine of a request is, `wk` where its worker is. What the
coroutine does between two awaits is one action. `busy` is the request whose
reclaim occupies the loop: as long as it is set no other coroutine moves, since
`driver.close()` is synchronous. Worker actions end where another thread can make
a difference: the abort checks, the boot, the assignment to `session.driver`,
reading it back, each step of `__exit__`. The deadline is a flag that comes up at
any time (`Expire`). The attempt loop is one step with its two kinds of outcome;
exceptions that no `try` catches are the outcome `raised`. Ids and their
registrations are real: two requests may carry one id, and the prune of
`prepare_runtime_for_request` (one atomic step here, as the id lock is held
throughout and only registered ids have directories) removes what no active id owns.
One id is special: `Dot` is ".", which is path-safe, and whose runtime directory is
the runtime root. A session under it cannot make its directory, and removes
everybody's when it exits (`Below`). `rmtree` may leave files in the directory of a
Chromium that runs (`left` in `RemoveRuntimeDir`).

The module has actions and invariants; `ScrapeService` has the specification.
`GateOf` tells which `HostConcurrencyGate` a request uses: one for everybody, as
its docstring says, or one per request, as `get_scrape_service` builds it.

### UrlGuard, ScrapeService and the code

A URL is what `urlparse` and `getaddrinfo` make of it; an address is what
`ipaddress` says of it, and for a NAT64 address what it says of the embedded one.
`Validate` has the checks of the code in their order, `Blocked` and `Usable` say
what they amount to without one. Three things raise what nobody catches and end in
500: `urlparse` and the port (`ValueError`; pydantic keeps both from targets, so they
concern proxies) and `getaddrinfo` for a name it cannot encode (`UnicodeError`). An
address text that `ipaddress` cannot read is passed over by `validate` (83-84);
it is in the model (`Unreadable`), though `getaddrinfo` is not known to return one.

`Receive` is the start of `process`: the inbound id is one of `ClientIds`, which
several requests may send and a killed process may have left a directory of, or
unusable, in place of which the request gets a uuid (the request itself). `target`
and `proxy` are the two calls of the guard. As they are synchronous they set
`busy`: no other coroutine moves, while workers do. `Refuse` answers without a
lease, and without a terminal event, as only admitted scrapes have one.

`Contract` maps this to `ScrapeContract`: who is served under which id is where the
worker is in its session, what was answered is the status and, for a 504, its phase.
All the code's steps between are stutters. The contract is loose where the code is: a
request that was timed out may still be served and a Chromium launched for it, and
while the reclaim is closing one the session may end first. It is strict where clients
rely on it: any other answer means that the id and the Chromium are gone.

### ServiceLocks and the code

Three kinds of locks matter: `_active_request_ids_lock`, the pool's `_lock` and the
`_close_lock` of each session. (A `WorkLease` has one of its own; nothing is called
under it.) `todo` is what a thread has yet to do in the operation it is in: take a
lock, release it, use it briefly, make a call that may block under it, or go one of
several ways (`Ways`). The operations are sequences put together as the code calls
them: `PruneRuntimeDirs` holds the ids' lock around `LiveSpareDirs` and the removal
of directories, and so on. Data is abstracted: where a branch depends on it, both
ways are possible. A worker serves one session after another; the event loop does
the reclaim of any of them.

`stage` is how far the end of the lifespan has come (`stats.stop()`,
`warm_pool.shutdown()`, `executor.shutdown(wait=False)`). Both joins have a timeout
and may return with the thread still there. What `shutdown()` polls for, the end
of a build, may also time out; then it takes the pool's lock without a timeout.

### ChallengeDetector and the code

Signs are: the driver's flag, a marker in the HTML, the two headers, the status. A
driver that raises when asked for its flag counts as not flagging. `Found` pairs
the detector's verdict with what the signs mean, so that a property can compare
what was answered with what there was to see. The callers differ in what they
show: during the wait HTML and driver only, at the end the document's response
(200 and no headers if none was captured), after an exception whatever there is,
and in the request tier no driver. A page that cannot be read counts as hostile.

### BrowserTier and the code

The clock counts seconds and moves inside steps that take time, up to what the code
passes them as a timeout; `Pause` bounds the sleeps, scrolls and bypasses that get
none, and `Reading` a look at the page: HTML, cookies and up to 20 XHR bodies come
over CDP without a timeout, so `Reading` is not a number of the code but the name of
what nothing bounds. A probe finds any page `ChallengeDetector` has for its caller, or
cannot read it. `inspect` is the `except` branch; what it finds replaces what the
attempt had found before, as in the code, and the history variable `challenge`
remembers it. The module has the loop's actions
and properties; the specification they belong to is that of `ScrapeTiers`.

### ScrapeTiers and the code

`pc` goes on where `execute` has opened its session:

    route -> exchange -> judge -> done
      |         |          |
      +---------+----------+--> budget -> boot -> attempt (BrowserTier)

`judge` is what `run_request_tier` does with the reply; `Escalate` is its `None`.
`RequestFails` is the exception that `execute` swallows in auto mode. The boot is
one step that takes its time, with the configuration of the driver, which may raise
out of `execute` (`ConfigureRaises`); its races with the deadline are in `ScrapeLease`.
Seconds left are whole seconds rounded down, as `int()` does: a clock that reads 4
of 4 stands for anything in the last second. `payload.auto` is `navigation_mode`,
`mode` is `execution_mode`; both may be anything together.

### XhrCollector and the code

Responses belong to the attempt whose page asked for them; their events come in
order, at any later time. `FetchBody` runs outside the lock, so that responses are
noted between two of them. Base64, decoding and missing bodies are the disjunct
that skips a body. `Only` is the filter `if rid in self._pending` of `harvest`; it is
spelled out by places since the provers have no definition of `SelectSeq`.
`RunningTotal` says what a sum is without recursion, for the same reason.

## 3. What is checked

| Run | Bounds | Shows |
|---|---|---|
| `pool_safety` | 3 spares, 2 requests, 2 fingerprints, TTL 2, spacing 2, symmetry | ownership, isolation, labels, spacing, the inductive invariant |
| `pool_live` | 2 spares, 1 request, 2 fingerprints, 1 refused; TTL and spacing 1 | no wakeup or timer is lost; shutdown quiesces; the pool implements `SpareLifecycle` |
| `pool_prune` | 2 spares, 1 request | only spares whose build began after the snapshot can be pruned |
| `lease_ids` | 2 requests with 1 client id, the id "." or none, 2 workers, a gate each; names with no, one or two addresses of several kinds, proxies of every form | truthful verdicts and collisions, one close per driver, nothing left, isolation, truthful queue timeouts; the service implements `ScrapeContract` |
| `lease_gate` | 2 requests, 1 host, 1 gate, 1 worker | everyone is answered; everything is returned |
| `locks` | 2 workers with a session each, daemon, reporter, event loop | no circular wait; the event loop waits for no lock held around a blocking call; the lifespan ends |
| `tier_loop` | deadline 4, work budget 3, chunk 2, pause 1, look 1, boot 1, escalation from 2, up to 3 attempts, every mode, payload and combination of signs | tiers as the mode promises, answers that fit the page, no retry of a challenged page but after a bypass, time bounded by looks, an end |
| `xhr_caps` | 5 responses, 2 attempts, 2 places, bodies of 1 to 4 units | caps, no double use, clean retries |

Why the bounds are enough to make things happen. Two requests and three spares
give one handed out, one being closed by a reclaim and one in the slot or being
built; a third spare is also what `take` and the daemon need to run ahead of a slow
session. Two fingerprints make the slot stale. Delays of 2 separate "just before",
"at" and "after". One id for two requests makes every race of register, prune, exit
and unregister, and "." for one of them every race with the exit that removes the
root; a worker for each lets them all happen at once; one worker makes
work wait in the queue. Two workers and the event loop are enough for a wait on each
kind of lock with its owner waiting for another, and for both users of one
session's lock; a third worker could only stand where one of the two does. In the tier a work budget that is no multiple of the chunk
gives a short last chunk, and a start anywhere in the deadline lets either limit be
the smaller. In the collector one body exceeds its cap by itself, two exceed the
aggregate together, and there are more responses than places.

The refinement is checked with one request, as its proof covers every number of them.
Symmetry is used for safety runs only. `CHECK_DEADLOCK FALSE` stands where the
model is of a finite job (`ScrapeService`, `XhrCollector`): when all are answered,
nothing is left to do; and in `ServiceLocks`, where the end of the lifespan is one.

## 4. Fairness

- `WarmPool!FairSpec`: the daemon (its thread never blocks for ever: every wait has
  a timeout or a wakeup, `mkdir` and the factory return), the clock, a shutdown
  once begun, and `Serve` of each request (driver calls return, most by a timeout of theirs).
  Not `Arrive`: nobody need send requests. Not `ReclaimDriver`: no deadline need pass.
- `ScrapeService!LoopFairSpec`: time passes, names resolve or fail to, and the event
  loop runs. **No** fairness
  for workers: a worker may hang anywhere for ever, and everyone is answered all
  the same. Its one assumption on drivers is that `close()`, called on the loop,
  returns.
- `EverythingReturned` is conditional on `WorkersReturn`: a worker that hangs keeps
  its id and its Chromium.
- `ServiceLocks!FairSpec`: a thread that holds a lock gets on (the calls made under
  locks return), the event loop runs. Nothing else: scrapes, a boot, a heartbeat may
  hang for ever, and a lock that is released may go to anybody else again and again.
- `ScrapeTiers!FairSpec`: the HTTP exchange and driver calls return or raise, within the timeout they are
  given where they are given one.

## 5. What is proved

With TLAPS, for every value of the constants that fits the named assumptions. Every
safety property and every action property of a passing run is a theorem, and both
refinements are.

| Module | Assumptions | Inductive invariant | Theorems |
|---|---|---|---|
| `WarmPoolInduction`, `WarmPoolProofs` | `NoSpare` is no spare, `NoFp` no fingerprint, delays are natural numbers | `PoolInv` | the twelve properties of `pool_safety`; `ImplementsLifecycle` |
| `WarmPoolProofs` | the same | `PruneInv` | `OnlyNewbornsAtRisk` |
| `ScrapeServiceProofs` | client ids are no requests and no request is called ".", limits are at least 1, proxies are URLs | `LeaseInv` | the properties of `lease_ids`, `ImplementsContract` among them |
| `ScrapeTiersProofs` | the work timeout is at most the total one, chunk, threshold of escalation and number of strategies at least 1 | `ScrapeInv` | the safety properties of `tier_loop` |
| `ServiceLocksProofs` | threads, locks and `Nobody` have different names | `LockInv` | `NoCircularWait`, `LoopNotHeldUp` |
| `XhrCollectorProofs` | at least one attempt, sizes and caps are natural numbers | `XhrInv` | the properties of `xhr_caps` |
| `SpareLifecycleProofs`, `ScrapeContractProofs` | none of their own | | what a reader may conclude from the abstract specifications alone |

The assumptions hold in the code: `budget.py` has 8 seconds for `MinEscalate` and
`config.py` validates that the work timeout is at most the scrape timeout. The rest
says that distinct things have distinct names; of the ids this is more than the code
checks, as a client may send back a uuid the service told it (section 8).

### The arguments

**`PoolInv`.** The properties of the pool are not inductive. Added are: who is inside
the build flag and that nobody else knows the new spare's id until it is installed
(`BuildInv`; this is why dropping the stale spare *before* the build matters); that
`_adopted_dirs` is exactly what sessions hold, and what each session has done with
its Chromium and its directory at each of its steps (`SessionInv`); an owner for
everything that runs or lies on disk (`OwnerInv`); what the flags of shutdown
imply (`StopInv`). One conjunct came out of the proof and not out of TLC: a session
past `RemoveProfile` has its directory gone. TLC, which only sees reachable states,
cannot tell that it is missing. `DesiredAllowed` (the gate that `_maybe_refill` applies
once more turns nothing away) is proved only; no run repeats it. In the refinement
`FinishBuild` and the abort are where the mapping needs care: a build that was given
up is gone from the lifecycle one step before `_building` is reset.

**`PruneInv`.** What the pool has in use was named by the snapshot or its build began
later. The lemma behind it, `LiveDirsStem`, is about the pool alone: a step adds to
`live_spare_dirs()` only the spare that is being built.

**`LeaseInv`.** Two threads race for one driver: the worker, whose position is `wk`,
and the reclaim on the loop, `co`. `ChromiumInv` says who owns a running Chromium
at each pair of positions: the worker between boot and assignment and in its exit,
`session.driver`, or the reclaim that took it from there. `ClosedOnce` follows, as
every way to close one begins with owning it. For the 504 that blames the queue
`PhaseInv` ties the phase, the abort flag and the positions of the worker past which a
Chromium exists: a reclaim that still read "queue" has set the flag before the worker
gets to its last check. `IdInv` says that the registry is the ids of the open sessions,
one each, whatever the ids are; `AnswerInv` that an answer other than a timeout comes
when the worker is done. `ProfileIsolated` is the one property that is about
steps as well as states: most steps of a worker touch no directory and no id
(`QuietWork`), the loop's never do (`LoopIsQuiet`), and `WorkIsolates` goes through
the prune, the making and the removing of directories, using of `IdInv` that the
directory of another session has another name. The exit of a session under "." is
excluded in the property, not by an assumption. With these invariants each worker step maps to one of serve, launch, close, end, or to
none, each loop step to one of answer, close, or none: `ServiceImplementsContract`.

**`ScrapeInv`.** What is known at each place of the loop. `LoopInv`: an attempt is
counted when it begins, is begun only while strategies are left, and a page seen
unclean leads nowhere but to the bypass or to an answer; so `ChallengesAreNotReloaded`
holds, with the exception it states: a bypass that raised and an inspection that found
the page clean. `AnswerInv`: nothing looks at the page after the answer. `TimeInv`:
what was spent, against both deadlines, by what the code has passed as a timeout on
the way there; this is where the wait's second use of the attempt's budget shows,
and where each look costs `Reading`. `WaitsAddUp` says what the chunks of a wait and the
looks between them come to. `OvershootIsBounded` holds for every `Reading`, and is as
much as can be said: the code has no timeout that would give `Reading` a value.
The lemma `FoundTells` is about the detector: its verdict is clean exactly when
nothing in the page is hostile, for every combination of signs, in spite of the
order in which it looks and of the header that also rides on clean replies.

**`LockInv`.** A plan is *legal* if the locks held before each of its steps can be
written beside it so that each step is allowed: a lock is asked for with none
held, calls that block are made under one, and with the ids' lock held only the
pool's is asked for, and released at once. That is compositional (`LegalJoin`), so each
operation is shown legal as it is put together, and the invariant says that what a
thread has still to do is legal from what it holds. The owner of the pool's lock then
waits for nobody and the owner of the ids' lock at most for the pool's, so that no
set of waiting threads is closed. The lock of a session is never held around a call,
which is why the event loop does not wait for it; the proof shows that while it
serves it waits for no lock at all.

**`XhrInv`.** What is pending, ready, being fetched or collected arrived since the last
reset; the four lists are disjoint and without duplicates; when no harvest is under
way nothing is left to fetch. `OnlyOfAll` shows that the filter in `harvest` never
drops anything: `_ready_ids` holds only what is pending.

### What is only model-checked

Liveness: `NotifyServed`, `TimersFire`, `ShutdownQuiesces`, `EveryoneAnswered`,
`EverythingReturned`, `ShutdownCompletes`, `Answered`. It rests on fairness, and so on
ENABLED, which the provers do not handle. The counterexamples of section 6 are
TLC's; a proof has nothing to say there.

## 6. Findings

Runs that end in a counterexample, each against a sentence of the repository:

- `lease_hostlimit`: `get_scrape_service` (`app/api/deps.py:39`) builds a service,
  and so a gate, per request; the "process-wide" limit limits nothing.
- `pool_idle`: after a TTL reap `_maybe_refill` builds the same spare again, as
  `_desired` is still set; the idle service always has its Chromium, apart from the
  moments between.
- `pool_pruned`: a spare directory made between the snapshot and the listing of a
  prune is removed under a live Chromium. `OnlyNewbornsAtRisk` says that this is
  the only way.
- `lease_event`: an exception of `execute()` that `_run` does not name, raised by
  `prepare_runtime_for_request` or `configure_driver`, leaves without its terminal
  `scrape_finished` event. (The assertion on a driver the reclaim took raises as well,
  but by then the 504 and its event have gone out.)

More came up while modelling and have no run of their own:

- The id "." is path-safe (`request_id.py:31-38`) and its runtime directory is the
  runtime root (`session.py:30`): a session under it cannot make its directory, and its
  exit removes those of all other sessions, against the "filesystem isolation" of
  `session.py:15`. `ProfileIsolated` shows that nothing else takes a directory away
  from a session that uses it.
- Settling finds a challenge, the bypass or the second look raises, the inspection finds
  the page clean, and the loop tries again (`browser_tier.py:90`, 440-452): what the
  first look found is forgotten, where `browser_tier.py:150` says "no soft-retry".
  `OnlyBypassedRetried` shows that this is the only way.
- In auto mode an HTTP exchange that times out falls through to the budget check
  (`orchestrator.py:195`). It was given all the seconds that were left, so none are,
  and the answer is a `boot` timeout of a browser nobody started; the API's README
  says that request-tier timeouts are `work` (`README.md:266`).
- A proxy that does not parse or whose port cannot be read, and a target or proxy whose
  name cannot be encoded, raise in `UrlGuard.validate` and are answered 500 (`UrlGuard`,
  `ServerError`), although `app/schemas/request.py:143` says that
  invalid proxy URLs are rejected by the guard.
- `README.md:327` says that the NAT64 prefix is allowed; the code, more careful,
  judges the address embedded in it.
- A `timeout` that the worker returns itself is answered 502, one of the lease 504;
  `README.md:275` knows 504 only. An id collision is answered 502
  `navigation_error` with no attempts. The 500 handler resolves the request id
  anew, so that without a usable header the answer names an id no log line has.
- `pool.shutdown()` bounds its join and its polling, and then takes the pool's lock
  without a bound: `ShutdownCompletes` needs that what runs under the lock (closing a
  Chromium, removing its directory) returns. After the lifespan the interpreter still
  joins the executor's threads; that is not part of the model.
- A driver that raises when it is asked whether it was taken for a bot counts as a
  no (`detector.py:102`): here, and only here, a look at the page fails open.
- A 504 does not cancel queued work, as the README says it does: the future is
  shielded (`work_lease.py:195`), so the work starts later and gives up at its first
  abort check. `EverythingReturned` shows that it leaves nothing behind.
- Between the last abort check (`browser_tier.py:300`) and the boot the deadline's
  reclaim may pass; Chromium is then booted after it, against `work_lease.py:96`
  ("workers must not boot Chromium"). `ClosedOnce` shows that it is closed.
- One step budget is given to the navigation and again to the selector wait, so the
  work phase may take about twice `SCRAPE_WORK_TIMEOUT_SECONDS`, and the looks at the
  page and the harvest come on top without any timeout; `OvershootBounded` says what
  the sum is, and what it means for a worker past the deadline.
- CDP events of a page that was given up may arrive after the collector's reset and
  count for the next attempt; `ResetForgets` shows that only such late ones do.

## 7. Plan

1. **Lemmas towards liveness.** What fairness is combined with can be proved without
   it: that each waiting state of the pool's daemon has a step that leaves it, and a
   measure that each step of the attempt loop lowers.
2. **The step of `EveryoneAnswered` that is about safety**: once the deadline has
   passed, only steps of the loop stand between a coroutine and its answer.
3. **The pool and the id "."** composed: `WarmPool` with an exit that removes spare
   directories, to say which of its properties survive.

## 8. What is not modelled, and why

- Client disconnects. A cancelled `WorkLease.run` that has its permit gives it back in
  `finally`, but does not reclaim: the worker goes on to its own end. One that is
  cancelled while `acquire` waits on its thread loses the permit that thread may still
  get. Whether and when a handler is cancelled is the server's matter, and
  `EverythingReturned` is about requests that are not.
- A `driver.close()` that fails. `close_driver` logs it and nobody looks again, so the
  models count the call as the end of the Chromium; in truth it may run on, and
  keep an `rmtree` from removing everything.
- A session under the id "." beside the warm pool: its exit takes spare directories,
  too. `WarmPool` and `WarmPoolPrune` leave it out.
- A client that sends the uuid of somebody else's running request: `IdsAssumption` keeps
  generated and sent ids apart. `CollisionIsReal` would not hold without it.
- How many seconds a look at a page takes, as no timeout of the code bounds it.
- The executor's own shutdown at the end of the lifespan; the pool's part of it is
  in `WarmPool`.
- What a heartbeat and the preflight report, and the parsing of URLs and HTML: input
  or output of the modelled parts.
- Metadata, cookies, schemas, the error envelope, the OpenAPI document, routing,
  logging and telemetry: no state, and no property here is about what they produce.
  `BrowserTier` uses the clamps of the schema, `ScrapeService` that a target is a
  well-formed http URL.
- `scripts/`: offline tools.
- Chromium, CDP, the thread pool and the file system are external: they appear as
  the nondeterminism the code handles (a call returns, raises or takes its time).
