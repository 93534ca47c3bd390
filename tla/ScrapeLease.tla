----------------------------- MODULE ScrapeLease ------------------------------
(***************************************************************************)
(* One scrape from its admission to its answer, as the event loop and the  *)
(* executor's worker threads share it: ScrapeService._run, WorkLease,      *)
(* HostConcurrencyGate, ScraperEngine.execute, ScrapeSession and the boot  *)
(* part of run_browser_tier.  ScrapeService has what comes before.         *)
(*                                                                         *)
(* The coroutine of a request (co) runs on the single event loop: what it  *)
(* does between two awaits is one action, except for the reclaim, whose    *)
(* synchronous driver.close() keeps the loop busy while workers go on.     *)
(* The worker of a request (wk) runs execute(); each of its actions is the *)
(* code up to the next point where another thread can make a difference.   *)
(*                                                                         *)
(* The deadline is a flag that may come up at any time.  The attempt loop, *)
(* the content of results and the warm pool's inside are abstracted: see   *)
(* WarmPool for the latter.                                                *)
(*                                                                         *)
(* A Chromium is "closed" once driver.close() has been called on it.       *)
(* close_driver swallows what that call raises and the code never looks    *)
(* again.  What a Chromium that survives its close writes into a directory *)
(* that is being removed is left out.                                      *)
(***************************************************************************)
EXTENDS Integers, FiniteSets, Sequences

CONSTANTS Requests,    \* requests; r also stands for the fresh uuid made for r
          ClientIds,   \* path-safe ids clients may send, and send again
          Unusable,    \* an X-Request-Id that is missing or not path-safe
          Dot,         \* ".", path-safe, whose runtime directory is runtime_root
          HostOf,      \* HostOf[r]: the host it scrapes
          GateOf,      \* GateOf[r]: the HostConcurrencyGate of its ScrapeService
          MaxPerHost,  \* scrape_max_per_host
          MaxWorkers,  \* scrape_max_workers
          NoOne        \* nobody keeps the event loop busy

ASSUME IdsAssumption == /\ Requests \cap ClientIds = {}
                        /\ Unusable \notin ClientIds /\ Dot \notin Requests
ASSUME LimitsAssumption == MaxPerHost \in Nat \ {0} /\ MaxWorkers \in Nat \ {0}
ASSUME NoOneAssumption == NoOne \notin Requests

VARIABLES
    \* --- the coroutine of each request
    co,        \* where it is
    inbound,   \* the X-Request-Id it came with
    late,      \* the deadline has passed
    holders,   \* requests holding a permit of their gate
    busy,      \* the request whose reclaim occupies the event loop
    status,    \* HTTP status of its answer, 0 before
    reported,  \* timeout_phase of a 504 built from the lease
    events,    \* scrape_finished events logged
    \* --- the lease
    phase,     \* _snap.phase
    aborted,   \* _aborted
    hooked,    \* the session's force_close is among _reclaim_hooks
    \* --- the executor and the worker
    queue,     \* submitted work, in order
    wk,        \* where the worker is
    result,    \* what execute() is going to return or raise
    \* --- the session, the engine and the machine
    bound,     \* session.driver is not None
    browser,   \* the Chromium of the request
    closes,    \* times its driver was closed
    active,    \* _active_request_ids
    dirs       \* ids with a runtime directory of their own on disk

coroutine == <<co, inbound, late, holders, busy, status, reported, events>>
worker == <<queue, wk, result>>
session == <<hooked, bound, browser, closes>>
engine == <<active, dirs>>
vars == <<coroutine, phase, aborted, worker, session, engine>>

Init == /\ co = [r \in Requests |-> "new"]
        /\ inbound = [r \in Requests |-> Unusable]
        /\ late = [r \in Requests |-> FALSE]
        /\ holders = {}
        /\ busy = NoOne
        /\ status = [r \in Requests |-> 0]
        /\ reported = [r \in Requests |-> "none"]
        /\ events = [r \in Requests |-> 0]
        /\ phase = [r \in Requests |-> "queue"]
        /\ aborted = [r \in Requests |-> FALSE]
        /\ hooked = [r \in Requests |-> FALSE]
        /\ queue = <<>>
        /\ wk = [r \in Requests |-> "none"]
        /\ result = [r \in Requests |-> "none"]
        /\ bound = [r \in Requests |-> FALSE]
        /\ browser = [r \in Requests |-> "none"]
        /\ closes = [r \in Requests |-> 0]
        /\ active = {}
        /\ dirs \in SUBSET (ClientIds \ {Dot})  \* left over by a killed process

-------------------------------------------------------------------------------
(* The event loop: WorkLease.run inside ScrapeService._run *)

\* Faulty: requests without a usable id are all served under the same one.
DefaultRequestId(i, r) == IF i \in ClientIds THEN i ELSE CHOOSE c \in ClientIds : TRUE

\* A valid inbound id is used as it is, in place of anything else a fresh uuid.
ResolveRequestId(i, r) == IF i \in ClientIds THEN i ELSE r

IdOf(r) == ResolveRequestId(inbound[r], r)
Ids == Requests \cup ClientIds

CoGoes(r, from, to) == /\ busy = NoOne
                       /\ co[r] = from
                       /\ co' = [co EXCEPT ![r] = to]

Rivals(r) == {q \in holders : GateOf[q] = GateOf[r] /\ HostOf[q] = HostOf[r]}
PermitFree(r) == Cardinality(Rivals(r)) < MaxPerHost

\* _finish_outcome: the answer and its one terminal event.
Finish(r, code) == /\ status' = [status EXCEPT ![r] = code]
                   /\ events' = [events EXCEPT ![r] = @ + 1]

\* Faulty: the timeout logs its event before the outcome does again.
FinishTimeoutTwice(r, seen) == /\ status' = [status EXCEPT ![r] = 504]
                               /\ events' = [events EXCEPT ![r] = @ + 2]
                               /\ reported' = [reported EXCEPT ![r] = seen]

\* lease.timeout_error reads the phase when the envelope is built.
FinishTimeout(r, seen) == /\ Finish(r, 504)
                          /\ reported' = [reported EXCEPT ![r] = seen]

Expire(r) == /\ co[r] \notin {"new", "target", "proxy", "answered"}
             /\ ~late[r]
             /\ late' = [late EXCEPT ![r] = TRUE]
             /\ UNCHANGED <<co, inbound, holders, busy, status, reported, events,
                            phase, aborted, worker, session, engine>>

\* host_gate.acquire waits on a thread of its own, also while the loop is busy,
\* and gets a permit ...
Admit(r) == /\ co[r] = "admit" /\ PermitFree(r)
            /\ co' = [co EXCEPT ![r] = "admitted"]
            /\ holders' = holders \cup {r}
            /\ UNCHANGED <<inbound, late, busy, status, reported, events,
                           phase, aborted, worker, session, engine>>

\* ... or gives up at the deadline.
GiveUpWaiting(r) == /\ co[r] = "admit" /\ ~PermitFree(r)
                    /\ late[r]
                    /\ co' = [co EXCEPT ![r] = "refused"]
                    /\ UNCHANGED <<inbound, late, holders, busy, status, reported, events,
                                   phase, aborted, worker, session, engine>>

AdmitTimeout(r) == /\ CoGoes(r, "refused", "answered")
                   /\ phase' = [phase EXCEPT ![r] = "queue"]
                   /\ FinishTimeout(r, "queue")
                   /\ UNCHANGED <<inbound, late, holders, busy, aborted, worker, session, engine>>

LateAdmission(r) == /\ CoGoes(r, "admitted", "answered")
                    /\ late[r]
                    /\ phase' = [phase EXCEPT ![r] = "queue"]
                    /\ FinishTimeout(r, "queue")
                    /\ holders' = holders \ {r}
                    /\ UNCHANGED <<inbound, late, busy, aborted, worker, session, engine>>

Submit(r) == /\ CoGoes(r, "admitted", "waiting")
             /\ ~late[r]
             /\ queue' = Append(queue, r)
             /\ wk' = [wk EXCEPT ![r] = "queued"]
             /\ UNCHANGED <<inbound, late, holders, busy, status, reported, events,
                            phase, aborted, result, session, engine>>

StatusOf(outcome) == IF outcome = "ok" THEN 200 ELSE 502

\* Faulty: the answer goes out when it is known, before the session has exited.
DeliverOnResult(r) == /\ CoGoes(r, "waiting", "answered")
                      /\ result[r] \notin {"none", "raised"}
                      /\ Finish(r, StatusOf(result[r]))
                      /\ holders' = holders \ {r}
                      /\ UNCHANGED <<inbound, late, busy, reported, phase, aborted,
                                     worker, session, engine>>

\* The future is done in time: a result, or the collision that _run catches.
Deliver(r) == /\ CoGoes(r, "waiting", "answered")
              /\ wk[r] = "done" /\ result[r] # "raised"
              /\ Finish(r, StatusOf(result[r]))
              /\ holders' = holders \ {r}
              /\ UNCHANGED <<inbound, late, busy, reported, phase, aborted, worker, session, engine>>

\* Any other exception passes through _run: no _finish_outcome, HTTP 500.
Propagate(r) == /\ CoGoes(r, "waiting", "answered")
                /\ wk[r] = "done" /\ result[r] = "raised"
                /\ status' = [status EXCEPT ![r] = 500]
                /\ holders' = holders \ {r}
                /\ UNCHANGED <<inbound, late, busy, reported, events, phase, aborted,
                               worker, session, engine>>

\* Faulty: the future is awaited without the timeout.
AwaitForEver(r) == /\ CoGoes(r, "waiting", "hooks")
                   /\ wk[r] = "done" /\ result[r] = "raised"
                   /\ aborted' = [aborted EXCEPT ![r] = TRUE]
                   /\ busy' = r
                   /\ UNCHANGED <<inbound, late, holders, status, reported, events,
                                  phase, worker, session, engine>>

\* wait_for raises TimeoutError, at the deadline or because execute() raised
\* one: reclaim() sets the abort flag first.
DeadlineFires(r) == /\ CoGoes(r, "waiting", "hooks")
                    /\ late[r] \/ (wk[r] = "done" /\ result[r] = "raised")
                    /\ aborted' = [aborted EXCEPT ![r] = TRUE]
                    /\ busy' = r
                    /\ UNCHANGED <<inbound, late, holders, status, reported, events,
                                   phase, worker, session, engine>>

\* Faulty: the reclaim closes the driver and leaves it in the session.
HookKeepsDriver(r) == /\ co[r] = "hooks"
                      /\ co' = [co EXCEPT ![r] = IF hooked[r] /\ bound[r] THEN "killing"
                                                 ELSE "reclaimed"]
                      /\ UNCHANGED <<inbound, late, holders, busy, status, reported, events, phase,
                                     aborted, worker, hooked, bound, browser, closes, engine>>

\* force_close under _close_lock: whoever empties session.driver closes it.
RunHooks(r) == /\ co[r] = "hooks"
               /\ IF hooked[r] /\ bound[r]
                  THEN /\ bound' = [bound EXCEPT ![r] = FALSE]
                       /\ co' = [co EXCEPT ![r] = "killing"]
                  ELSE /\ co' = [co EXCEPT ![r] = "reclaimed"]
                       /\ UNCHANGED bound
               /\ UNCHANGED <<inbound, late, holders, busy, status, reported, events, phase,
                              aborted, worker, hooked, browser, closes, engine>>

Kill(r) == /\ browser' = [browser EXCEPT ![r] = "closed"]
           /\ closes' = [closes EXCEPT ![r] = @ + 1]

KillDriver(r) == /\ co[r] = "killing"
                 /\ Kill(r)
                 /\ co' = [co EXCEPT ![r] = "reclaimed"]
                 /\ UNCHANGED <<inbound, late, holders, busy, status, reported, events, phase,
                                aborted, worker, hooked, bound, engine>>

\* The permit goes back and the 504 is built from the phase of this moment.
AnswerTimeout(r) == /\ co[r] = "reclaimed"
                    /\ co' = [co EXCEPT ![r] = "answered"]
                    /\ busy' = NoOne
                    /\ holders' = holders \ {r}
                    /\ FinishTimeout(r, phase[r])
                    /\ UNCHANGED <<inbound, late, phase, aborted, worker, session, engine>>

-------------------------------------------------------------------------------
(* A worker thread: ScraperEngine.execute *)

WkGoes(r, from, to) == wk[r] = from /\ wk' = [wk EXCEPT ![r] = to]
Outcome(r, what) == result' = [result EXCEPT ![r] = what]
Mark(r, p) == phase' = [phase EXCEPT ![r] = p]

Working == {r \in Requests : wk[r] \notin {"none", "queued", "done"}}

StartWork(r) == /\ queue # <<>> /\ Head(queue) = r
                /\ Cardinality(Working) < MaxWorkers
                /\ queue' = Tail(queue)
                /\ WkGoes(r, "queued", "start")
                /\ UNCHANGED <<coroutine, phase, aborted, result, session, engine>>

CheckAborted(r) == /\ IF aborted[r]
                      THEN WkGoes(r, "start", "return") /\ Outcome(r, "error")
                      ELSE WkGoes(r, "start", "deadline") /\ UNCHANGED result
                   /\ UNCHANGED <<coroutine, phase, aborted, queue, session, engine>>

CheckDeadline(r) == /\ IF late[r]
                       THEN /\ WkGoes(r, "deadline", "return")
                            /\ Mark(r, "queue") /\ Outcome(r, "error")
                       ELSE WkGoes(r, "deadline", "session") /\ UNCHANGED <<phase, result>>
                    /\ UNCHANGED <<coroutine, aborted, queue, session, engine>>

\* ScrapeSession.__init__ registers the hook before anything can be reclaimed.
OpenSession(r) == /\ WkGoes(r, "session", "register")
                  /\ hooked' = [hooked EXCEPT ![r] = TRUE]
                  /\ UNCHANGED <<coroutine, phase, aborted, queue, result,
                                 bound, browser, closes, engine>>

\* Faulty: an id in use is registered again.
RegisterAgain(r) == /\ WkGoes(r, "register", "prepare")
                    /\ active' = active \cup {IdOf(r)}
                    /\ UNCHANGED <<coroutine, phase, aborted, queue, result, session, dirs>>

RegisterRequestId(r) == /\ IF IdOf(r) \in active
                           THEN /\ WkGoes(r, "register", "return")
                                /\ Outcome(r, "collision")
                                /\ UNCHANGED active
                           ELSE /\ WkGoes(r, "register", "prepare")
                                /\ active' = active \cup {IdOf(r)}
                                /\ UNCHANGED result
                        /\ UNCHANGED <<coroutine, phase, aborted, queue, session, dirs>>

\* Faulty: __enter__ does not take the registration back when it fails.
PrepareKeepsId(r) == /\ \/ /\ WkGoes(r, "prepare", "tier")
                           /\ dirs' = dirs \cap active
                           /\ UNCHANGED result
                        \/ /\ WkGoes(r, "prepare", "return")
                           /\ Outcome(r, "raised")
                           /\ UNCHANGED dirs
                     /\ UNCHANGED <<coroutine, phase, aborted, queue, session, active>>

\* prepare_runtime_for_request prunes what belongs to no active id; on an
\* exception __enter__ takes the registration back.
PrepareRuntime(r) == /\ \/ /\ WkGoes(r, "prepare", "tier")
                           /\ dirs' = dirs \cap active
                           /\ UNCHANGED <<result, active>>
                        \/ /\ WkGoes(r, "prepare", "return")
                           /\ Outcome(r, "raised")
                           /\ active' = active \ {IdOf(r)}
                           /\ UNCHANGED dirs
                     /\ UNCHANGED <<coroutine, phase, aborted, queue, session>>

SkipRequestTier(r) == /\ WkGoes(r, "tier", "budget")
                      /\ UNCHANGED <<coroutine, phase, aborted, queue, result, session, engine>>

StartRequestTier(r) == /\ WkGoes(r, "tier", "http")
                       /\ Mark(r, "work")
                       /\ UNCHANGED <<coroutine, aborted, queue, result, session, engine>>

\* It escalates (or raises in auto mode), or its outcome is the scrape's.
FinishRequestTier(r) == /\ \/ WkGoes(r, "http", "budget") /\ UNCHANGED result
                           \/ /\ WkGoes(r, "http", "exit")
                              /\ \E o \in {"ok", "error"} : Outcome(r, o)
                        /\ UNCHANGED <<coroutine, phase, aborted, queue, session, engine>>

CheckBudget(r) == /\ IF late[r]
                     THEN /\ WkGoes(r, "budget", "exit")
                          /\ Mark(r, "boot") /\ Outcome(r, "error")
                     ELSE WkGoes(r, "budget", "markBoot") /\ UNCHANGED <<phase, result>>
                  /\ UNCHANGED <<coroutine, aborted, queue, session, engine>>

(* run_browser_tier up to the attempt loop *)

\* Faulty: the boot is not marked.
BootUnmarked(r) == /\ WkGoes(r, "markBoot", "bootCheck")
                   /\ UNCHANGED <<coroutine, phase, aborted, queue, result, session, engine>>

MarkBoot(r) == /\ WkGoes(r, "markBoot", "bootCheck")
               /\ Mark(r, "boot")
               /\ UNCHANGED <<coroutine, aborted, queue, result, session, engine>>

GiveUpIfAborted(r, from, to) ==
    /\ IF aborted[r] THEN WkGoes(r, from, "exit") /\ Outcome(r, "error")
                     ELSE WkGoes(r, from, to) /\ UNCHANGED result
    /\ UNCHANGED <<coroutine, phase, aborted, queue, session, engine>>

CheckAbortedBoot(r) == GiveUpIfAborted(r, "bootCheck", "take")

TakeWarm(r) == /\ WkGoes(r, "take", "adopt")
               /\ browser' = [browser EXCEPT ![r] = "running"]
               /\ UNCHANGED <<coroutine, phase, aborted, queue, result,
                              hooked, bound, closes, engine>>

TakeNothing(r) == /\ WkGoes(r, "take", "dirs")
                  /\ UNCHANGED <<coroutine, phase, aborted, queue, result, session, engine>>

Bind(r, from, to) == /\ WkGoes(r, from, to)
                     /\ bound' = [bound EXCEPT ![r] = TRUE]
                     /\ UNCHANGED <<coroutine, phase, aborted, queue, result,
                                    hooked, browser, closes, engine>>

AssignWarm(r) == Bind(r, "adopt", "warmDirs")

\* mkdir with exist_ok=False: runtime_root exists, and so may a directory that
\* was left under the same id; either fails the scrape.  On a full disk the
\* directories of no active request are removed before the one retry.  What a
\* failure leaves half-made goes with the session's exit.
MakeDirs(r, from, to) ==
    /\ \/ /\ IdOf(r) \notin dirs \cup {Dot}
          /\ \E kept \in {dirs, dirs \cap active} : dirs' = kept \cup {IdOf(r)}
          /\ WkGoes(r, from, to) /\ UNCHANGED result
       \/ /\ WkGoes(r, from, "exit") /\ Outcome(r, "error")
          /\ \/ UNCHANGED dirs
             \/ IdOf(r) \notin dirs \cup {Dot} /\ dirs' = dirs \cap active
    /\ UNCHANGED <<coroutine, phase, aborted, queue, session, active>>

PrepareRuntimeDir(r) == MakeDirs(r, "warmDirs", "read")
PrepareProfileDirs(r) == MakeDirs(r, "dirs", "coldCheck")

CheckAbortedCold(r) == GiveUpIfAborted(r, "coldCheck", "boot")

CreateDriver(r) == /\ \/ /\ WkGoes(r, "boot", "assign")
                         /\ browser' = [browser EXCEPT ![r] = "running"]
                         /\ UNCHANGED result
                      \/ /\ WkGoes(r, "boot", "exit") /\ Outcome(r, "error")
                         /\ UNCHANGED browser
                   /\ UNCHANGED <<coroutine, phase, aborted, queue,
                                  hooked, bound, closes, engine>>

AssignDriver(r) == Bind(r, "assign", "read")

\* driver = session.driver; assert driver is not None
ReadDriver(r) == /\ IF bound[r]
                    THEN WkGoes(r, "read", "configure") /\ UNCHANGED result
                    ELSE WkGoes(r, "read", "exit") /\ Outcome(r, "raised")
                 /\ UNCHANGED <<coroutine, phase, aborted, queue, session, engine>>

\* configure_driver is outside any try: what it raises leaves execute().
ConfigureDriver(r) == /\ \/ WkGoes(r, "configure", "markWork") /\ UNCHANGED result
                         \/ WkGoes(r, "configure", "exit") /\ Outcome(r, "raised")
                      /\ UNCHANGED <<coroutine, phase, aborted, queue, session, engine>>

MarkWork(r) == /\ WkGoes(r, "markWork", "work")
               /\ Mark(r, "work")
               /\ UNCHANGED <<coroutine, aborted, queue, result, session, engine>>

\* The attempt loop, every exit of it.
Attempts(r) == /\ WkGoes(r, "work", "exit")
               /\ \E o \in {"ok", "error"} : Outcome(r, o)
               /\ UNCHANGED <<coroutine, phase, aborted, queue, session, engine>>

(* ScrapeSession.__exit__ *)

\* Faulty: a session that was reclaimed takes its driver for closed.
ExitTrustsReclaim(r) == /\ IF bound[r] /\ ~aborted[r]
                           THEN /\ WkGoes(r, "exit", "closing")
                                /\ bound' = [bound EXCEPT ![r] = FALSE]
                           ELSE WkGoes(r, "exit", "rmtree") /\ UNCHANGED bound
                        /\ UNCHANGED <<coroutine, phase, aborted, queue, result,
                                       hooked, browser, closes, engine>>

ExitForceClose(r) == /\ IF bound[r]
                        THEN /\ WkGoes(r, "exit", "closing")
                             /\ bound' = [bound EXCEPT ![r] = FALSE]
                        ELSE WkGoes(r, "exit", "rmtree") /\ UNCHANGED bound
                     /\ UNCHANGED <<coroutine, phase, aborted, queue, result,
                                    hooked, browser, closes, engine>>

CloseDriver(r) == /\ WkGoes(r, "closing", "rmtree")
                  /\ Kill(r)
                  /\ UNCHANGED <<coroutine, phase, aborted, queue, result,
                                 hooked, bound, engine>>

\* runtime_root / "." is runtime_root with everybody's directories.
Below(i) == IF i = Dot THEN dirs ELSE dirs \cap {i}

\* rmtree(ignore_errors=True) may leave what a Chromium writes meanwhile, be it
\* the request's own, which the reclaim is still closing.
RemoveRuntimeDir(r) ==
    /\ WkGoes(r, "rmtree", "unregister")
    /\ \E left \in SUBSET {IdOf(q) : q \in {q \in Requests : browser[q] = "running"}} :
           dirs' = dirs \ (Below(IdOf(r)) \ left)
    /\ UNCHANGED <<coroutine, phase, aborted, queue, result, session, active>>

UnregisterRequestId(r) == /\ WkGoes(r, "unregister", "return")
                          /\ active' = active \ {IdOf(r)}
                          /\ UNCHANGED <<coroutine, phase, aborted, queue, result,
                                         session, dirs>>

CompleteFuture(r) == /\ WkGoes(r, "return", "done")
                     /\ UNCHANGED <<coroutine, phase, aborted, queue, result, session, engine>>

-------------------------------------------------------------------------------
\* What the event loop does for r between the guard and the answer.
Loop(r) == \/ Admit(r) \/ GiveUpWaiting(r) \/ AdmitTimeout(r) \/ LateAdmission(r)
           \/ Submit(r)
           \/ Deliver(r) \/ Propagate(r) \/ DeadlineFires(r)
           \/ RunHooks(r) \/ KillDriver(r) \/ AnswerTimeout(r)

Work(r) == \/ StartWork(r) \/ CheckAborted(r) \/ CheckDeadline(r) \/ OpenSession(r)
           \/ RegisterRequestId(r) \/ PrepareRuntime(r) \/ SkipRequestTier(r)
           \/ StartRequestTier(r) \/ FinishRequestTier(r) \/ CheckBudget(r)
           \/ MarkBoot(r) \/ CheckAbortedBoot(r) \/ TakeWarm(r) \/ TakeNothing(r)
           \/ AssignWarm(r) \/ PrepareRuntimeDir(r) \/ PrepareProfileDirs(r)
           \/ CheckAbortedCold(r) \/ CreateDriver(r) \/ AssignDriver(r)
           \/ ReadDriver(r) \/ ConfigureDriver(r) \/ MarkWork(r) \/ Attempts(r)
           \/ ExitForceClose(r) \/ CloseDriver(r) \/ RemoveRuntimeDir(r)
           \/ UnregisterRequestId(r) \/ CompleteFuture(r)

-------------------------------------------------------------------------------
(* Properties *)

CoSteps == {"new", "target", "proxy", "admit", "refused", "admitted", "waiting", "hooks",
            "killing", "reclaimed", "answered"}
WkSteps == {"none", "queued", "start", "deadline", "session", "register", "prepare",
            "tier", "http", "budget", "markBoot", "bootCheck", "take", "adopt",
            "warmDirs", "dirs", "coldCheck", "boot", "assign", "read", "configure",
            "markWork", "work", "exit", "closing", "rmtree", "unregister", "return",
            "done"}
Phases == {"queue", "boot", "work"}
Codes == {0, 200, 400, 403, 500, 502, 504}
Results == {"none", "ok", "error", "collision", "raised"}

\* Every variable keeps its type.
TypeOK == /\ co \in [Requests -> CoSteps]
          /\ inbound \in [Requests -> ClientIds \cup {Unusable}]
          /\ late \in [Requests -> BOOLEAN]
          /\ holders \in SUBSET Requests
          /\ busy \in Requests \cup {NoOne}
          /\ status \in [Requests -> Codes]
          /\ reported \in [Requests -> {"none"} \cup Phases]
          /\ events \in [Requests -> 0..1]
          /\ phase \in [Requests -> Phases]
          /\ aborted \in [Requests -> BOOLEAN]
          /\ hooked \in [Requests -> BOOLEAN]
          /\ queue \in Seq(Requests)
          /\ wk \in [Requests -> WkSteps]
          /\ result \in [Requests -> Results]
          /\ bound \in [Requests -> BOOLEAN]
          /\ browser \in [Requests -> {"none", "running", "closed"}]
          /\ closes \in [Requests -> 0..2]
          /\ active \in SUBSET Ids
          /\ dirs \in SUBSET Ids

\* Where a session owns its id's directory, and where it uses it.
Registered == {r \in Requests : wk[r] \in WkSteps \ {"none", "queued", "start", "deadline",
                                  "session", "register", "return", "done"}}
UsingDir == {r \in Requests : wk[r] \in {"coldCheck", "boot", "assign", "read", "configure",
                                         "markWork", "work"}}

\* However the deadline's reclaim and the session's exit race, driver.close() is
\* called once and not twice, even on a driver that was assigned after the reclaim
\* found none; while the reclaim is closing it the worker need not wait for that.
ClosedOnce ==
    \A r \in Requests :
        /\ closes[r] <= 1
        /\ wk[r] \in {"rmtree", "unregister", "return", "done"} /\ co[r] # "killing"
               => browser[r] # "running"

\* No two sessions have the same id, and whoever uses a profile directory has made
\* it and loses it to nobody's prune, failure or exit, but to one: a session under
\* "." removes runtime_root, and with it the directories of all others.
ProfileIsolated ==
    /\ [](\A q, r \in Registered : IdOf(q) = IdOf(r) => q = r)
    /\ [][\A r \in UsingDir' :
              \/ IdOf(r) \in dirs'
              \/ r \in UsingDir /\ IdOf(r) \notin dirs
              \/ \E q \in Requests : IdOf(q) = Dot /\ wk[q] = "rmtree" /\ wk' # wk]_vars

\* A 504 that blames the queue tells the truth: no Chromium was started for
\* that request, and none will be.
QueueTimeoutMeansNoBrowser ==
    \A r \in Requests : reported[r] = "queue" => browser[r] = "none"

\* The gate's purpose: at most MaxPerHost permits are out for one host.
\* (work_lease.py: "Process-wide per-host admit gate".)
HostLimit ==
    \A r \in Requests : Cardinality({q \in holders : HostOf[q] = HostOf[r]}) <= MaxPerHost

\* README, LOG_FORMAT: "Each admitted scrape emits one terminal
\* scrape_finished event".
OneTerminalEvent == \A r \in Requests : co[r] = "answered" => events[r] = 1
===============================================================================
