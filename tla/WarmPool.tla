------------------------------- MODULE WarmPool -------------------------------
(***************************************************************************)
(* The warm driver pool (src/app/engine/warm_pool.py) as the refill        *)
(* daemon, the worker threads of scrape requests and the lifespan thread   *)
(* that shuts it down interleave on it.                                    *)
(*                                                                         *)
(* One action per section the code runs under _lock, and one per step it   *)
(* runs outside of it: the directory is created, Chromium is booted and    *)
(* probed, and a session's browser is closed with the lock released.       *)
(*                                                                         *)
(* A spare's id stands for its Chromium and for its spare-<uuid> directory.*)
(* Clock readings become ages and countdowns that saturate, so that time   *)
(* may run for ever in a finite model.                                     *)
(*                                                                         *)
(* A Chromium has ended once driver.close() was called on it, a directory  *)
(* is gone once it was given to rmtree(ignore_errors=True).  Either may    *)
(* fail silently (driver_protocol.py:91-96; rmtree beside a Chromium that  *)
(* is still being closed) and no code looks again: what then survives has  *)
(* no owner, and a directory goes with the next prune.  So the properties  *)
(* speak of who does the closing and the removing, and when.               *)
(*                                                                         *)
(* Left out: a scrape under the id "." removes the whole runtime_root when *)
(* it exits, spare directories included (ScrapeLease, RemoveRuntimeDir).   *)
(***************************************************************************)
EXTENDS Integers, FiniteSets

CONSTANTS Spares,         \* ids a uuid4 can give (recycled when nothing refers to them)
          Requests,       \* worker threads running a scrape
          Fingerprints,   \* driver fingerprints that requests ask for
          Refused,        \* those the headless_only gate turns away
          IdleTtl,        \* idle_ttl_seconds, 0: never reap
          MinRefill,      \* min_refill_seconds
          PressureRetry,  \* MEMORY_PRESSURE_RETRY_SECONDS
          NoSpare,        \* None
          NoFp            \* None

ASSUME SparesAssumption == NoSpare \notin Spares
ASSUME FingerprintsAssumption == NoFp \notin Fingerprints /\ Refused \subseteq Fingerprints
ASSUME DelaysAssumption == /\ IdleTtl \in Nat
                           /\ MinRefill \in Nat
                           /\ PressureRetry \in Nat

VARIABLES
    \* --- fields of WarmDriverPool
    spare,        \* _spare: the id in the slot
    spareFp,      \* _spare.fingerprint
    spareAge,     \* now - _spare.created_at, up to IdleTtl
    desired,      \* _desired
    sinceRefill,  \* now - _last_refill_at, up to MinRefill; Never before the first
    refillIn,     \* _next_refill_at - now, down to 0; Unset for the value 0.0
    stop,         \* _stop
    wake,         \* _wake
    building,     \* _building and _building_dir
    adopted,      \* _adopted_dirs
    \* --- the machine
    dirs,         \* spare-* directories made and not yet given to rmtree
    chromium,     \* fingerprint each Chromium not yet closed was launched with
    \* --- threads
    daemon,       \* where the refill thread is
    buildFp,      \* local "fingerprint" of _maybe_refill
    waitFor,      \* time left of the wait in _refill_loop
    shut,         \* where the thread in shutdown() is
    req,          \* where each request is
    want,         \* the fingerprint it asked take() for
    held,         \* the spare take() gave it
    closing       \* drivers force_close took from their session but has not closed yet

slot == <<spare, spareFp, spareAge>>
refill == <<sinceRefill, refillIn, building, buildFp>>
signals == <<desired, stop, wake, shut>>
machine == <<dirs, chromium>>
thread == <<daemon, waitFor>>
sessions == <<req, want, held, adopted, closing>>
vars == <<slot, refill, signals, machine, thread, sessions>>

Never == -1      \* _last_refill_at = 0.0
Unset == -1      \* _next_refill_at = 0.0
Forever == -1    \* wait(timeout=None)

Held == {held[r] : r \in Requests} \ {NoSpare}
Running == {s \in Spares : chromium[s] # NoFp}

-------------------------------------------------------------------------------
Init == /\ spare = NoSpare /\ spareFp = NoFp /\ spareAge = 0
        /\ desired = NoFp
        /\ sinceRefill = Never /\ refillIn = Unset
        /\ stop = FALSE /\ wake = FALSE
        /\ building = NoSpare /\ buildFp = NoFp
        /\ adopted = {}
        /\ dirs \in SUBSET Spares     \* left over by a process that was killed
        /\ chromium = [s \in Spares |-> NoFp]
        /\ daemon = "boot" /\ waitFor = Forever
        /\ shut = "no"
        /\ req = [r \in Requests |-> "idle"]
        /\ want = [r \in Requests |-> NoFp]
        /\ held = [r \in Requests |-> NoSpare]
        /\ closing = {}

\* __init__ removes what an earlier process left, then starts the thread.
CleanupOrphanSpares == /\ daemon = "boot"
                       /\ dirs' = {}
                       /\ daemon' = "head"
                       /\ UNCHANGED <<slot, refill, signals, chromium, waitFor, sessions>>

-------------------------------------------------------------------------------
(* _refill_loop *)

\* Faulty: the wait forgets the idle TTL.
WaitForgetsTtl ==
    IF spare = NoSpare /\ desired # NoFp /\ building = NoSpare THEN refillIn ELSE Forever

\* Faulty: the wait forgets a refill that was put off.
WaitForgetsRefill == IF spare # NoSpare /\ IdleTtl > 0 THEN IdleTtl - spareAge ELSE Forever

\* Time until the ready spare is due for reaping or a deferred refill may run;
\* the two never apply together, so the code's min() is over one value.
NextWaitSeconds ==
    IF spare # NoSpare
    THEN IF IdleTtl > 0 THEN IdleTtl - spareAge ELSE Forever
    ELSE IF desired # NoFp /\ building = NoSpare THEN refillIn ELSE Forever

LoopHead == /\ daemon = "head"
            /\ IF stop
               THEN daemon' = "exited" /\ UNCHANGED waitFor
               ELSE daemon' = "waiting" /\ waitFor' = NextWaitSeconds
            /\ UNCHANGED <<slot, refill, signals, machine, sessions>>

WaitReturns == /\ daemon = "waiting"
               /\ wake \/ waitFor = 0
               /\ daemon' = "clear"
               /\ waitFor' = Forever
               /\ UNCHANGED <<slot, refill, signals, machine, sessions>>

ClearWake == /\ daemon = "clear"
             /\ wake' = FALSE
             /\ daemon' = "check"
             /\ UNCHANGED <<slot, refill, desired, stop, shut, machine, waitFor, sessions>>

CheckStop == /\ daemon = "check"
             /\ daemon' = IF stop THEN "exited" ELSE "reap"
             /\ UNCHANGED <<slot, refill, signals, machine, waitFor, sessions>>

\* Faulty: the slot is emptied and its directory removed, but nobody closes it.
DropWithoutClosing == /\ spare' = NoSpare /\ spareFp' = NoFp /\ spareAge' = 0
                      /\ dirs' = dirs \ {spare}
                      /\ UNCHANGED chromium

\* _close_spare_unlocked and _spare = None; changes nothing when there is none.
\* Neither the close nor the rmtree is asked whether it worked.
DropSpare == /\ spare' = NoSpare /\ spareFp' = NoFp /\ spareAge' = 0
             /\ chromium' = [s \in Spares |-> IF s = spare THEN NoFp ELSE chromium[s]]
             /\ dirs' = dirs \ {spare}

IdleTooLong == IdleTtl > 0 /\ spare # NoSpare /\ spareAge >= IdleTtl

MaybeReapTtl == /\ daemon = "reap"
                /\ daemon' = "refill"
                /\ IF IdleTooLong THEN DropSpare ELSE UNCHANGED <<slot, machine>>
                /\ UNCHANGED <<refill, signals, waitFor, sessions>>

(* _maybe_refill, its decision under the lock: one action per return *)

SlotMatches == spare # NoSpare /\ spareFp = desired
RefillWanted == /\ ~stop /\ building = NoSpare
                /\ desired # NoFp /\ ~SlotMatches
                /\ desired \notin Refused    \* never false: see DesiredAllowed
\* Faulty: a refill one second early is let through.
TooSoonOffByOne == sinceRefill # Never /\ sinceRefill + 1 < MinRefill

TooSoon == sinceRefill # Never /\ sinceRefill < MinRefill
PressureDelay == IF MinRefill >= PressureRetry THEN MinRefill ELSE PressureRetry

RefillNotWanted == /\ daemon = "refill"
                   /\ ~RefillWanted
                   /\ daemon' = "head"
                   /\ UNCHANGED <<slot, refill, signals, machine, waitFor, sessions>>

\* From here on a spare in the slot is stale: _maybe_reap_stale_spare drops it
\* whatever is decided next.
DeferRefill(delay) == /\ DropSpare
                      /\ refillIn' = delay
                      /\ daemon' = "head"
                      /\ UNCHANGED <<sinceRefill, building, buildFp, signals, waitFor, sessions>>

RefillTooSoon == /\ daemon = "refill"
                 /\ RefillWanted
                 /\ TooSoon
                 /\ DeferRefill(MinRefill - sinceRefill)

RefillUnderPressure == /\ daemon = "refill"
                       /\ RefillWanted
                       /\ ~TooSoon
                       /\ DeferRefill(PressureDelay)

\* Nothing anywhere refers to the id: a uuid4 is never one in use.
Fresh(s) == /\ s \notin dirs \cup Running \cup Held \cup adopted \cup closing
            /\ s # spare

\* Faulty: the stale spare keeps its Chromium while its successor is built.
BuildBesideStale(s) == /\ daemon = "refill"
                       /\ RefillWanted /\ ~TooSoon /\ Fresh(s)
                       /\ building' = s /\ buildFp' = desired /\ refillIn' = Unset
                       /\ daemon' = "mkdir"
                       /\ UNCHANGED <<slot, machine, sinceRefill, signals, waitFor, sessions>>

StartBuild(s) == /\ daemon = "refill"
                 /\ RefillWanted
                 /\ ~TooSoon
                 /\ Fresh(s)
                 /\ DropSpare
                 /\ building' = s
                 /\ buildFp' = desired
                 /\ refillIn' = Unset
                 /\ daemon' = "mkdir"
                 /\ UNCHANGED <<sinceRefill, signals, waitFor, sessions>>

(* _maybe_refill, the build itself *)

MakeSpareDir == /\ daemon = "mkdir"
                /\ \/ dirs' = dirs \cup {building} /\ daemon' = "factory"
                   \/ daemon' = "abort" /\ UNCHANGED dirs     \* OSError
                /\ UNCHANGED <<slot, refill, signals, chromium, waitFor, sessions>>

RunFactory == /\ daemon = "factory"
              /\ \/ /\ chromium' = [chromium EXCEPT ![building] = buildFp]
                    /\ daemon' = "install"
                 \/ daemon' = "abort" /\ UNCHANGED chromium   \* the factory raised
              /\ UNCHANGED <<slot, refill, signals, dirs, waitFor, sessions>>

\* Faulty: the second look at the slot does not look at _stop.
UnwantedIgnoresStop == spare # NoSpare

Unwanted == stop \/ spare # NoSpare

\* Faulty: the spare is labelled with what is wanted now, not with its own.
InstallAsDesired == /\ daemon = "install"
                    /\ ~Unwanted
                    /\ spare' = building /\ spareFp' = desired /\ spareAge' = 0
                    /\ sinceRefill' = 0
                    /\ daemon' = "finish"
                    /\ UNCHANGED <<refillIn, building, buildFp, signals, machine, waitFor, sessions>>

InstallSpare == /\ daemon = "install"
                /\ ~Unwanted
                /\ spare' = building /\ spareFp' = buildFp /\ spareAge' = 0
                /\ sinceRefill' = 0
                /\ daemon' = "finish"
                /\ UNCHANGED <<refillIn, building, buildFp, signals, machine, waitFor, sessions>>

DiscardBuild == /\ daemon = "install"
                /\ Unwanted
                /\ chromium' = [chromium EXCEPT ![building] = NoFp]
                /\ dirs' = dirs \ {building}
                /\ sinceRefill' = 0
                /\ daemon' = "finish"
                /\ UNCHANGED <<slot, refillIn, building, buildFp, signals, waitFor, sessions>>

\* The except branch: there is no driver, as only mkdir and the factory raise.
AbortBuild == /\ daemon = "abort"
              /\ dirs' = dirs \ {building}
              /\ daemon' = "finish"
              /\ UNCHANGED <<slot, refill, signals, chromium, waitFor, sessions>>

\* Faulty: the build flag stays up.
FinishKeepsFlag == /\ daemon = "finish"
                   /\ daemon' = "head"
                   /\ UNCHANGED <<slot, refill, signals, machine, waitFor, sessions>>

\* Faulty: a wakeup that came during the build is taken for an old one.
FinishClearsWake == /\ daemon = "finish"
                    /\ building' = NoSpare /\ buildFp' = NoFp
                    /\ wake' = FALSE
                    /\ daemon' = "head"
                    /\ UNCHANGED <<slot, sinceRefill, refillIn, desired, stop, shut, machine,
                                   waitFor, sessions>>

\* The finally branch.
FinishBuild == /\ daemon = "finish"
               /\ building' = NoSpare /\ buildFp' = NoFp
               /\ daemon' = "head"
               /\ UNCHANGED <<slot, sinceRefill, refillIn, signals, machine, waitFor, sessions>>

-------------------------------------------------------------------------------
(* A scrape on its worker thread, as far as the pool sees it *)

\* Faulty: any spare will do.
HitAnyFingerprint(f) == f \notin Refused /\ spare # NoSpare

Hit(f) == f \notin Refused /\ spare # NoSpare /\ spareFp = f

\* Faulty: the slot is not claimed before the lock is released.
TakeLeavesSlot(r, f) == /\ daemon # "boot" /\ req[r] = "idle" /\ Hit(f)
                        /\ held' = [held EXCEPT ![r] = spare]
                        /\ adopted' = adopted \cup {spare}
                        /\ want' = [want EXCEPT ![r] = f]
                        /\ req' = [req EXCEPT ![r] = "probing"]
                        /\ UNCHANGED <<slot, refill, signals, machine, thread, closing>>

\* Faulty: the directory of a spare that was taken is not protected.
TakeUnprotected(r, f) == /\ daemon # "boot" /\ req[r] = "idle" /\ Hit(f)
                         /\ held' = [held EXCEPT ![r] = spare]
                         /\ spare' = NoSpare /\ spareFp' = NoFp /\ spareAge' = 0
                         /\ want' = [want EXCEPT ![r] = f]
                         /\ req' = [req EXCEPT ![r] = "probing"]
                         /\ UNCHANGED <<refill, signals, machine, thread, adopted, closing>>

\* take(): the slot is claimed before the probe and its directory protected.
TakeHit(r, f) == /\ daemon # "boot"
                 /\ req[r] = "idle"
                 /\ Hit(f)
                 /\ held' = [held EXCEPT ![r] = spare]
                 /\ adopted' = adopted \cup {spare}
                 /\ spare' = NoSpare /\ spareFp' = NoFp /\ spareAge' = 0
                 /\ want' = [want EXCEPT ![r] = f]
                 /\ req' = [req EXCEPT ![r] = "probing"]
                 /\ UNCHANGED <<refill, signals, machine, thread, closing>>

TakeMiss(r, f) == /\ daemon # "boot"
                  /\ req[r] = "idle"
                  /\ ~Hit(f)
                  /\ want' = [want EXCEPT ![r] = f]
                  /\ req' = [req EXCEPT ![r] = "cold"]
                  /\ UNCHANGED <<slot, refill, signals, machine, thread, held, adopted, closing>>

ProbeHealthy(r) == /\ req[r] = "probing"
                   /\ req' = [req EXCEPT ![r] = "driving"]
                   /\ UNCHANGED <<slot, refill, signals, machine, thread, want, held, adopted, closing>>

\* Faulty: the directory of the destroyed spare stays protected for ever.
AbortKeepsAdopted(r) == /\ req[r] = "probing"
                        /\ chromium' = [chromium EXCEPT ![held[r]] = NoFp]
                        /\ dirs' = dirs \ {held[r]}
                        /\ held' = [held EXCEPT ![r] = NoSpare]
                        /\ req' = [req EXCEPT ![r] = "cold"]
                        /\ UNCHANGED <<slot, refill, signals, thread, want, adopted, closing>>

\* The probe found no tab: the spare is destroyed and the request boots cold.
AbortAdoptedTake(r) == /\ req[r] = "probing"
                       /\ adopted' = adopted \ {held[r]}
                       /\ chromium' = [chromium EXCEPT ![held[r]] = NoFp]
                       /\ dirs' = dirs \ {held[r]}
                       /\ held' = [held EXCEPT ![r] = NoSpare]
                       /\ req' = [req EXCEPT ![r] = "cold"]
                       /\ UNCHANGED <<slot, refill, signals, thread, want, closing>>

\* force_close run by the lease's deadline on another thread: it takes the
\* driver out of the session, and closes it after it let go of _close_lock.
\* The profile may have been removed in between.
ReclaimDriver(r) == /\ req[r] = "driving"
                    /\ held[r] \in Running \ closing
                    /\ closing' = closing \cup {held[r]}
                    /\ UNCHANGED <<slot, refill, signals, machine, thread, req, want, held, adopted>>

CloseReclaimed(s) == /\ s \in closing
                     /\ closing' = closing \ {s}
                     /\ chromium' = [chromium EXCEPT ![s] = NoFp]
                     /\ UNCHANGED <<slot, refill, signals, dirs, thread, req, want, held, adopted>>

\* Faulty: the profile is removed before the browser is closed.
RemoveBeforeClose(r) == /\ req[r] = "driving"
                        /\ dirs' = dirs \ {held[r]}
                        /\ req' = [req EXCEPT ![r] = "closed"]
                        /\ UNCHANGED <<slot, refill, signals, chromium, thread, want, held,
                                       adopted, closing>>

\* ScrapeSession.__exit__: force_close, rmtree of the adopted profile, then
\* release_adopted.  A driver that was reclaimed is no longer the session's.
SessionClose(r) == /\ req[r] = "driving"
                   /\ chromium' = IF held[r] \in closing THEN chromium
                                  ELSE [chromium EXCEPT ![held[r]] = NoFp]
                   /\ req' = [req EXCEPT ![r] = "closed"]
                   /\ UNCHANGED <<slot, refill, signals, dirs, thread, want, held, adopted, closing>>

RemoveProfile(r) == /\ req[r] = "closed"
                    /\ dirs' = dirs \ {held[r]}
                    /\ req' = [req EXCEPT ![r] = "removed"]
                    /\ UNCHANGED <<slot, refill, signals, chromium, thread, want, held, adopted, closing>>

\* execute() leaves without notifying when an exception passes through it.
ReleaseAdopted(r) == /\ req[r] = "removed"
                     /\ adopted' = adopted \ {held[r]}
                     /\ held' = [held EXCEPT ![r] = NoSpare]
                     /\ \/ req' = [req EXCEPT ![r] = "notify"] /\ UNCHANGED want
                        \/ /\ req' = [req EXCEPT ![r] = "idle"]
                           /\ want' = [want EXCEPT ![r] = NoFp]
                     /\ UNCHANGED <<slot, refill, signals, machine, thread, closing>>

ColdDone(r) == /\ req[r] = "cold"
               /\ \/ req' = [req EXCEPT ![r] = "notify"] /\ UNCHANGED want
                  \/ /\ req' = [req EXCEPT ![r] = "idle"]
                     /\ want' = [want EXCEPT ![r] = NoFp]
               /\ UNCHANGED <<slot, refill, signals, machine, thread, held, adopted, closing>>

\* notify_scrape_finished: _stop and the gate are read without the lock.
NotifyCheck(r) == /\ req[r] = "notify"
                  /\ IF stop \/ want[r] \in Refused
                     THEN /\ req' = [req EXCEPT ![r] = "idle"]
                          /\ want' = [want EXCEPT ![r] = NoFp]
                     ELSE req' = [req EXCEPT ![r] = "setDesired"] /\ UNCHANGED want
                  /\ UNCHANGED <<slot, refill, signals, machine, thread, held, adopted, closing>>

NotifySetDesired(r) == /\ req[r] = "setDesired"
                       /\ desired' = want[r]
                       /\ req' = [req EXCEPT ![r] = "setWake"]
                       /\ UNCHANGED <<slot, refill, stop, wake, shut, machine, thread,
                                      want, held, adopted, closing>>

NotifySetWake(r) == /\ req[r] = "setWake"
                    /\ wake' = TRUE
                    /\ req' = [req EXCEPT ![r] = "idle"]
                    /\ want' = [want EXCEPT ![r] = NoFp]
                    /\ UNCHANGED <<slot, refill, desired, stop, shut, machine, thread,
                                   held, adopted, closing>>

-------------------------------------------------------------------------------
(* shutdown(), called once by the lifespan of the application *)

ShutdownStop == /\ shut = "no" /\ daemon # "boot"
                /\ stop' = TRUE
                /\ shut' = "wake"
                /\ UNCHANGED <<slot, refill, desired, wake, machine, thread, sessions>>

\* Faulty: shutdown() does not wake the daemon up.
ShutdownSilently == /\ shut = "wake"
                    /\ shut' = "join"
                    /\ UNCHANGED <<slot, refill, desired, stop, wake, machine, thread, sessions>>

ShutdownWake == /\ shut = "wake"
                /\ wake' = TRUE
                /\ shut' = "join"
                /\ UNCHANGED <<slot, refill, desired, stop, machine, thread, sessions>>

\* Faulty: shutdown() closes the drivers of running scrapes as well.
ShutdownClosesAll == /\ shut = "join"
                     /\ spare' = NoSpare /\ spareFp' = NoFp /\ spareAge' = 0
                     /\ chromium' = [s \in Spares |-> NoFp]
                     /\ dirs' = dirs \ {spare}
                     /\ desired' = NoFp /\ refillIn' = Unset
                     /\ shut' = "done"
                     /\ UNCHANGED <<sinceRefill, building, buildFp, stop, wake, thread, sessions>>

\* join() and the poll of _building give up after join_timeout_seconds, so the
\* slot may be cleared with the daemon at any point, a build included.
ShutdownClear == /\ shut = "join"
                 /\ DropSpare
                 /\ desired' = NoFp
                 /\ refillIn' = Unset
                 /\ shut' = "done"
                 /\ UNCHANGED <<sinceRefill, building, buildFp, stop, wake, thread, sessions>>

-------------------------------------------------------------------------------
(* Time *)

\* Faulty: ages are not capped.
OlderForEver(age, limit) == age + 1

Older(age, limit) == IF age < limit THEN age + 1 ELSE age
Sooner(delay) == IF delay > 0 THEN delay - 1 ELSE delay

Tick == /\ spareAge' = IF spare # NoSpare THEN Older(spareAge, IdleTtl) ELSE spareAge
        /\ sinceRefill' = IF sinceRefill # Never THEN Older(sinceRefill, MinRefill)
                          ELSE sinceRefill
        /\ refillIn' = Sooner(refillIn)
        /\ waitFor' = Sooner(waitFor)
        /\ UNCHANGED <<spare, spareFp, building, buildFp, signals, machine, daemon, sessions>>

Daemon == \/ CleanupOrphanSpares \/ LoopHead \/ WaitReturns \/ ClearWake \/ CheckStop
          \/ MaybeReapTtl \/ RefillNotWanted \/ RefillTooSoon
          \/ RefillUnderPressure \/ (\E s \in Spares : StartBuild(s))
          \/ MakeSpareDir \/ RunFactory \/ InstallSpare \/ DiscardBuild
          \/ AbortBuild \/ FinishBuild

Arrive(r) == \E f \in Fingerprints : TakeHit(r, f) \/ TakeMiss(r, f)

Serve(r) == \/ ProbeHealthy(r) \/ AbortAdoptedTake(r) \/ SessionClose(r)
            \/ RemoveProfile(r) \/ ReleaseAdopted(r) \/ ColdDone(r)
            \/ NotifyCheck(r) \/ NotifySetDesired(r) \/ NotifySetWake(r)

Reclaim == \/ \E r \in Requests : ReclaimDriver(r)
           \/ \E s \in Spares : CloseReclaimed(s)

Shutdown == ShutdownStop \/ ShutdownWake \/ ShutdownClear

Next == \/ Daemon
        \/ \E r \in Requests : Arrive(r) \/ Serve(r)
        \/ Reclaim
        \/ Shutdown
        \/ Tick

Spec == Init /\ [][Next]_vars

\* The daemon runs on a thread of its own and nothing blocks it for ever; every
\* blocking step of a worker has a timeout; a shutdown, once begun, goes on;
\* time passes.  Requests need not arrive, shutdown need not be called and the
\* deadline need not reclaim anything.
Fairness == /\ WF_vars(Daemon)
            /\ WF_vars(Tick)
            /\ WF_vars(ShutdownWake) /\ WF_vars(ShutdownClear)
            /\ \A r \in Requests : WF_vars(Serve(r))
            /\ \A s \in Spares : WF_vars(CloseReclaimed(s))

FairSpec == Spec /\ Fairness
-------------------------------------------------------------------------------
(* Properties *)

DaemonSteps == {"boot", "head", "waiting", "clear", "check", "reap", "refill", "mkdir",
                "factory", "install", "abort", "finish", "exited"}
RequestSteps == {"idle", "probing", "driving", "closed", "removed", "cold", "notify",
                 "setDesired", "setWake"}

\* Every variable keeps its type; ages and countdowns stay within their bounds.
TypeOK == /\ spare \in Spares \cup {NoSpare}
          /\ spareFp \in Fingerprints \cup {NoFp}
          /\ spareAge \in 0..IdleTtl
          /\ desired \in Fingerprints \cup {NoFp}
          /\ sinceRefill \in {Never} \cup 0..MinRefill
          /\ refillIn \in {Unset} \cup Nat
          /\ stop \in BOOLEAN /\ wake \in BOOLEAN
          /\ building \in Spares \cup {NoSpare}
          /\ buildFp \in Fingerprints \cup {NoFp}
          /\ adopted \in SUBSET Spares
          /\ dirs \in SUBSET Spares
          /\ chromium \in [Spares -> Fingerprints \cup {NoFp}]
          /\ daemon \in DaemonSteps
          /\ waitFor \in {Forever} \cup Nat
          /\ shut \in {"no", "wake", "join", "done"}
          /\ req \in [Requests -> RequestSteps]
          /\ want \in [Requests -> Fingerprints \cup {NoFp}]
          /\ held \in [Requests -> Spares \cup {NoSpare}]
          /\ closing \in SUBSET Spares

\* live_spare_dirs(): what a prune must leave alone.
LiveSpareDirs == adopted \cup ({spare, building} \ {NoSpare})

\* A spare is handed out once: no two requests hold the same one, and one that
\* a request holds is not in the slot for the next take().
ExclusiveHandoff ==
    /\ \A q, r \in Requests : q # r /\ held[q] # NoSpare => held[q] # held[r]
    /\ spare \notin Held

\* A request drives a Chromium launched with exactly the fingerprint it asked
\* for, however the wanted fingerprint changed while it was built.
HandedOutMatches ==
    \A r \in Requests : held[r] \in Running => chromium[held[r]] = want[r]

\* What take() finds in the slot is running, with the fingerprint the slot
\* says, and its profile directory is on disk.
ReadySpareUsable == spare # NoSpare => spare \in dirs /\ chromium[spare] = spareFp

\* Every spare Chromium nobody has closed yet has somebody who will: the slot,
\* the build, the session that holds it or the reclaim that took it over.
NoOrphanChromium == Running \subseteq {spare, building} \cup Held \cup closing

\* Whoever removes a profile directory has closed its Chromium first, or left it
\* to the deadline's reclaim, which may be closing it at that moment.
ProfileOutlivesChromium == Running \subseteq dirs \cup closing

\* Once the start-up sweep is over live_spare_dirs() names every spare directory
\* that its owner has not removed: none in use can be pruned, none is forgotten.
LiveDirsProtected == daemon # "boot" => dirs \subseteq LiveSpareDirs

\* The single slot bounds memory: apart from the ones sessions have, at most one
\* Chromium is not closed yet, even while a stale spare is being replaced.
SingleWarmChromium ==
    \A s, t \in Running \ (Held \cup closing) : s = t

\* When shutdown() has returned the slot is empty for good, although it may
\* have given up waiting for a build that is still going on.
EmptyAfterShutdown == shut = "done" => spare = NoSpare

\* _desired never holds a fingerprint of the gate: the gate that _maybe_refill
\* applies once more turns nothing away.
DesiredAllowed == desired \notin Refused

\* No step of the pool, of another request or of shutdown closes a Chromium a
\* request is driving: only its own session or its own deadline does.
HeldChromiumKept ==
    [][\A r \in Requests :
         /\ req[r] = "driving" /\ req'[r] = "driving"
         /\ held[r] \in Running \ closing
         => held[r] \in Running']_vars

\* Two refills are at least min_refill_seconds apart.
RefillSpacing ==
    [][daemon = "install" /\ daemon' # "install" /\ sinceRefill # Never
         => sinceRefill >= MinRefill]_vars

\* No wakeup is lost: after a scrape has announced itself the daemon looks at
\* the slot again (or the pool is stopping).
NotifyServed ==
    \A r \in Requests : req[r] = "setWake" ~> (daemon = "refill" \/ stop)

\* Nobody wakes the daemon for its timers, its own waiting sees to them: an unused
\* spare does not stay for ever but is taken, replaced or reaped, and a refill put
\* off for spacing or for memory pressure is looked at again.
TimersFire ==
    /\ IdleTtl > 0 => \A s \in Spares : spare = s ~> spare # s
    /\ (refillIn # Unset /\ spare = NoSpare) ~> (daemon = "refill" \/ stop)

\* Once stopped, the daemon ends and no Chromium is left to the pool.
ShutdownQuiesces ==
    stop ~> [](daemon = "exited" /\ Running \subseteq Held \cup closing)

\* README, SCRAPE_PREWARM_IDLE_TTL_SECONDS: with a TTL the spare is closed when
\* unused; only 0 keeps "one Chromium ... in RAM until process exit".
IdleServiceHoldsNoChromium ==
    <>[](\A r \in Requests : req[r] = "idle") => <>[](Running = {})

-------------------------------------------------------------------------------
(* The inductive invariant behind the safety properties *)

Building == {"mkdir", "factory", "install", "abort"}
Holding == {"probing", "driving", "closed", "removed"}

\* The build flag is up exactly while the daemon is in the build; until the
\* spare is installed or given up nobody else knows its id, and the slot,
\* emptied when the build was decided, stays empty.
BuildInv ==
    /\ building # NoSpare <=> daemon \in Building \cup {"finish"}
    /\ building # NoSpare => buildFp \in Fingerprints
    /\ daemon \in Building => /\ spare = NoSpare
                              /\ building \notin Held \cup closing
    /\ daemon \in {"factory", "install"} => building \in dirs
    /\ daemon \in {"mkdir", "factory", "abort"} => building \notin Running
    /\ daemon = "install" => chromium[building] = buildFp
    /\ daemon \in {"mkdir", "factory", "install"} =>
           sinceRefill = Never \/ sinceRefill >= MinRefill

SlotInv ==
    spare # NoSpare => /\ spareFp \in Fingerprints
                       /\ chromium[spare] = spareFp
                       /\ spare \in dirs
                       /\ spare \notin Held \cup closing

SessionInv ==
    /\ adopted = Held
    /\ \A r \in Requests :
          /\ held[r] # NoSpare <=> req[r] \in Holding
          /\ \A q \in Requests : q # r /\ held[q] # NoSpare => held[q] # held[r]
          /\ held[r] \in Running => chromium[held[r]] = want[r]
          /\ req[r] \in {"probing", "driving"} => held[r] \in dirs
          /\ req[r] = "probing" => held[r] \notin closing
          /\ req[r] \in {"closed", "removed"} => held[r] \notin Running \ closing
          /\ req[r] = "removed" => held[r] \notin dirs
          /\ want[r] \in Refused => req[r] \notin {"setDesired"} \cup Holding

\* Whatever is not closed or not removed yet has an owner.
OwnerInv ==
    /\ Running \subseteq {spare} \cup Held \cup closing
                         \cup (IF daemon = "install" THEN {building} ELSE {})
    /\ daemon # "boot" => dirs \subseteq {spare} \cup Held
                         \cup (IF daemon \in Building THEN {building} ELSE {})

StopInv ==
    /\ shut # "no" <=> stop
    /\ shut = "done" => spare = NoSpare
    /\ daemon = "boot" => /\ shut = "no" /\ spare = NoSpare
                          /\ Held = {} /\ Running = {}
    /\ desired \notin Refused

PoolInv == TypeOK /\ BuildInv /\ SlotInv /\ SessionInv /\ OwnerInv /\ StopInv

-------------------------------------------------------------------------------
(* The pool implements SpareLifecycle *)

LifecycleStage(s) ==
    IF s = spare THEN "ready"
    ELSE IF s \in adopted THEN "leased"
    ELSE IF s = building /\ daemon # "finish" THEN "building"
    ELSE "absent"

Lifecycle == INSTANCE SpareLifecycle WITH
                 stage <- [s \in Spares |-> LifecycleStage(s)],
                 holder <- [s \in Spares |-> {r \in Requests : held[r] = s}],
                 stopped <- stop

\* Seen through its slot, its build and its adopted directories, the pool does
\* nothing but what SpareLifecycle allows.
ImplementsLifecycle == Lifecycle!Spec
===============================================================================
