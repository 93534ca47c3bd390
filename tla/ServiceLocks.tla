----------------------------- MODULE ServiceLocks -----------------------------
(***************************************************************************)
(* The threads of one process and the locks they share, from the lifespan  *)
(* of app/main.py to its end: worker threads in ScraperEngine.execute, the *)
(* event loop with the reclaims and the shutdown, the warm pool's refill   *)
(* daemon and the RuntimeStatsReporter.                                    *)
(*                                                                         *)
(* An operation is the sequence of what it does with locks: it takes and   *)
(* releases one, uses one without blocking in between (brief), or makes a  *)
(* call that blocks under one (io): files, Chromium, the cgroup.  A call   *)
(* made without a lock needs no step, since a thread may stay for ever     *)
(* between two of them.  What the operations do to the data is in WarmPool *)
(* and ScrapeLease.                                                        *)
(***************************************************************************)
EXTENDS Naturals, Sequences

CONSTANTS Workers,   \* threads of the executor, each with the session it serves
          Nobody     \* owner of a free lock

Threads == Workers \cup {"loop", "daemon", "reporter"}

\* _active_request_ids_lock, WarmDriverPool._lock, and w for the _close_lock of
\* the session that w serves.
Locks == {"ids", "pool"} \cup Workers

ASSUME WorkersAssumption == Workers \cap {"loop", "daemon", "reporter", "ids", "pool"} = {}
ASSUME NobodyAssumption == Nobody \notin Threads \cup Locks

VARIABLES owner,     \* who holds each lock
          todo,      \* what each thread still has to do in its operation
          stage,     \* the lifespan: serving, or how far its end has come
          stopping,  \* whose _stop events are set
          gone       \* background threads that have ended

vars == <<owner, todo, stage, stopping, gone>>

Init == /\ owner = [l \in Locks |-> Nobody]
        /\ todo = [t \in Threads |-> <<>>]
        /\ stage = "serving"
        /\ stopping = {}
        /\ gone = {}

-------------------------------------------------------------------------------
(* What the operations do *)

Get(l) == [op |-> "get", lock |-> l]
Put(l) == [op |-> "put", lock |-> l]
Brief(l) == [op |-> "brief", lock |-> l]
Io == [op |-> "io", lock |-> Nobody]
Wait == [op |-> "wait", lock |-> Nobody]
OneOf(ways) == [op |-> "choose", lock |-> Nobody, ways |-> ways]

Holding(l, body) == <<Get(l)>> \o body \o <<Put(l)>>

(* ScraperEngine and ScrapeSession *)

RegisterRequestId == <<Brief("ids")>>
UnregisterRequestId == <<Brief("ids")>>
LiveSpareDirs == <<Brief("pool")>>

PruneRuntimeDirs == Holding("ids", LiveSpareDirs \o <<Io>>)

\* Faulty: the driver is closed under the lock.
ForceCloseLocked(w) == Holding(w, <<Io>>)

\* session.driver is emptied under the lock and closed without it.
ForceClose(w) == <<Brief(w)>>

(* WarmDriverPool, from a request *)

\* No spare; a healthy one; one that fails its probe and is closed under the lock.
Miss == <<Brief("pool")>>
Hit == <<Brief("pool")>>
\* Faulty: the engine is asked whether anybody uses the directory.
UnhealthyAsksEngine == Hit \o Holding("pool", <<Brief("ids"), Io>>)
Unhealthy == Hit \o Holding("pool", <<Io>>)
ReleaseAdopted == <<Brief("pool")>>
NotifyScrapeFinished == <<Brief("pool")>>

\* A full disk prunes once more before mkdir is tried again.
MakeDirs == {<<>>, PruneRuntimeDirs}

\* ScrapeSession.__exit__
Exit(w, release) == ForceClose(w) \o release \o UnregisterRequestId

\* An exception on the way skips the notify.
Finish == {<<>>, NotifyScrapeFinished}

\* __enter__ fails, no browser is needed, or what take() has for it.
Tiers(w) == {UnregisterRequestId, Exit(w, <<>>)}
            \cup {take \o <<OneOf("dirs")>> \o Exit(w, <<>>) \o <<OneOf("finish")>> :
                      take \in {Miss, Unhealthy}}
            \cup {Hit \o <<OneOf("dirs")>> \o Exit(w, ReleaseAdopted) \o <<OneOf("finish")>>}

\* ScraperEngine.execute: the id may be taken.
Enter == {<<>>, PruneRuntimeDirs \o <<OneOf("tiers")>>}
Execute == RegisterRequestId \o <<OneOf("enter")>>

(* The refill daemon *)

NextWaitSeconds == <<Brief("pool")>>
MaybeReapTtl == {<<>>, <<Brief("pool")>>, Holding("pool", <<Io>>)}

EndBuild == <<Brief("pool")>>

\* Wanted or not is decided, a stale spare closed and the cgroup read under the
\* lock; mkdir and the factory are outside, and what they made is installed, or
\* closed under the lock, or cleaned up after a failure.
MaybeRefill == {<<Brief("pool")>>,
                Holding("pool", <<Io>>),
                Holding("pool", <<Io>>) \o <<OneOf("build")>> \o EndBuild}
Built == {<<Brief("pool")>>, Holding("pool", <<Io>>), <<>>}

Round == NextWaitSeconds \o <<Wait, OneOf("reap"), OneOf("refill")>>

(* RuntimeStatsReporter *)

ActiveRequestCount == <<Brief("ids")>>
HasReadySpare == <<Brief("pool")>>
EmitOnce == ActiveRequestCount \o HasReadySpare

-------------------------------------------------------------------------------
(* Every thread takes the steps of its operation *)

Ways(t) == [enter |-> Enter, tiers |-> Tiers(t), dirs |-> MakeDirs, finish |-> Finish,
            reap |-> MaybeReapTtl, refill |-> MaybeRefill, build |-> Built]

\* Each choice that comes next, made in every way.
Chosen(t, plans) ==
    UNION {IF plan # <<>> /\ Head(plan).op = "choose"
           THEN {way \o Tail(plan) : way \in Ways(t)[Head(plan).ways]} ELSE {plan} :
               plan \in plans}

Doing(t, op) == todo[t] # <<>> /\ Head(todo[t]).op = op
Lock(t) == Head(todo[t]).lock

\* At most two choices follow each other: reap and refill.
Advance(t) == \E plan \in Chosen(t, Chosen(t, {Tail(todo[t])})) :
                  todo' = [todo EXCEPT ![t] = plan]

Acquire(t) == /\ Doing(t, "get") /\ owner[Lock(t)] = Nobody
              /\ owner' = [owner EXCEPT ![Lock(t)] = t]
              /\ Advance(t)
              /\ UNCHANGED <<stage, stopping, gone>>

Release(t) == /\ Doing(t, "put")
              /\ owner' = [owner EXCEPT ![Lock(t)] = Nobody]
              /\ Advance(t)
              /\ UNCHANGED <<stage, stopping, gone>>

UseBriefly(t) == /\ Doing(t, "brief") /\ owner[Lock(t)] = Nobody
                 /\ Advance(t)
                 /\ UNCHANGED <<owner, stage, stopping, gone>>

CallReturns(t) == /\ Doing(t, "io")
                  /\ Advance(t)
                  /\ UNCHANGED <<owner, stage, stopping, gone>>

Step(t) == Acquire(t) \/ Release(t) \/ UseBriefly(t) \/ CallReturns(t)

Begin(t, operation) == /\ todo[t] = <<>>
                       /\ todo' = [todo EXCEPT ![t] = operation]
                       /\ UNCHANGED <<owner, stage, stopping, gone>>

StartScrape(w) == stage = "serving" /\ Begin(w, Execute)

\* The deadline of the request that w serves: its hook runs on the event loop.
Reclaim(w) == stage = "serving" /\ todo[w] # <<>> /\ Begin("loop", ForceClose(w))

StartRound == "daemon" \notin stopping \cup gone /\ Begin("daemon", Round)

\* wait() returns, by timeout or woken; a stop ends the loop.
Wake == /\ Doing("daemon", "wait")
        /\ IF "daemon" \in stopping THEN todo' = [todo EXCEPT !["daemon"] = <<>>]
                                   ELSE Advance("daemon")
        /\ UNCHANGED <<owner, stage, stopping, gone>>

Beat == "reporter" \notin stopping \cup gone /\ Begin("reporter", EmitOnce)

\* _stop is seen at the head of the loop.
End(t) == /\ t \in stopping \ gone /\ todo[t] = <<>>
          /\ gone' = gone \cup {t}
          /\ UNCHANGED <<owner, todo, stage, stopping>>

-------------------------------------------------------------------------------
(* The end of the lifespan, on the event loop *)

Goes(from, to) == stage = from /\ todo["loop"] = <<>> /\ stage' = to

\* stats.stop(): the event is set, ...
StopReporter == /\ Goes("serving", "stats")
                /\ stopping' = stopping \cup {"reporter"}
                /\ UNCHANGED <<owner, todo, gone>>

\* Faulty: the thread is joined without a timeout.
JoinReporterForEver == /\ Goes("stats", "pool") /\ "reporter" \in gone
                       /\ UNCHANGED <<owner, todo, stopping, gone>>

\* ... and the thread is joined, or not in two seconds.
JoinReporter == /\ Goes("stats", "pool")
                /\ UNCHANGED <<owner, todo, stopping, gone>>

StopDaemon == /\ Goes("pool", "joining")
              /\ stopping' = stopping \cup {"daemon"}
              /\ UNCHANGED <<owner, todo, gone>>

JoinDaemon == /\ Goes("joining", "clearing")
              /\ UNCHANGED <<owner, todo, stopping, gone>>

\* The lock is tried until no build is under way or the time is up.
ClearForShutdown == /\ Goes("clearing", "executor")
                    /\ owner["pool"] = Nobody
                    /\ owner' = [owner EXCEPT !["pool"] = "loop"]
                    /\ todo' = [todo EXCEPT !["loop"] = <<Io, Put("pool")>>]
                    /\ UNCHANGED <<stopping, gone>>

\* executor.shutdown(wait=False)
ShutExecutor == /\ Goes("executor", "done")
                /\ UNCHANGED <<owner, todo, stopping, gone>>

Shutdown == \/ StopReporter \/ JoinReporter \/ StopDaemon \/ JoinDaemon
            \/ ClearForShutdown \/ ShutExecutor

Next == \/ \E t \in Threads : Step(t)
        \/ \E w \in Workers : StartScrape(w) \/ Reclaim(w)
        \/ StartRound \/ Wake \/ Beat
        \/ \E t \in {"daemon", "reporter"} : End(t)
        \/ Shutdown

Spec == Init /\ [][Next]_vars

Holds(t) == \E l \in Locks : owner[l] = t

\* The event loop runs; a call made under a lock returns.  Any other call may
\* block for ever, and a free lock need not go to any thread in particular.
FairSpec == /\ Spec
            /\ \A t \in Threads : WF_vars(Holds(t) /\ Step(t))
            /\ WF_vars(Step("loop")) /\ WF_vars(Shutdown)

-------------------------------------------------------------------------------
(* Properties *)

Waiting(t) == (Doing(t, "get") \/ Doing(t, "brief")) /\ owner[Lock(t)] # Nobody

\* No threads wait for each other: prune asks for the pool's lock under that of
\* the ids (orchestrator.py, prune_runtime_dirs), and nothing the other way
\* round, also while sessions exit, drivers are closed and the pool shuts down.
NoCircularWait ==
    \A S \in SUBSET {t \in Threads : Waiting(t)} :
        S # {} => \E t \in S : owner[Lock(t)] \notin S

\* While it serves, the event loop waits for no lock whose owner is in a call
\* that blocks: not for the worker that closes the same driver.
LoopNotHeldUp ==
    stage = "serving" /\ Waiting("loop") => ~Doing(owner[Lock("loop")], "io")

\* The lifespan ends although scrapes, a boot of the daemon or a heartbeat may
\* hang for ever.  (main.py, lifespan)
ShutdownCompletes == stage # "serving" ~> stage = "done"
===============================================================================
