----------------------------- MODULE WarmPoolProofs ----------------------------
(***************************************************************************)
(* WarmPool for any number of spares and requests, any fingerprints and    *)
(* any delays: what PoolInv gives, that the pool implements SpareLifecycle *)
(* and what a prune of the runtime root can do to its directories.         *)
(***************************************************************************)
EXTENDS WarmPoolInduction, WarmPoolPrune

\* The pool's variables keep their types (no lost reset of the slot, of the
\* build flag or of a countdown in warm_pool.py).
THEOREM PoolTyped == Spec => []TypeOK
<1>1. PoolInv => TypeOK
  BY DEF PoolInv
<1>2. QED
  BY <1>1, PoolInvariant, PTL

\* take() hands a spare out once.
THEOREM HandoffIsExclusive == Spec => []ExclusiveHandoff
<1>1. PoolInv => ExclusiveHandoff
  BY DEF PoolInv, SessionInv, SlotInv, TypeOK, ExclusiveHandoff, Held
<1>2. QED
  BY <1>1, PoolInvariant, PTL

\* A request drives a Chromium of the fingerprint it asked take() for.
THEOREM HandoffMatches == Spec => []HandedOutMatches
<1>1. PoolInv => HandedOutMatches
  BY DEF PoolInv, SessionInv, HandedOutMatches
<1>2. QED
  BY <1>1, PoolInvariant, PTL

\* The slot never holds a spare that is closed, mislabelled or without profile.
THEOREM SlotIsUsable == Spec => []ReadySpareUsable
<1>1. PoolInv => ReadySpareUsable
  BY DEF PoolInv, SlotInv, ReadySpareUsable
<1>2. QED
  BY <1>1, PoolInvariant, PTL

\* Every Chromium of the pool has an owner that will close it.
THEOREM ChromiumIsOwned == Spec => []NoOrphanChromium
<1>1. PoolInv => NoOrphanChromium
  BY DEF PoolInv, OwnerInv, NoOrphanChromium
<1>2. QED
  BY <1>1, PoolInvariant, PTL

\* A profile directory is removed only when driver.close() was called on its
\* Chromium or the reclaim is about to.
THEOREM ProfileOutlives == Spec => []ProfileOutlivesChromium
<1>1. ASSUME PoolInv, NEW s \in Running PROVE s \in dirs \cup closing
  <2>1. CASE s = spare
    BY <1>1, <2>1, SparesAssumption DEF PoolInv, SlotInv, Running
  <2>2. CASE s \in Held
    <3>1. PICK r \in Requests : held[r] = s /\ s # NoSpare
      BY <2>2 DEF Held
    <3>2. req[r] \in Holding
      BY <1>1, <3>1 DEF PoolInv, SessionInv
    <3>3. /\ req[r] \in {"probing", "driving"} => held[r] \in dirs
          /\ req[r] \in {"closed", "removed"} => held[r] \notin Running \ closing
      BY <1>1 DEF PoolInv, SessionInv
    <3>4. QED
      BY <1>1, <3>1, <3>2, <3>3 DEF Holding
  <2>3. CASE daemon = "install" /\ s = building
    BY <1>1, <2>3 DEF PoolInv, BuildInv
  <2>4. QED
    BY <1>1, <2>1, <2>2, <2>3 DEF PoolInv, OwnerInv
<1>2. PoolInv => ProfileOutlivesChromium
  BY <1>1 DEF ProfileOutlivesChromium
<1>3. QED
  BY <1>2, PoolInvariant, PTL

\* live_spare_dirs() accounts for every spare directory not removed yet.
THEOREM LiveDirsAreProtected == Spec => []LiveDirsProtected
<1>1. ASSUME PoolInv, daemon # "boot", NEW s \in dirs PROVE s \in LiveSpareDirs
  <2>1. s \in Spares /\ adopted = Held
    BY <1>1 DEF PoolInv, TypeOK, SessionInv
  <2>2. s = spare \/ s \in Held \/ s = building
    BY <1>1 DEF PoolInv, OwnerInv
  <2>3. QED
    BY <2>1, <2>2, SparesAssumption DEF LiveSpareDirs
<1>2. PoolInv => LiveDirsProtected
  BY <1>1 DEF LiveDirsProtected
<1>3. QED
  BY <1>2, PoolInvariant, PTL

\* Besides those that sessions have, one Chromium at most.
THEOREM WarmChromiumIsSingle == Spec => []SingleWarmChromium
<1>1. ASSUME PoolInv, NEW s \in Running \ (Held \cup closing)
      PROVE  s # NoSpare /\ (s = spare \/ (daemon = "install" /\ s = building))
  BY <1>1, SparesAssumption DEF PoolInv, OwnerInv, Running
<1>2. PoolInv /\ daemon = "install" => spare = NoSpare
  BY DEF PoolInv, BuildInv, Building
<1>3. PoolInv => SingleWarmChromium
  BY <1>1, <1>2 DEF SingleWarmChromium
<1>4. QED
  BY <1>3, PoolInvariant, PTL

\* No build that outlives shutdown() fills the slot again.
THEOREM SlotStaysEmpty == Spec => []EmptyAfterShutdown
<1>1. PoolInv => EmptyAfterShutdown
  BY DEF PoolInv, StopInv, EmptyAfterShutdown
<1>2. QED
  BY <1>1, PoolInvariant, PTL

\* The gate's second application, in _maybe_refill, never turns anything away.
THEOREM DesiredIsAllowed == Spec => []DesiredAllowed
<1>1. PoolInv => DesiredAllowed
  BY DEF PoolInv, StopInv, DesiredAllowed
<1>2. QED
  BY <1>1, PoolInvariant, PTL

-------------------------------------------------------------------------------
\* Two refills are min_refill_seconds apart: what the decision saw still holds
\* when the build ends, however long it took.
THEOREM RefillsAreSpaced == Spec => RefillSpacing
<1>1. PoolInv /\ daemon = "install" /\ sinceRefill # Never => sinceRefill >= MinRefill
  BY DEF PoolInv, BuildInv
<1>2. PoolInv => [daemon = "install" /\ daemon' # "install" /\ sinceRefill # Never
                    => sinceRefill >= MinRefill]_vars
  BY <1>1
<1>3. QED
  BY <1>2, PoolInvariant, PTL DEF RefillSpacing

\* The Chromium a session drives is neither in the slot nor being built, no other
\* request holds it, and while nobody reclaims it only its session closes it.
LEMMA DrivenIsApart ==
    ASSUME PoolInv, NEW r \in Requests, req[r] = "driving"
    PROVE  /\ held[r] \in Spares
           /\ held[r] # spare
           /\ daemon \in Building => held[r] # building
           /\ \A q \in Requests : q # r => held[q] # held[r]
<1>1. held[r] # NoSpare /\ held[r] \in Spares
  BY DEF PoolInv, TypeOK, SessionInv, Holding
<1>2. held[r] \in Held
  BY <1>1 DEF Held
<1>3. held[r] # spare
  BY <1>1, <1>2 DEF PoolInv, SlotInv
<1>4. daemon \in Building => held[r] # building
  BY <1>2 DEF PoolInv, BuildInv
<1>5. \A q \in Requests : q # r => held[q] # held[r]
  BY <1>1 DEF PoolInv, SessionInv
<1>6. QED
  BY <1>1, <1>3, <1>4, <1>5

\* Neither the daemon nor another request nor shutdown() closes a Chromium that
\* a request is driving.
THEOREM HeldChromiumIsKept == Spec => HeldChromiumKept
<1> DEFINE Kept == \A r \in Requests :
                      /\ req[r] = "driving" /\ req'[r] = "driving"
                      /\ held[r] \in Running \ closing
                      => held[r] \in Running'
<1>1. ASSUME PoolInv, Next, NEW r \in Requests,
             req[r] = "driving", req'[r] = "driving", held[r] \in Running \ closing
      PROVE  held[r] \in Running'
  <2> DEFINE h == held[r]
  <2>1. /\ h \in Spares /\ h # spare
        /\ daemon \in Building => h # building
        /\ \A q \in Requests : q # r => held[q] # h
    BY <1>1, DrivenIsApart
  <2>2. chromium[h] # NoFp /\ h \notin closing /\ chromium \in [Spares -> Fingerprints \cup {NoFp}]
    BY <1>1 DEF Running, PoolInv, TypeOK
  <2>3. SUFFICES chromium'[h] # NoFp
    BY <2>1 DEF Running
  <2>4. CASE DropSpare
    BY <2>1, <2>2, <2>4 DEF DropSpare
  <2>5. CASE UNCHANGED chromium
    BY <2>2, <2>5
  <2>6. CASE RunFactory \/ DiscardBuild
    <3>1. h # building
      BY <2>1, <2>6 DEF RunFactory, DiscardBuild, Building
    <3>2. chromium' = chromium
          \/ \E f : chromium' = [chromium EXCEPT ![building] = f]
      BY <2>6 DEF RunFactory, DiscardBuild, machine
    <3>3. QED
      BY <2>1, <2>2, <3>1, <3>2
  <2>7. CASE Daemon
    <3>1. DropSpare \/ UNCHANGED chromium \/ RunFactory \/ DiscardBuild
      BY <2>7 DEF Daemon, CleanupOrphanSpares, LoopHead, WaitReturns, ClearWake, CheckStop,
         MaybeReapTtl, RefillNotWanted, RefillTooSoon, RefillUnderPressure, DeferRefill,
         StartBuild, MakeSpareDir, InstallSpare, AbortBuild, FinishBuild, machine
    <3>2. QED
      BY <3>1, <2>4, <2>5, <2>6
  <2>8. ASSUME NEW q \in Requests, Arrive(q) PROVE chromium'[h] # NoFp
    BY <2>8, <2>5 DEF Arrive, TakeHit, TakeMiss, machine
  <2>9. ASSUME NEW q \in Requests, Serve(q) PROVE chromium'[h] # NoFp
    <3>1. CASE AbortAdoptedTake(q) \/ SessionClose(q)
      <4>1. q # r
        BY <1>1, <3>1 DEF AbortAdoptedTake, SessionClose, PoolInv, TypeOK
      <4>2. QED
        BY <2>1, <2>2, <3>1, <4>1 DEF AbortAdoptedTake, SessionClose
    <3>2. CASE ~(AbortAdoptedTake(q) \/ SessionClose(q))
      BY <2>9, <3>2, <2>5 DEF Serve, ProbeHealthy, RemoveProfile, ReleaseAdopted, ColdDone,
         NotifyCheck, NotifySetDesired, NotifySetWake, machine
    <3>3. QED
      BY <3>1, <3>2
  <2>10. CASE Reclaim
    <3>1. CASE \E q \in Requests : ReclaimDriver(q)
      BY <2>5, <3>1 DEF ReclaimDriver, machine
    <3>2. ASSUME NEW s \in Spares, CloseReclaimed(s) PROVE chromium'[h] # NoFp
      <4>1. s # h
        BY <2>2, <3>2 DEF CloseReclaimed
      <4>2. QED
        BY <2>1, <2>2, <3>2, <4>1 DEF CloseReclaimed
    <3>3. QED
      BY <2>10, <3>1, <3>2 DEF Reclaim
  <2>11. CASE Shutdown
    BY <2>4, <2>5, <2>11 DEF Shutdown, ShutdownStop, ShutdownWake, ShutdownClear, machine
  <2>12. CASE Tick
    BY <2>5, <2>12 DEF Tick, machine
  <2>13. QED
    BY <1>1, <2>7, <2>8, <2>9, <2>10, <2>11, <2>12 DEF Next
<1>2. PoolInv /\ [Next]_vars => [Kept]_vars
  BY <1>1
<1>3. QED
  BY <1>2, PoolInvariant, PTL DEF Spec, HeldChromiumKept

-------------------------------------------------------------------------------
(* WarmPool implements SpareLifecycle: seen through the slot, the build and the
   adopted directories, every step of the pool is a step of the lifecycle or
   changes nothing it speaks of. *)

StageBar == [s \in Spares |-> LifecycleStage(s)]
HolderBar == [s \in Spares |-> {r \in Requests : held[r] = s}]

\* A fresh pool has no spare at all.
LEMMA InitRefines == Init => Lifecycle!Init
BY SparesAssumption DEF Init, Lifecycle!Init, LifecycleStage

\* What the mapping looks at: the slot, the adopted ids, the build until it
\* ends, who holds what, and _stop.
LEMMA Unseen ==
    ASSUME UNCHANGED <<spare, adopted, building, held, stop>>,
           daemon = "finish" <=> daemon' = "finish"
    PROVE  UNCHANGED Lifecycle!vars
BY DEF Lifecycle!vars, LifecycleStage

\* Dropping the spare of the slot is a Discard, and nothing when there is none.
LEMMA DropRefines ==
    ASSUME PoolInv, DropSpare, UNCHANGED <<adopted, building, held, stop>>,
           daemon = "finish" <=> daemon' = "finish"
    PROVE  [Lifecycle!Next]_(Lifecycle!vars)
<1>1. CASE spare = NoSpare
  BY <1>1, Unseen DEF DropSpare
<1>2. CASE spare # NoSpare
  <2>1. /\ spare \in Spares /\ spare \notin adopted
        /\ ~(spare = building /\ daemon # "finish")
    BY <1>2 DEF PoolInv, TypeOK, SlotInv, SessionInv, BuildInv, Building
  <2>2. Lifecycle!Discard(spare)
    BY <1>2, <2>1, SparesAssumption DEF DropSpare, Lifecycle!Discard, LifecycleStage
  <2>3. QED
    BY <2>1, <2>2 DEF Lifecycle!Next
<1>3. QED
  BY <1>1, <1>2

\* Beginning a build is a Build: nothing else is being built, and the stale
\* spare of the slot goes.
LEMMA StartBuildRefines ==
    ASSUME PoolInv, NEW s \in Spares, StartBuild(s) PROVE Lifecycle!Build(s)
<1>1. /\ ~stop /\ building = NoSpare /\ daemon = "refill" /\ daemon' = "mkdir"
      /\ building' = s /\ spare' = NoSpare
      /\ s \notin adopted /\ s # spare
      /\ UNCHANGED <<adopted, held, stop>>
  BY DEF StartBuild, RefillWanted, Fresh, DropSpare, signals, sessions
<1>2. spare # NoSpare => spare \notin adopted
  BY DEF PoolInv, SlotInv, SessionInv
<1>3. \A x \in Spares : x # NoSpare /\ x # building
  BY <1>1, SparesAssumption
<1>4. QED
  BY <1>1, <1>2, <1>3 DEF Lifecycle!Build, LifecycleStage

\* Installing the finished spare is a Publish.
LEMMA InstallRefines ==
    ASSUME PoolInv, InstallSpare PROVE building \in Spares /\ Lifecycle!Publish(building)
<1>1. /\ ~stop /\ spare = NoSpare /\ spare' = building
      /\ daemon = "install" /\ daemon' = "finish"
      /\ UNCHANGED <<building, adopted, held, stop>>
  BY DEF InstallSpare, Unwanted, signals, sessions
<1>2. building \in Spares /\ building \notin adopted
  BY <1>1 DEF PoolInv, TypeOK, BuildInv, SessionInv, Building
<1>3. QED
  BY <1>1, <1>2, SparesAssumption DEF Lifecycle!Publish, LifecycleStage

\* Giving a build up, finished or not, is a Discard.
LEMMA GiveUpRefines ==
    ASSUME PoolInv, DiscardBuild \/ AbortBuild
    PROVE  building \in Spares /\ Lifecycle!Discard(building)
<1>1. /\ daemon \in {"install", "abort"} /\ daemon' = "finish"
      /\ UNCHANGED <<spare, building, adopted, held, stop>>
  BY DEF DiscardBuild, AbortBuild, slot, refill, signals, sessions
<1>2. building \in Spares /\ building \notin adopted /\ spare = NoSpare
  BY <1>1 DEF PoolInv, TypeOK, BuildInv, SessionInv, Building
<1>3. QED
  BY <1>1, <1>2, SparesAssumption DEF Lifecycle!Discard, LifecycleStage

\* A take that finds its spare is a Lease.
LEMMA TakeRefines ==
    ASSUME PoolInv, NEW r \in Requests, NEW f \in Fingerprints, TakeHit(r, f)
    PROVE  \E s \in Spares : Lifecycle!Lease(s, r)
<1>1. /\ req[r] = "idle" /\ spare # NoSpare /\ spare' = NoSpare
      /\ adopted' = adopted \cup {spare}
      /\ held' = [held EXCEPT ![r] = spare]
      /\ UNCHANGED <<building, daemon, stop>>
  BY DEF TakeHit, Hit, refill, signals, thread
<1>2. /\ spare \in Spares /\ spare \notin Held /\ held[r] = NoSpare
      /\ held \in [Requests -> Spares \cup {NoSpare}]
      /\ ~(spare = building /\ daemon # "finish")
  BY <1>1 DEF PoolInv, TypeOK, SlotInv, SessionInv, BuildInv, Building, Holding
<1>3. \A q \in Requests : held[q] # spare
  BY <1>1, <1>2 DEF Held
<1>4. HolderBar' = [HolderBar EXCEPT ![spare] = {r}]
  BY <1>1, <1>2, <1>3, SparesAssumption DEF HolderBar
<1>5. StageBar[spare] = "ready" /\ StageBar' = [StageBar EXCEPT ![spare] = "leased"]
  BY <1>1, <1>2, SparesAssumption DEF StageBar, LifecycleStage
<1>6. \A x \in Spares : r \notin HolderBar[x]
  BY <1>2, SparesAssumption DEF HolderBar
<1>7. PICK s \in Spares : s = spare
  BY <1>2
<1>8. Lifecycle!Lease(s, r)
  BY <1>1, <1>4, <1>5, <1>6, <1>7 DEF Lifecycle!Lease, StageBar, HolderBar
<1>9. QED
  BY <1>8

\* A request that gives its spare up returns it.
LEMMA ReturnRefines ==
    ASSUME PoolInv, NEW r \in Requests, AbortAdoptedTake(r) \/ ReleaseAdopted(r)
    PROVE  \E s \in Spares : Lifecycle!Return(s)
<1>1. /\ req[r] \in {"probing", "removed"}
      /\ adopted' = adopted \ {held[r]}
      /\ held' = [held EXCEPT ![r] = NoSpare]
      /\ UNCHANGED <<spare, building, daemon, stop>>
  BY DEF AbortAdoptedTake, ReleaseAdopted, slot, refill, signals, thread
<1>2. /\ held[r] \in Spares /\ held[r] # NoSpare
      /\ held \in [Requests -> Spares \cup {NoSpare}]
      /\ \A q \in Requests : q # r => held[q] # held[r]
  BY <1>1 DEF PoolInv, TypeOK, SessionInv, Holding
<1>3. held[r] \in Held
  BY <1>2 DEF Held
<1>4. held[r] \in adopted /\ held[r] # spare /\ ~(held[r] = building /\ daemon \in Building)
  BY <1>3, <1>2 DEF PoolInv, SessionInv, SlotInv, BuildInv
<1>5. held[r] = building => daemon = "finish"
  BY <1>2, <1>4 DEF PoolInv, BuildInv
<1>6. HolderBar' = [HolderBar EXCEPT ![held[r]] = {}]
  BY <1>1, <1>2, SparesAssumption DEF HolderBar
<1>7. StageBar[held[r]] = "leased" /\ StageBar' = [StageBar EXCEPT ![held[r]] = "absent"]
  BY <1>1, <1>2, <1>4, <1>5 DEF StageBar, LifecycleStage
<1>8. PICK s \in Spares : s = held[r]
  BY <1>2
<1>9. Lifecycle!Return(s)
  BY <1>1, <1>6, <1>7, <1>8 DEF Lifecycle!Return, StageBar, HolderBar
<1>10. QED
  BY <1>9

\* Every step of the pool is a step of the lifecycle or a stutter.
LEMMA NextRefines == PoolInv /\ [Next]_vars => [Lifecycle!Next]_(Lifecycle!vars)
<1> SUFFICES ASSUME PoolInv, [Next]_vars PROVE [Lifecycle!Next]_(Lifecycle!vars)
  OBVIOUS
<1> USE DEF slot, refill, signals, machine, thread, sessions
<1>1. CASE Daemon
  <2>1. CASE CleanupOrphanSpares \/ LoopHead \/ WaitReturns \/ ClearWake \/ CheckStop
             \/ RefillNotWanted \/ MakeSpareDir \/ RunFactory
    BY <2>1, Unseen DEF CleanupOrphanSpares, LoopHead, WaitReturns, ClearWake, CheckStop,
       RefillNotWanted, MakeSpareDir, RunFactory
  <2>2. CASE MaybeReapTtl \/ RefillTooSoon \/ RefillUnderPressure
    BY <2>2, DropRefines, Unseen DEF MaybeReapTtl, RefillTooSoon, RefillUnderPressure,
       DeferRefill
  <2>3. CASE \E s \in Spares : StartBuild(s)
    BY <2>3, StartBuildRefines DEF Lifecycle!Next
  <2>4. CASE InstallSpare
    BY <2>4, InstallRefines DEF Lifecycle!Next
  <2>5. CASE DiscardBuild \/ AbortBuild
    BY <2>5, GiveUpRefines DEF Lifecycle!Next
  <2>6. CASE FinishBuild
    BY <2>6, SparesAssumption DEF FinishBuild, Lifecycle!vars, LifecycleStage
  <2>7. QED
    BY <1>1, <2>1, <2>2, <2>3, <2>4, <2>5, <2>6 DEF Daemon
<1>2. ASSUME NEW q \in Requests, Arrive(q) \/ Serve(q)
      PROVE  [Lifecycle!Next]_(Lifecycle!vars)
  <2>1. ASSUME NEW f \in Fingerprints, TakeHit(q, f)
        PROVE  [Lifecycle!Next]_(Lifecycle!vars)
    BY <1>2, <2>1, TakeRefines DEF Lifecycle!Next
  <2>2. CASE AbortAdoptedTake(q) \/ ReleaseAdopted(q)
    BY <1>2, <2>2, ReturnRefines DEF Lifecycle!Next
  <2>3. CASE \/ \E f \in Fingerprints : TakeMiss(q, f)
             \/ ProbeHealthy(q) \/ SessionClose(q) \/ RemoveProfile(q) \/ ColdDone(q)
             \/ NotifyCheck(q) \/ NotifySetDesired(q) \/ NotifySetWake(q)
    BY <2>3, Unseen DEF TakeMiss, ProbeHealthy, SessionClose, RemoveProfile, ColdDone,
       NotifyCheck, NotifySetDesired, NotifySetWake
  <2>4. QED
    BY <1>2, <2>1, <2>2, <2>3 DEF Arrive, Serve
<1>3. CASE Reclaim
  BY <1>3, Unseen DEF Reclaim, ReclaimDriver, CloseReclaimed
<1>4. CASE Shutdown
  <2>1. CASE ShutdownStop
    BY <2>1 DEF ShutdownStop, Lifecycle!Next, Lifecycle!Stop, LifecycleStage
  <2>2. CASE ShutdownWake
    BY <2>2, Unseen DEF ShutdownWake
  <2>3. CASE ShutdownClear
    BY <2>3, DropRefines DEF ShutdownClear
  <2>4. QED
    BY <1>4, <2>1, <2>2, <2>3 DEF Shutdown
<1>5. CASE Tick
  BY <1>5, Unseen DEF Tick
<1>6. CASE UNCHANGED vars
  BY <1>6, Unseen DEF vars
<1>7. QED
  BY <1>1, <1>2, <1>3, <1>4, <1>5, <1>6 DEF Next

\* The pool keeps the promise of SpareLifecycle: one spare at most is built or
\* ready, a lease is exclusive and one-shot, nothing is published once stopped.
THEOREM PoolImplementsLifecycle == Spec => ImplementsLifecycle
BY InitRefines, NextRefines, PoolInvariant, PTL DEF Spec, ImplementsLifecycle, Lifecycle!Spec

-------------------------------------------------------------------------------
(* The prune beside the pool *)

\* What the pool has in use it had already, is building now, or took from the slot.
LEMMA LiveDirsStem ==
    ASSUME Next
    PROVE  LiveSpareDirs' \subseteq LiveSpareDirs \cup ({building'} \ {NoSpare})
<1> USE DEF LiveSpareDirs, slot, refill, signals, sessions
<1>1. CASE Daemon
  BY <1>1 DEF Daemon, CleanupOrphanSpares, LoopHead, WaitReturns, ClearWake, CheckStop,
              MaybeReapTtl, DropSpare, RefillNotWanted, RefillTooSoon, RefillUnderPressure,
              DeferRefill, StartBuild, MakeSpareDir, RunFactory, InstallSpare, DiscardBuild,
              AbortBuild, FinishBuild
<1>2. ASSUME NEW r \in Requests, Arrive(r) \/ Serve(r)
      PROVE  LiveSpareDirs' \subseteq LiveSpareDirs
  BY <1>2 DEF Arrive, TakeHit, Hit, TakeMiss, Serve, ProbeHealthy, AbortAdoptedTake, SessionClose,
              RemoveProfile, ReleaseAdopted, ColdDone, NotifyCheck, NotifySetDesired, NotifySetWake
<1>3. CASE Reclaim \/ Shutdown \/ Tick
  BY <1>3 DEF Reclaim, ReclaimDriver, CloseReclaimed, Shutdown, ShutdownStop, ShutdownWake,
              ShutdownClear, DropSpare, Tick
<1>4. QED
  BY <1>1, <1>2, <1>3 DEF Next

\* While a prune is under way, what the pool has in use was in use when it asked, or
\* its build began since.
PruneInv == prune # "idle" => LiveSpareDirs \subseteq protected \cup born

LEMMA PruneKeeps == ASSUME PruneInv, [PruneNext]_allVars PROVE PruneInv'
<1>1. CASE PoolStep
  BY <1>1, LiveDirsStem DEF PoolStep, PruneInv
<1>2. CASE PruneSnapshot \/ PruneList \/ PruneDone \/ UNCHANGED allVars
  BY <1>2 DEF PruneSnapshot, PruneList, PruneDone, allVars, pruneVars, vars, slot, refill,
              sessions, PruneInv, LiveSpareDirs
<1>3. ASSUME NEW s \in Spares, PruneEntry(s) PROVE PruneInv'
  BY <1>3 DEF PruneEntry, slot, refill, sessions, PruneInv, LiveSpareDirs
<1>4. QED
  BY <1>1, <1>2, <1>3 DEF PruneNext

\* A prune endangers only spares whose build overlapped its look at the pool: those
\* that were ready or lent out stay protected, whatever takes, aborts and refills
\* happen before it gets to their directory.
THEOREM PruneSparesTheReady == PruneSpec => []OnlyNewbornsAtRisk
<1>1. PruneInit => PruneInv
  BY DEF PruneInit, PruneInv
<1>2. PruneInv /\ [PruneNext]_allVars => PruneInv'
  BY PruneKeeps
<1>3. PruneInv => OnlyNewbornsAtRisk
  BY DEF PruneInv, OnlyNewbornsAtRisk
<1>4. QED
  BY <1>1, <1>2, <1>3, PTL DEF PruneSpec
===============================================================================
