-------------------------- MODULE WarmPoolInduction --------------------------
(***************************************************************************)
(* PoolInv is inductive: it holds at the start, and every action of        *)
(* WarmPool keeps it.  One lemma per action, one step per part of the      *)
(* invariant; each step names the parts it needs of the state before.      *)
(***************************************************************************)
EXTENDS WarmPool, TLAPS

USE SparesAssumption, FingerprintsAssumption, DelaysAssumption
USE DEF Never, Unset, Forever, slot, refill, signals, machine, thread, sessions

\* A fresh pool satisfies the invariant, whatever an earlier process left on disk.
LEMMA InitPoolInv == Init => PoolInv
<1> SUFFICES ASSUME Init PROVE PoolInv
  OBVIOUS
<1>1. TypeOK
  <2>1. stop \in BOOLEAN /\ wake \in BOOLEAN
    BY DEF Init
  <2>2. daemon \in DaemonSteps /\ req \in [Requests -> RequestSteps]
    BY DEF Init, DaemonSteps, RequestSteps
  <2>3. QED
    BY <2>1, <2>2 DEF Init, TypeOK
<1>2. BuildInv
  BY DEF Init, BuildInv, Building
<1>3. SlotInv
  BY DEF Init, SlotInv
<1>4. SessionInv
  BY DEF Init, SessionInv, Holding, Held, Running
<1>5. OwnerInv
  BY DEF Init, OwnerInv, Running
<1>6. StopInv
  BY DEF Init, StopInv, Held, Running
<1>7. QED
  BY <1>1, <1>2, <1>3, <1>4, <1>5, <1>6 DEF PoolInv

-------------------------------------------------------------------------------
\* The start-up sweep removes only directories nobody owns yet.
LEMMA CleanupOrphanSparesPreserves ==
    ASSUME PoolInv, CleanupOrphanSpares PROVE PoolInv'
<1>1. TypeOK'
  BY DEF PoolInv, CleanupOrphanSpares, DaemonSteps, TypeOK
<1>2. BuildInv'
  BY DEF PoolInv, CleanupOrphanSpares, Building, BuildInv
<1>3. SlotInv'
  BY DEF PoolInv, CleanupOrphanSpares, StopInv, SlotInv
<1>4. SessionInv'
  BY DEF PoolInv, CleanupOrphanSpares, Held, Running, StopInv, TypeOK, SessionInv
<1>5. OwnerInv'
  BY DEF PoolInv, CleanupOrphanSpares, Held, Running, OwnerInv
<1>6. StopInv'
  BY DEF PoolInv, CleanupOrphanSpares, StopInv
<1>7. QED
  BY <1>1, <1>2, <1>3, <1>4, <1>5, <1>6 DEF PoolInv

\* Choosing how long to wait touches neither slot nor build.
LEMMA LoopHeadPreserves ==
    ASSUME PoolInv, LoopHead PROVE PoolInv'
<1>1. TypeOK'
  BY DEF PoolInv, LoopHead, DaemonSteps, NextWaitSeconds, TypeOK
<1>2. BuildInv'
  BY DEF PoolInv, LoopHead, Building, BuildInv
<1>3. SlotInv'
  BY DEF PoolInv, LoopHead, Held, SlotInv
<1>4. SessionInv'
  BY DEF PoolInv, LoopHead, Held, Running, SessionInv
<1>5. OwnerInv'
  BY DEF PoolInv, LoopHead, Building, Held, Running, OwnerInv
<1>6. StopInv'
  BY DEF PoolInv, LoopHead, StopInv
<1>7. QED
  BY <1>1, <1>2, <1>3, <1>4, <1>5, <1>6 DEF PoolInv

\* Waking up touches neither slot nor build.
LEMMA WaitReturnsPreserves ==
    ASSUME PoolInv, WaitReturns PROVE PoolInv'
<1>1. TypeOK'
  BY DEF PoolInv, WaitReturns, DaemonSteps, TypeOK
<1>2. BuildInv'
  BY DEF PoolInv, WaitReturns, Building, BuildInv
<1>3. SlotInv'
  BY DEF PoolInv, WaitReturns, Held, SlotInv
<1>4. SessionInv'
  BY DEF PoolInv, WaitReturns, Held, Running, SessionInv
<1>5. OwnerInv'
  BY DEF PoolInv, WaitReturns, Building, Held, Running, OwnerInv
<1>6. StopInv'
  BY DEF PoolInv, WaitReturns, StopInv
<1>7. QED
  BY <1>1, <1>2, <1>3, <1>4, <1>5, <1>6 DEF PoolInv

\* Clearing the wake event touches neither slot nor build.
LEMMA ClearWakePreserves ==
    ASSUME PoolInv, ClearWake PROVE PoolInv'
<1>1. TypeOK'
  <2>1. wake' \in BOOLEAN
    BY DEF ClearWake
  <2>2. daemon' \in DaemonSteps
    BY DEF ClearWake, DaemonSteps
  <2>3. UNCHANGED <<slot, refill, desired, stop, shut, machine, waitFor, sessions>>
    BY DEF ClearWake
  <2>4. QED
    BY <2>1, <2>2, <2>3 DEF PoolInv, TypeOK
<1>2. BuildInv'
  BY DEF PoolInv, ClearWake, Building, BuildInv
<1>3. SlotInv'
  BY DEF PoolInv, ClearWake, Held, SlotInv
<1>4. SessionInv'
  BY DEF PoolInv, ClearWake, Held, Running, SessionInv
<1>5. OwnerInv'
  BY DEF PoolInv, ClearWake, Building, Held, Running, OwnerInv
<1>6. StopInv'
  BY DEF PoolInv, ClearWake, StopInv
<1>7. QED
  BY <1>1, <1>2, <1>3, <1>4, <1>5, <1>6 DEF PoolInv

\* The second look at _stop touches neither slot nor build.
LEMMA CheckStopPreserves ==
    ASSUME PoolInv, CheckStop PROVE PoolInv'
<1>1. TypeOK'
  BY DEF PoolInv, CheckStop, DaemonSteps, TypeOK
<1>2. BuildInv'
  BY DEF PoolInv, CheckStop, Building, BuildInv
<1>3. SlotInv'
  BY DEF PoolInv, CheckStop, Held, SlotInv
<1>4. SessionInv'
  BY DEF PoolInv, CheckStop, Held, Running, SessionInv
<1>5. OwnerInv'
  BY DEF PoolInv, CheckStop, Building, Held, Running, OwnerInv
<1>6. StopInv'
  BY DEF PoolInv, CheckStop, StopInv
<1>7. QED
  BY <1>1, <1>2, <1>3, <1>4, <1>5, <1>6 DEF PoolInv

\* Reaping closes the spare of the slot and no other.
LEMMA MaybeReapTtlPreserves ==
    ASSUME PoolInv, MaybeReapTtl PROVE PoolInv'
<1>1. TypeOK'
  BY DEF PoolInv, MaybeReapTtl, DaemonSteps, DropSpare, TypeOK
<1>2. BuildInv'
  BY DEF PoolInv, MaybeReapTtl, Building, BuildInv
<1>3. SlotInv'
  BY DEF PoolInv, MaybeReapTtl, DropSpare, Held, SlotInv
<1>4. SessionInv'
  BY DEF PoolInv, MaybeReapTtl, DropSpare, Held, IdleTooLong, Running, SlotInv,
         SessionInv
<1>5. OwnerInv'
  BY DEF PoolInv, MaybeReapTtl, Building, DropSpare, Held, Running, OwnerInv
<1>6. StopInv'
  BY DEF PoolInv, MaybeReapTtl, DropSpare, StopInv
<1>7. QED
  BY <1>1, <1>2, <1>3, <1>4, <1>5, <1>6 DEF PoolInv

\* Declining a refill changes nothing the invariant speaks of.
LEMMA RefillNotWantedPreserves ==
    ASSUME PoolInv, RefillNotWanted PROVE PoolInv'
<1>1. TypeOK'
  BY DEF PoolInv, RefillNotWanted, DaemonSteps, TypeOK
<1>2. BuildInv'
  BY DEF PoolInv, RefillNotWanted, Building, BuildInv
<1>3. SlotInv'
  BY DEF PoolInv, RefillNotWanted, Held, SlotInv
<1>4. SessionInv'
  BY DEF PoolInv, RefillNotWanted, Held, Running, SessionInv
<1>5. OwnerInv'
  BY DEF PoolInv, RefillNotWanted, Building, Held, Running, OwnerInv
<1>6. StopInv'
  BY DEF PoolInv, RefillNotWanted, StopInv
<1>7. QED
  BY <1>1, <1>2, <1>3, <1>4, <1>5, <1>6 DEF PoolInv

\* Deferring for spacing drops the stale spare only.
LEMMA RefillTooSoonPreserves ==
    ASSUME PoolInv, RefillTooSoon PROVE PoolInv'
<1>1. TypeOK'
  BY DEF PoolInv, RefillTooSoon, DaemonSteps, DeferRefill, DropSpare, TypeOK
<1>2. BuildInv'
  BY DEF PoolInv, RefillTooSoon, Building, DeferRefill, BuildInv
<1>3. SlotInv'
  BY DEF PoolInv, RefillTooSoon, DeferRefill, DropSpare, SlotInv
<1>4. SessionInv'
  BY DEF PoolInv, RefillTooSoon, DeferRefill, DropSpare, Held, Running, SlotInv,
         TypeOK, SessionInv
<1>5. OwnerInv'
  BY DEF PoolInv, RefillTooSoon, DeferRefill, DropSpare, Held, RefillWanted,
         Running, OwnerInv
<1>6. StopInv'
  BY DEF PoolInv, RefillTooSoon, DeferRefill, DropSpare, StopInv
<1>7. QED
  BY <1>1, <1>2, <1>3, <1>4, <1>5, <1>6 DEF PoolInv

\* Deferring for memory pressure drops the stale spare only.
LEMMA RefillUnderPressurePreserves ==
    ASSUME PoolInv, RefillUnderPressure PROVE PoolInv'
<1>1. TypeOK'
  BY DEF PoolInv, RefillUnderPressure, DaemonSteps, DeferRefill, DropSpare,
         PressureDelay, TypeOK
<1>2. BuildInv'
  BY DEF PoolInv, RefillUnderPressure, Building, DeferRefill, BuildInv
<1>3. SlotInv'
  BY DEF PoolInv, RefillUnderPressure, DeferRefill, DropSpare, SlotInv
<1>4. SessionInv'
  BY DEF PoolInv, RefillUnderPressure, DeferRefill, DropSpare, Held, Running,
         SlotInv, TypeOK, SessionInv
<1>5. OwnerInv'
  BY DEF PoolInv, RefillUnderPressure, DeferRefill, DropSpare, Held, RefillWanted,
         Running, OwnerInv
<1>6. StopInv'
  BY DEF PoolInv, RefillUnderPressure, DeferRefill, DropSpare, StopInv
<1>7. QED
  BY <1>1, <1>2, <1>3, <1>4, <1>5, <1>6 DEF PoolInv

\* A build begins under a fresh id, with the slot emptied for it.
LEMMA StartBuildPreserves ==
    ASSUME PoolInv, NEW s \in Spares, StartBuild(s) PROVE PoolInv'
<1>1. TypeOK'
  BY DEF PoolInv, StartBuild, DaemonSteps, DropSpare, TypeOK
<1>2. BuildInv'
  BY DEF PoolInv, StartBuild, Building, DropSpare, Fresh, Held, RefillWanted,
         Running, TooSoon, TypeOK, BuildInv
<1>3. SlotInv'
  BY DEF PoolInv, StartBuild, DropSpare, SlotInv
<1>4. SessionInv'
  BY DEF PoolInv, StartBuild, DropSpare, Held, Running, SlotInv, TypeOK, SessionInv
<1>5. OwnerInv'
  BY DEF PoolInv, StartBuild, DropSpare, Held, RefillWanted, Running, OwnerInv
<1>6. StopInv'
  BY DEF PoolInv, StartBuild, DropSpare, StopInv
<1>7. QED
  BY <1>1, <1>2, <1>3, <1>4, <1>5, <1>6 DEF PoolInv

\* The directory comes up under the id being built, or the build aborts.
LEMMA MakeSpareDirPreserves ==
    ASSUME PoolInv, MakeSpareDir PROVE PoolInv'
<1>1. TypeOK'
  BY DEF PoolInv, MakeSpareDir, BuildInv, Building, DaemonSteps, TypeOK
<1>2. BuildInv'
  BY DEF PoolInv, MakeSpareDir, Building, Held, Running, BuildInv
<1>3. SlotInv'
  BY DEF PoolInv, MakeSpareDir, Held, SlotInv
<1>4. SessionInv'
  BY DEF PoolInv, MakeSpareDir, BuildInv, Building, Held, Running, TypeOK,
         SessionInv
<1>5. OwnerInv'
  BY DEF PoolInv, MakeSpareDir, Building, Held, Running, OwnerInv
<1>6. StopInv'
  BY DEF PoolInv, MakeSpareDir, StopInv
<1>7. QED
  BY <1>1, <1>2, <1>3, <1>4, <1>5, <1>6 DEF PoolInv

\* The factory launches Chromium with the fingerprint decided on, or raises.
LEMMA RunFactoryPreserves ==
    ASSUME PoolInv, RunFactory PROVE PoolInv'
<1>1. TypeOK'
  BY DEF PoolInv, RunFactory, DaemonSteps, TypeOK
<1>2. BuildInv'
  BY DEF PoolInv, RunFactory, Building, Held, Running, TypeOK, BuildInv
<1>3. SlotInv'
  BY DEF PoolInv, RunFactory, BuildInv, TypeOK, SlotInv
<1>4. SessionInv'
  BY DEF PoolInv, RunFactory, BuildInv, Held, Running, TypeOK, SessionInv
<1>5. OwnerInv'
  BY DEF PoolInv, RunFactory, Building, Held, Running, TypeOK, OwnerInv
<1>6. StopInv'
  BY DEF PoolInv, RunFactory, StopInv
<1>7. QED
  BY <1>1, <1>2, <1>3, <1>4, <1>5, <1>6 DEF PoolInv

\* The finished spare moves from the build into the empty slot.
LEMMA InstallSparePreserves ==
    ASSUME PoolInv, InstallSpare PROVE PoolInv'
<1>1. TypeOK'
  BY DEF PoolInv, InstallSpare, DaemonSteps, TypeOK
<1>2. BuildInv'
  BY DEF PoolInv, InstallSpare, Building, BuildInv
<1>3. SlotInv'
  BY DEF PoolInv, InstallSpare, BuildInv, Held, SlotInv
<1>4. SessionInv'
  BY DEF PoolInv, InstallSpare, Held, Running, SessionInv
<1>5. OwnerInv'
  BY DEF PoolInv, InstallSpare, Held, Running, TypeOK, Unwanted, OwnerInv
<1>6. StopInv'
  BY DEF PoolInv, InstallSpare, Unwanted, StopInv
<1>7. QED
  BY <1>1, <1>2, <1>3, <1>4, <1>5, <1>6 DEF PoolInv

\* A finished build nobody wants any more is closed and removed.
LEMMA DiscardBuildPreserves ==
    ASSUME PoolInv, DiscardBuild PROVE PoolInv'
<1>1. TypeOK'
  BY DEF PoolInv, DiscardBuild, BuildInv, DaemonSteps, TypeOK
<1>2. BuildInv'
  BY DEF PoolInv, DiscardBuild, Held, TypeOK, BuildInv
<1>3. SlotInv'
  BY DEF PoolInv, DiscardBuild, BuildInv, TypeOK, SlotInv
<1>4. SessionInv'
  BY DEF PoolInv, DiscardBuild, BuildInv, Held, Running, TypeOK, SessionInv
<1>5. OwnerInv'
  BY DEF PoolInv, DiscardBuild, Held, Running, TypeOK, OwnerInv
<1>6. StopInv'
  BY DEF PoolInv, DiscardBuild, StopInv
<1>7. QED
  BY <1>1, <1>2, <1>3, <1>4, <1>5, <1>6 DEF PoolInv

\* A failed build takes its directory with it.
LEMMA AbortBuildPreserves ==
    ASSUME PoolInv, AbortBuild PROVE PoolInv'
<1>1. TypeOK'
  BY DEF PoolInv, AbortBuild, DaemonSteps, TypeOK
<1>2. BuildInv'
  BY DEF PoolInv, AbortBuild, Building, BuildInv
<1>3. SlotInv'
  BY DEF PoolInv, AbortBuild, BuildInv, Held, SlotInv
<1>4. SessionInv'
  BY DEF PoolInv, AbortBuild, BuildInv, Held, Running, TypeOK, SessionInv
<1>5. OwnerInv'
  BY DEF PoolInv, AbortBuild, Held, Running, OwnerInv
<1>6. StopInv'
  BY DEF PoolInv, AbortBuild, StopInv
<1>7. QED
  BY <1>1, <1>2, <1>3, <1>4, <1>5, <1>6 DEF PoolInv

\* The build flag comes down when the build is over.
LEMMA FinishBuildPreserves ==
    ASSUME PoolInv, FinishBuild PROVE PoolInv'
<1>1. TypeOK'
  BY DEF PoolInv, FinishBuild, DaemonSteps, TypeOK
<1>2. BuildInv'
  BY DEF PoolInv, FinishBuild, Building, BuildInv
<1>3. SlotInv'
  BY DEF PoolInv, FinishBuild, Held, SlotInv
<1>4. SessionInv'
  BY DEF PoolInv, FinishBuild, Held, Running, SessionInv
<1>5. OwnerInv'
  BY DEF PoolInv, FinishBuild, Building, Held, Running, OwnerInv
<1>6. StopInv'
  BY DEF PoolInv, FinishBuild, StopInv
<1>7. QED
  BY <1>1, <1>2, <1>3, <1>4, <1>5, <1>6 DEF PoolInv

\* A take moves the spare from the slot to exactly one request.
LEMMA TakeHitPreserves ==
    ASSUME PoolInv, NEW r \in Requests, NEW f \in Fingerprints, TakeHit(r, f) PROVE PoolInv'
<1>1. TypeOK'
  BY DEF PoolInv, TakeHit, Hit, RequestSteps, TypeOK
<1>2. BuildInv'
  BY DEF PoolInv, TakeHit, Hit, Running, BuildInv
<1>3. SlotInv'
  BY DEF PoolInv, TakeHit, SlotInv
<1>4. SessionInv'
  BY DEF PoolInv, TakeHit, Held, Hit, Holding, Running, SlotInv, TypeOK, SessionInv
<1>5. OwnerInv'
  BY DEF PoolInv, TakeHit, Held, Holding, Running, SessionInv, TypeOK, OwnerInv
<1>6. StopInv'
  BY DEF PoolInv, TakeHit, StopInv
<1>7. QED
  BY <1>1, <1>2, <1>3, <1>4, <1>5, <1>6 DEF PoolInv

\* A miss hands nothing out.
LEMMA TakeMissPreserves ==
    ASSUME PoolInv, NEW r \in Requests, NEW f \in Fingerprints, TakeMiss(r, f) PROVE PoolInv'
<1>1. TypeOK'
  BY DEF PoolInv, TakeMiss, RequestSteps, TypeOK
<1>2. BuildInv'
  BY DEF PoolInv, TakeMiss, Held, Running, BuildInv
<1>3. SlotInv'
  BY DEF PoolInv, TakeMiss, Held, SlotInv
<1>4. SessionInv'
  BY DEF PoolInv, TakeMiss, Held, Holding, Running, SessionInv
<1>5. OwnerInv'
  BY DEF PoolInv, TakeMiss, Held, Running, OwnerInv
<1>6. StopInv'
  BY DEF PoolInv, TakeMiss, StopInv
<1>7. QED
  BY <1>1, <1>2, <1>3, <1>4, <1>5, <1>6 DEF PoolInv

\* A spare that answers the probe stays with the request that took it.
LEMMA ProbeHealthyPreserves ==
    ASSUME PoolInv, NEW r \in Requests, ProbeHealthy(r) PROVE PoolInv'
<1>1. TypeOK'
  BY DEF PoolInv, ProbeHealthy, RequestSteps, TypeOK
<1>2. BuildInv'
  BY DEF PoolInv, ProbeHealthy, Held, Running, BuildInv
<1>3. SlotInv'
  BY DEF PoolInv, ProbeHealthy, Held, SlotInv
<1>4. SessionInv'
  BY DEF PoolInv, ProbeHealthy, Held, Holding, Running, SessionInv
<1>5. OwnerInv'
  BY DEF PoolInv, ProbeHealthy, Held, Running, OwnerInv
<1>6. StopInv'
  BY DEF PoolInv, ProbeHealthy, Held, Running, StopInv
<1>7. QED
  BY <1>1, <1>2, <1>3, <1>4, <1>5, <1>6 DEF PoolInv

\* A spare that fails the probe is closed, removed and no longer protected.
LEMMA AbortAdoptedTakePreserves ==
    ASSUME PoolInv, NEW r \in Requests, AbortAdoptedTake(r) PROVE PoolInv'
<1>1. TypeOK'
  BY DEF PoolInv, AbortAdoptedTake, RequestSteps, SessionInv, TypeOK
<1>2. BuildInv'
  BY DEF PoolInv, AbortAdoptedTake, Held, Running, TypeOK, BuildInv
<1>3. SlotInv'
  BY DEF PoolInv, AbortAdoptedTake, Held, SlotInv
<1>4. SessionInv'
  BY DEF PoolInv, AbortAdoptedTake, Held, Holding, Running, TypeOK, SessionInv
<1>5. OwnerInv'
  BY DEF PoolInv, AbortAdoptedTake, Held, Running, TypeOK, OwnerInv
<1>6. StopInv'
  BY DEF PoolInv, AbortAdoptedTake, Held, Running, StopInv
<1>7. QED
  BY <1>1, <1>2, <1>3, <1>4, <1>5, <1>6 DEF PoolInv

\* A session closes its driver unless the reclaim has it.
LEMMA SessionClosePreserves ==
    ASSUME PoolInv, NEW r \in Requests, SessionClose(r) PROVE PoolInv'
<1>1. TypeOK'
  BY DEF PoolInv, SessionClose, RequestSteps, SessionInv, TypeOK
<1>2. BuildInv'
  BY DEF PoolInv, SessionClose, Held, Running, TypeOK, BuildInv
<1>3. SlotInv'
  BY DEF PoolInv, SessionClose, Held, SlotInv
<1>4. SessionInv'
  BY DEF PoolInv, SessionClose, Held, Holding, Running, TypeOK, SessionInv
<1>5. OwnerInv'
  BY DEF PoolInv, SessionClose, Held, Running, OwnerInv
<1>6. StopInv'
  BY DEF PoolInv, SessionClose, Held, Running, StopInv
<1>7. QED
  BY <1>1, <1>2, <1>3, <1>4, <1>5, <1>6 DEF PoolInv

\* A session removes its own profile directory, after its driver was closed.
LEMMA RemoveProfilePreserves ==
    ASSUME PoolInv, NEW r \in Requests, RemoveProfile(r) PROVE PoolInv'
<1>1. TypeOK'
  BY DEF PoolInv, RemoveProfile, RequestSteps, TypeOK
<1>2. BuildInv'
  BY DEF PoolInv, RemoveProfile, Held, Running, TypeOK, BuildInv
<1>3. SlotInv'
  BY DEF PoolInv, RemoveProfile, Held, SlotInv
<1>4. SessionInv'
  BY DEF PoolInv, RemoveProfile, Held, Holding, Running, SessionInv
<1>5. OwnerInv'
  BY DEF PoolInv, RemoveProfile, Held, Running, OwnerInv
<1>6. StopInv'
  BY DEF PoolInv, RemoveProfile, Held, Running, StopInv
<1>7. QED
  BY <1>1, <1>2, <1>3, <1>4, <1>5, <1>6 DEF PoolInv

\* A session gives its directory up after it was removed.
LEMMA ReleaseAdoptedPreserves ==
    ASSUME PoolInv, NEW r \in Requests, ReleaseAdopted(r) PROVE PoolInv'
<1>1. TypeOK'
  BY DEF PoolInv, ReleaseAdopted, RequestSteps, TypeOK
<1>2. BuildInv'
  BY DEF PoolInv, ReleaseAdopted, Held, Running, BuildInv
<1>3. SlotInv'
  BY DEF PoolInv, ReleaseAdopted, Held, SlotInv
<1>4. SessionInv'
  BY DEF PoolInv, ReleaseAdopted, Held, Holding, Running, TypeOK, SessionInv
<1>5. OwnerInv'
  <2>1. Held' = Held \ {held[r]}
    BY DEF PoolInv, ReleaseAdopted, SessionInv, Held, TypeOK
  <2>2. held[r] \notin dirs \cup (Running \ closing)
    BY DEF PoolInv, ReleaseAdopted, SessionInv, OwnerInv, Held, TypeOK
  <2>3. Running' = Running /\ dirs' = dirs
    BY DEF ReleaseAdopted, Running
  <2>4. QED
    BY <2>1, <2>2, <2>3 DEF PoolInv, ReleaseAdopted, OwnerInv
<1>6. StopInv'
  BY DEF PoolInv, ReleaseAdopted, Held, Running, StopInv
<1>7. QED
  BY <1>1, <1>2, <1>3, <1>4, <1>5, <1>6 DEF PoolInv

\* A request without a spare leaves the pool as it is.
LEMMA ColdDonePreserves ==
    ASSUME PoolInv, NEW r \in Requests, ColdDone(r) PROVE PoolInv'
<1>1. TypeOK'
  BY DEF PoolInv, ColdDone, RequestSteps, TypeOK
<1>2. BuildInv'
  BY DEF PoolInv, ColdDone, Held, Running, BuildInv
<1>3. SlotInv'
  BY DEF PoolInv, ColdDone, Held, SlotInv
<1>4. SessionInv'
  BY DEF PoolInv, ColdDone, Held, Holding, Running, TypeOK, SessionInv
<1>5. OwnerInv'
  BY DEF PoolInv, ColdDone, Held, Running, OwnerInv
<1>6. StopInv'
  BY DEF PoolInv, ColdDone, Held, Running, StopInv
<1>7. QED
  BY <1>1, <1>2, <1>3, <1>4, <1>5, <1>6 DEF PoolInv

\* Only fingerprints that pass the gate go on to become wanted.
LEMMA NotifyCheckPreserves ==
    ASSUME PoolInv, NEW r \in Requests, NotifyCheck(r) PROVE PoolInv'
<1>1. TypeOK'
  BY DEF PoolInv, NotifyCheck, RequestSteps, TypeOK
<1>2. BuildInv'
  BY DEF PoolInv, NotifyCheck, Held, Running, BuildInv
<1>3. SlotInv'
  BY DEF PoolInv, NotifyCheck, Held, SlotInv
<1>4. SessionInv'
  BY DEF PoolInv, NotifyCheck, Held, Holding, Running, TypeOK, SessionInv
<1>5. OwnerInv'
  BY DEF PoolInv, NotifyCheck, Held, Running, OwnerInv
<1>6. StopInv'
  BY DEF PoolInv, NotifyCheck, Held, Running, StopInv
<1>7. QED
  BY <1>1, <1>2, <1>3, <1>4, <1>5, <1>6 DEF PoolInv

\* What becomes wanted passed the gate.
LEMMA NotifySetDesiredPreserves ==
    ASSUME PoolInv, NEW r \in Requests, NotifySetDesired(r) PROVE PoolInv'
<1>1. TypeOK'
  BY DEF PoolInv, NotifySetDesired, RequestSteps, TypeOK
<1>2. BuildInv'
  BY DEF PoolInv, NotifySetDesired, Held, Running, BuildInv
<1>3. SlotInv'
  BY DEF PoolInv, NotifySetDesired, Held, SlotInv
<1>4. SessionInv'
  BY DEF PoolInv, NotifySetDesired, Held, Holding, Running, SessionInv
<1>5. OwnerInv'
  BY DEF PoolInv, NotifySetDesired, Held, Running, OwnerInv
<1>6. StopInv'
  BY DEF PoolInv, NotifySetDesired, Held, Running, SessionInv, StopInv
<1>7. QED
  BY <1>1, <1>2, <1>3, <1>4, <1>5, <1>6 DEF PoolInv

\* Waking the daemon up touches neither slot nor build.
LEMMA NotifySetWakePreserves ==
    ASSUME PoolInv, NEW r \in Requests, NotifySetWake(r) PROVE PoolInv'
<1>1. TypeOK'
  BY DEF PoolInv, NotifySetWake, RequestSteps, TypeOK
<1>2. BuildInv'
  BY DEF PoolInv, NotifySetWake, Held, Running, BuildInv
<1>3. SlotInv'
  BY DEF PoolInv, NotifySetWake, Held, SlotInv
<1>4. SessionInv'
  BY DEF PoolInv, NotifySetWake, Held, Holding, Running, SessionInv
<1>5. OwnerInv'
  BY DEF PoolInv, NotifySetWake, Held, Running, OwnerInv
<1>6. StopInv'
  BY DEF PoolInv, NotifySetWake, Held, Running, StopInv
<1>7. QED
  BY <1>1, <1>2, <1>3, <1>4, <1>5, <1>6 DEF PoolInv

\* The deadline's reclaim takes over a driver that has no other closer.
LEMMA ReclaimDriverPreserves ==
    ASSUME PoolInv, NEW r \in Requests, ReclaimDriver(r) PROVE PoolInv'
<1>1. TypeOK'
  BY DEF PoolInv, ReclaimDriver, Running, TypeOK
<1>2. BuildInv'
  BY DEF PoolInv, ReclaimDriver, Held, Running, BuildInv
<1>3. SlotInv'
  BY DEF PoolInv, ReclaimDriver, Held, SlotInv
<1>4. SessionInv'
  BY DEF PoolInv, ReclaimDriver, Held, Running, SessionInv
<1>5. OwnerInv'
  BY DEF PoolInv, ReclaimDriver, Held, Running, OwnerInv
<1>6. StopInv'
  BY DEF PoolInv, ReclaimDriver, StopInv
<1>7. QED
  BY <1>1, <1>2, <1>3, <1>4, <1>5, <1>6 DEF PoolInv

\* The reclaim closes the driver it took over.
LEMMA CloseReclaimedPreserves ==
    ASSUME PoolInv, NEW s \in Spares, CloseReclaimed(s) PROVE PoolInv'
<1>1. TypeOK'
  BY DEF PoolInv, CloseReclaimed, TypeOK
<1>2. BuildInv'
  BY DEF PoolInv, CloseReclaimed, Held, Running, BuildInv
<1>3. SlotInv'
  BY DEF PoolInv, CloseReclaimed, Held, SlotInv
<1>4. SessionInv'
  BY DEF PoolInv, CloseReclaimed, Held, Running, TypeOK, SessionInv
<1>5. OwnerInv'
  BY DEF PoolInv, CloseReclaimed, Held, Running, TypeOK, OwnerInv
<1>6. StopInv'
  BY DEF PoolInv, CloseReclaimed, Held, Running, StopInv
<1>7. QED
  BY <1>1, <1>2, <1>3, <1>4, <1>5, <1>6 DEF PoolInv

\* Setting _stop leaves everything in its place.
LEMMA ShutdownStopPreserves ==
    ASSUME PoolInv, ShutdownStop PROVE PoolInv'
<1>1. TypeOK'
  BY DEF PoolInv, ShutdownStop, TypeOK
<1>2. BuildInv'
  BY DEF PoolInv, ShutdownStop, Held, Running, BuildInv
<1>3. SlotInv'
  BY DEF PoolInv, ShutdownStop, Held, SlotInv
<1>4. SessionInv'
  BY DEF PoolInv, ShutdownStop, Held, Running, SessionInv
<1>5. OwnerInv'
  BY DEF PoolInv, ShutdownStop, Held, Running, OwnerInv
<1>6. StopInv'
  BY DEF PoolInv, ShutdownStop, StopInv
<1>7. QED
  BY <1>1, <1>2, <1>3, <1>4, <1>5, <1>6 DEF PoolInv

\* Waking the daemon for the shutdown leaves everything in its place.
LEMMA ShutdownWakePreserves ==
    ASSUME PoolInv, ShutdownWake PROVE PoolInv'
<1>1. TypeOK'
  BY DEF PoolInv, ShutdownWake, TypeOK
<1>2. BuildInv'
  BY DEF PoolInv, ShutdownWake, Held, Running, BuildInv
<1>3. SlotInv'
  BY DEF PoolInv, ShutdownWake, Held, SlotInv
<1>4. SessionInv'
  BY DEF PoolInv, ShutdownWake, Held, Running, SessionInv
<1>5. OwnerInv'
  BY DEF PoolInv, ShutdownWake, Held, Running, OwnerInv
<1>6. StopInv'
  BY DEF PoolInv, ShutdownWake, StopInv
<1>7. QED
  BY <1>1, <1>2, <1>3, <1>4, <1>5, <1>6 DEF PoolInv

\* The shutdown closes the spare of the slot and no other, build or no build.
LEMMA ShutdownClearPreserves ==
    ASSUME PoolInv, ShutdownClear PROVE PoolInv'
<1>1. TypeOK'
  BY DEF PoolInv, ShutdownClear, DropSpare, TypeOK
<1>2. BuildInv'
  BY DEF PoolInv, ShutdownClear, DropSpare, Held, Running, TypeOK, BuildInv
<1>3. SlotInv'
  BY DEF PoolInv, ShutdownClear, DropSpare, SlotInv
<1>4. SessionInv'
  BY DEF PoolInv, ShutdownClear, DropSpare, Held, Running, SlotInv, TypeOK,
         SessionInv
<1>5. OwnerInv'
  BY DEF PoolInv, ShutdownClear, DropSpare, Held, Running, OwnerInv
<1>6. StopInv'
  BY DEF PoolInv, ShutdownClear, DropSpare, StopInv
<1>7. QED
  BY <1>1, <1>2, <1>3, <1>4, <1>5, <1>6 DEF PoolInv

\* Time moves ages and countdowns only.
LEMMA TickPreserves ==
    ASSUME PoolInv, Tick PROVE PoolInv'
<1>1. TypeOK'
  BY DEF PoolInv, Tick, Older, Sooner, TypeOK
<1>2. BuildInv'
  BY DEF PoolInv, Tick, Held, Older, Running, TypeOK, BuildInv
<1>3. SlotInv'
  BY DEF PoolInv, Tick, Held, SlotInv
<1>4. SessionInv'
  BY DEF PoolInv, Tick, Held, Running, SessionInv
<1>5. OwnerInv'
  BY DEF PoolInv, Tick, Held, Running, OwnerInv
<1>6. StopInv'
  BY DEF PoolInv, Tick, DaemonSteps, Held, RequestSteps, Running, SessionInv,
         SlotInv, StopInv
<1>7. QED
  BY <1>1, <1>2, <1>3, <1>4, <1>5, <1>6 DEF PoolInv
-------------------------------------------------------------------------------
\* The invariant speaks of the variables only.
LEMMA StutterPreserves == ASSUME PoolInv, UNCHANGED vars PROVE PoolInv'
BY DEF vars, PoolInv, TypeOK, BuildInv, SlotInv, SessionInv, OwnerInv, StopInv, Held, Running

\* Every step of the pool keeps the invariant.
LEMMA PoolInvInductive == PoolInv /\ [Next]_vars => PoolInv'
<1> SUFFICES ASSUME PoolInv, [Next]_vars PROVE PoolInv'
  OBVIOUS
<1>1. CASE Daemon
  BY <1>1, CleanupOrphanSparesPreserves, LoopHeadPreserves, WaitReturnsPreserves,
     ClearWakePreserves, CheckStopPreserves, MaybeReapTtlPreserves,
     RefillNotWantedPreserves, RefillTooSoonPreserves, RefillUnderPressurePreserves,
     StartBuildPreserves, MakeSpareDirPreserves, RunFactoryPreserves,
     InstallSparePreserves, DiscardBuildPreserves, AbortBuildPreserves,
     FinishBuildPreserves DEF Daemon
<1>2. ASSUME NEW r \in Requests, Arrive(r) PROVE PoolInv'
  BY <1>2, TakeHitPreserves, TakeMissPreserves DEF Arrive
<1>3. ASSUME NEW r \in Requests, Serve(r) PROVE PoolInv'
  BY <1>3, ProbeHealthyPreserves, AbortAdoptedTakePreserves, SessionClosePreserves,
     RemoveProfilePreserves, ReleaseAdoptedPreserves, ColdDonePreserves,
     NotifyCheckPreserves, NotifySetDesiredPreserves, NotifySetWakePreserves DEF Serve
<1>4. CASE Reclaim
  BY <1>4, ReclaimDriverPreserves, CloseReclaimedPreserves DEF Reclaim
<1>5. CASE Shutdown
  BY <1>5, ShutdownStopPreserves, ShutdownWakePreserves, ShutdownClearPreserves DEF Shutdown
<1>6. CASE Tick
  BY <1>6, TickPreserves
<1>7. CASE UNCHANGED vars
  BY <1>7, StutterPreserves
<1>8. QED
  BY <1>1, <1>2, <1>3, <1>4, <1>5, <1>6, <1>7 DEF Next

\* PoolInv holds in every state of every behaviour of the pool.
THEOREM PoolInvariant == Spec => []PoolInv
BY InitPoolInv, PoolInvInductive, PTL DEF Spec
===============================================================================
