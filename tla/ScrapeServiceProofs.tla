------------------------- MODULE ScrapeServiceProofs -------------------------
(***************************************************************************)
(* ScrapeService for any number of requests, ids, workers and gates: an    *)
(* invariant that ties coroutine, worker, session and Chromium together,   *)
(* by induction; the safety properties that follow from it; and that the   *)
(* service implements ScrapeContract.                                      *)
(***************************************************************************)
EXTENDS ScrapeService, TLAPS

\* The worker has not got to a Chromium, is alone with one that session.driver
\* does not name, has one that it may name, or is past closing it.
BeforeChromium == {"none", "queued", "start", "deadline", "session", "register",
                   "prepare", "tier", "http", "budget", "markBoot", "bootCheck", "take",
                   "dirs", "coldCheck", "boot"}
AloneWithIt == {"adopt", "assign", "closing"}
Driving == {"warmDirs", "read", "configure", "markWork", "work", "exit"}

\* A running Chromium has one owner: the worker between boot and assignment or in
\* its exit, session.driver, or the reclaim that took it from there; and it is
\* closed once.
ChromiumInv ==
    \A r \in Requests :
        /\ wk[r] \in BeforeChromium => browser[r] = "none"
        /\ wk[r] \in AloneWithIt => browser[r] = "running" /\ ~bound[r] /\ co[r] # "killing"
        /\ bound[r] => browser[r] = "running" /\ wk[r] \in Driving /\ co[r] # "killing"
        /\ co[r] = "killing" => browser[r] = "running"
        /\ browser[r] = "running" => bound[r] \/ co[r] = "killing" \/ wk[r] \in AloneWithIt
        /\ closes[r] = IF browser[r] = "closed" THEN 1 ELSE 0

\* The phase says "queue" until the tier is chosen or the boot begins; what the
\* reclaim finds so late is stopped at the next abort check.
Unmarked == {"none", "queued", "start", "deadline", "session", "register", "prepare",
             "tier", "budget", "markBoot", "return", "done"}
Booting == {"take", "adopt", "warmDirs", "dirs", "coldCheck", "boot", "assign", "read",
            "configure", "markWork", "work", "closing"}
PhaseInv ==
    \A r \in Requests :
        /\ phase[r] = "queue" => wk[r] \in Unmarked /\ browser[r] = "none"
        /\ reported[r] = "queue" => /\ co[r] = "answered" /\ status[r] = 504
                                    /\ wk[r] = "none" \/ aborted[r]
                                    /\ wk[r] \notin Booting /\ browser[r] = "none"

\* Work is submitted after admission only; an answer other than a timeout is given
\* when there was none or it is done; a reclaim sets the abort flag first.
AnswerInv ==
    \A r \in Requests :
        /\ co[r] \in {"new", "target", "proxy", "admit", "refused", "admitted"}
               => wk[r] = "none"
        /\ co[r] \in {"hooks", "killing", "reclaimed"} => aborted[r]
        /\ co[r] # "answered" => status[r] = 0 /\ events[r] = 0
        /\ co[r] = "answered" /\ status[r] # 504 => wk[r] \in {"none", "done"}

\* The engine's registry is the ids of the sessions that are open, one each.
IdInv == /\ active = {IdOf(r) : r \in Registered}
         /\ \A q, r \in Registered : IdOf(q) = IdOf(r) => q = r

\* The guard looks at a URL whenever it looks.
GuardInv == /\ asks \in [Requests -> Urls \cup {NoUrl}]
            /\ \A r \in Requests : co[r] \in {"target", "proxy"} => asks[r] \in Urls

\* All of it is needed together: the phase and the answers depend on where the
\* Chromium is, and the types of closes and events on both.
LeaseInv == TypeOK /\ ChromiumInv /\ PhaseInv /\ AnswerInv /\ IdInv /\ GuardInv

USE DEF coroutine, worker, session, engine, CoGoes, WkGoes, Outcome, Mark

-------------------------------------------------------------------------------
(* The invariant is inductive *)

\* Work is appended to the executor's queue and taken from its head.
LEMMA QueueTypes ==
    ASSUME NEW q \in Seq(Requests), NEW r \in Requests
    PROVE  Append(q, r) \in Seq(Requests) /\ (q # <<>> => Tail(q) \in Seq(Requests))
OBVIOUS

\* One request's value changes, or none does.
LEMMA Updated ==
    ASSUME NEW S, NEW f \in [Requests -> S], NEW g, NEW r \in Requests,
           g = f \/ \E s \in S : g = [f EXCEPT ![r] = s]
    PROVE  g \in [Requests -> S]
OBVIOUS

\* What the worker assigns has the type of its variable.  That a driver is closed
\* once bounds closes.
LEMMA WorkTyped ==
    ASSUME LeaseInv, NEW r \in Requests, Work(r)
    PROVE  TypeOK'
<1> USE DEF LeaseInv, TypeOK
<1> USE DEF Work, StartWork, CheckAborted, CheckDeadline, OpenSession, RegisterRequestId,
            PrepareRuntime, SkipRequestTier, StartRequestTier, FinishRequestTier, CheckBudget,
            MarkBoot, CheckAbortedBoot, GiveUpIfAborted, TakeWarm, TakeNothing, AssignWarm, Bind,
            PrepareRuntimeDir, PrepareProfileDirs, MakeDirs, CheckAbortedCold, CreateDriver,
            AssignDriver, ReadDriver, ConfigureDriver, MarkWork, Attempts, ExitForceClose,
            CloseDriver, Kill, RemoveRuntimeDir, UnregisterRequestId, CompleteFuture
<1>1. \E s \in WkSteps : wk' = [wk EXCEPT ![r] = s]
  BY DEF WkSteps
<1>2. UNCHANGED result \/ \E o \in Results : result' = [result EXCEPT ![r] = o]
  BY DEF Results
<1>3. queue' \in Seq(Requests)
  BY QueueTypes
<1>4. UNCHANGED phase \/ \E p \in Phases : phase' = [phase EXCEPT ![r] = p]
  BY DEF Phases
<1>5. UNCHANGED hooked \/ hooked' = [hooked EXCEPT ![r] = TRUE]
  OBVIOUS
<1>6. UNCHANGED bound \/ \E b \in BOOLEAN : bound' = [bound EXCEPT ![r] = b]
  OBVIOUS
<1>7. UNCHANGED browser \/ \E b \in {"running", "closed"} : browser' = [browser EXCEPT ![r] = b]
  OBVIOUS
<1>8. UNCHANGED closes \/ CloseDriver(r)
  OBVIOUS
<1>9. CloseDriver(r) => \E n \in 0..2 : closes' = [closes EXCEPT ![r] = n]
  <2>1. wk[r] = "closing" => closes[r] = 0
    BY DEF ChromiumInv, AloneWithIt
  <2> QED
    BY <2>1
<1>10. active' \in SUBSET Ids /\ dirs' \in SUBSET Ids
  BY DEF Ids, IdOf, ResolveRequestId
<1>11. UNCHANGED <<coroutine, aborted>>
  OBVIOUS
<1> HIDE DEF Work, StartWork, CheckAborted, CheckDeadline, OpenSession, RegisterRequestId,
             PrepareRuntime, SkipRequestTier, StartRequestTier, FinishRequestTier, CheckBudget,
             MarkBoot, CheckAbortedBoot, GiveUpIfAborted, TakeWarm, TakeNothing, AssignWarm, Bind,
             PrepareRuntimeDir, PrepareProfileDirs, MakeDirs, CheckAbortedCold, CreateDriver,
             AssignDriver, ReadDriver, ConfigureDriver, MarkWork, Attempts, ExitForceClose,
             CloseDriver, Kill, RemoveRuntimeDir, UnregisterRequestId, CompleteFuture
<1>12. wk' \in [Requests -> WkSteps] /\ result' \in [Requests -> Results]
  BY <1>1, <1>2
<1>13. phase' \in [Requests -> Phases] /\ hooked' \in [Requests -> BOOLEAN]
  <2>1. phase' \in [Requests -> Phases]
    BY <1>4, Updated
  <2>2. hooked' \in [Requests -> BOOLEAN]
    BY <1>5
  <2> QED
    BY <2>1, <2>2
<1>14. bound' \in [Requests -> BOOLEAN] /\ browser' \in [Requests -> {"none", "running", "closed"}]
  BY <1>6, <1>7
<1>15. closes' \in [Requests -> 0..2]
  BY <1>8, <1>9, Updated
<1> QED
  BY <1>3, <1>10, <1>11, <1>12, <1>13, <1>14, <1>15

\* And so has what the loop assigns.  That an answer is given once bounds events.
LEMMA LoopTyped ==
    ASSUME LeaseInv, NEW r \in Requests, Loop(r)
    PROVE  TypeOK'
<1> USE DEF LeaseInv, TypeOK
<1> USE DEF Loop, Admit, GiveUpWaiting, AdmitTimeout, LateAdmission, Submit, Deliver, Propagate,
            DeadlineFires, RunHooks, KillDriver, Kill, AnswerTimeout, Finish, FinishTimeout
<1>1. \E s \in CoSteps : co' = [co EXCEPT ![r] = s]
  BY DEF CoSteps
<1>2. UNCHANGED status \/ \E c \in Codes : status' = [status EXCEPT ![r] = c]
  BY DEF Codes, StatusOf
<1>3. UNCHANGED events \/ \E n \in 0..1 : events' = [events EXCEPT ![r] = n]
  BY DEF AnswerInv
<1>4. UNCHANGED phase \/ \E p \in Phases : phase' = [phase EXCEPT ![r] = p]
  BY DEF Phases
<1>5. UNCHANGED reported \/ \E p \in Phases : reported' = [reported EXCEPT ![r] = p]
  BY DEF Phases
<1>6. holders' \in SUBSET Requests /\ busy' \in Requests \cup {NoOne}
  OBVIOUS
<1>7. UNCHANGED aborted \/ aborted' = [aborted EXCEPT ![r] = TRUE]
  OBVIOUS
<1>8. UNCHANGED queue \/ queue' = Append(queue, r)
  OBVIOUS
<1>9. UNCHANGED wk \/ wk' = [wk EXCEPT ![r] = "queued"]
  OBVIOUS
<1>10. UNCHANGED bound \/ bound' = [bound EXCEPT ![r] = FALSE]
  OBVIOUS
<1>11. UNCHANGED browser \/ browser' = [browser EXCEPT ![r] = "closed"]
  OBVIOUS
<1>12. UNCHANGED closes \/ \E n \in 0..2 : closes' = [closes EXCEPT ![r] = n]
  BY DEF ChromiumInv
<1>13. UNCHANGED <<inbound, late, result, hooked, engine>>
  OBVIOUS
<1> HIDE DEF Loop, Admit, GiveUpWaiting, AdmitTimeout, LateAdmission, Submit, Deliver, Propagate,
             DeadlineFires, RunHooks, KillDriver, Kill, AnswerTimeout, Finish, FinishTimeout
<1>14. co' \in [Requests -> CoSteps] /\ status' \in [Requests -> Codes]
  BY <1>1, <1>2
<1>15. events' \in [Requests -> 0..1] /\ closes' \in [Requests -> 0..2]
  BY <1>3, <1>12, Updated
<1>16. /\ phase' \in [Requests -> Phases] /\ aborted' \in [Requests -> BOOLEAN]
       /\ reported' \in [Requests -> {"none"} \cup Phases]
  BY <1>4, <1>5, <1>7, Updated
<1>17. queue' \in Seq(Requests) /\ wk' \in [Requests -> WkSteps]
  <2>1. wk' \in [Requests -> WkSteps]
    BY <1>9, Updated DEF WkSteps
  <2> QED
    BY <1>8, <2>1, QueueTypes
<1>18. bound' \in [Requests -> BOOLEAN] /\ browser' \in [Requests -> {"none", "running", "closed"}]
  BY <1>10, <1>11
<1> QED
  BY <1>6, <1>13, <1>14, <1>15, <1>16, <1>17, <1>18


\* Who has the Chromium: the worker hands it to session.driver, and whoever empties
\* session.driver first, exit or reclaim, closes it.
LEMMA WorkKeepsChromium ==
    ASSUME LeaseInv, NEW r \in Requests, Work(r)
    PROVE  ChromiumInv'
<1> USE DEF LeaseInv, TypeOK, ChromiumInv, BeforeChromium, AloneWithIt, Driving
<1>1. CASE \/ StartWork(r) \/ CheckAborted(r) \/ CheckDeadline(r) \/ OpenSession(r)
           \/ RegisterRequestId(r) \/ PrepareRuntime(r)
  BY <1>1 DEF StartWork, CheckAborted, CheckDeadline, OpenSession, RegisterRequestId,
              PrepareRuntime
<1>2. CASE \/ SkipRequestTier(r) \/ StartRequestTier(r) \/ FinishRequestTier(r)
           \/ CheckBudget(r) \/ MarkBoot(r) \/ CheckAbortedBoot(r)
  BY <1>2 DEF SkipRequestTier, StartRequestTier, FinishRequestTier, CheckBudget, MarkBoot,
              CheckAbortedBoot, GiveUpIfAborted
<1>3. CASE TakeNothing(r) \/ PrepareProfileDirs(r) \/ CheckAbortedCold(r)
  BY <1>3 DEF TakeNothing, PrepareProfileDirs, MakeDirs, CheckAbortedCold, GiveUpIfAborted
<1>4. CASE TakeWarm(r) \/ CreateDriver(r)
  BY <1>4 DEF TakeWarm, CreateDriver
<1>5. CASE AssignWarm(r) \/ AssignDriver(r)
  BY <1>5 DEF AssignWarm, Bind, AssignDriver
<1>6. CASE \/ PrepareRuntimeDir(r) \/ ReadDriver(r) \/ ConfigureDriver(r) \/ MarkWork(r)
           \/ Attempts(r)
  BY <1>6 DEF PrepareRuntimeDir, MakeDirs, ReadDriver, ConfigureDriver, MarkWork, Attempts
<1>7. CASE ExitForceClose(r) \/ CloseDriver(r)
  BY <1>7 DEF ExitForceClose, CloseDriver, Kill
<1>8. CASE RemoveRuntimeDir(r) \/ UnregisterRequestId(r) \/ CompleteFuture(r)
  BY <1>8 DEF RemoveRuntimeDir, UnregisterRequestId, CompleteFuture
<1> QED
  BY <1>1, <1>2, <1>3, <1>4, <1>5, <1>6, <1>7, <1>8 DEF Work

\* The same for the event loop.
LEMMA LoopKeepsChromium ==
    ASSUME LeaseInv, NEW r \in Requests, Loop(r)
    PROVE  ChromiumInv'
<1> USE DEF LeaseInv, TypeOK, ChromiumInv, BeforeChromium, AloneWithIt, Driving, AnswerInv
<1>1. CASE Admit(r) \/ GiveUpWaiting(r) \/ AdmitTimeout(r) \/ LateAdmission(r)
  BY <1>1 DEF Admit, GiveUpWaiting, AdmitTimeout, Finish, FinishTimeout, LateAdmission
<1>2. CASE Submit(r) \/ Deliver(r) \/ Propagate(r)
  BY <1>2 DEF Submit, Deliver, Finish, StatusOf, Propagate
<1>3. CASE DeadlineFires(r) \/ RunHooks(r) \/ KillDriver(r) \/ AnswerTimeout(r)
  BY <1>3 DEF DeadlineFires, RunHooks, KillDriver, Kill, AnswerTimeout, Finish,
              FinishTimeout
<1> QED
  BY <1>1, <1>2, <1>3 DEF Loop

\* The worker marks its phase before it gets near a Chromium.  A 504 that is built
\* while the phase says queue comes after the abort flag.
LEMMA WorkKeepsPhase ==
    ASSUME LeaseInv, NEW r \in Requests, Work(r)
    PROVE  PhaseInv'
<1> USE DEF LeaseInv, TypeOK, PhaseInv, Unmarked, Booting, AnswerInv, ChromiumInv,
            BeforeChromium, AloneWithIt
<1>1. CASE \/ StartWork(r) \/ CheckAborted(r) \/ CheckDeadline(r) \/ OpenSession(r)
           \/ RegisterRequestId(r) \/ PrepareRuntime(r)
  BY <1>1 DEF StartWork, CheckAborted, CheckDeadline, OpenSession, RegisterRequestId,
              PrepareRuntime
<1>2. CASE \/ SkipRequestTier(r) \/ StartRequestTier(r) \/ FinishRequestTier(r)
           \/ CheckBudget(r) \/ MarkBoot(r) \/ CheckAbortedBoot(r)
  BY <1>2 DEF SkipRequestTier, StartRequestTier, FinishRequestTier, CheckBudget, MarkBoot,
              CheckAbortedBoot, GiveUpIfAborted
<1>3. CASE TakeNothing(r) \/ PrepareProfileDirs(r) \/ CheckAbortedCold(r)
  BY <1>3 DEF TakeNothing, PrepareProfileDirs, MakeDirs, CheckAbortedCold, GiveUpIfAborted
<1>4. CASE TakeWarm(r) \/ CreateDriver(r)
  BY <1>4 DEF TakeWarm, CreateDriver
<1>5. CASE AssignWarm(r) \/ AssignDriver(r)
  BY <1>5 DEF AssignWarm, Bind, AssignDriver
<1>6. CASE \/ PrepareRuntimeDir(r) \/ ReadDriver(r) \/ ConfigureDriver(r) \/ MarkWork(r)
           \/ Attempts(r)
  BY <1>6 DEF PrepareRuntimeDir, MakeDirs, ReadDriver, ConfigureDriver, MarkWork, Attempts
<1>7. CASE ExitForceClose(r) \/ CloseDriver(r)
  BY <1>7 DEF ExitForceClose, CloseDriver, Kill
<1>8. CASE RemoveRuntimeDir(r) \/ UnregisterRequestId(r) \/ CompleteFuture(r)
  BY <1>8 DEF RemoveRuntimeDir, UnregisterRequestId, CompleteFuture
<1> QED
  BY <1>1, <1>2, <1>3, <1>4, <1>5, <1>6, <1>7, <1>8 DEF Work

\* The same for the event loop.
LEMMA LoopKeepsPhase ==
    ASSUME LeaseInv, NEW r \in Requests, Loop(r)
    PROVE  PhaseInv'
<1> USE DEF LeaseInv, TypeOK, PhaseInv, Unmarked, Booting, AnswerInv, ChromiumInv,
            BeforeChromium, AloneWithIt
<1>1. CASE Admit(r) \/ GiveUpWaiting(r) \/ AdmitTimeout(r) \/ LateAdmission(r)
  BY <1>1 DEF Admit, GiveUpWaiting, AdmitTimeout, Finish, FinishTimeout, LateAdmission
<1>2. CASE Submit(r) \/ Deliver(r) \/ Propagate(r)
  BY <1>2 DEF Submit, Deliver, Finish, StatusOf, Propagate
<1>3. CASE DeadlineFires(r) \/ RunHooks(r) \/ KillDriver(r) \/ AnswerTimeout(r)
  BY <1>3 DEF DeadlineFires, RunHooks, KillDriver, Kill, AnswerTimeout, Finish,
              FinishTimeout
<1> QED
  BY <1>1, <1>2, <1>3 DEF Loop

\* A worker starts after Submit, and an answer other than a timeout waits for it.
LEMMA WorkKeepsAnswer ==
    ASSUME LeaseInv, NEW r \in Requests, Work(r)
    PROVE  AnswerInv'
<1> USE DEF LeaseInv, TypeOK, AnswerInv
<1>1. CASE \/ StartWork(r) \/ CheckAborted(r) \/ CheckDeadline(r) \/ OpenSession(r)
           \/ RegisterRequestId(r) \/ PrepareRuntime(r)
  BY <1>1 DEF StartWork, CheckAborted, CheckDeadline, OpenSession, RegisterRequestId,
              PrepareRuntime
<1>2. CASE \/ SkipRequestTier(r) \/ StartRequestTier(r) \/ FinishRequestTier(r)
           \/ CheckBudget(r) \/ MarkBoot(r) \/ CheckAbortedBoot(r)
  BY <1>2 DEF SkipRequestTier, StartRequestTier, FinishRequestTier, CheckBudget, MarkBoot,
              CheckAbortedBoot, GiveUpIfAborted
<1>3. CASE TakeNothing(r) \/ PrepareProfileDirs(r) \/ CheckAbortedCold(r)
  BY <1>3 DEF TakeNothing, PrepareProfileDirs, MakeDirs, CheckAbortedCold, GiveUpIfAborted
<1>4. CASE TakeWarm(r) \/ CreateDriver(r)
  BY <1>4 DEF TakeWarm, CreateDriver
<1>5. CASE AssignWarm(r) \/ AssignDriver(r)
  BY <1>5 DEF AssignWarm, Bind, AssignDriver
<1>6. CASE \/ PrepareRuntimeDir(r) \/ ReadDriver(r) \/ ConfigureDriver(r) \/ MarkWork(r)
           \/ Attempts(r)
  BY <1>6 DEF PrepareRuntimeDir, MakeDirs, ReadDriver, ConfigureDriver, MarkWork, Attempts
<1>7. CASE ExitForceClose(r) \/ CloseDriver(r)
  BY <1>7 DEF ExitForceClose, CloseDriver, Kill
<1>8. CASE RemoveRuntimeDir(r) \/ UnregisterRequestId(r) \/ CompleteFuture(r)
  BY <1>8 DEF RemoveRuntimeDir, UnregisterRequestId, CompleteFuture
<1> QED
  BY <1>1, <1>2, <1>3, <1>4, <1>5, <1>6, <1>7, <1>8 DEF Work

\* The same for the event loop.
LEMMA LoopKeepsAnswer ==
    ASSUME LeaseInv, NEW r \in Requests, Loop(r)
    PROVE  AnswerInv'
<1> USE DEF LeaseInv, TypeOK, AnswerInv
<1>1. CASE Admit(r) \/ GiveUpWaiting(r) \/ AdmitTimeout(r) \/ LateAdmission(r)
  BY <1>1 DEF Admit, GiveUpWaiting, AdmitTimeout, Finish, FinishTimeout, LateAdmission
<1>2. CASE Submit(r) \/ Deliver(r) \/ Propagate(r)
  BY <1>2 DEF Submit, Deliver, Finish, StatusOf, Propagate
<1>3. CASE DeadlineFires(r) \/ RunHooks(r) \/ KillDriver(r) \/ AnswerTimeout(r)
  BY <1>3 DEF DeadlineFires, RunHooks, KillDriver, Kill, AnswerTimeout, Finish,
              FinishTimeout
<1> QED
  BY <1>1, <1>2, <1>3 DEF Loop

\* Whoever goes from one step of a session to another keeps its id, and nobody
\* else's registration is concerned.
LEMMA IdsStay ==
    ASSUME IdInv, UNCHANGED <<inbound, active>>, Registered' = Registered
    PROVE  IdInv'
BY DEF IdInv, IdOf

\* Only four actions register, unregister, or change what is on disk.
QuietWork(r) ==
    \/ StartWork(r) \/ CheckAborted(r) \/ CheckDeadline(r) \/ OpenSession(r)
    \/ SkipRequestTier(r) \/ StartRequestTier(r) \/ FinishRequestTier(r)
    \/ CheckBudget(r) \/ MarkBoot(r) \/ CheckAbortedBoot(r) \/ TakeWarm(r)
    \/ TakeNothing(r) \/ AssignWarm(r) \/ CheckAbortedCold(r) \/ CreateDriver(r)
    \/ AssignDriver(r) \/ ReadDriver(r) \/ ConfigureDriver(r) \/ MarkWork(r)
    \/ Attempts(r) \/ ExitForceClose(r) \/ CloseDriver(r) \/ CompleteFuture(r)

\* The others leave registry and directories alone, and do not begin to use one.
LEMMA QuietKeeps ==
    ASSUME LeaseInv, NEW r \in Requests, QuietWork(r)
    PROVE  /\ UNCHANGED <<inbound, active, dirs>>
           /\ Registered' = Registered /\ UsingDir' \subseteq UsingDir
<1> USE DEF LeaseInv, TypeOK
<1>1. CASE \/ StartWork(r) \/ CheckAborted(r) \/ CheckDeadline(r) \/ OpenSession(r)
           \/ CompleteFuture(r)
  BY <1>1 DEF StartWork, CheckAborted, CheckDeadline, OpenSession, CompleteFuture,
              Registered, UsingDir, WkSteps
<1>2. CASE \/ SkipRequestTier(r) \/ StartRequestTier(r) \/ FinishRequestTier(r)
           \/ CheckBudget(r) \/ MarkBoot(r) \/ CheckAbortedBoot(r) \/ TakeWarm(r)
           \/ TakeNothing(r) \/ AssignWarm(r)
  BY <1>2 DEF SkipRequestTier, StartRequestTier, FinishRequestTier, CheckBudget, MarkBoot,
              CheckAbortedBoot, GiveUpIfAborted, TakeWarm, TakeNothing, AssignWarm, Bind,
              Registered, UsingDir, WkSteps
<1>3. CASE \/ CheckAbortedCold(r) \/ CreateDriver(r) \/ AssignDriver(r) \/ ReadDriver(r)
           \/ ConfigureDriver(r) \/ MarkWork(r) \/ Attempts(r)
           \/ ExitForceClose(r) \/ CloseDriver(r)
  BY <1>3 DEF CheckAbortedCold, GiveUpIfAborted, CreateDriver, AssignDriver, Bind, ReadDriver,
              ConfigureDriver, MarkWork, Attempts, ExitForceClose, CloseDriver,
              Registered, UsingDir, WkSteps
<1> QED
  BY <1>1, <1>2, <1>3 DEF QuietWork

\* An id is registered when nobody has it, and taken back by the session that has.
LEMMA WorkKeepsIds ==
    ASSUME LeaseInv, NEW r \in Requests, Work(r)
    PROVE  IdInv'
<1> USE DEF LeaseInv, TypeOK
<1>1. CASE QuietWork(r)
  BY <1>1, QuietKeeps, IdsStay
<1>2. CASE RegisterRequestId(r)
  <2>1. UNCHANGED inbound
    BY <1>2 DEF RegisterRequestId
  <2>2. CASE IdOf(r) \in active
    <3>1. Registered' = Registered /\ UNCHANGED active
      BY <1>2, <2>2 DEF RegisterRequestId, Registered, WkSteps
    <3> QED
      BY <2>1, <3>1, IdsStay
  <2>3. CASE IdOf(r) \notin active
    <3>1. Registered' = Registered \cup {r} /\ active' = active \cup {IdOf(r)}
      BY <1>2, <2>3 DEF RegisterRequestId, Registered, WkSteps
    <3> QED
      BY <2>1, <2>3, <3>1 DEF IdInv, IdOf
  <2> QED
    BY <2>2, <2>3
<1>3. CASE PrepareRuntime(r)
  <2>1. UNCHANGED inbound /\ r \in Registered
    BY <1>3 DEF PrepareRuntime, Registered, WkSteps
  <2>2. CASE WkGoes(r, "prepare", "tier") /\ UNCHANGED active
    <3>1. Registered' = Registered
      BY <2>2 DEF Registered, WkSteps
    <3> QED
      BY <2>1, <2>2, <3>1, IdsStay
  <2>3. CASE WkGoes(r, "prepare", "return") /\ active' = active \ {IdOf(r)}
    <3>1. Registered' = Registered \ {r}
      BY <2>3 DEF Registered, WkSteps
    <3> QED
      BY <2>1, <2>3, <3>1 DEF IdInv, IdOf
  <2> QED
    BY <1>3, <2>2, <2>3 DEF PrepareRuntime
<1>4. CASE PrepareRuntimeDir(r) \/ PrepareProfileDirs(r) \/ RemoveRuntimeDir(r)
  <2>1. UNCHANGED <<inbound, active>> /\ Registered' = Registered
    BY <1>4 DEF PrepareRuntimeDir, PrepareProfileDirs, MakeDirs, RemoveRuntimeDir, Registered,
                WkSteps
  <2> QED
    BY <2>1, IdsStay
<1>5. CASE UnregisterRequestId(r)
  <2>1. UNCHANGED inbound /\ Registered' = Registered \ {r}
    BY <1>5 DEF UnregisterRequestId, Registered, WkSteps
  <2>2. r \in Registered /\ active' = active \ {IdOf(r)}
    BY <1>5 DEF UnregisterRequestId, Registered, WkSteps
  <2> QED
    BY <2>1, <2>2 DEF IdInv, IdOf
<1> QED
  BY <1>1, <1>2, <1>3, <1>4, <1>5 DEF Work, QuietWork


\* The loop does not touch registry and directories, and to submit work is not to
\* register.
LEMMA LoopIsQuiet ==
    ASSUME LeaseInv, NEW r \in Requests, Loop(r)
    PROVE  /\ UNCHANGED <<inbound, active, dirs>>
           /\ Registered' = Registered /\ UsingDir' = UsingDir
<1> USE DEF LeaseInv, TypeOK
<1>1. UNCHANGED <<inbound, active, dirs>> /\ (UNCHANGED wk \/ Submit(r))
  BY DEF Loop, Admit, GiveUpWaiting, AdmitTimeout, LateAdmission, Submit, Deliver, Propagate,
         DeadlineFires, RunHooks, KillDriver, Kill, AnswerTimeout, Finish, FinishTimeout
<1>2. Submit(r) => wk' = [wk EXCEPT ![r] = "queued"] /\ wk[r] = "none"
  BY DEF Submit, AnswerInv
<1>3. Registered' = Registered /\ UsingDir' = UsingDir
  BY <1>1, <1>2 DEF Registered, UsingDir, WkSteps
<1> QED
  BY <1>1, <1>3

\* So it keeps the ids.
LEMMA LoopKeepsIds ==
    ASSUME LeaseInv, NEW r \in Requests, Loop(r)
    PROVE  IdInv'
BY LoopIsQuiet, IdsStay DEF LeaseInv

\* Before a lease there is no worker, so a request may get its id, be asked about
\* and be refused.
LEMMA FrontKeeps ==
    ASSUME LeaseInv, NEW r \in Requests, Receive(r) \/ Guard(r) \/ DeadlinePasses(r)
    PROVE  LeaseInv'
<1> USE DEF lease, LeaseInv, TypeOK
<1>1. CASE Receive(r)
  <2>1. TypeOK'
    BY <1>1 DEF Receive, CoSteps
  <2>2. ChromiumInv' /\ PhaseInv' /\ AnswerInv'
    BY <1>1 DEF Receive, ChromiumInv, PhaseInv, AnswerInv
  <2>3. UNCHANGED active /\ Registered' = Registered /\ r \notin Registered
    BY <1>1 DEF Receive, AnswerInv, Registered, WkSteps
  <2>4. \A q \in Requests \ {r} : IdOf(q)' = IdOf(q)
    BY <1>1 DEF Receive, IdOf
  <2>5. IdInv'
    BY <2>3, <2>4 DEF IdInv, Registered
  <2>6. GuardInv'
    BY <1>1, TargetsAssumption DEF Receive, GuardInv
  <2> QED
    BY <2>1, <2>2, <2>5, <2>6
<1>2. CASE Guard(r)
  <2>1. Validate(asks[r]) \in Codes
    BY DEF Validate, Allowed, BadRequest, Forbidden, ServerError, Codes
  <2>2. /\ UNCHANGED <<inbound, events, wk, active, dirs>>
        /\ \E s \in CoSteps : co' = [co EXCEPT ![r] = s]
        /\ \E c \in Codes : status' = [status EXCEPT ![r] = c]
        /\ busy' \in {busy, NoOne}
    BY <1>2, <2>1 DEF Guard, GuardTarget, GuardProxy, Refuse, Pass, AskProxy, CoSteps
  <2>3. TypeOK'
    BY <1>2, <2>2 DEF Guard, GuardTarget, GuardProxy
  <2>4. ChromiumInv' /\ PhaseInv'
    BY <1>2 DEF Guard, GuardTarget, GuardProxy, Refuse, Pass, AskProxy, ChromiumInv, PhaseInv
  <2>5. AnswerInv'
    BY <1>2 DEF Guard, GuardTarget, GuardProxy, Refuse, Pass, AskProxy, AnswerInv
  <2>6. IdInv'
    BY <2>2 DEF IdInv, Registered, IdOf
  <2>7. GuardInv'
    BY <1>2, ProxiesAssumption DEF Guard, GuardTarget, GuardProxy, Refuse, Pass, AskProxy,
                                   GuardInv
  <2> QED
    BY <2>3, <2>4, <2>5, <2>6, <2>7
<1>3. CASE DeadlinePasses(r)
  <2>1. TypeOK' /\ ChromiumInv' /\ PhaseInv' /\ AnswerInv'
    BY <1>3 DEF DeadlinePasses, Expire, ChromiumInv, PhaseInv, AnswerInv
  <2>2. IdInv' /\ GuardInv'
    BY <1>3 DEF DeadlinePasses, Expire, IdInv, Registered, IdOf, GuardInv
  <2> QED
    BY <2>1, <2>2
<1> QED
  BY <1>1, <1>2, <1>3

\* A worker changes nothing that belongs to the event loop.
LEMMA WorkLeavesLoop == ASSUME NEW r \in Requests, Work(r) PROVE UNCHANGED coroutine
BY DEF Work, StartWork, CheckAborted, CheckDeadline, OpenSession, RegisterRequestId, PrepareRuntime,
       SkipRequestTier, StartRequestTier, FinishRequestTier, CheckBudget, MarkBoot,
       CheckAbortedBoot, GiveUpIfAborted, TakeWarm, TakeNothing, AssignWarm, Bind,
       PrepareRuntimeDir, PrepareProfileDirs, MakeDirs, CheckAbortedCold, CreateDriver,
       AssignDriver, ReadDriver, ConfigureDriver, MarkWork, Attempts, ExitForceClose, CloseDriver,
       RemoveRuntimeDir, UnregisterRequestId, CompleteFuture

\* Once the guard is done it is not asked again.
LEMMA LeaseKeepsGuard ==
    ASSUME LeaseInv, NEW r \in Requests, LoopRuns(r) \/ WorkerRuns(r)
    PROVE  GuardInv'
<1>1. ASSUME LoopRuns(r) PROVE \E s \in CoSteps \ {"target", "proxy"} : co' = [co EXCEPT ![r] = s]
  BY <1>1 DEF LeaseInv, TypeOK, LoopRuns, Loop, Admit, GiveUpWaiting, AdmitTimeout, LateAdmission,
              Submit, Deliver, Propagate, DeadlineFires, RunHooks, KillDriver, AnswerTimeout,
              CoSteps
<1>2. ASSUME WorkerRuns(r) PROVE UNCHANGED co
  BY <1>2, WorkLeavesLoop DEF WorkerRuns
<1> QED
  BY <1>1, <1>2 DEF LoopRuns, WorkerRuns, LeaseInv, TypeOK, GuardInv

\* No variable the invariant speaks of changes in a stuttering step.
LEMMA StutterKeeps == ASSUME LeaseInv, UNCHANGED serviceVars PROVE LeaseInv'
BY DEF LeaseInv, serviceVars, vars, TypeOK, ChromiumInv, PhaseInv, AnswerInv, IdInv, Registered,
       IdOf, GuardInv

\* Before anybody arrives nothing runs; only directories of a killed process are there.
LEMMA StartsIn == ASSUME ServiceInit PROVE LeaseInv
<1> USE DEF ServiceInit, Init
<1>1. TypeOK
  BY DEF TypeOK, CoSteps, WkSteps, Codes, Results, Phases, Ids
<1>2. ChromiumInv /\ PhaseInv /\ AnswerInv
  BY DEF ChromiumInv, BeforeChromium, AloneWithIt, Driving, PhaseInv, Unmarked, Booting, AnswerInv
<1>3. Registered = {}
  BY DEF Registered, WkSteps
<1>4. IdInv
  BY <1>3 DEF IdInv
<1>5. GuardInv
  BY DEF GuardInv
<1> QED
  BY <1>1, <1>2, <1>4, <1>5 DEF LeaseInv

\* Each part of the invariant by its lemma.
LEMMA StepKeeps == ASSUME LeaseInv, [Next]_serviceVars PROVE LeaseInv'
<1>1. ASSUME NEW r \in Requests, WorkerRuns(r) PROVE LeaseInv'
  BY <1>1, WorkTyped, WorkKeepsChromium, WorkKeepsPhase, WorkKeepsAnswer, WorkKeepsIds,
     LeaseKeepsGuard DEF WorkerRuns, LeaseInv
<1>2. ASSUME NEW r \in Requests, LoopRuns(r) PROVE LeaseInv'
  BY <1>2, LoopTyped, LoopKeepsChromium, LoopKeepsPhase, LoopKeepsAnswer, LoopKeepsIds,
     LeaseKeepsGuard DEF LoopRuns, LeaseInv
<1> QED
  BY <1>1, <1>2, FrontKeeps, StutterKeeps DEF Next

\* However many requests, ids, gates and workers there are, and however loop and
\* workers interleave, coroutine, worker, session and Chromium fit together.
THEOREM LeaseInvariant == Spec => []LeaseInv
<1>1. ServiceInit => LeaseInv
  BY StartsIn
<1>2. LeaseInv /\ [Next]_serviceVars => LeaseInv'
  BY StepKeeps
<1> QED
  BY <1>1, <1>2, PTL DEF Spec

-------------------------------------------------------------------------------
(* What follows from it in every state *)

\* Every variable keeps its type.
THEOREM LeaseTyped == Spec => []TypeOK
BY LeaseInvariant, PTL DEF LeaseInv

\* However reclaim, exit and assignment race, no driver is closed twice, and none is
\* left open after the session's exit but the one a reclaim is closing right then.
THEOREM DriverClosedOnce == Spec => []ClosedOnce
<1>1. LeaseInv => ClosedOnce
  BY DEF LeaseInv, TypeOK, ChromiumInv, ClosedOnce, BeforeChromium, AloneWithIt, Driving
<1> QED
  BY <1>1, LeaseInvariant, PTL

\* Whoever uses a directory has made it, and a worker removes only what belongs to its
\* own id or to nobody; but everything when that id is ".".
LEMMA WorkIsolates ==
    ASSUME LeaseInv, NEW q \in Requests, Work(q), NEW r \in UsingDir'
    PROVE  \/ IdOf(r) \in dirs'
           \/ r \in UsingDir /\ IdOf(r) \notin dirs
           \/ IdOf(q) = Dot /\ wk[q] = "rmtree" /\ wk' # wk
<1> USE DEF LeaseInv, TypeOK
<1>1. \A p \in UsingDir : p \in Registered /\ IdOf(p) \in active
  BY DEF UsingDir, Registered, WkSteps, IdInv
<1>2. CASE QuietWork(q)
  BY <1>2, QuietKeeps
<1>3. CASE RegisterRequestId(q) \/ UnregisterRequestId(q)
  <2>1. UNCHANGED dirs /\ UsingDir' = UsingDir
    BY <1>3 DEF RegisterRequestId, UnregisterRequestId, UsingDir
  <2> QED
    BY <2>1
<1>4. CASE PrepareRuntime(q)
  <2>1. dirs' \in {dirs, dirs \cap active} /\ UsingDir' = UsingDir
    BY <1>4 DEF PrepareRuntime, UsingDir
  <2> QED
    BY <1>1, <2>1
<1>5. CASE PrepareRuntimeDir(q) \/ PrepareProfileDirs(q)
  <2>1. \/ UsingDir' = UsingDir /\ dirs' \in {dirs, dirs \cap active}
        \/ /\ UsingDir' \subseteq UsingDir \cup {q}
           /\ \E kept \in {dirs, dirs \cap active} : dirs' = kept \cup {IdOf(q)}
    BY <1>5 DEF PrepareRuntimeDir, PrepareProfileDirs, MakeDirs, UsingDir
  <2> QED
    BY <1>1, <2>1
<1>6. CASE RemoveRuntimeDir(q)
  <2>1. wk[q] = "rmtree" /\ wk' # wk /\ UsingDir' = UsingDir
    BY <1>6 DEF RemoveRuntimeDir, UsingDir
  <2>2. q \in Registered \ UsingDir
    BY <1>6 DEF RemoveRuntimeDir, Registered, UsingDir, WkSteps
  <2>3. IdOf(r) # IdOf(q)
    BY <1>1, <2>1, <2>2 DEF IdInv
  <2>4. PICK left : dirs' = dirs \ (Below(IdOf(q)) \ left)
    BY <1>6 DEF RemoveRuntimeDir
  <2> QED
    BY <2>1, <2>3, <2>4 DEF Below
<1> QED
  BY <1>2, <1>3, <1>4, <1>5, <1>6 DEF Work, QuietWork

\* Whatever the workers do at the same time, no two sessions have the same id, and
\* nobody loses the directory it uses but to a session under ".".
THEOREM ProfilesAreIsolated == Spec => ProfileIsolated
<1> DEFINE Alone == \A q, r \in Registered : IdOf(q) = IdOf(r) => q = r
           Kept == \A r \in UsingDir' :
                       \/ IdOf(r) \in dirs'
                       \/ r \in UsingDir /\ IdOf(r) \notin dirs
                       \/ \E q \in Requests : IdOf(q) = Dot /\ wk[q] = "rmtree" /\ wk' # wk
<1>1. LeaseInv => Alone
  BY DEF LeaseInv, IdInv
<1>2. ASSUME LeaseInv, [Next]_serviceVars PROVE [Kept]_vars
  <2>1. ASSUME NEW q \in Requests, WorkerRuns(q) PROVE Kept
    BY <1>2, <2>1, WorkIsolates DEF WorkerRuns
  <2>2. ASSUME NEW q \in Requests, LoopRuns(q) PROVE Kept
    BY <1>2, <2>2, LoopIsQuiet DEF LoopRuns
  <2>3. ASSUME NEW q \in Requests, Receive(q) \/ Guard(q) \/ DeadlinePasses(q) PROVE Kept
    <3>1. UNCHANGED <<wk, dirs>>
      BY <2>3 DEF Receive, Guard, GuardTarget, GuardProxy, DeadlinePasses, Expire, lease
    <3> QED
      BY <3>1 DEF UsingDir
  <2> QED
    BY <1>2, <2>1, <2>2, <2>3 DEF Next, serviceVars
<1> HIDE DEF Alone, Kept
<1>3. Spec => [][Kept]_vars
  BY <1>2, LeaseInvariant, PTL DEF Spec
<1>4. Spec => []Alone
  BY <1>1, LeaseInvariant, PTL
<1> QED
  BY <1>3, <1>4 DEF ProfileIsolated, Alone, Kept

\* A 504 that blames the queue means that no Chromium was or will be started.
THEOREM QueueTimeoutIsTrue == Spec => []QueueTimeoutMeansNoBrowser
<1>1. LeaseInv => QueueTimeoutMeansNoBrowser
  BY DEF LeaseInv, PhaseInv, QueueTimeoutMeansNoBrowser
<1> QED
  BY <1>1, LeaseInvariant, PTL

-------------------------------------------------------------------------------
(* Guard and collisions *)

\* The order of the guard's checks decides as the README's list does, for every
\* set of addresses a name may resolve to.
LEMMA Verdicts ==
    ASSUME NEW u \in Urls
    PROVE  /\ Validate(u) = Allowed => Usable(u) /\ ~Blocked(u)
           /\ Validate(u) = Forbidden => Blocked(u)
           /\ Validate(u) \in {BadRequest, ServerError} => ~Usable(u)
<1> USE DEF Allowed, BadRequest, Forbidden, ServerError
<1>1. \A ip \in u.answer : ip \in Addresses
  BY DEF Urls
<1>2. \A ip \in Addresses : IsBlockedIp(ip) <=> Reaches(ip) \in Listed
  <2>1. ASSUME NEW k \in Kinds
        PROVE  /\ IsBlockedIp(Plain(k)) <=> k # "public"
               /\ IsBlockedIp(Nat64(k)) <=> k # "public"
               /\ Reaches(Plain(k)) = Plain(k) /\ Reaches(Nat64(k)) = Plain(k)
    BY <2>1 DEF IsBlockedIp, Reaches, Plain, Nat64, Kinds
  <2>2. ASSUME NEW k \in Kinds PROVE Plain(k) \in Listed <=> k # "public"
    BY <2>2 DEF Listed, Plain
  <2>3. ~IsBlockedIp(Unreadable) /\ Reaches(Unreadable) = Unreadable /\ Unreadable \notin Listed
    BY DEF IsBlockedIp, Reaches, Unreadable, Plain, Nat64, Kinds, Listed
  <2> QED
    BY <2>1, <2>2, <2>3 DEF Addresses
<1>3. (\E ip \in u.answer : IsBlockedIp(ip)) <=> (\E ip \in u.answer : Reaches(ip) \in Listed)
  BY <1>1, <1>2
<1>4. /\ u.port \in {"readable", "malformed"} /\ u.parses \in BOOLEAN /\ u.web \in BOOLEAN
      /\ u.host \in {"none", "localhost", "sub.localhost", "name", "unencodable"}
  BY DEF Urls
<1> QED
  BY <1>3, <1>4 DEF Validate, Usable, Blocked, LocalName

\* Only the guard moves a request on from the guard, or answers it there.
LEMMA GuardAlone ==
    ASSUME LeaseInv, [Next]_serviceVars, NEW r \in Requests, co[r] \in {"target", "proxy"}
    PROVE  Guard(r) \/ (co'[r] = co[r] /\ status'[r] = status[r])
<1> USE DEF LeaseInv, TypeOK
<1>1. ASSUME NEW q \in Requests, Receive(q) \/ DeadlinePasses(q)
      PROVE  co'[r] = co[r] /\ status'[r] = status[r]
  BY <1>1 DEF Receive, DeadlinePasses, Expire
<1>2. ASSUME NEW q \in Requests, Guard(q), q # r PROVE co'[r] = co[r] /\ status'[r] = status[r]
  BY <1>2 DEF Guard, GuardTarget, GuardProxy, Refuse, Pass, AskProxy
<1>3. ASSUME NEW q \in Requests, LoopRuns(q) PROVE co'[r] = co[r] /\ status'[r] = status[r]
  BY <1>3 DEF LoopRuns, Loop, Admit, GiveUpWaiting, AdmitTimeout, LateAdmission, Submit, Deliver,
              Propagate, DeadlineFires, RunHooks, KillDriver, AnswerTimeout, Finish, FinishTimeout
<1>4. ASSUME NEW q \in Requests, WorkerRuns(q) PROVE co'[r] = co[r] /\ status'[r] = status[r]
  BY <1>4, WorkLeavesLoop DEF WorkerRuns
<1>5. UNCHANGED serviceVars => co'[r] = co[r] /\ status'[r] = status[r]
  BY DEF serviceVars, vars
<1> QED
  BY <1>1, <1>2, <1>3, <1>4, <1>5 DEF Next

\* What the guard lets through is usable and not blocked, what it answers 403 is
\* blocked and what it answers 400 or 500 unusable, whatever targets, proxies and
\* resolver answers there are.
THEOREM GuardIsTruthful == Spec => GuardTruthful
<1> DEFINE Truthful(r) == co[r] \in {"target", "proxy"} =>
               /\ co'[r] \in {"proxy", "admit"} /\ co'[r] # co[r]
                      => Usable(asks[r]) /\ ~Blocked(asks[r])
               /\ status'[r] = Forbidden => Blocked(asks[r])
               /\ status'[r] \in {BadRequest, ServerError} => ~Usable(asks[r])
<1>1. ASSUME LeaseInv, [Next]_serviceVars, NEW r \in Requests PROVE Truthful(r)
  <2>1. SUFFICES ASSUME co[r] \in {"target", "proxy"} PROVE Truthful(r)
    OBVIOUS
  <2>2. asks[r] \in Urls /\ status[r] = 0
    BY <1>1, <2>1 DEF LeaseInv, GuardInv, AnswerInv
  <2>3. CASE Guard(r)
    BY <1>1, <2>2, <2>3, Verdicts DEF LeaseInv, TypeOK, Guard, GuardTarget, GuardProxy, Refuse,
       Pass, AskProxy, Allowed, BadRequest, Forbidden, ServerError
  <2>4. CASE co'[r] = co[r] /\ status'[r] = status[r]
    BY <2>2, <2>4 DEF BadRequest, Forbidden, ServerError
  <2> QED
    BY <1>1, <2>1, <2>3, <2>4, GuardAlone
<1>2. LeaseInv /\ [Next]_serviceVars => [\A r \in Requests : Truthful(r)]_serviceVars
  BY <1>1
<1> QED
  BY <1>2, LeaseInvariant, PTL DEF Spec, GuardTruthful

\* Only _register_request_id makes a collision of a request.
LEMMA CollisionsRegister ==
    ASSUME LeaseInv, [Next]_serviceVars, NEW r \in Requests,
           result'[r] = "collision", result[r] # "collision"
    PROVE  RegisterRequestId(r) /\ IdOf(r) \in active
<1> USE DEF LeaseInv, TypeOK
<1>1. ASSUME NEW q \in Requests, WorkerRuns(q) PROVE RegisterRequestId(r) /\ IdOf(r) \in active
  <2>1. \/ RegisterRequestId(q) \/ UNCHANGED result
        \/ \E o \in {"ok", "error", "raised"} : result' = [result EXCEPT ![q] = o]
    BY <1>1 DEF WorkerRuns, Work, StartWork, CheckAborted, CheckDeadline, OpenSession,
           PrepareRuntime, SkipRequestTier, StartRequestTier, FinishRequestTier, CheckBudget,
           MarkBoot, CheckAbortedBoot, GiveUpIfAborted, TakeWarm, TakeNothing, AssignWarm, Bind,
           PrepareRuntimeDir, PrepareProfileDirs, MakeDirs, CheckAbortedCold, CreateDriver,
           AssignDriver, ReadDriver, ConfigureDriver, MarkWork, Attempts, ExitForceClose,
           CloseDriver, RemoveRuntimeDir, UnregisterRequestId, CompleteFuture
  <2> QED
    BY <2>1 DEF RegisterRequestId
<1>2. ASSUME NEW q \in Requests, LoopRuns(q) PROVE UNCHANGED result
  BY <1>2 DEF LoopRuns, Loop, Admit, GiveUpWaiting, AdmitTimeout, LateAdmission, Submit, Deliver,
              Propagate, DeadlineFires, RunHooks, KillDriver, AnswerTimeout
<1>3. ASSUME NEW q \in Requests, Receive(q) \/ Guard(q) \/ DeadlinePasses(q) PROVE UNCHANGED result
  BY <1>3 DEF Receive, Guard, GuardTarget, GuardProxy, DeadlinePasses, Expire, lease
<1>4. UNCHANGED serviceVars => UNCHANGED result
  BY DEF serviceVars, vars
<1> QED
  BY <1>1, <1>2, <1>3, <1>4 DEF Next

\* A 400 for a collision goes to a client that sent an id which another session has
\* at that moment: no id leaks, and fresh ids never collide.
THEOREM CollisionsAreReal == Spec => CollisionIsReal
<1> DEFINE Real(r) == result'[r] = "collision" /\ result[r] # "collision" =>
               /\ inbound[r] \in ClientIds
               /\ \E q \in Registered \ {r} : inbound[q] = inbound[r]
<1>1. ASSUME LeaseInv, [Next]_serviceVars, NEW r \in Requests PROVE Real(r)
  <2>1. SUFFICES ASSUME result'[r] = "collision", result[r] # "collision"
                 PROVE  /\ inbound[r] \in ClientIds
                        /\ \E q \in Registered \ {r} : inbound[q] = inbound[r]
    OBVIOUS
  <2>2. wk[r] = "register" /\ IdOf(r) \in active
    BY <1>1, <2>1, CollisionsRegister DEF RegisterRequestId
  <2>3. \E q \in Registered : IdOf(q) = IdOf(r)
    BY <1>1, <2>2 DEF LeaseInv, IdInv
  <2>4. r \notin Registered /\ Registered \subseteq Requests
    BY <2>2 DEF Registered
  <2> QED
    BY <2>3, <2>4, IdsAssumption DEF IdOf, ResolveRequestId
<1>2. LeaseInv /\ [Next]_serviceVars => [\A r \in Requests : Real(r)]_serviceVars
  BY <1>1
<1> QED
  BY <1>2, LeaseInvariant, PTL DEF Spec, CollisionIsReal

-------------------------------------------------------------------------------
(* ScrapeService implements ScrapeContract *)

Answered == [r \in Requests |-> AnswerOf(r)]
Over == {r \in Requests : wk[r] \in {"return", "done"}}

\* Who is served is registered.
LEMMA ServedIsRegistered == ASSUME NEW r \in Requests PROVE Contract!Served(r) <=> r \in Registered
<1>1. \A q \in Registered : <<IdOf(q), q>>[2] = q
  OBVIOUS
<1> QED
  BY <1>1 DEF Contract!Served

\* Ids in use are the registry's.
LEMMA UsedIsActive == ASSUME IdInv, NEW i PROVE Contract!InUse(i) <=> i \in active
<1>1. \A q \in Registered : <<IdOf(q), q>>[1] = IdOf(q)
  OBVIOUS
<1> QED
  BY <1>1 DEF Contract!InUse, IdInv

\* What the contract sees of a step in which the coroutine of r and its answer stand.
LEMMA NoAnswerChanges ==
    ASSUME UNCHANGED <<co, status, reported>> PROVE Answered' = Answered
BY DEF Answered, AnswerOf

\* A step of r's coroutine can only give r an answer, and gives it when it gets to
\* the end of process().
LEMMA OnlyAnswersOwn ==
    ASSUME NEW r \in Requests,
           \A q \in Requests \ {r} : /\ co'[q] = co[q] /\ status'[q] = status[q]
                                     /\ reported'[q] = reported[q]
    PROVE  /\ Answered' = [Answered EXCEPT ![r] = AnswerOf(r)']
           /\ co[r] # "answered" /\ co'[r] # "answered" => Answered' = Answered
<1>1. ASSUME NEW q \in Requests, q # r PROVE AnswerOf(q)' = AnswerOf(q)
  <2>1. co'[q] = co[q] /\ status'[q] = status[q] /\ reported'[q] = reported[q]
    BY <1>1
  <2> QED
    BY <2>1 DEF AnswerOf
<1>2. Answered' = [q \in Requests |-> AnswerOf(q)']
  BY DEF Answered
<1>3. co[r] # "answered" /\ co'[r] # "answered" => AnswerOf(r)' = AnswerOf(r)
  BY DEF AnswerOf
<1> QED
  BY <1>1, <1>2, <1>3 DEF Answered

\* Steps that the contract does not see.
LEMMA Unseen ==
    ASSUME UNCHANGED <<Answered, inbound, Registered, Over, browser>>
    PROVE  UNCHANGED Contract!vars
BY DEF Contract!vars, Answered, Registered, Over, IdOf

\* No service has begun, and no answer was given.
LEMMA InitRefines == ASSUME ServiceInit PROVE Contract!Init
BY DEF ServiceInit, Init, Contract!Init, Registered, WkSteps, AnswerOf

\* To register an id is to Serve under it; where it is in use, r's service ends.
LEMMA RegisterRefines ==
    ASSUME LeaseInv, NEW r \in Requests, RegisterRequestId(r)
    PROVE  (\E i \in Ids : Contract!Serve(r, i)) \/ Contract!End(r)
<1> USE DEF LeaseInv, TypeOK
<1>1. UNCHANGED <<Answered, inbound, browser>>
  BY NoAnswerChanges DEF RegisterRequestId
<1>2. wk[r] = "register" /\ r \notin Registered /\ r \notin Over /\ browser[r] = "none"
  BY DEF RegisterRequestId, Registered, Over, ChromiumInv, BeforeChromium
<1>3. Answered[r] # "final"
  BY <1>2 DEF Answered, AnswerOf, AnswerInv
<1>4. CASE IdOf(r) \in active
  <2>1. Registered' = Registered /\ Over' = Over \cup {r}
    BY <1>4 DEF RegisterRequestId, Registered, Over, WkSteps
  <2> QED
    BY <1>1, <1>2, <1>3, <2>1 DEF Contract!End, Answered, Over, IdOf
<1>5. CASE IdOf(r) \notin active
  <2>1. Registered' = Registered \cup {r} /\ Over' = Over
    BY <1>5 DEF RegisterRequestId, Registered, Over, WkSteps
  <2>2. ~Contract!Served(r) /\ ~Contract!InUse(IdOf(r))
    BY <1>2, <1>5, ServedIsRegistered, UsedIsActive
  <2> QED
    <3>1. \A i \in Ids : i = IdOf(r) => Contract!Serve(r, i)
      BY <1>1, <1>2, <1>3, <2>1, <2>2 DEF Contract!Serve, Answered, Over, IdOf
    <3>2. IdOf(r) \in Ids
      BY DEF Ids, IdOf, ResolveRequestId
    <3> QED
      BY <3>1, <3>2
<1> QED
  BY <1>4, <1>5

\* A service that ends before it got an id, in __enter__ or with the session.
LEMMA EndRefines ==
    ASSUME LeaseInv, NEW r \in Requests, wk' = [wk EXCEPT ![r] = "return"],
           wk[r] \in {"start", "deadline", "prepare", "unregister"},
           UNCHANGED <<co, status, reported, inbound, browser>>
    PROVE  Contract!End(r)
<1> USE DEF LeaseInv, TypeOK
<1>1. Answered' = Answered
  BY NoAnswerChanges
<1>2. Registered' = Registered \ {r} /\ Over' = Over \cup {r} /\ r \notin Over
  BY DEF Registered, Over, WkSteps
<1>3. Answered[r] # "final"
  BY DEF Answered, AnswerOf, AnswerInv
<1>4. browser[r] = "running" => Answered[r] = "none"
  BY DEF ChromiumInv, BeforeChromium, AloneWithIt, Driving, Answered, AnswerOf
<1> QED
  BY <1>1, <1>2, <1>3, <1>4 DEF Contract!End, Answered, Over, IdOf

\* A Chromium is taken from the pool or booted by a session that has its id, and
\* not after the client was told that it waited in the queue.
LEMMA LaunchRefines ==
    ASSUME LeaseInv, NEW r \in Requests, wk[r] \in {"take", "boot"},
           wk' = [wk EXCEPT ![r] = IF wk[r] = "take" THEN "adopt" ELSE "assign"],
           browser' = [browser EXCEPT ![r] = "running"],
           UNCHANGED <<co, status, reported, inbound>>
    PROVE  Contract!Launch(r)
<1> USE DEF LeaseInv, TypeOK
<1>1. Answered' = Answered
  BY NoAnswerChanges
<1>2. Registered' = Registered /\ Over' = Over /\ r \in Registered
  BY DEF Registered, Over, WkSteps
<1>3. browser[r] = "none"
  BY DEF ChromiumInv, BeforeChromium
<1>4. Answered[r] # "queue timeout"
  BY DEF Answered, AnswerOf, PhaseInv, Booting
<1>5. Contract!Served(r)
  BY <1>2, ServedIsRegistered
<1> QED
  BY <1>1, <1>2, <1>3, <1>4, <1>5 DEF Contract!Launch, Answered, Over, IdOf

\* Exit and reclaim Close a Chromium that runs.
LEMMA CloseRefines ==
    ASSUME LeaseInv, NEW r \in Requests, CloseDriver(r) \/ KillDriver(r)
    PROVE  Contract!Close(r)
<1> USE DEF LeaseInv, TypeOK
<1>1. Answered' = Answered /\ UNCHANGED inbound
  <2>1. CASE CloseDriver(r)
    BY <2>1, NoAnswerChanges DEF CloseDriver
  <2>2. CASE KillDriver(r)
    BY <2>2 DEF KillDriver, Answered, AnswerOf
  <2> QED
    BY <2>1, <2>2
<1>2. Registered' = Registered /\ Over' = Over
  BY DEF CloseDriver, KillDriver, Kill, Registered, Over, WkSteps
<1>3. browser[r] = "running" /\ browser' = [browser EXCEPT ![r] = "closed"]
  BY DEF CloseDriver, KillDriver, Kill, ChromiumInv, AloneWithIt
<1> QED
  BY <1>1, <1>2, <1>3 DEF Contract!Close, Answered, Over, IdOf

\* Every answer the loop or the guard gives is an Answer of the contract.
LEMMA AnswerRefines ==
    ASSUME LeaseInv, NEW r \in Requests, NEW a \in Contract!Answers,
           co[r] # "answered", Answered' = [Answered EXCEPT ![r] = a],
           a = "queue timeout" => browser[r] = "none",
           a = "final" => wk[r] \in {"none", "done"},
           co[r] # "killing",
           UNCHANGED <<inbound, wk, browser>>
    PROVE  Contract!Answer(r, a)
<1> USE DEF LeaseInv, TypeOK
<1>1. Registered' = Registered /\ Over' = Over
  BY DEF Registered, Over
<1>2. a = "final" => ~Contract!Served(r)
  BY ServedIsRegistered DEF Registered
<1>3. browser[r] = "running" => r \in Registered
  BY DEF ChromiumInv, AloneWithIt, Driving, Registered, WkSteps
<1>4. browser[r] = "running" => Contract!Served(r)
  BY <1>3, ServedIsRegistered
<1>5. Answered[r] = "none"
  BY DEF Answered, AnswerOf
<1>6. UNCHANGED <<{<<IdOf(q), q>> : q \in Registered}, Over, browser>>
  BY <1>1 DEF IdOf
<1> QED
  BY <1>2, <1>4, <1>5, <1>6 DEF Contract!Answer, Answered, Over

\* What else a worker does between registration and exit.
LEMMA QuietRefines ==
    ASSUME NEW r \in Requests, Work(r), UNCHANGED <<Registered, Over, browser>>
    PROVE  UNCHANGED Contract!vars
BY WorkLeavesLoop, NoAnswerChanges, Unseen

\* A worker serves, launches, closes, ends, or does what the contract leaves open.
LEMMA WorkRefines ==
    ASSUME LeaseInv, NEW r \in Requests, Work(r)
    PROVE  [Contract!Next]_(Contract!vars)
<1> USE DEF LeaseInv, TypeOK
<1>1. UNCHANGED <<co, status, reported, inbound>>
  BY WorkLeavesLoop
<1>2. CASE RegisterRequestId(r)
  BY <1>2, RegisterRefines DEF Contract!Next
<1>3. CASE CloseDriver(r)
  BY <1>3, CloseRefines DEF Contract!Next
<1>4. CASE TakeWarm(r)
  BY <1>1, <1>4, LaunchRefines DEF TakeWarm, Contract!Next
<1>5. CASE CreateDriver(r)
  <2>1. CASE WkGoes(r, "boot", "assign") /\ browser' = [browser EXCEPT ![r] = "running"]
    BY <1>1, <2>1, LaunchRefines DEF Contract!Next
  <2>2. CASE WkGoes(r, "boot", "exit") /\ UNCHANGED browser
    BY <2>2, QuietRefines DEF Registered, Over, WkSteps
  <2> QED
    BY <1>5, <2>1, <2>2 DEF CreateDriver
<1>6. CASE CheckAborted(r) \/ CheckDeadline(r) \/ PrepareRuntime(r) \/ UnregisterRequestId(r)
  <2>1. UNCHANGED browser
    BY <1>6 DEF CheckAborted, CheckDeadline, PrepareRuntime, UnregisterRequestId
  <2>2. CASE /\ wk' = [wk EXCEPT ![r] = "return"]
             /\ wk[r] \in {"start", "deadline", "prepare", "unregister"}
    BY <1>1, <2>1, <2>2, EndRefines DEF Contract!Next
  <2>3. CASE WkGoes(r, "start", "deadline") \/ WkGoes(r, "deadline", "session")
             \/ WkGoes(r, "prepare", "tier")
    BY <2>1, <2>3, QuietRefines DEF Registered, Over, WkSteps
  <2> QED
    BY <1>6, <2>2, <2>3 DEF CheckAborted, CheckDeadline, PrepareRuntime, UnregisterRequestId
<1>7. CASE StartWork(r) \/ OpenSession(r) \/ CompleteFuture(r)
  <2>1. UNCHANGED <<Registered, Over, browser>>
    BY <1>7 DEF StartWork, OpenSession, CompleteFuture, Registered, Over, WkSteps
  <2> QED
    BY <2>1, QuietRefines
<1>8. CASE \/ SkipRequestTier(r) \/ StartRequestTier(r) \/ FinishRequestTier(r)
           \/ CheckBudget(r) \/ MarkBoot(r) \/ CheckAbortedBoot(r) \/ TakeNothing(r)
           \/ AssignWarm(r) \/ PrepareRuntimeDir(r) \/ PrepareProfileDirs(r)
  <2>1. UNCHANGED <<Registered, Over, browser>>
    BY <1>8 DEF SkipRequestTier, StartRequestTier, FinishRequestTier, CheckBudget, MarkBoot,
                CheckAbortedBoot, GiveUpIfAborted, TakeNothing, AssignWarm, Bind,
                PrepareRuntimeDir, PrepareProfileDirs, MakeDirs, Registered, Over, WkSteps
  <2> QED
    BY <2>1, QuietRefines
<1>9. CASE \/ CheckAbortedCold(r) \/ AssignDriver(r) \/ ReadDriver(r) \/ ConfigureDriver(r)
            \/ MarkWork(r) \/ Attempts(r) \/ ExitForceClose(r) \/ RemoveRuntimeDir(r)
  <2>1. UNCHANGED <<Registered, Over, browser>>
    BY <1>9 DEF CheckAbortedCold, GiveUpIfAborted, AssignDriver, Bind, ReadDriver,
                 ConfigureDriver, MarkWork, Attempts, ExitForceClose, RemoveRuntimeDir,
                 Registered, Over, WkSteps
  <2> QED
    BY <2>1, QuietRefines
<1> QED
  BY <1>2, <1>3, <1>4, <1>5, <1>6, <1>7, <1>8, <1>9 DEF Work

\* The loop answers, closes what it reclaims, or waits.
LEMMA LoopRefines ==
    ASSUME LeaseInv, NEW r \in Requests, Loop(r)
    PROVE  [Contract!Next]_(Contract!vars)
<1> USE DEF LeaseInv, TypeOK
<1>1. CASE AdmitTimeout(r) \/ LateAdmission(r)
  <2>1. UNCHANGED <<inbound, wk, browser>> /\ co[r] \in {"refused", "admitted"}
    BY <1>1 DEF AdmitTimeout, LateAdmission
  <2>2. Answered' = [Answered EXCEPT ![r] = AnswerOf(r)']
    BY <1>1, OnlyAnswersOwn DEF AdmitTimeout, LateAdmission, FinishTimeout, Finish
  <2>3. AnswerOf(r)' = "queue timeout"
    BY <1>1 DEF AdmitTimeout, LateAdmission, FinishTimeout, Finish, AnswerOf
  <2>4. browser[r] = "none"
    BY <2>1 DEF AnswerInv, ChromiumInv, BeforeChromium
  <2> QED
    BY <2>1, <2>2, <2>3, <2>4, AnswerRefines DEF Contract!Next, Contract!Answers
<1>2. CASE Deliver(r) \/ Propagate(r)
  <2>1. UNCHANGED <<inbound, wk, browser>> /\ co[r] = "waiting" /\ wk[r] = "done"
    BY <1>2 DEF Deliver, Propagate
  <2>2. Answered' = [Answered EXCEPT ![r] = AnswerOf(r)']
    BY <1>2, OnlyAnswersOwn DEF Deliver, Propagate, Finish
  <2>3. AnswerOf(r)' = "final"
    BY <1>2 DEF Deliver, Propagate, Finish, StatusOf, AnswerOf
  <2> QED
    BY <2>1, <2>2, <2>3, AnswerRefines DEF Contract!Next, Contract!Answers
<1>3. CASE AnswerTimeout(r)
  <2>1. UNCHANGED <<inbound, wk, browser>> /\ co[r] = "reclaimed"
    BY <1>3 DEF AnswerTimeout
  <2>2. Answered' = [Answered EXCEPT ![r] = AnswerOf(r)']
    BY <1>3, OnlyAnswersOwn DEF AnswerTimeout, FinishTimeout, Finish
  <2>3. AnswerOf(r)' = IF phase[r] = "queue" THEN "queue timeout" ELSE "timeout"
    BY <1>3 DEF AnswerTimeout, FinishTimeout, Finish, AnswerOf
  <2>4. phase[r] = "queue" => browser[r] = "none"
    BY DEF PhaseInv
  <2> QED
    BY <2>1, <2>2, <2>3, <2>4, AnswerRefines DEF Contract!Next, Contract!Answers
<1>4. CASE KillDriver(r)
  BY <1>4, CloseRefines DEF Contract!Next
<1>5. CASE Submit(r)
  <2>1. Answered' = Answered /\ UNCHANGED <<inbound, browser>>
    BY <1>5, OnlyAnswersOwn DEF Submit
  <2>2. UNCHANGED <<Registered, Over>>
    BY <1>5 DEF Submit, AnswerInv, Registered, Over, WkSteps
  <2> QED
    BY <2>1, <2>2, Unseen
<1>6. CASE Admit(r) \/ GiveUpWaiting(r) \/ DeadlineFires(r) \/ RunHooks(r)
  <2>1. Answered' = Answered /\ UNCHANGED <<inbound, browser, wk>>
    BY <1>6, OnlyAnswersOwn DEF Admit, GiveUpWaiting, DeadlineFires, RunHooks
  <2>2. UNCHANGED <<Registered, Over>>
    BY <2>1 DEF Registered, Over
  <2> QED
    BY <2>1, <2>2, Unseen
<1> QED
  BY <1>1, <1>2, <1>3, <1>4, <1>5, <1>6 DEF Loop

\* Before the lease nothing is served: to take a new id or URL changes nothing, a
\* refusal is a final answer.
LEMMA FrontRefines ==
    ASSUME LeaseInv, NEW r \in Requests, Receive(r) \/ Guard(r) \/ DeadlinePasses(r)
    PROVE  [Contract!Next]_(Contract!vars)
<1> USE DEF LeaseInv, TypeOK, lease
<1>1. CASE Receive(r)
  <2>1. Answered' = Answered /\ UNCHANGED <<browser, wk>> /\ wk[r] = "none"
    <3>1. UNCHANGED <<browser, wk, status, reported>> /\ co[r] = "new"
      BY <1>1 DEF Receive
    <3>2. co' = [co EXCEPT ![r] = "target"]
      BY <1>1 DEF Receive
    <3>3. wk[r] = "none"
      BY <3>1 DEF AnswerInv
    <3>4. /\ \A q \in Requests \ {r} : /\ co'[q] = co[q] /\ status'[q] = status[q]
                                       /\ reported'[q] = reported[q]
          /\ co[r] # "answered" /\ co'[r] # "answered"
      BY <3>1, <3>2
    <3> QED
      BY <3>1, <3>3, <3>4, OnlyAnswersOwn
  <2>2. Registered' = Registered /\ Over' = Over /\ r \notin Registered
    BY <2>1 DEF Registered, Over, WkSteps
  <2>3. \A q \in Registered : IdOf(q)' = IdOf(q)
    BY <1>1, <2>2 DEF Receive, IdOf, Registered
  <2> QED
    BY <2>1, <2>2, <2>3 DEF Contract!vars, Answered, Over
<1>2. CASE Guard(r) /\ Refuse(r)
  <2>1. /\ UNCHANGED <<inbound, wk, browser, reported>> /\ co[r] \in {"target", "proxy"}
        /\ co' = [co EXCEPT ![r] = "answered"]
        /\ status' = [status EXCEPT ![r] = Validate(asks[r])]
    BY <1>2 DEF Guard, GuardTarget, GuardProxy, Refuse
  <2>2. Validate(asks[r]) # 504
    BY DEF Validate, Allowed, BadRequest, Forbidden, ServerError
  <2>3. Answered' = [Answered EXCEPT ![r] = AnswerOf(r)']
    BY <2>1, OnlyAnswersOwn
  <2>4. AnswerOf(r)' = "final" /\ wk[r] = "none"
    BY <2>1, <2>2 DEF AnswerOf, AnswerInv
  <2> QED
    BY <2>1, <2>3, <2>4, AnswerRefines DEF Contract!Next, Contract!Answers
<1>3. CASE (Guard(r) /\ (Pass(r) \/ AskProxy(r))) \/ DeadlinePasses(r)
  <2>1. Answered' = Answered /\ UNCHANGED <<inbound, browser, wk>>
    BY <1>3, OnlyAnswersOwn
       DEF Guard, GuardTarget, GuardProxy, Pass, AskProxy, DeadlinePasses, Expire
  <2>2. UNCHANGED <<Registered, Over>>
    BY <2>1 DEF Registered, Over
  <2> QED
    BY <2>1, <2>2, Unseen
<1> QED
  BY <1>1, <1>2, <1>3 DEF Guard, GuardTarget, GuardProxy

\* Every step of service, worker, session and reclaim is a step of the contract or
\* changes nothing it speaks of.
LEMMA NextRefines ==
    ASSUME LeaseInv, [Next]_serviceVars PROVE [Contract!Next]_(Contract!vars)
<1>1. CASE UNCHANGED serviceVars
  <2>1. UNCHANGED <<co, status, reported, inbound, wk, browser>>
    BY <1>1 DEF serviceVars, vars
  <2>2. UNCHANGED <<Answered, Registered, Over>>
    BY <2>1, NoAnswerChanges DEF Registered, Over
  <2> QED
    BY <2>1, <2>2, Unseen
<1> QED
  BY <1>1, WorkRefines, LoopRefines, FrontRefines DEF Next, WorkerRuns, LoopRuns

\* The service keeps the contract with its clients and with the machine, and with it
\* the promises that ScrapeContractProofs draws from the contract.
THEOREM ServiceImplementsContract == Spec => ImplementsContract
BY InitRefines, NextRefines, LeaseInvariant, PTL DEF Spec, ImplementsContract, Contract!Spec
===============================================================================
