--------------------------- MODULE ScrapeTiersProofs ---------------------------
(***************************************************************************)
(* ScrapeTiers for all timeouts, pauses and retry limits: the answer fits  *)
(* the page, a challenge is retried after a bypass only, the tiers are     *)
(* what the mode promises, and how late a scrape can be.                   *)
(***************************************************************************)
EXTENDS ScrapeTiers, TLAPS

Surfaces == {Unseen, Unreadable} \cup Inspected \cup Settled

\* The front of execute(), and the loop of run_browser_tier.
FrontSteps == {"route", "exchange", "judge", "budget", "boot"}
LoopSteps == {"attempt", "navigate", "ready", "wait", "scroll", "settle", "bypass", "inspect"}

\* An attempt is counted when it begins, and is begun only while strategies are
\* left; who found the page hostile is answering, or about to try a bypass; the
\* harvest of an attempt comes last.
LoopInv == /\ pc \in FrontSteps => attempts = 0 /\ challenge = "none"
           /\ pc = "attempt" => attempts < Strategies
           /\ pc \notin {"bypass", "done"} => challenge # "seen"
           /\ pc \notin {"attempt", "inspect", "done"} => harvests = 0

\* There is an answer when, and only when, the scrape is done; then nothing looks
\* at the page any more.
AnswerInv == /\ outcome # "none" => pc = "done"
             /\ pc = "judge" => surface \in Settled
             /\ AnswerFitsSurface

\* Who is on the way to a browser did not insist on HTTP, and whose answer comes
\* from the loop has had one.
TierInv == /\ pc \in {"exchange", "judge"} => tier = "http"
           /\ pc \in {"budget", "boot"} \cup LoopSteps => mode # "request"
           /\ pc \in {"boot"} \cup LoopSteps => tier = "browser"
           /\ TiersAsModePromises

\* The budget of an attempt ends with both timeouts; the wait uses it again, and the
\* pauses and looks come on top.
LongestWait == Larger(WaitTime(WorkTimeout), Pause) + Reading
Longest == LongestWait + 2 * Pause + 3 * Reading
Waited == WaitTime(WorkTimeout) - WaitTime(waitLeft)
Used == elapsed - ready
Within(total, work) == elapsed <= TotalTimeout + total /\ Used <= WorkTimeout + work

TimeInv == /\ ready <= elapsed
           /\ pc \in FrontSteps => elapsed <= TotalTimeout
           /\ pc = "navigate" => elapsed + budget <= TotalTimeout /\ Used + budget <= WorkTimeout
           /\ pc = "ready" => Within(0, 0)
           /\ pc = "wait" => Within(Waited, Waited)
           /\ pc = "scroll" => Within(LongestWait, LongestWait)
           /\ pc = "settle" => Within(LongestWait + Pause, LongestWait + Pause)
           /\ pc = "bypass" => Within(LongestWait + Pause + Reading, LongestWait + Pause + Reading)
           /\ pc = "inspect" => Within(Longest - Reading, Longest - Reading)
           /\ pc \in LoopSteps => Within(Larger(BootTime, Longest), Longest)
           /\ OvershootBounded

ScrapeInv == TypeOK /\ LoopInv /\ AnswerInv /\ TierInv /\ TimeInv

USE BudgetAssumption, StepAssumption, AttemptAssumption, EscalationAssumption
USE DEF vars, front, allVars, loop, answer, FrontSteps, LoopSteps

-------------------------------------------------------------------------------
(* What the detector's findings say *)

\* A finding is clean exactly when nothing in the page is hostile: the order in which
\* Marker looks, and a datadome header on a clean reply, make no difference.
LEMMA FoundTells ==
    ASSUME NEW p \in Pages
    PROVE  /\ Found(p).verdict \in {"clean", "unclean"}
           /\ Found(p).hostile <=> Found(p).verdict # "clean"
<1>1. Detect(p).challenge <=> \/ p.flagged \/ p.marked \/ p.mitigated
                              \/ p.datadome /\ p.status = "blocking"
  BY DEF Detect, Marker, Pages
<1>2. Detect(p).blocked <=> Detect(p).challenge \/ p.status = "blocking"
  BY DEF Detect
<1>3. Found(p).verdict = IF IsClean(Detect(p)) THEN "clean" ELSE "unclean"
  BY DEF Found
<1>4. Found(p).hostile <=> p.flagged \/ p.marked \/ p.mitigated \/ p.status = "blocking"
  BY DEF Found
<1> QED
  BY <1>1, <1>2, <1>3, <1>4 DEF IsClean

\* Whoever looks at a page, its verdict is clean exactly when it is not hostile.
LEMMA SurfacesTell ==
    /\ \A s \in Inspected \cup Settled : s.hostile <=> s.verdict # "clean"
    /\ Unreadable.hostile /\ Unreadable.verdict # "clean"
    /\ ~Unseen.hostile
    /\ MidWait \subseteq Inspected
    /\ \A f \in BOOLEAN : Replied(f) \subseteq Settled
<1>1. \A s \in Inspected \cup Settled : \E p \in Pages : s = Found(p)
  BY DEF Inspected, Settled
<1>2. MidWait \subseteq Inspected
  BY DEF MidWait, Inspected
<1>3. \A f \in BOOLEAN : Replied(f) \subseteq Settled
  BY DEF Replied, Settled
<1> QED
  BY <1>1, <1>2, <1>3, FoundTells DEF Unreadable, Unseen

-------------------------------------------------------------------------------
(* What a wait adds up to *)

\* Dividing, rounding down: one divisor more is one more.
LEMMA OneMore == ASSUME NEW n \in Nat, NEW c \in Nat \ {0} PROVE (n + c) \div c = (n \div c) + 1
OBVIOUS

\* It is a natural number, zero below the divisor, and grows with what is divided.
LEMMA Divided ==
    ASSUME NEW n \in Nat, NEW m \in Nat, NEW c \in Nat \ {0}
    PROVE  /\ n \div c \in Nat
           /\ n < c => n \div c = 0
           /\ n <= m => n \div c <= m \div c
OBVIOUS

\* Each chunk of a wait costs itself and a look.
LEMMA WaitsAddUp ==
    /\ WaitTime(0) = 0
    /\ \A w \in Nat : WaitTime(w) \in Nat /\ WaitTime(w) >= w
    /\ \A v, w \in Nat : v <= w => WaitTime(v) <= WaitTime(w)
    /\ \A w \in Nat \ {0} : WaitTime(w - Lesser(Chunk, w)) + Lesser(Chunk, w) + Reading = WaitTime(w)
<1>1. Looks(0) = 0 /\ \A w \in Nat : Looks(w) \in Nat
  BY Divided DEF Looks
<1>2. ASSUME NEW v \in Nat, NEW w \in Nat, v <= w PROVE Looks(v) <= Looks(w)
  <2>1. v + Chunk - 1 \in Nat /\ w + Chunk - 1 \in Nat /\ v + Chunk - 1 <= w + Chunk - 1
    BY <1>2
  <2> QED
    BY <2>1, Divided DEF Looks
<1>3. ASSUME NEW w \in Nat \ {0} PROVE Looks(w - Lesser(Chunk, w)) + 1 = Looks(w)
  <2>1. Looks(w) = ((w - 1) \div Chunk) + 1
    <3>1. w + Chunk - 1 = (w - 1) + Chunk /\ w - 1 \in Nat
      OBVIOUS
    <3> QED
      BY <3>1, OneMore DEF Looks
  <2>2. CASE w <= Chunk
    <3>1. (w - 1) \div Chunk = 0 /\ w - Lesser(Chunk, w) = 0
      BY <2>2, Divided DEF Lesser
    <3> QED
      BY <1>1, <2>1, <3>1
  <2>3. CASE w > Chunk
    <3>1. w - Lesser(Chunk, w) = w - Chunk /\ (w - Chunk) + Chunk - 1 = w - 1
      BY <2>3 DEF Lesser
    <3>2. Looks(w - Chunk) = (w - 1) \div Chunk
      BY <3>1 DEF Looks
    <3> QED
      BY <2>1, <3>1, <3>2
  <2> QED
    BY <2>2, <2>3
<1>4. \A n \in Nat : n * Reading \in Nat
  OBVIOUS
<1>5. ASSUME NEW m \in Nat, NEW n \in Nat, m <= n PROVE m * Reading <= n * Reading
  BY <1>5
<1>6. \A n \in Nat : (n + 1) * Reading = n * Reading + Reading
  OBVIOUS
<1>7. WaitTime(0) = 0
  BY <1>1 DEF WaitTime
<1>8. \A w \in Nat : WaitTime(w) \in Nat /\ WaitTime(w) >= w
  BY <1>1, <1>4 DEF WaitTime
<1>9. ASSUME NEW v \in Nat, NEW w \in Nat, v <= w PROVE WaitTime(v) <= WaitTime(w)
  <2>1. Looks(v) * Reading <= Looks(w) * Reading
    BY <1>1, <1>2, <1>5, <1>9
  <2> QED
    BY <1>1, <1>4, <1>9, <2>1 DEF WaitTime
<1>10. ASSUME NEW w \in Nat \ {0}
       PROVE  WaitTime(w - Lesser(Chunk, w)) + Lesser(Chunk, w) + Reading = WaitTime(w)
  <2> DEFINE less == w - Lesser(Chunk, w)
  <2>1. less \in Nat /\ Lesser(Chunk, w) \in Nat /\ w = less + Lesser(Chunk, w)
    BY DEF Lesser
  <2>2. Looks(w) * Reading = Looks(less) * Reading + Reading
    BY <1>1, <1>3, <1>6, <2>1
  <2>3. Looks(less) * Reading \in Nat
    BY <1>1, <1>4, <2>1
  <2> QED
    BY <2>1, <2>2, <2>3 DEF WaitTime
<1> QED
  BY <1>7, <1>8, <1>9, <1>10

-------------------------------------------------------------------------------
(* The invariant is inductive *)

\* There is a strategy, and no more of them than retries allow.
LEMMA SomeStrategy == ASSUME payload \in Payloads PROVE Strategies \in 1..(1 + MaxRetries)
<1>1. payload.retries \in 0..MaxRetries /\ payload.auto \in BOOLEAN
  BY DEF Payloads
<1> QED
  BY <1>1 DEF Strategies, Lesser

\* What was asked for does not change, and ready is at most one boot past the deadline.
LEMMA FrontTyped ==
    ASSUME ScrapeInv, Front
    PROVE  TypeOK'
<1> USE DEF ScrapeInv, TypeOK
<1> USE DEF Front, SkipRequestTier, StartRequestTier, ReceiveReply, RequestFails, Escalate,
            AnswerFromReply, CheckBudget, Boot, BootFails, ConfigureRaises, Answer
<1>1. pc' \in {"budget", "exchange", "judge", "boot", "attempt", "done"}
  OBVIOUS
<1>2. elapsed' \in Nat
  BY DEF Takes, TotalLeft, Left
<1>3. ready' \in 0..(TotalTimeout + BootTime)
  <2>1. Boot => elapsed <= TotalTimeout
    BY DEF TimeInv
  <2>2. UNCHANGED ready \/ Boot
    OBVIOUS
  <2>3. Boot => ready' <= elapsed + BootTime /\ ready' \in Nat
    BY <1>2 DEF Takes
  <2> QED
    BY <2>1, <2>2, <2>3
<1>4. surface' \in {Unseen, Unreadable} \cup Inspected \cup Settled
  BY SurfacesTell
<1>5. /\ outcome' \in {"none", "success", "challenge_block", "timeout", "navigation_error", "raised"}
      /\ phase' \in {"none", "boot", "work"}
  OBVIOUS
<1>6. slow' \in BOOLEAN /\ full' \in BOOLEAN /\ tier' \in {"none", "http", "browser"}
  OBVIOUS
<1>7. UNCHANGED <<payload, attempts, budget, waitLeft, challenge, harvests, mode>>
  OBVIOUS
<1> QED
  BY <1>1, <1>2, <1>3, <1>4, <1>5, <1>6, <1>7

\* An attempt is begun while strategies are left, and harvested once.
LEMMA StepTyped ==
    ASSUME ScrapeInv, Step, UNCHANGED front
    PROVE  TypeOK'
<1> USE DEF ScrapeInv, TypeOK
<1> USE DEF Step, BeginAttempt, Navigate, SettleWithoutSelector, StartWait, FoundElement,
            MissedElement, LastLook, Scroll, SettlePageState, BypassChallenge, InspectFailure,
            ProbeMidWait, Answer, Raise, RaiseHarvesting
<1>1. pc' \in LoopSteps \cup {"done"}
  OBVIOUS
<1>2. elapsed' \in Nat
  BY DEF Takes, ThisChunk, Lesser
<1>3. attempts' \in 0..(1 + MaxRetries)
  <2>1. BeginAttempt => attempts < Strategies /\ Strategies \in 1..(1 + MaxRetries)
    BY SomeStrategy DEF LoopInv
  <2>2. UNCHANGED attempts \/ BeginAttempt
    OBVIOUS
  <2> QED
    BY <2>1, <2>2
<1>4. budget' \in 0..WorkTimeout
  <2>1. UNCHANGED budget \/ budget' = StepBudget
    OBVIOUS
  <2>2. StepBudget \in 0..WorkTimeout
    BY DEF StepBudget, Lesser, Left, TimeInv
  <2> QED
    BY <2>1, <2>2
<1>5. waitLeft' \in 0..WorkTimeout
  <2>1. payload.wait \in 1..WorkTimeout
    BY DEF Payloads
  <2>2. UNCHANGED waitLeft \/ waitLeft' \in {0, Lesser(payload.wait, budget), waitLeft - ThisChunk}
    OBVIOUS
  <2> QED
    BY <2>1, <2>2 DEF ThisChunk, Lesser
<1>6. surface' \in {Unseen, Unreadable} \cup Inspected \cup Settled
  BY SurfacesTell
<1>7. harvests' \in 0..1
  BY DEF LoopInv
<1>8. /\ outcome' \in {"none", "success", "challenge_block", "timeout", "navigation_error", "raised"}
      /\ phase' \in {"none", "boot", "work"} /\ slow' \in BOOLEAN
  OBVIOUS
<1>9. UNCHANGED <<payload, ready, mode, full, tier>> /\ challenge' \in {"none", "seen", "bypassed"}
  OBVIOUS
<1> QED
  BY <1>1, <1>2, <1>3, <1>4, <1>5, <1>6, <1>7, <1>8, <1>9

\* The front begins no attempt, and the boot looks at no page.
LEMMA FrontKeepsLoop ==
    ASSUME ScrapeInv, Front
    PROVE  LoopInv'
<1> USE DEF ScrapeInv, TypeOK, LoopInv, Strategies, Lesser
<1>1. CASE SkipRequestTier \/ StartRequestTier \/ ReceiveReply
  BY <1>1, SurfacesTell DEF SkipRequestTier, ShouldTryRequestTier, StartRequestTier, Answer,
                            ReceiveReply, Takes
<1>2. CASE RequestFails \/ Escalate \/ AnswerFromReply
  BY <1>2, SurfacesTell DEF RequestFails, Takes, Answer, Escalate, WorthEscalating,
                            AnswerFromReply, CleanSuccess, Clean
<1>3. CASE CheckBudget \/ Boot \/ BootFails \/ ConfigureRaises
  BY <1>3, SurfacesTell, SomeStrategy DEF CheckBudget, Answer, Boot, Takes, BootFails, ConfigureRaises
<1> QED
  BY <1>1, <1>2, <1>3 DEF Front

\* A failed attempt is followed by another only from a clean look, while strategies
\* are left, and who sees a challenge goes to the bypass or answers.
LEMMA StepKeepsLoop ==
    ASSUME ScrapeInv, Step, UNCHANGED front
    PROVE  LoopInv'
<1> USE DEF ScrapeInv, TypeOK, LoopInv, Strategies, Lesser
<1>1. CASE BeginAttempt \/ Navigate
  BY <1>1, SurfacesTell DEF BeginAttempt, Answer, Navigate, Takes, Raise
<1>2. CASE SettleWithoutSelector \/ StartWait
  BY <1>2, SurfacesTell DEF SettleWithoutSelector, Takes, ProbeMidWait, Clean, Answer, Raise,
                            StartWait
<1>3. CASE FoundElement \/ MissedElement
  BY <1>3, SurfacesTell DEF FoundElement, Takes, MissedElement, ProbeMidWait, Clean, Answer
<1>4. CASE LastLook \/ Scroll
  BY <1>4, SurfacesTell DEF LastLook, Takes, Raise, Scroll
<1>5. CASE SettlePageState \/ BypassChallenge
  BY <1>5, SurfacesTell DEF SettlePageState, Clean, Answer, RaiseHarvesting, Raise,
                            BypassChallenge, Takes
<1>6. CASE InspectFailure
  BY <1>6, SurfacesTell DEF InspectFailure, Takes, Clean, Answer, HasMore
<1> QED
  BY <1>1, <1>2, <1>3, <1>4, <1>5, <1>6 DEF Step

\* The front answers from a reply it has just looked at, or not at all.
LEMMA FrontKeepsAnswer ==
    ASSUME ScrapeInv, Front
    PROVE  AnswerInv'
<1> USE DEF ScrapeInv, TypeOK, AnswerInv, AnswerFitsSurface
<1>1. CASE SkipRequestTier \/ StartRequestTier \/ ReceiveReply
  BY <1>1, SurfacesTell DEF SkipRequestTier, ShouldTryRequestTier, StartRequestTier, Answer,
                            ReceiveReply, Takes
<1>2. CASE RequestFails \/ Escalate \/ AnswerFromReply
  BY <1>2, SurfacesTell DEF RequestFails, Takes, Answer, Escalate, WorthEscalating,
                            AnswerFromReply, CleanSuccess, Clean
<1>3. CASE CheckBudget \/ Boot \/ BootFails \/ ConfigureRaises
  BY <1>3, SurfacesTell DEF CheckBudget, Answer, Boot, Takes, BootFails, ConfigureRaises
<1> QED
  BY <1>1, <1>2, <1>3 DEF Front

\* Each look at the page decides where the loop goes on, or what is answered.
LEMMA StepKeepsAnswer ==
    ASSUME ScrapeInv, Step, UNCHANGED front
    PROVE  AnswerInv'
<1> USE DEF ScrapeInv, TypeOK, AnswerInv, AnswerFitsSurface
<1>1. CASE BeginAttempt \/ Navigate
  BY <1>1, SurfacesTell DEF BeginAttempt, Answer, Navigate, Takes, Raise
<1>2. CASE SettleWithoutSelector \/ StartWait
  BY <1>2, SurfacesTell DEF SettleWithoutSelector, Takes, ProbeMidWait, Clean, Answer, Raise,
                            StartWait
<1>3. CASE FoundElement \/ MissedElement
  BY <1>3, SurfacesTell DEF FoundElement, Takes, MissedElement, ProbeMidWait, Clean, Answer
<1>4. CASE LastLook \/ Scroll
  BY <1>4, SurfacesTell DEF LastLook, Takes, Raise, Scroll
<1>5. CASE SettlePageState \/ BypassChallenge
  BY <1>5, SurfacesTell DEF SettlePageState, Clean, Answer, RaiseHarvesting, Raise,
                            BypassChallenge, Takes
<1>6. CASE InspectFailure
  BY <1>6, SurfacesTell DEF InspectFailure, Takes, Clean, Answer, HasMore
<1> QED
  BY <1>1, <1>2, <1>3, <1>4, <1>5, <1>6 DEF Step

\* In request mode every way on from the exchange is an answer.
LEMMA FrontKeepsTier ==
    ASSUME ScrapeInv, Front
    PROVE  TierInv'
<1> USE DEF ScrapeInv, TypeOK, TierInv, TiersAsModePromises, AnswerInv, TotalLeft, Left
<1>1. CASE SkipRequestTier \/ StartRequestTier \/ ReceiveReply
  BY <1>1 DEF SkipRequestTier, ShouldTryRequestTier, StartRequestTier, Answer, ReceiveReply,
              Takes
<1>2. CASE RequestFails \/ Escalate \/ AnswerFromReply
  BY <1>2 DEF RequestFails, Takes, Answer, Escalate, WorthEscalating, AnswerFromReply,
              CleanSuccess, Clean
<1>3. CASE CheckBudget \/ Boot \/ BootFails \/ ConfigureRaises
  BY <1>3 DEF CheckBudget, Answer, Boot, Takes, BootFails, ConfigureRaises
<1> QED
  BY <1>1, <1>2, <1>3 DEF Front

\* The loop stays with the browser.
LEMMA StepKeepsTier ==
    ASSUME ScrapeInv, Step, UNCHANGED front
    PROVE  TierInv'
<1> USE DEF ScrapeInv, TypeOK, TierInv, TiersAsModePromises, AnswerInv
<1>1. CASE BeginAttempt \/ Navigate
  BY <1>1 DEF BeginAttempt, Answer, Navigate, Takes, Raise
<1>2. CASE SettleWithoutSelector \/ StartWait
  BY <1>2 DEF SettleWithoutSelector, Takes, ProbeMidWait, Clean, Answer, Raise, StartWait
<1>3. CASE FoundElement \/ MissedElement
  BY <1>3 DEF FoundElement, Takes, MissedElement, ProbeMidWait, Clean, Answer
<1>4. CASE LastLook \/ Scroll
  BY <1>4 DEF LastLook, Takes, Raise, Scroll
<1>5. CASE SettlePageState \/ BypassChallenge
  BY <1>5 DEF SettlePageState, Clean, Answer, RaiseHarvesting, Raise, BypassChallenge, Takes
<1>6. CASE InspectFailure
  BY <1>6 DEF InspectFailure, Takes, Clean, Answer, HasMore
<1> QED
  BY <1>1, <1>2, <1>3, <1>4, <1>5, <1>6 DEF Step

\* Nothing before the boot takes longer than what is left of the deadline.
LEMMA FrontKeepsTime ==
    ASSUME ScrapeInv, Front
    PROVE  TimeInv'
<1> USE DEF ScrapeInv, TypeOK, TimeInv, OvershootBounded, Used, Within, Longest,
            LongestWait, Larger, LoopInv, TotalLeft, Left
<1>0. WaitTime(WorkTimeout) \in Nat
  BY WaitsAddUp
<1>1. CASE SkipRequestTier \/ StartRequestTier \/ ReceiveReply
  BY <1>0, <1>1 DEF SkipRequestTier, ShouldTryRequestTier, StartRequestTier, Answer, ReceiveReply,
              Takes
<1>2. CASE RequestFails \/ Escalate \/ AnswerFromReply
  BY <1>0, <1>2 DEF RequestFails, Takes, Answer, Escalate, WorthEscalating, AnswerFromReply,
              CleanSuccess, Clean
<1>3. CASE CheckBudget \/ Boot \/ BootFails \/ ConfigureRaises
  BY <1>0, <1>3 DEF CheckBudget, Answer, Boot, Takes, BootFails, ConfigureRaises
<1> QED
  BY <1>1, <1>2, <1>3 DEF Front

\* What each step of an attempt may take, added to where the attempt was.
LEMMA StepKeepsTime ==
    ASSUME ScrapeInv, Step, UNCHANGED front
    PROVE  TimeInv'
<1> USE DEF ScrapeInv, TypeOK, TimeInv, OvershootBounded, Used, Within, Longest,
            LongestWait, Larger, LoopInv, StepBudget, Lesser, Left
<1>0. WaitTime(WorkTimeout) \in Nat
  BY WaitsAddUp
<1>1. CASE BeginAttempt \/ Navigate
  BY <1>0, <1>1 DEF BeginAttempt, Answer, Navigate, Takes, Raise
<1>2. CASE SettleWithoutSelector
  BY <1>0, <1>2 DEF SettleWithoutSelector, Takes, ProbeMidWait, Clean, Answer, Raise
<1>3. CASE StartWait
  <2>1. payload.wait \in 1..WorkTimeout
    BY DEF Payloads
  <2>2. waitLeft' \in 0..WorkTimeout
    BY <1>3, <2>1 DEF StartWait
  <2>3. WaitTime(waitLeft') \in Nat /\ WaitTime(waitLeft') <= WaitTime(WorkTimeout)
    BY <2>2, WaitsAddUp
  <2> QED
    BY <1>0, <1>3, <2>3 DEF StartWait, Waited
<1>4. CASE FoundElement \/ MissedElement
  <2>1. pc = "wait" /\ waitLeft \in Nat \ {0}
    BY <1>4 DEF FoundElement, MissedElement
  <2>2. /\ WaitTime(waitLeft) \in Nat /\ WaitTime(waitLeft - ThisChunk) \in Nat
        /\ WaitTime(waitLeft - ThisChunk) + ThisChunk + Reading = WaitTime(waitLeft)
    BY <2>1, WaitsAddUp DEF ThisChunk
  <2>3. ThisChunk \in Nat
    BY <2>1 DEF ThisChunk
  <2>4. CASE FoundElement
    BY <1>0, <2>1, <2>2, <2>3, <2>4 DEF FoundElement, Takes, Waited
  <2>5. CASE MissedElement
    BY <1>0, <2>1, <2>2, <2>3, <2>5 DEF MissedElement, Takes, ProbeMidWait, Clean, Answer, Waited
  <2> QED
    BY <1>4, <2>4, <2>5
<1>5. CASE LastLook
  BY <1>0, <1>5, WaitsAddUp DEF LastLook, Takes, Raise, Waited
<1>6. CASE Scroll
  BY <1>0, <1>6 DEF Scroll, Takes, Raise
<1>7. CASE SettlePageState \/ BypassChallenge
  BY <1>0, <1>7 DEF SettlePageState, Clean, Answer, RaiseHarvesting, Raise, BypassChallenge, Takes
<1>8. CASE InspectFailure
  BY <1>0, <1>8 DEF InspectFailure, Takes, Clean, Answer, HasMore
<1> QED
  BY <1>1, <1>2, <1>3, <1>4, <1>5, <1>6, <1>7, <1>8 DEF Step

\* Init, step by step, and stuttering.
LEMMA ScrapeInvInductive ==
    /\ Init => ScrapeInv
    /\ ScrapeInv /\ [Next]_allVars => ScrapeInv'
<1>1. Init => ScrapeInv
  <2>1. Init => TypeOK
    <3>1. Init => elapsed \in Nat /\ ready \in 0..(TotalTimeout + BootTime)
      BY DEF Init
    <3>2. Init => attempts \in 0..(1 + MaxRetries) /\ harvests \in 0..1
      BY DEF Init
    <3>3. Init => budget \in 0..WorkTimeout /\ waitLeft \in 0..WorkTimeout
      BY DEF Init
    <3> QED
      BY <3>1, <3>2, <3>3 DEF Init, TypeOK
  <2>2. Init => LoopInv
    BY DEF Init, LoopInv
  <2>3. Init => AnswerInv
    BY SurfacesTell DEF Init, AnswerInv, AnswerFitsSurface
  <2>4. Init => TierInv
    BY DEF Init, TierInv, TiersAsModePromises
  <2>5. Init => TimeInv
    BY WaitsAddUp DEF Init, TimeInv, OvershootBounded, Larger
  <2> QED
    BY <2>1, <2>2, <2>3, <2>4, <2>5 DEF ScrapeInv
<1>2. ScrapeInv /\ Front => ScrapeInv'
  BY FrontTyped, FrontKeepsLoop, FrontKeepsAnswer, FrontKeepsTier, FrontKeepsTime DEF ScrapeInv
<1>3. ScrapeInv /\ Step /\ UNCHANGED front => ScrapeInv'
  BY StepTyped, StepKeepsLoop, StepKeepsAnswer, StepKeepsTier, StepKeepsTime DEF ScrapeInv
<1>4. ScrapeInv /\ UNCHANGED allVars => ScrapeInv'
  BY DEF ScrapeInv, TypeOK, LoopInv, Strategies, AnswerInv, AnswerFitsSurface, TierInv,
         TiersAsModePromises, TotalLeft, TimeInv, Within, Used, Waited, OvershootBounded
<1> QED
  BY <1>1, <1>2, <1>3, <1>4 DEF Next, Done

\* The invariant holds whatever the timeouts and limits are, and however page, driver
\* and reply behave.
THEOREM ScrapeInvariant == Spec => []ScrapeInv
BY ScrapeInvInductive, PTL DEF Spec

-------------------------------------------------------------------------------
(* What follows from it *)

\* Every variable keeps its type; in particular there is never an attempt more than
\* the retries allow, nor a second harvest in one.
THEOREM ScrapeTyped == Spec => []TypeOK
BY ScrapeInvariant, PTL DEF ScrapeInv

\* The last look at the page decides what is answered.
THEOREM AnswerFits == Spec => []AnswerFitsSurface
<1>1. ScrapeInv => AnswerFitsSurface
  BY DEF ScrapeInv, AnswerInv
<1> QED
  BY <1>1, ScrapeInvariant, PTL

\* The mode is obeyed on every path through execute().
THEOREM TiersKeepTheMode == Spec => []TiersAsModePromises
<1>1. ScrapeInv => TiersAsModePromises
  BY DEF ScrapeInv, TierInv
<1> QED
  BY <1>1, ScrapeInvariant, PTL

\* However slow the browser is to be read: a scrape is late by one boot, or by one
\* wait with its looks, two pauses and four looks more, whatever number of attempts and
\* escalations it took.
THEOREM OvershootIsBounded == Spec => []OvershootBounded
<1>1. ScrapeInv => OvershootBounded
  BY DEF ScrapeInv, TimeInv
<1> QED
  BY <1>1, ScrapeInvariant, PTL

\* On no path, through waits, settling, failed bypasses and inspections, does an
\* attempt follow a look that found the page hostile, unless a bypass came in between.
THEOREM ChallengesAreNotReloaded == Spec => OnlyBypassedRetried
<1>1. ASSUME ScrapeInv, [Next]_allVars, attempts' # attempts PROVE challenge # "seen"
  <2>1. CASE Front \/ Done \/ UNCHANGED allVars
    BY <1>1, <2>1 DEF Front, SkipRequestTier, StartRequestTier, ReceiveReply, RequestFails,
                      Escalate, AnswerFromReply, CheckBudget, Boot, BootFails, ConfigureRaises,
                      Done
  <2>2. CASE Step
    <3>1. BeginAttempt
      BY <1>1, <2>2 DEF Step, Navigate, SettleWithoutSelector, StartWait, FoundElement,
                        MissedElement, LastLook, Scroll, SettlePageState, BypassChallenge,
                        InspectFailure
    <3> QED
      BY <1>1, <3>1 DEF BeginAttempt, ScrapeInv, LoopInv
  <2> QED
    BY <1>1, <2>1, <2>2 DEF Next
<1>2. ScrapeInv /\ [Next]_allVars => [attempts' # attempts => challenge # "seen"]_vars
  BY <1>1
<1> QED
  BY <1>2, ScrapeInvariant, PTL DEF Spec, OnlyBypassedRetried
===============================================================================
