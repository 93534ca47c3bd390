----------------------------- MODULE BrowserTier ------------------------------
(***************************************************************************)
(* run_browser_tier after the boot: the attempt loop, its budgets, the     *)
(* readiness wait, the settling of the page and the failure paths          *)
(* (src/app/engine/browser_tier.py, strategies.py, budget.py).             *)
(*                                                                         *)
(* The page is what a probe finds it to be: clean, unclean (a challenge or *)
(* a block) or unreadable, by ChallengeDetector.  The clock is in whole    *)
(* seconds and moves inside the steps that take time.  Reading a page,     *)
(* with its cookies and the bodies of its responses, is done over CDP      *)
(* without a timeout, so what it takes at most is the browser's to say.    *)
(* How a scrape gets here is in ScrapeTiers.                               *)
(***************************************************************************)
EXTENDS Integers, ChallengeDetector

CONSTANTS TotalTimeout,   \* scrape_timeout_seconds
          WorkTimeout,    \* scrape_work_timeout_seconds
          Chunk,          \* _READINESS_CHUNK_SECONDS
          Pause,          \* longest short_random_sleep, scroll or bypass
          Reading,        \* longest look at a page
          AutoSteps,      \* strategies of the auto mode
          MaxRetries      \* largest max_retries the schema accepts

ASSUME BudgetAssumption == /\ TotalTimeout \in Nat /\ WorkTimeout \in Nat
                           /\ WorkTimeout <= TotalTimeout
ASSUME StepAssumption == Chunk \in Nat \ {0} /\ Pause \in Nat /\ Reading \in Nat
ASSUME AttemptAssumption == AutoSteps \in Nat \ {0} /\ MaxRetries \in Nat

VARIABLES pc,        \* where the worker is
          payload,   \* what the request asked for
          elapsed,   \* time since the scrape started
          ready,     \* the same, when the browser was ready
          attempts,  \* attempts begun
          budget,    \* step_budget of this attempt
          waitLeft,  \* "remaining" of wait_for_readiness
          surface,   \* what the last probe found: its verdict, and whether there
                     \* was a sign of a challenge or a block
          challenge, \* history: a look of this loop found the page not clean
                     \* ("seen"), and a bypass was tried since ("bypassed")
          harvests,  \* XHR harvests of this attempt
          slow,      \* the exception being handled is a timeout
          outcome,   \* success or error category of the answer, or "raised"
          phase      \* its timeout_phase

vars == <<pc, payload, elapsed, ready, attempts, budget, waitLeft, surface, challenge,
          harvests, slow, outcome, phase>>

Lesser(a, b) == IF a <= b THEN a ELSE b
Larger(a, b) == IF a >= b THEN a ELSE b
Left(limit, used) == IF used < limit THEN limit - used ELSE 0

\* wait is clamped into 1..WorkTimeout by the schema.
Payloads == [auto : BOOLEAN, retries : 0..MaxRetries, selector : BOOLEAN,
             wait : 1..WorkTimeout, scroll : BOOLEAN]

\* resolve_strategies: how many there are.
Strategies == IF payload.auto THEN Lesser(AutoSteps, 1 + payload.retries)
              ELSE 1 + payload.retries

\* Faulty: only the outer deadline counts.
BudgetWithoutWorkTimeout == Left(TotalTimeout, elapsed)

\* browser_step_budget_seconds
StepBudget == Lesser(Left(TotalTimeout, elapsed), Left(WorkTimeout, elapsed - ready))

Answer(what, when) == /\ outcome' = what
                      /\ phase' = when
                      /\ pc' = "done"

Takes(limit) == \E d \in 0..limit : elapsed' = elapsed + d

\* What a step does when the driver raises in it.
Raise == pc' = "inspect" /\ slow' \in BOOLEAN

answer == <<outcome, phase>>

-------------------------------------------------------------------------------
\* Faulty: the attempts are not counted.
BeginUncounted ==
    /\ pc = "attempt"
    /\ attempts' = 1
    /\ budget' = StepBudget
    /\ harvests' = 0 /\ waitLeft' = 0
    /\ IF StepBudget = 0 THEN Answer("timeout", "work")
                         ELSE pc' = "navigate" /\ UNCHANGED answer
    /\ UNCHANGED <<payload, elapsed, ready, surface, challenge, slow>>

BeginAttempt ==
    /\ pc = "attempt"
    /\ attempts' = attempts + 1
    /\ budget' = StepBudget
    /\ harvests' = 0 /\ waitLeft' = 0
    /\ IF StepBudget = 0 THEN Answer("timeout", "work")
                         ELSE pc' = "navigate" /\ UNCHANGED answer
    /\ UNCHANGED <<payload, elapsed, ready, surface, challenge, slow>>

Navigate == /\ pc = "navigate"
            /\ Takes(budget)
            /\ (pc' = "ready" /\ UNCHANGED slow) \/ Raise
            /\ UNCHANGED <<payload, ready, attempts, budget, waitLeft, surface, challenge,
                           harvests, answer>>

(* wait_for_readiness *)

Clean == surface.verdict = "clean"

\* Faulty: what a page that cannot be read raises leaves the probe.
ProbeRaises(next) ==
    /\ surface' \in MidWait \cup {Unreadable}
    /\ IF Clean' THEN pc' = next /\ UNCHANGED <<challenge, answer>>
       ELSE /\ challenge' = "seen"
            /\ IF surface' = Unreadable THEN pc' = "inspect" /\ UNCHANGED answer
                                        ELSE Answer("challenge_block", "none")

\* _mid_wait_challenge: anything but a clean page ends the scrape at once.
ProbeMidWait(next) ==
    /\ surface' \in MidWait \cup {Unreadable}
    /\ IF Clean' THEN pc' = next /\ UNCHANGED <<challenge, answer>>
                  ELSE challenge' = "seen" /\ Answer("challenge_block", "none")

SettleWithoutSelector ==
    /\ pc = "ready" /\ ~payload.selector
    /\ Takes(Pause + Reading)
    /\ \/ ProbeMidWait("scroll") /\ UNCHANGED slow
       \/ Raise /\ UNCHANGED <<surface, challenge, answer>>
    /\ UNCHANGED <<payload, ready, attempts, budget, waitLeft, harvests>>

StartWait == /\ pc = "ready" /\ payload.selector
             /\ waitLeft' = Lesser(payload.wait, budget)
             /\ pc' = "wait"
             /\ UNCHANGED <<payload, elapsed, ready, attempts, budget, surface, challenge,
                            harvests, slow, answer>>

\* The driver looks for at most this long; it may raise at once, too.
ThisChunk == Lesser(Chunk, waitLeft)

FoundElement == /\ pc = "wait" /\ waitLeft > 0
                /\ Takes(ThisChunk)
                /\ pc' = "scroll"
                /\ UNCHANGED <<payload, ready, attempts, budget, waitLeft, surface, challenge,
                               harvests, slow, answer>>

MissedElement == /\ pc = "wait" /\ waitLeft > 0
                 /\ Takes(ThisChunk + Reading)
                 /\ waitLeft' = waitLeft - ThisChunk
                 /\ ProbeMidWait("wait")
                 /\ UNCHANGED <<payload, ready, attempts, budget, harvests, slow>>

\* wait_for_element(selector, wait=0) once the wait is used up.
LastLook == /\ pc = "wait" /\ waitLeft = 0
            /\ Takes(Reading)
            /\ (pc' = "scroll" /\ UNCHANGED slow) \/ Raise
            /\ UNCHANGED <<payload, ready, attempts, budget, waitLeft, surface, challenge,
                           harvests, answer>>

Scroll == /\ pc = "scroll"
          /\ IF payload.scroll
             THEN Takes(Pause) /\ ((pc' = "settle" /\ UNCHANGED slow) \/ Raise)
             ELSE pc' = "settle" /\ UNCHANGED <<elapsed, slow>>
          /\ UNCHANGED <<payload, ready, attempts, budget, waitLeft, surface, challenge,
                         harvests, answer>>

(* settle_page_state and the end of a good attempt *)

\* What raises may do so before the harvest of the attempt or after it.
RaiseHarvesting == Raise /\ harvests' \in {harvests, harvests + 1}

\* A clean page is harvested and answered with; a challenged one gets one bypass.
SettlePageState ==
    /\ pc = "settle"
    /\ Takes(Reading)
    /\ \/ /\ surface' \in Settled /\ Clean'
          /\ harvests' = harvests + 1
          /\ Answer("success", "none")
          /\ UNCHANGED <<challenge, slow>>
       \/ /\ surface' \in Settled /\ ~Clean'
          /\ challenge' = "seen"
          /\ pc' = "bypass"
          /\ UNCHANGED <<harvests, slow, answer>>
       \/ RaiseHarvesting /\ UNCHANGED <<surface, challenge, answer>>
    /\ UNCHANGED <<payload, ready, attempts, budget, waitLeft>>

\* Faulty: a bypass is believed without looking at the page again.
BypassBelieved ==
    /\ pc = "bypass"
    /\ Takes(Pause + Reading)
    /\ harvests' = harvests + 1
    /\ surface' \in Settled
    /\ challenge' = "bypassed"
    /\ Answer("success", "none")
    /\ UNCHANGED <<payload, ready, attempts, budget, waitLeft, slow>>

BypassChallenge ==
    /\ pc = "bypass"
    /\ Takes(Pause + Reading)
    /\ \/ /\ harvests' = harvests + 1
          /\ surface' \in Settled
          /\ IF Clean' THEN challenge' = "bypassed" /\ Answer("success", "none")
                       ELSE challenge' = "seen" /\ Answer("challenge_block", "none")
          /\ UNCHANGED slow
       \/ RaiseHarvesting /\ challenge' = "bypassed" /\ UNCHANGED <<surface, answer>>
    /\ UNCHANGED <<payload, ready, attempts, budget, waitLeft>>

(* the except branch of the loop *)

\* Faulty: one attempt too many.
HasMoreOffByOne == attempts <= Strategies

HasMore == attempts < Strategies

InspectFailure ==
    /\ pc = "inspect"
    /\ Takes(Reading)
    /\ surface' \in Inspected \cup {Unreadable}
    /\ challenge' = IF Clean' THEN challenge ELSE "seen"
    /\ \/ ~Clean' /\ Answer("challenge_block", "none")
       \/ Clean' /\ HasMore /\ pc' = "attempt" /\ UNCHANGED answer
       \/ Clean' /\ ~HasMore /\ slow /\ Answer("timeout", "work")
       \/ Clean' /\ ~HasMore /\ ~slow /\ Answer("navigation_error", "none")
    /\ UNCHANGED <<payload, ready, attempts, budget, waitLeft, harvests, slow>>

Step == \/ BeginAttempt \/ Navigate \/ SettleWithoutSelector \/ StartWait
        \/ FoundElement \/ MissedElement \/ LastLook \/ Scroll
        \/ SettlePageState \/ BypassChallenge \/ InspectFailure

-------------------------------------------------------------------------------
(* Properties *)

\* The last look decides, whichever waits, exceptions, bypasses and escalations
\* came before: no page with a sign of a challenge or a block is answered as a
\* success, and no page without one as a challenge.
AnswerFitsSurface == /\ outcome = "success" => ~surface.hostile
                     /\ outcome = "challenge_block" => surface.hostile

\* A page that was found challenged, blocked or unreadable, by whichever look, is
\* not loaded again, however many retries are left, unless a bypass was tried and
\* what came after it found the page clean.
OnlyBypassedRetried == [][attempts' # attempts => challenge # "seen"]_vars

\* The loop ends with an answer, or with an exception that leaves execute().
Answered == <>(pc = "done")
===============================================================================
