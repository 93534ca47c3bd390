----------------------------- MODULE ScrapeTiers ------------------------------
(***************************************************************************)
(* The tiers of one scrape, as ScraperEngine.execute goes through them:    *)
(* whether the HTTP request tier is tried, what it makes of the reply,     *)
(* when it escalates, the boot of the browser, and then BrowserTier        *)
(* (src/app/engine/orchestrator.py, request_tier.py, browser_tier.py).     *)
(*                                                                         *)
(* A reply is clean or not, by ChallengeDetector, and full (2xx and not    *)
(* empty) or not.                                                          *)
(***************************************************************************)
EXTENDS BrowserTier

CONSTANTS MinEscalate,   \* MIN_ESCALATE_REMAINING_SECONDS
          BootTime       \* longest boot, with the configuration of the driver

ASSUME EscalationAssumption == MinEscalate \in Nat \ {0} /\ BootTime \in Nat

VARIABLES mode,   \* payload.execution_mode
          full,   \* the HTTP reply is 2xx and not empty
          tier    \* execution_tier of the answer

front == <<mode, full, tier>>
allVars == <<vars, front>>

TotalLeft == Left(TotalTimeout, elapsed)

Init == /\ pc = "route"
        /\ mode \in {"auto", "request", "browser"}
        /\ payload \in Payloads
        /\ elapsed \in 0..TotalTimeout     \* what the queue took
        /\ ready = 0
        /\ attempts = 0 /\ budget = 0 /\ waitLeft = 0
        /\ surface = Unseen /\ challenge = "none" /\ harvests = 0
        /\ slow = FALSE
        /\ outcome = "none" /\ phase = "none"
        /\ full = FALSE /\ tier = "none"

\* What the front of execute() leaves to the loop.
loop == <<payload, ready, attempts, budget, waitLeft, challenge, harvests, mode>>

-------------------------------------------------------------------------------
\* A selector or scrolling asks for a browser, unless HTTP was insisted on.
ShouldTryRequestTier ==
    \/ mode = "request"
    \/ mode = "auto" /\ payload.auto /\ ~payload.selector /\ ~payload.scroll

SkipRequestTier == /\ pc = "route" /\ ~ShouldTryRequestTier
                   /\ pc' = "budget"
                   /\ UNCHANGED <<elapsed, surface, slow, outcome, phase, full, tier, loop>>

StartRequestTier == /\ pc = "route" /\ ShouldTryRequestTier
                    /\ tier' = "http"
                    /\ IF TotalLeft = 0 THEN Answer("timeout", "work")
                                        ELSE pc' = "exchange" /\ UNCHANGED answer
                    /\ UNCHANGED <<elapsed, surface, slow, full, loop>>

ReceiveReply == /\ pc = "exchange"
                /\ Takes(TotalLeft)
                /\ full' \in BOOLEAN
                /\ surface' \in Replied(full')
                /\ pc' = "judge"
                /\ UNCHANGED <<slow, outcome, phase, tier, loop>>

\* An exception is the scrape's end in request mode only; auto goes on.
RequestFails == /\ pc = "exchange"
                /\ Takes(TotalLeft)
                /\ slow' \in BOOLEAN
                /\ \/ mode = "auto" /\ pc' = "budget" /\ UNCHANGED answer
                   \/ mode = "request" /\ slow' /\ Answer("timeout", "work")
                   \/ mode = "request" /\ ~slow' /\ Answer("navigation_error", "none")
                /\ UNCHANGED <<surface, full, tier, loop>>

CleanSuccess == Clean /\ full /\ ~payload.selector /\ ~payload.scroll

WorthEscalating == mode = "auto" /\ ~CleanSuccess /\ TotalLeft >= MinEscalate

\* Faulty: the mode is not asked.
EscalateInAnyMode == /\ pc = "judge" /\ ~CleanSuccess
                     /\ pc' = "budget"
                     /\ UNCHANGED <<elapsed, surface, slow, outcome, phase, full, tier, loop>>

Escalate == /\ pc = "judge" /\ WorthEscalating
            /\ pc' = "budget"
            /\ UNCHANGED <<elapsed, surface, slow, outcome, phase, full, tier, loop>>

\* Request mode, and auto without the time for a browser, take what they have.
AnswerFromReply == /\ pc = "judge" /\ ~WorthEscalating
                   /\ IF Clean THEN Answer("success", "none")
                               ELSE Answer("challenge_block", "none")
                   /\ UNCHANGED <<elapsed, surface, slow, full, tier, loop>>

CheckBudget == /\ pc = "budget"
               /\ tier' = "browser"
               /\ IF TotalLeft = 0 THEN Answer("timeout", "boot")
                                   ELSE pc' = "boot" /\ UNCHANGED answer
               /\ UNCHANGED <<elapsed, surface, slow, full, loop>>

\* The page of the new browser has not been looked at.
Boot == /\ pc = "boot"
        /\ Takes(BootTime)
        /\ ready' = elapsed'
        /\ surface' = Unseen /\ slow' = FALSE
        /\ pc' = "attempt"
        /\ UNCHANGED <<payload, attempts, budget, waitLeft, challenge, harvests, answer, front>>

\* The driver, or the directories it needs.
BootFails == /\ pc = "boot"
             /\ Takes(BootTime)
             /\ slow' \in BOOLEAN
             /\ IF slow' THEN Answer("timeout", "boot") ELSE Answer("navigation_error", "none")
             /\ UNCHANGED <<surface, full, tier, loop>>

\* configure_driver, or the assertion on session.driver: nobody catches it.
ConfigureRaises == /\ pc = "boot"
                   /\ Takes(BootTime)
                   /\ Answer("raised", "none")
                   /\ UNCHANGED <<surface, slow, full, tier, loop>>

Front == \/ SkipRequestTier \/ StartRequestTier \/ ReceiveReply \/ RequestFails
         \/ Escalate \/ AnswerFromReply \/ CheckBudget \/ Boot \/ BootFails
         \/ ConfigureRaises

Done == pc = "done" /\ UNCHANGED allVars

Next == \/ Front
        \/ Step /\ UNCHANGED front
        \/ Done

Spec == Init /\ [][Next]_allVars

\* Every call of the HTTP client and of the driver returns or raises.
FairSpec == Spec /\ WF_allVars(Front \/ (Step /\ UNCHANGED front))

-------------------------------------------------------------------------------
(* Properties; those of BrowserTier hold here as well *)

\* Every variable keeps its type.
TypeOK == /\ pc \in {"route", "exchange", "judge", "budget", "boot", "attempt", "navigate",
                     "ready", "wait", "scroll", "settle", "bypass", "inspect", "done"}
          /\ payload \in Payloads
          /\ elapsed \in Nat /\ ready \in 0..(TotalTimeout + BootTime)
          /\ attempts \in 0..(1 + MaxRetries)
          /\ budget \in 0..WorkTimeout /\ waitLeft \in 0..WorkTimeout
          /\ surface \in {Unseen, Unreadable} \cup Inspected \cup Settled
          /\ challenge \in {"none", "seen", "bypassed"}
          /\ harvests \in 0..1
          /\ slow \in BOOLEAN
          /\ outcome \in {"none", "success", "challenge_block", "timeout", "navigation_error",
                          "raised"}
          /\ phase \in {"none", "boot", "work"}
          /\ mode \in {"auto", "request", "browser"}
          /\ full \in BOOLEAN
          /\ tier \in {"none", "http", "browser"}

\* The tiers are what the mode promises (README, execution_mode).  Who asked for
\* HTTP only gets no Chromium booted, however the exchange ended.  In auto mode
\* HTTP has the last word only with a clean, full page or when too little of the
\* deadline is left for a browser.
TiersAsModePromises ==
    /\ mode = "request" => tier # "browser"
    /\ mode = "auto" /\ tier = "http" /\ pc = "done" =>
           \/ outcome = "success" /\ full
           \/ TotalLeft < MinEscalate

\* One budget is used for the navigation and again for the wait, and a wait looks at
\* the page once per chunk; the pauses and looks have no budget.  The work may be
\* late by that much, and the worker busy that long with a scrape that was answered
\* 504, or for a boot: no retry and no escalation adds to it.  In configured seconds
\* there is no bound, as a look has no timeout.
Looks(wait) == (wait + Chunk - 1) \div Chunk
WaitTime(wait) == wait + Looks(wait) * Reading
OvershootBounded ==
    LET longest == Larger(WaitTime(WorkTimeout), Pause) + 2 * Pause + 4 * Reading
    IN  /\ attempts > 0 => elapsed - ready <= WorkTimeout + longest
        /\ elapsed <= TotalTimeout + Larger(BootTime, longest)
===============================================================================
