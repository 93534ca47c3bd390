--------------------------- MODULE ChallengeDetector ---------------------------
(***************************************************************************)
(* ChallengeDetector.detect of app/infra/detector.py: what it makes of the *)
(* signs a page or a reply gives, next to what the signs mean.             *)
(*                                                                         *)
(* Signs: the driver says that it was taken for a bot (one that raises     *)
(* when asked does not); the HTML holds a marker; the headers say cf-      *)
(* mitigated: challenge, or have an x-datadome, which also rides on clean  *)
(* responses; the status.                                                  *)
(***************************************************************************)

Statuses == {"unknown", "ok", "error", "blocking"}   \* blocking: 401, 403, 429
Pages == [flagged : BOOLEAN, marked : BOOLEAN, mitigated : BOOLEAN, datadome : BOOLEAN,
          status : Statuses]

\* The first sign that names a challenge.
Marker(page) == IF page.flagged THEN "driver"
                ELSE IF page.marked THEN "html"
                ELSE IF page.mitigated THEN "cf-mitigated"
                ELSE IF page.datadome /\ page.status = "blocking" THEN "x-datadome"
                ELSE "none"

\* Faulty: a status blocks only with a marker to show for it.
DetectMarked(page) == [challenge |-> Marker(page) # "none",
                       blocked   |-> Marker(page) # "none"]

Detect(page) == [challenge |-> Marker(page) # "none",
                 blocked   |-> Marker(page) # "none" \/ page.status = "blocking"]

IsClean(assessment) == ~assessment.blocked /\ ~assessment.challenge

Found(page) == [verdict |-> IF IsClean(Detect(page)) THEN "clean" ELSE "unclean",
                hostile |-> \/ page.flagged \/ page.marked \/ page.mitigated
                            \/ page.status = "blocking"]
Unreadable == [verdict |-> "unreadable", hostile |-> TRUE]
Unseen == [verdict |-> "unseen", hostile |-> FALSE]

(* What the callers show to the detector *)

NoHeaders(page) == ~page.mitigated /\ ~page.datadome

\* _mid_wait_challenge: HTML and driver only.
MidWait == {Found(p) : p \in {p \in Pages : p.status = "unknown" /\ NoHeaders(p)}}

\* _page_state: the document's response, or 200 and no headers.
Settled == {Found(p) : p \in {p \in Pages : p.status # "unknown"}}

\* _inspect_assessment: the document's response, if one was captured.
Inspected == {Found(p) : p \in {p \in Pages : p.status = "unknown" => NoHeaders(p)}}

\* run_request_tier, without a driver; a full reply is 2xx and not empty.
Replied(full) == {Found(p) : p \in {p \in Pages :
                      /\ ~p.flagged /\ p.status # "unknown"
                      /\ full => p.status = "ok"
                      /\ p.status = "ok" /\ p.marked => full}}
===============================================================================
