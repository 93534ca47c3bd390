----------------------------- MODULE ScrapeService ----------------------------
(***************************************************************************)
(* ScrapeService.process: a request whose body passed the schema gets its  *)
(* id, its target and its proxy go through the UrlGuard, and what passes   *)
(* is run under a lease (ScrapeLease).  The guard calls getaddrinfo on the *)
(* event loop: until it returns, no other coroutine moves, and the         *)
(* deadline of the request does not run yet.                               *)
(***************************************************************************)
EXTENDS ScrapeLease, UrlGuard

CONSTANTS Targets,   \* the URLs to scrape: pydantic made sure they are http URLs
          Proxies,   \* the proxies, strings of any form
          NoUrl      \* no proxy; no URL is being validated

ASSUME TargetsAssumption ==
    Targets \subseteq {u \in Urls : u.parses /\ u.web /\ u.host # "none" /\ u.port = "readable"}
ASSUME ProxiesAssumption == Proxies \subseteq Urls /\ NoUrl \notin Urls

VARIABLE asks        \* the URL the guard is looking at for each request

serviceVars == <<vars, asks>>

ServiceInit == Init /\ asks = [r \in Requests |-> NoUrl]

lease == <<late, holders, reported, phase, aborted, worker, session, engine>>

\* resolve_request_id and the start of _guard_outcome; neither awaits.
Receive(r) == /\ CoGoes(r, "new", "target")
              /\ busy' = r
              /\ \E i \in ClientIds \cup {Unusable} : inbound' = [inbound EXCEPT ![r] = i]
              /\ \E u \in Targets : asks' = [asks EXCEPT ![r] = u]
              /\ UNCHANGED <<lease, status, events>>

\* The guard refuses: scrape_rejected is logged, no lease is made.
Refuse(r) == /\ Validate(asks[r]) # Allowed
             /\ co' = [co EXCEPT ![r] = "answered"]
             /\ status' = [status EXCEPT ![r] = Validate(asks[r])]
             /\ busy' = NoOne
             /\ asks' = [asks EXCEPT ![r] = NoUrl]

\* Nothing is left to validate: _run starts, and with it the deadline.
Pass(r) == /\ Validate(asks[r]) = Allowed
           /\ co' = [co EXCEPT ![r] = "admit"]
           /\ busy' = NoOne
           /\ asks' = [asks EXCEPT ![r] = NoUrl]
           /\ UNCHANGED status

AskProxy(r) == /\ Validate(asks[r]) = Allowed
               /\ co' = [co EXCEPT ![r] = "proxy"]
               /\ \E u \in Proxies : asks' = [asks EXCEPT ![r] = u]
               /\ UNCHANGED <<busy, status>>

GuardTarget(r) == /\ co[r] = "target"
                  /\ Refuse(r) \/ Pass(r) \/ AskProxy(r)
                  /\ UNCHANGED <<inbound, lease, events>>

GuardProxy(r) == /\ co[r] = "proxy"
                 /\ Refuse(r) \/ Pass(r)
                 /\ UNCHANGED <<inbound, lease, events>>

Guard(r) == GuardTarget(r) \/ GuardProxy(r)
DeadlinePasses(r) == Expire(r) /\ UNCHANGED asks
LoopRuns(r) == Loop(r) /\ UNCHANGED asks
WorkerRuns(r) == Work(r) /\ UNCHANGED asks

Next == \E r \in Requests :
            Receive(r) \/ Guard(r) \/ DeadlinePasses(r) \/ LoopRuns(r) \/ WorkerRuns(r)

Spec == ServiceInit /\ [][Next]_serviceVars

\* Time passes, names resolve or not, and the event loop runs; workers may hang
\* anywhere.
LoopFairSpec == /\ Spec
                /\ \A r \in Requests : /\ WF_serviceVars(DeadlinePasses(r))
                                       /\ WF_serviceVars(LoopRuns(r))
                                       /\ WF_serviceVars(Guard(r))

\* Workers do not hang either: every blocking call of theirs returns.
WorkersReturn == \A r \in Requests : WF_serviceVars(WorkerRuns(r))

-------------------------------------------------------------------------------
(* Properties *)

\* What the guard lets through is usable and nothing the README lists as
\* blocked; what it answers 403 is blocked, and everything else it refuses is
\* no fault of the service's policy.  (scrape_service.py, _guard_outcome)
GuardTruthful ==
    [][\A r \in Requests :
           co[r] \in {"target", "proxy"} =>
               /\ co'[r] \in {"proxy", "admit"} /\ co'[r] # co[r]
                      => Usable(asks[r]) /\ ~Blocked(asks[r])
               /\ status'[r] = Forbidden => Blocked(asks[r])
               /\ status'[r] \in {BadRequest, ServerError} => ~Usable(asks[r])]_serviceVars

\* A collision is refused to nobody but a client that sent an id which another
\* session has at that very moment: ids are not lost by sessions that failed
\* or were reclaimed, and never shared by requests that sent none.
CollisionIsReal ==
    [][\A r \in Requests :
           result'[r] = "collision" /\ result[r] # "collision" =>
               /\ inbound[r] \in ClientIds
               /\ \E q \in Registered \ {r} : inbound[q] = inbound[r]]_serviceVars

\* Every request that came in gets its answer although workers may hang for ever.
EveryoneAnswered == \A r \in Requests : co[r] = "target" ~> co[r] = "answered"

\* In the end nothing is held, if workers return: no permit, no id, no Chromium that
\* nobody closed and no directory of a served request, whatever was answered in the
\* meantime; but that of a reclaimed scrape may stay, for the next prune to take,
\* if its Chromium was still being closed when the exit removed it.
EverythingReturned ==
    WorkersReturn =>
    <>[](/\ holders = {} /\ active = {} /\ queue = <<>>
         /\ \A r \in Requests : /\ browser[r] # "running"
                                /\ browser[r] = "closed" /\ IdOf(r) \in dirs
                                       => \E q \in Requests : aborted[q] /\ IdOf(q) = IdOf(r))

\* Seen by clients and by the machine, this is a ScrapeContract.
AnswerOf(r) == IF co[r] # "answered" THEN "none"
               ELSE IF status[r] # 504 THEN "final"
               ELSE IF reported[r] = "queue" THEN "queue timeout" ELSE "timeout"

Contract == INSTANCE ScrapeContract WITH
                answer <- [r \in Requests |-> AnswerOf(r)],
                served <- {<<IdOf(r), r>> : r \in Registered},
                over <- {r \in Requests : wk[r] \in {"return", "done"}},
                chromium <- browser

\* However deadline, reclaim, worker and exit race, an answer other than a
\* timeout comes only after the session gave its id and its Chromium back, and
\* a timeout keeps what its phase says: the service implements ScrapeContract.
ImplementsContract == Contract!Spec
===============================================================================
