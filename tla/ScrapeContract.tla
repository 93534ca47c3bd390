---------------------------- MODULE ScrapeContract ----------------------------
(***************************************************************************)
(* What clients and the machine are promised of a scrape, without threads, *)
(* locks, deadlines or queues.                                             *)
(*                                                                         *)
(* A request may be served under an id that nobody else is served under,   *)
(* and while it is, one Chromium may be launched for it.  It is answered   *)
(* once: with a timeout at any time, with anything else only after its     *)
(* service is over.  Then its id is free and its Chromium gone; after a    *)
(* timeout that blames the queue no Chromium was or will be launched.      *)
(*                                                                         *)
(* ScrapeService implements this specification: see Contract there.        *)
(***************************************************************************)
CONSTANTS Requests, Ids

VARIABLES answer,     \* answer[r]: what the client of r got
          served,     \* pairs of an id and the request served under it
          over,       \* requests whose service is over, or was declined
          chromium    \* chromium[r]: the Chromium launched for r

vars == <<answer, served, over, chromium>>

Answers == {"queue timeout", "timeout", "final"}

Init == /\ answer = [r \in Requests |-> "none"]
        /\ served = {}
        /\ over = {}
        /\ chromium = [r \in Requests |-> "none"]

Served(r) == \E s \in served : s[2] = r
InUse(i) == \E s \in served : s[1] = i

-------------------------------------------------------------------------------
\* A request that was timed out may still come to be served.
Serve(r, i) == /\ answer[r] # "final" /\ r \notin over
               /\ ~Served(r) /\ ~InUse(i)
               /\ served' = served \cup {<<i, r>>}
               /\ UNCHANGED <<answer, over, chromium>>

Launch(r) == /\ Served(r) /\ chromium[r] = "none"
             /\ answer[r] # "queue timeout"
             /\ chromium' = [chromium EXCEPT ![r] = "running"]
             /\ UNCHANGED <<answer, served, over>>

Close(r) == /\ chromium[r] = "running"
            /\ chromium' = [chromium EXCEPT ![r] = "closed"]
            /\ UNCHANGED <<answer, served, over>>

\* A Chromium may outlast the service only until the request is answered.
End(r) == /\ answer[r] # "final" /\ r \notin over
          /\ chromium[r] = "running" => answer[r] = "none"
          /\ over' = over \cup {r}
          /\ served' = {s \in served : s[2] # r}
          /\ UNCHANGED <<answer, chromium>>

Answer(r, a) == /\ answer[r] = "none"
                /\ a = "queue timeout" => chromium[r] = "none"
                /\ a = "final" => ~Served(r)
                /\ chromium[r] = "running" => Served(r)
                /\ answer' = [answer EXCEPT ![r] = a]
                /\ UNCHANGED <<served, over, chromium>>

Next == \E r \in Requests : \/ \E i \in Ids : Serve(r, i)
                            \/ Launch(r) \/ Close(r) \/ End(r)
                            \/ \E a \in Answers : Answer(r, a)

Spec == Init /\ [][Next]_vars

-------------------------------------------------------------------------------
TypeOK == /\ answer \in [Requests -> {"none"} \cup Answers]
          /\ served \subseteq Ids \X Requests
          /\ over \subseteq Requests
          /\ chromium \in [Requests -> {"none", "running", "closed"}]

\* An id is that of one session, a session has one id, and who is through is
\* not served.  (orchestrator.py, _register_request_id)
OneSessionPerId ==
    /\ \A s, t \in served : s[1] = t[1] \/ s[2] = t[2] => s = t
    /\ \A s \in served : s[2] \notin over

\* Whoever has an answer other than a timeout may send the same id again at
\* once: it is free, and nothing runs for the request.
FinalMeansReturned ==
    \A r \in Requests : answer[r] = "final" => ~Served(r) /\ chromium[r] # "running"

\* A timeout that blames the queue is true and stays true.
QueueTimeoutHolds ==
    \A r \in Requests : answer[r] = "queue timeout" => chromium[r] = "none"

\* Behind an answer a Chromium runs only while its session does.
NothingBehindAnswers ==
    \A r \in Requests : answer[r] # "none" /\ chromium[r] = "running" => Served(r)
===============================================================================
