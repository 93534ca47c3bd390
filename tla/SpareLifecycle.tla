---------------------------- MODULE SpareLifecycle ----------------------------
(***************************************************************************)
(* What the warm pool promises, without threads, locks, timers or files.   *)
(*                                                                         *)
(* A spare Chromium is built, becomes ready, is leased to one request and  *)
(* is gone.  At most one spare is being built or ready at any moment, a    *)
(* leased spare never becomes ready again (it is one-shot), and once the   *)
(* pool has been stopped no spare becomes ready.                           *)
(*                                                                         *)
(* WarmPool implements this specification: see Lifecycle in WarmPool.tla.  *)
(***************************************************************************)
CONSTANTS Spares,     \* identities of spare Chromium instances
          Requests    \* scrape requests that may lease one

VARIABLES stage,      \* stage[s]: what the pool does with s
          holder,     \* holder[s]: the requests s is leased to
          stopped     \* the pool has been told to shut down

vars == <<stage, holder, stopped>>

Stages == {"absent", "building", "ready", "leased"}

\* The spares the pool itself keeps a Chromium for.
Warm == {s \in Spares : stage[s] \in {"building", "ready"}}

TypeOK == /\ stage \in [Spares -> Stages]
          /\ holder \in [Spares -> SUBSET Requests]
          /\ stopped \in BOOLEAN

Init == /\ stage = [s \in Spares |-> "absent"]
        /\ holder = [s \in Spares |-> {}]
        /\ stopped = FALSE

-------------------------------------------------------------------------------
\* A build may begin only when no other one is going on; a ready spare that no
\* longer matches what is wanted is given up for it.
Build(s) == /\ ~stopped
            /\ stage[s] = "absent"
            /\ \A x \in Spares : stage[x] # "building"
            /\ stage' = [x \in Spares |->
                           IF x = s THEN "building"
                           ELSE IF stage[x] = "ready" THEN "absent"
                           ELSE stage[x]]
            /\ UNCHANGED <<holder, stopped>>

Publish(s) == /\ ~stopped
              /\ stage[s] = "building"
              /\ stage' = [stage EXCEPT ![s] = "ready"]
              /\ UNCHANGED <<holder, stopped>>

\* A failed or unwanted build, an idle, stale or unhealthy spare.
Discard(s) == /\ stage[s] \in {"building", "ready"}
              /\ stage' = [stage EXCEPT ![s] = "absent"]
              /\ UNCHANGED <<holder, stopped>>

Lease(s, r) == /\ stage[s] = "ready"
               /\ \A x \in Spares : r \notin holder[x]
               /\ stage' = [stage EXCEPT ![s] = "leased"]
               /\ holder' = [holder EXCEPT ![s] = {r}]
               /\ UNCHANGED stopped

Return(s) == /\ stage[s] = "leased"
             /\ stage' = [stage EXCEPT ![s] = "absent"]
             /\ holder' = [holder EXCEPT ![s] = {}]
             /\ UNCHANGED stopped

Stop == /\ stopped' = TRUE
        /\ UNCHANGED <<stage, holder>>

Next == \/ \E s \in Spares : Build(s) \/ Publish(s) \/ Discard(s) \/ Return(s)
        \/ \E s \in Spares, r \in Requests : Lease(s, r)
        \/ Stop

Spec == Init /\ [][Next]_vars

-------------------------------------------------------------------------------
\* A single-slot pool: no two spares are being built or ready together
\* (WarmDriverPool keeps one slot and one build flag).
SingleWarm == \A s, t \in Warm : s = t

\* A spare is leased to one request at a time and every holder holds a leased
\* spare (take() clears the slot before it hands the driver out).
ExclusiveLease ==
    /\ \A s \in Spares : holder[s] # {} <=> stage[s] = "leased"
    /\ \A s, t \in Spares : \A r \in holder[s] : r \in holder[t] => s = t
    /\ \A s \in Spares : \A q, r \in holder[s] : q = r
===============================================================================
