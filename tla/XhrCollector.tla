----------------------------- MODULE XhrCollector -----------------------------
(***************************************************************************)
(* The collector of JSON sub-resources (src/app/infra/xhr_collector.py):   *)
(* the CDP listener thread feeds it events while the worker harvests it,   *)
(* and resets it between the attempts of one scrape.                       *)
(*                                                                         *)
(* Every response belongs to the attempt whose page asked for it.  Its     *)
(* events come in order, but only after they have travelled: the worker    *)
(* may be in a later attempt by then.                                      *)
(***************************************************************************)
EXTENDS Integers, Sequences, FiniteSets, SequencesExt

CONSTANTS Responses,     \* JSON responses of the sub-resources of the pages
          PageOf,        \* PageOf[x]: the attempt that loaded x
          SizeOf,        \* SizeOf[x]: bytes of its body
          Attempts,      \* attempts of the scrape
          MaxResponses,  \* MAX_RESPONSES
          MaxBody,       \* MAX_BODY_BYTES
          MaxAggregate   \* MAX_AGGREGATE_BYTES

ASSUME AttemptsAssumption == Attempts \in Nat \ {0}
ASSUME PagesAssumption == PageOf \in [Responses -> 1..Attempts]
ASSUME SizesAssumption == SizeOf \in [Responses -> Nat]
ASSUME CapsAssumption == MaxResponses \in Nat /\ MaxBody \in Nat /\ MaxAggregate \in Nat

VARIABLES
    \* --- XhrCollector
    pending,     \* _pending
    readyIds,    \* _ready_ids
    collected,   \* _collected
    aggregate,   \* _aggregate_bytes
    document,    \* _document: the attempt whose main response it is, 0 for None
    \* --- the events still on their way
    received,    \* responses whose ResponseReceived has been handled
    finished,    \* responses whose LoadingFinished has been handled
    documents,   \* main responses handled: those of attempts 1..documents
    since,       \* history: responses received since the last reset
    \* --- the worker
    attempt,     \* the current one
    worker,      \* "browse", "fetch" or "done"
    jobs         \* what harvest() has still to fetch

collector == <<pending, readyIds, collected, aggregate, document>>
wire == <<received, finished, documents, since>>
thread == <<attempt, worker, jobs>>
vars == <<collector, wire, thread>>

Init == /\ pending = {} /\ readyIds = <<>> /\ collected = <<>> /\ aggregate = 0
        /\ document = 0
        /\ received = {} /\ finished = {} /\ documents = 0 /\ since = {}
        /\ attempt = 1 /\ worker = "browse" /\ jobs = <<>>

-------------------------------------------------------------------------------
(* The CDP listener thread *)

\* _on_response for the main frame of an attempt that has been navigated.
OnDocument == /\ documents < attempt
              /\ documents' = documents + 1
              /\ document' = documents'
              /\ UNCHANGED <<pending, readyIds, collected, aggregate, received, finished,
                             since, thread>>

Full == Len(collected) + Cardinality(pending) >= MaxResponses

\* _on_response for a sub-resource: noted, unless the collector is full.
OnResponse(x) == /\ PageOf[x] <= documents
                 /\ x \notin received
                 /\ received' = received \cup {x}
                 /\ since' = since \cup {x}
                 /\ pending' = IF Full THEN pending ELSE pending \cup {x}
                 /\ UNCHANGED <<readyIds, collected, aggregate, document, finished,
                                documents, thread>>

OnFinished(x) == /\ x \in received \ finished
                 /\ finished' = finished \cup {x}
                 /\ readyIds' = IF x \in pending /\ x \notin ToSet(readyIds)
                                THEN Append(readyIds, x) ELSE readyIds
                 /\ UNCHANGED <<pending, collected, aggregate, document, received,
                                documents, since, thread>>

(* The worker *)

\* seq without what is not in S.  (The provers know nothing of SelectSeq.)
Only(seq, S) == LET kept == {i \in DOMAIN seq : seq[i] \in S}
                IN  [k \in 1..Cardinality(kept) |->
                         seq[CHOOSE i \in kept : Cardinality({j \in kept : j <= i}) = k]]

\* Faulty: what is taken over stays pending.
HarvestLeavesPending == /\ worker = "browse"
                        /\ jobs' = Only(readyIds, pending)
                        /\ readyIds' = <<>>
                        /\ worker' = "fetch"
                        /\ UNCHANGED <<pending, collected, aggregate, document, wire, attempt>>

\* harvest(), under the lock: take over what has finished loading.
BeginHarvest == /\ worker = "browse"
                /\ jobs' = Only(readyIds, pending)
                /\ readyIds' = <<>>
                /\ pending' = pending \ ToSet(readyIds)
                /\ worker' = "fetch"
                /\ UNCHANGED <<collected, aggregate, document, wire, attempt>>

\* Faulty: the body about to be added is not counted.
CapReachedLate(x) == Len(collected) >= MaxResponses \/ aggregate > MaxAggregate

\* Either cap stops the harvest: what was not fetched yet is dropped.
CapReached(x) == \/ Len(collected) >= MaxResponses
                 \/ aggregate + SizeOf[x] > MaxAggregate

KeepBody(x) == /\ collected' = Append(collected, x)
               /\ aggregate' = aggregate + SizeOf[x]
               /\ jobs' = Tail(jobs)

\* The body may be gone, be empty or not decode; too large a one is skipped.
FetchBody == /\ worker = "fetch" /\ jobs # <<>>
             /\ \/ jobs' = Tail(jobs) /\ UNCHANGED <<collected, aggregate>>
                \/ /\ SizeOf[Head(jobs)] <= MaxBody
                   /\ IF CapReached(Head(jobs))
                      THEN jobs' = <<>> /\ UNCHANGED <<collected, aggregate>>
                      ELSE KeepBody(Head(jobs))
             /\ UNCHANGED <<pending, readyIds, document, wire, attempt, worker>>

ReturnResults == /\ worker = "fetch" /\ jobs = <<>>
                 /\ worker' = "done"
                 /\ UNCHANGED <<collector, wire, attempt, jobs>>

\* Faulty: the collector is reset for an attempt that never comes.
ResetOnceTooOften == /\ worker = "browse" \/ (worker = "fetch" /\ jobs = <<>>)
                     /\ attempt <= Attempts
                     /\ pending' = {} /\ readyIds' = <<>> /\ collected' = <<>>
                     /\ aggregate' = 0 /\ document' = 0
                     /\ attempt' = attempt + 1
                     /\ worker' = "browse"
                     /\ since' = {}
                     /\ UNCHANGED <<received, finished, documents, jobs>>

\* Faulty: what is still loading stays pending.
ResetKeepsPending == /\ worker = "browse" \/ (worker = "fetch" /\ jobs = <<>>)
                     /\ attempt < Attempts
                     /\ readyIds' = <<>> /\ collected' = <<>>
                     /\ aggregate' = 0 /\ document' = 0
                     /\ attempt' = attempt + 1
                     /\ worker' = "browse"
                     /\ since' = {}
                     /\ UNCHANGED <<pending, received, finished, documents, jobs>>

\* The attempt raised on a clean page, before its harvest or after it.
ResetForRetry == /\ worker = "browse" \/ (worker = "fetch" /\ jobs = <<>>)
                 /\ attempt < Attempts
                 /\ pending' = {} /\ readyIds' = <<>> /\ collected' = <<>>
                 /\ aggregate' = 0 /\ document' = 0
                 /\ attempt' = attempt + 1
                 /\ worker' = "browse"
                 /\ since' = {}
                 /\ UNCHANGED <<received, finished, documents, jobs>>

Next == \/ OnDocument
        \/ \E x \in Responses : OnResponse(x) \/ OnFinished(x)
        \/ BeginHarvest \/ FetchBody \/ ReturnResults \/ ResetForRetry

Spec == Init /\ [][Next]_vars

-------------------------------------------------------------------------------
(* Properties *)

\* What the results have taken up after each of them.
RunningTotal(total) == /\ total[0] = 0
                       /\ \A n \in 1..Len(collected) :
                              total[n] = total[n - 1] + SizeOf[collected[n]]

\* Every variable keeps its type.
TypeOK == /\ pending \in SUBSET Responses
          /\ readyIds \in Seq(Responses) /\ collected \in Seq(Responses)
          /\ jobs \in Seq(Responses)
          /\ aggregate \in Nat
          /\ document \in 0..Attempts /\ documents \in 0..Attempts
          /\ attempt \in 1..Attempts
          /\ received \in SUBSET Responses /\ since \in SUBSET Responses
          /\ finished \in SUBSET Responses
          /\ worker \in {"browse", "fetch", "done"}

\* The result is within all three caps, and the running total is its size,
\* although responses keep arriving while bodies are fetched.
WithinCaps == /\ Len(collected) <= MaxResponses
              /\ \E total \in [0..Len(collected) -> 0..MaxAggregate] :
                     RunningTotal(total) /\ aggregate = total[Len(collected)]
              /\ \A x \in ToSet(collected) : SizeOf[x] <= MaxBody

\* A response is in one place at a time: it cannot be fetched twice or be both
\* returned and waiting.
FetchedOnce ==
    /\ IsInjective(collected \o jobs)
    /\ ToSet(readyIds) \subseteq pending
    /\ pending \cap ToSet(collected \o jobs) = {}

\* A retry starts from an empty collector: whatever it holds, on any of its
\* lists, arrived after the last reset.  (Only that: an event of the page that
\* was given up which is still on its way counts for the new attempt.)
ResetForgets ==
    pending \cup ToSet(readyIds \o jobs \o collected) \subseteq since
===============================================================================
