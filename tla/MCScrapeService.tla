--------------------------- MODULE MCScrapeService ----------------------------
\* Instances of ScrapeService for TLC.
EXTENDS ScrapeService, TLC

CONSTANTS host1, gate

SameHost == [r \in Requests |-> host1]
\* The gate its docstring speaks of: one for the process.
OneGate == [r \in Requests |-> gate]
\* What get_scrape_service builds: a ScrapeService, and a gate, per request.
GatePerRequest == [r \in Requests |-> r]

\* Names that do not resolve, resolve to one address of each sort, or to two.
SomeAnswers == {{}, {Plain("public")}, {Plain("private")}, {Nat64("public")},
                {Nat64("loopback")}, {Unreadable}, {Plain("public"), Plain("link_local")}}

Resolving(answers) == [parses : {TRUE}, web : {TRUE}, host : {"name"}, port : {"readable"},
                       answer : answers]
Odd == [parses : BOOLEAN, web : BOOLEAN, host : {"none", "sub.localhost", "name", "unencodable"},
        port : {"readable", "malformed"}, answer : {{Plain("public")}}]

SomeTargets == Resolving(SomeAnswers)
               \cup {u \in Odd : /\ u.parses /\ u.web /\ u.port = "readable"
                                /\ u.host \in {"sub.localhost", "unencodable"}}
SomeProxies == Resolving(SomeAnswers) \cup Odd

\* Where the guard is not the question: a public target, no proxy.
OneTarget == Resolving({{Plain("public")}})
NoProxies == {}

Interchangeable == Permutations(Requests)
===============================================================================
