------------------------- MODULE ScrapeContractProofs -------------------------
(***************************************************************************)
(* What a reader may conclude from ScrapeContract, for every set of        *)
(* requests and ids.                                                       *)
(***************************************************************************)
EXTENDS ScrapeContract, TLAPS

Promises == OneSessionPerId /\ FinalMeansReturned /\ QueueTimeoutHolds
            /\ NothingBehindAnswers

ContractInv == TypeOK /\ Promises

\* Every variable of the contract keeps its type.
LEMMA TypeHolds == ASSUME TypeOK, [Next]_vars PROVE TypeOK'
<1>1. ASSUME NEW r \in Requests, NEW i \in Ids, Serve(r, i) PROVE TypeOK'
  BY <1>1 DEF Serve, TypeOK
<1>2. ASSUME NEW r \in Requests, Launch(r) \/ Close(r) PROVE TypeOK'
  BY <1>2 DEF Launch, Close, TypeOK
<1>3. ASSUME NEW r \in Requests, End(r) PROVE TypeOK'
  BY <1>3 DEF End, TypeOK
<1>4. ASSUME NEW r \in Requests, NEW a \in Answers, Answer(r, a) PROVE TypeOK'
  BY <1>4 DEF Answer, TypeOK
<1>5. CASE UNCHANGED vars
  BY <1>5 DEF vars, TypeOK
<1> QED
  BY <1>1, <1>2, <1>3, <1>4, <1>5 DEF Next

LEMMA ServeKeeps ==
    ASSUME ContractInv, NEW r \in Requests, NEW i \in Ids, Serve(r, i)
    PROVE  Promises'
<1>1. OneSessionPerId'
  BY DEF ContractInv, Promises, OneSessionPerId, Serve, Served, InUse
<1>2. FinalMeansReturned'
  BY DEF ContractInv, Promises, FinalMeansReturned, Serve, Served
<1>3. QueueTimeoutHolds' /\ NothingBehindAnswers'
  BY DEF ContractInv, Promises, QueueTimeoutHolds, NothingBehindAnswers, Serve, Served
<1> QED
  BY <1>1, <1>2, <1>3 DEF Promises

\* A Chromium is launched or closed: neither is final, nor after a queue timeout.
LEMMA ChromiumKeeps ==
    ASSUME ContractInv, NEW r \in Requests, Launch(r) \/ Close(r)
    PROVE  Promises'
<1> USE DEF ContractInv, Promises, TypeOK
<1>1. OneSessionPerId'
  BY DEF OneSessionPerId, Launch, Close
<1>2. CASE Launch(r)
  BY <1>1, <1>2 DEF Launch, FinalMeansReturned, QueueTimeoutHolds, NothingBehindAnswers, Served
<1>3. CASE Close(r)
  BY <1>1, <1>3 DEF Close, FinalMeansReturned, QueueTimeoutHolds, NothingBehindAnswers, Served
<1> QED
  BY <1>2, <1>3

LEMMA EndKeeps ==
    ASSUME ContractInv, NEW r \in Requests, End(r)
    PROVE  Promises'
<1> USE DEF ContractInv, Promises, End
<1>1. OneSessionPerId'
  BY DEF OneSessionPerId
<1>2. \A q \in Requests : Served(q)' <=> Served(q) /\ q # r
  BY DEF Served
<1>3. FinalMeansReturned' /\ QueueTimeoutHolds'
  BY <1>2 DEF FinalMeansReturned, QueueTimeoutHolds
<1>4. NothingBehindAnswers'
  BY <1>2 DEF NothingBehindAnswers
<1> QED
  BY <1>1, <1>3, <1>4

LEMMA AnswerKeeps ==
    ASSUME ContractInv, NEW r \in Requests, NEW a \in Answers, Answer(r, a)
    PROVE  Promises'
<1> USE DEF ContractInv, Promises, TypeOK, Answer
<1>1. OneSessionPerId'
  BY DEF OneSessionPerId
<1>2. \A q \in Requests : Served(q)' <=> Served(q)
  BY DEF Served
<1>3. \A q \in Requests : answer'[q] = IF q = r THEN a ELSE answer[q]
  OBVIOUS
<1>4. FinalMeansReturned' /\ QueueTimeoutHolds' /\ NothingBehindAnswers'
  BY <1>2, <1>3 DEF FinalMeansReturned, QueueTimeoutHolds, NothingBehindAnswers
<1> QED
  BY <1>1, <1>4

\* Whatever clients do, the promises of ScrapeContract hold together.
THEOREM ContractKept == Spec => []ContractInv
<1>1. Init => ContractInv
  BY DEF Init, ContractInv, TypeOK, Promises, OneSessionPerId, FinalMeansReturned,
         QueueTimeoutHolds, NothingBehindAnswers, Answers, Served
<1>2. ASSUME ContractInv, [Next]_vars PROVE ContractInv'
  <2>1. TypeOK'
    BY <1>2, TypeHolds DEF ContractInv
  <2>2. ASSUME UNCHANGED vars PROVE Promises'
    BY <1>2, <2>2 DEF vars, ContractInv, Promises, OneSessionPerId, FinalMeansReturned,
                      QueueTimeoutHolds, NothingBehindAnswers, Served
  <2>3. ASSUME Next PROVE Promises'
    BY <1>2, <2>3, ServeKeeps, ChromiumKeeps, EndKeeps, AnswerKeeps DEF Next
  <2> QED
    BY <1>2, <2>1, <2>2, <2>3 DEF ContractInv
<1> QED
  BY <1>1, <1>2, PTL DEF Spec

\* After any answer but a timeout the id is free and no Chromium runs; after any
\* answer at all a Chromium runs only while its session does.
THEOREM AnswersMeanReturned == Spec => [](FinalMeansReturned /\ NothingBehindAnswers)
<1>1. ContractInv => FinalMeansReturned /\ NothingBehindAnswers
  BY DEF ContractInv, Promises
<1> QED
  BY <1>1, ContractKept, PTL

\* A timeout that blames the queue stays true.
THEOREM QueueTimeoutsHold == Spec => []QueueTimeoutHolds
<1>1. ContractInv => QueueTimeoutHolds
  BY DEF ContractInv, Promises
<1> QED
  BY <1>1, ContractKept, PTL
===============================================================================
