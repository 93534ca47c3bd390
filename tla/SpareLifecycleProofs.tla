------------------------- MODULE SpareLifecycleProofs -------------------------
\* What every implementation of SpareLifecycle inherits.
EXTENDS SpareLifecycle, TLAPS

\* The abstract state is well typed.
THEOREM LifecycleTyped == Spec => []TypeOK
<1>1. Init => TypeOK
  BY DEF Init, TypeOK, Stages
<1>2. TypeOK /\ [Next]_vars => TypeOK'
  <2> SUFFICES ASSUME TypeOK, [Next]_vars PROVE TypeOK'
    OBVIOUS
  <2>1. ASSUME NEW s \in Spares, Build(s) \/ Publish(s) \/ Discard(s) \/ Return(s)
        PROVE  TypeOK'
    BY <2>1 DEF Build, Publish, Discard, Return, TypeOK, Stages
  <2>2. ASSUME NEW s \in Spares, NEW r \in Requests, Lease(s, r) PROVE TypeOK'
    BY <2>2 DEF Lease, TypeOK, Stages
  <2>3. CASE Stop \/ UNCHANGED vars
    BY <2>3 DEF Stop, vars, TypeOK
  <2>4. QED
    BY <2>1, <2>2, <2>3 DEF Next
<1>3. QED
  BY <1>1, <1>2, PTL DEF Spec

\* A single-slot pool: the pool never keeps two Chromiums warm (one slot and
\* one build flag in WarmDriverPool).
THEOREM OneWarmSpare == Spec => []SingleWarm
<1> DEFINE OneWarm == /\ TypeOK
                      /\ \A s, t \in Spares :
                            stage[s] \in {"building", "ready"} /\ stage[t] \in {"building", "ready"}
                            => s = t
<1>1. Init => OneWarm
  BY DEF Init, TypeOK, Stages
<1>2. OneWarm /\ [Next]_vars => OneWarm'
  <2> SUFFICES ASSUME OneWarm, [Next]_vars PROVE OneWarm'
    OBVIOUS
  <2>1. ASSUME NEW s \in Spares, Build(s) PROVE OneWarm'
    BY <2>1 DEF Build, TypeOK, Stages
  <2>2. ASSUME NEW s \in Spares, Publish(s) \/ Discard(s) \/ Return(s) PROVE OneWarm'
    BY <2>2 DEF Publish, Discard, Return, TypeOK, Stages
  <2>3. ASSUME NEW s \in Spares, NEW r \in Requests, Lease(s, r) PROVE OneWarm'
    BY <2>3 DEF Lease, TypeOK, Stages
  <2>4. CASE Stop \/ UNCHANGED vars
    BY <2>4 DEF Stop, vars, TypeOK
  <2>5. QED
    BY <2>1, <2>2, <2>3, <2>4 DEF Next
<1>3. OneWarm => SingleWarm
  BY DEF SingleWarm, Warm
<1>4. QED
  BY <1>1, <1>2, <1>3, PTL DEF Spec

\* A lease is exclusive on both sides: one holder per spare, one spare per
\* holder (take() empties the slot under the lock before it returns).
THEOREM LeaseIsExclusive == Spec => []ExclusiveLease
<1> DEFINE Inv == TypeOK /\ ExclusiveLease
<1>1. Init => Inv
  BY DEF Init, TypeOK, Stages, ExclusiveLease
<1>2. Inv /\ [Next]_vars => Inv'
  <2> SUFFICES ASSUME Inv, [Next]_vars PROVE Inv'
    OBVIOUS
  <2>1. ASSUME NEW s \in Spares, Build(s) PROVE Inv'
    BY <2>1 DEF Build, TypeOK, Stages, ExclusiveLease
  <2>2. ASSUME NEW s \in Spares, Publish(s) \/ Discard(s) \/ Return(s) PROVE Inv'
    BY <2>2 DEF Publish, Discard, Return, TypeOK, Stages, ExclusiveLease
  <2>3. ASSUME NEW s \in Spares, NEW r \in Requests, Lease(s, r) PROVE Inv'
    BY <2>3 DEF Lease, TypeOK, Stages, ExclusiveLease
  <2>4. CASE Stop \/ UNCHANGED vars
    BY <2>4 DEF Stop, vars, TypeOK, ExclusiveLease
  <2>5. QED
    BY <2>1, <2>2, <2>3, <2>4 DEF Next
<1>3. QED
  BY <1>1, <1>2, PTL DEF Spec
===============================================================================
