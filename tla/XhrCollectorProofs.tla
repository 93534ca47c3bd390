-------------------------- MODULE XhrCollectorProofs ---------------------------
(***************************************************************************)
(* XhrCollector for any set of responses, sizes and caps: nothing is       *)
(* fetched twice, the caps are kept and a retry starts from nothing, in    *)
(* whatever order events, harvests and resets come.                        *)
(***************************************************************************)
EXTENDS XhrCollector, FiniteSetTheorems, SequenceTheorems, TLAPS

\* What waits to be fetched or was fetched has arrived since the last reset and is
\* on one list, once; a harvest that is not under way has nothing left to fetch.
XhrInv == /\ TypeOK
          /\ documents <= attempt
          /\ since \subseteq received
          /\ worker # "fetch" => jobs = <<>>
          /\ IsInjective(readyIds)
          /\ FetchedOnce /\ ResetForgets /\ WithinCaps

USE AttemptsAssumption, PagesAssumption, SizesAssumption, CapsAssumption
USE DEF vars, collector, wire, thread

-------------------------------------------------------------------------------
(* Sequences without duplicates *)

\* What a sequence holds, by its places.
LEMMA Holds ==
    ASSUME NEW S, NEW s \in Seq(S), NEW x
    PROVE  x \in ToSet(s) <=> \E i \in 1..Len(s) : x = s[i]
BY DEF ToSet

\* One element more.
LEMMA HoldsAppended ==
    ASSUME NEW S, NEW s \in Seq(S), NEW x \in S
    PROVE  /\ ToSet(Append(s, x)) = ToSet(s) \cup {x}
           /\ IsInjective(s) /\ x \notin ToSet(s) => IsInjective(Append(s, x))
<1>1. /\ Append(s, x) \in Seq(S) /\ Len(Append(s, x)) = Len(s) + 1
      /\ \A i \in 1..Len(s) : Append(s, x)[i] = s[i]
      /\ Append(s, x)[Len(s) + 1] = x
  OBVIOUS
<1>2. Len(s) \in Nat /\ DOMAIN s = 1..Len(s) /\ DOMAIN Append(s, x) = 1..(Len(s) + 1)
  BY <1>1
<1>3. ASSUME NEW y PROVE y \in ToSet(Append(s, x)) <=> y \in ToSet(s) \cup {x}
  <2>1. 1..(Len(s) + 1) = 1..Len(s) \cup {Len(s) + 1}
    BY <1>2
  <2> QED
    BY <1>1, <1>2, <2>1 DEF ToSet
<1>4. IsInjective(s) /\ x \notin ToSet(s) => IsInjective(Append(s, x))
  <2> SUFFICES ASSUME IsInjective(s), x \notin ToSet(s),
                      NEW i \in 1..(Len(s) + 1), NEW j \in 1..(Len(s) + 1),
                      Append(s, x)[i] = Append(s, x)[j]
               PROVE  i = j
    BY <1>2 DEF IsInjective
  <2>1. \A k \in 1..Len(s) : s[k] # x
    BY <1>2 DEF ToSet
  <2>2. CASE i \in 1..Len(s) /\ j \in 1..Len(s)
    BY <1>1, <1>2, <2>2 DEF IsInjective
  <2>3. CASE i = Len(s) + 1 \/ j = Len(s) + 1
    BY <1>1, <1>2, <2>1, <2>3
  <2> QED
    BY <1>2, <2>2, <2>3
<1> QED
  BY <1>3, <1>4

\* Two sequences in a row.
LEMMA HoldsConcatenated ==
    ASSUME NEW S, NEW s \in Seq(S), NEW t \in Seq(S)
    PROVE  /\ ToSet(s \o t) = ToSet(s) \cup ToSet(t)
           /\ IsInjective(s \o t)
                  <=> IsInjective(s) /\ IsInjective(t) /\ ToSet(s) \cap ToSet(t) = {}
<1>1. /\ s \o t \in Seq(S) /\ Len(s \o t) = Len(s) + Len(t)
      /\ \A i \in 1..Len(s) : (s \o t)[i] = s[i]
      /\ \A i \in 1..Len(t) : (s \o t)[Len(s) + i] = t[i]
  OBVIOUS
<1>2. /\ Len(s) \in Nat /\ Len(t) \in Nat /\ DOMAIN s = 1..Len(s) /\ DOMAIN t = 1..Len(t)
      /\ DOMAIN (s \o t) = 1..(Len(s) + Len(t))
  BY <1>1
<1>3. \A i \in 1..(Len(s) + Len(t)) :
          i \in 1..Len(s) \/ (\E k \in 1..Len(t) : i = Len(s) + k)
  <2> SUFFICES ASSUME NEW i \in 1..(Len(s) + Len(t)), i \notin 1..Len(s)
               PROVE  \E k \in 1..Len(t) : i = Len(s) + k
    OBVIOUS
  <2>1. i - Len(s) \in 1..Len(t) /\ i = Len(s) + (i - Len(s))
    BY <1>2
  <2> QED
    BY <2>1
<1>4. ASSUME NEW y PROVE y \in ToSet(s \o t) <=> y \in ToSet(s) \cup ToSet(t)
  <2>1. y \in ToSet(s \o t) => y \in ToSet(s) \cup ToSet(t)
    <3> SUFFICES ASSUME NEW i \in 1..(Len(s) + Len(t)), y = (s \o t)[i]
                 PROVE  y \in ToSet(s) \cup ToSet(t)
      BY <1>2 DEF ToSet
    <3>1. CASE i \in 1..Len(s)
      BY <1>1, <1>2, <3>1 DEF ToSet
    <3>2. CASE \E k \in 1..Len(t) : i = Len(s) + k
      BY <1>1, <1>2, <3>2 DEF ToSet
    <3> QED
      BY <1>3, <3>1, <3>2
  <2>2. y \in ToSet(s) => y \in ToSet(s \o t)
    BY <1>1, <1>2 DEF ToSet
  <2>3. y \in ToSet(t) => y \in ToSet(s \o t)
    <3> SUFFICES ASSUME NEW k \in 1..Len(t), y = t[k] PROVE y \in ToSet(s \o t)
      BY <1>2 DEF ToSet
    <3>1. Len(s) + k \in 1..(Len(s) + Len(t)) /\ y = (s \o t)[Len(s) + k]
      BY <1>1, <1>2
    <3> QED
      BY <1>2, <3>1 DEF ToSet
  <2> QED
    BY <2>1, <2>2, <2>3
<1>5. IsInjective(s \o t) => IsInjective(s) /\ IsInjective(t)
  <2> SUFFICES ASSUME IsInjective(s \o t) PROVE IsInjective(s) /\ IsInjective(t)
    OBVIOUS
  <2>1. \A i, j \in 1..(Len(s) + Len(t)) : (s \o t)[i] = (s \o t)[j] => i = j
    BY <1>2 DEF IsInjective
  <2>2. \A i, j \in 1..Len(s) : s[i] = s[j] => i = j
    BY <1>1, <1>2, <2>1
  <2>3. ASSUME NEW i \in 1..Len(t), NEW j \in 1..Len(t), t[i] = t[j] PROVE i = j
    <3>1. /\ Len(s) + i \in 1..(Len(s) + Len(t)) /\ Len(s) + j \in 1..(Len(s) + Len(t))
          /\ (s \o t)[Len(s) + i] = t[i] /\ (s \o t)[Len(s) + j] = t[j]
      BY <1>1, <1>2
    <3>2. Len(s) + i = Len(s) + j
      BY <2>1, <2>3, <3>1
    <3> QED
      BY <1>2, <3>2
  <2> QED
    BY <1>2, <2>2, <2>3 DEF IsInjective
<1>6. IsInjective(s \o t) => ToSet(s) \cap ToSet(t) = {}
  <2> SUFFICES ASSUME IsInjective(s \o t), NEW i \in 1..Len(s), NEW j \in 1..Len(t), s[i] = t[j]
               PROVE  FALSE
    BY <1>2 DEF ToSet
  <2>1. (s \o t)[i] = (s \o t)[Len(s) + j] /\ i \in 1..(Len(s) + Len(t))
        /\ Len(s) + j \in 1..(Len(s) + Len(t))
    BY <1>1, <1>2
  <2>2. i = Len(s) + j
    BY <1>2, <2>1 DEF IsInjective
  <2> QED
    BY <1>2, <2>2
<1>7. ASSUME IsInjective(s), IsInjective(t), ToSet(s) \cap ToSet(t) = {}
      PROVE  IsInjective(s \o t)
  <2> SUFFICES ASSUME NEW i \in 1..(Len(s) + Len(t)), NEW j \in 1..(Len(s) + Len(t)),
                      (s \o t)[i] = (s \o t)[j]
               PROVE  i = j
    BY <1>2 DEF IsInjective
  <2>1. \A k \in 1..Len(s), l \in 1..Len(t) : s[k] # t[l]
    BY <1>2, <1>7 DEF ToSet
  <2>2. /\ \A k, l \in 1..Len(s) : s[k] = s[l] => k = l
        /\ \A k, l \in 1..Len(t) : t[k] = t[l] => k = l
    BY <1>2, <1>7 DEF IsInjective
  <2>3. CASE i \in 1..Len(s) /\ j \in 1..Len(s)
    BY <1>1, <2>2, <2>3
  <2>4. CASE i \in 1..Len(s) /\ \E k \in 1..Len(t) : j = Len(s) + k
    BY <1>1, <2>1, <2>4
  <2>5. CASE j \in 1..Len(s) /\ \E k \in 1..Len(t) : i = Len(s) + k
    BY <1>1, <2>1, <2>5
  <2>6. CASE (\E k \in 1..Len(t) : i = Len(s) + k) /\ (\E k \in 1..Len(t) : j = Len(s) + k)
    BY <1>1, <2>2, <2>6
  <2> QED
    BY <1>3, <2>3, <2>4, <2>5, <2>6
<1> QED
  BY <1>4, <1>5, <1>6, <1>7

\* What is left when the first element is taken off.
LEMMA HoldsWithoutHead ==
    ASSUME NEW S, NEW s \in Seq(S), s # <<>>
    PROVE  /\ Head(s) \in S /\ Tail(s) \in Seq(S)
           /\ ToSet(s) = {Head(s)} \cup ToSet(Tail(s))
           /\ IsInjective(s) => IsInjective(Tail(s)) /\ Head(s) \notin ToSet(Tail(s))
<1>1. Head(s) \in S /\ Tail(s) \in Seq(S) /\ <<Head(s)>> \in Seq(S)
      /\ <<Head(s)>> \o Tail(s) = s
  <2>1. Head(s) \in S /\ Tail(s) \in Seq(S)
    OBVIOUS
  <2>2. <<Head(s)>> \in Seq(S) /\ <<Head(s)>> \o Tail(s) \in Seq(S)
    BY <2>1
  <2>3. Len(<<Head(s)>> \o Tail(s)) = Len(s)
    BY <2>1, <2>2
  <2>4. \A i \in 1..Len(s) : (<<Head(s)>> \o Tail(s))[i] = s[i]
    BY <2>1, <2>2
  <2> QED
    BY <2>1, <2>2, <2>3, <2>4, SeqEqual
<1> DEFINE h == <<Head(s)>>
<1>2. ToSet(h) = {Head(s)}
  BY DEF ToSet
<1>3. h \in Seq(S) /\ h \o Tail(s) = s
  BY <1>1
<1> HIDE DEF h
<1>4. /\ ToSet(h \o Tail(s)) = ToSet(h) \cup ToSet(Tail(s))
      /\ IsInjective(h \o Tail(s))
             <=> IsInjective(h) /\ IsInjective(Tail(s)) /\ ToSet(h) \cap ToSet(Tail(s)) = {}
  BY <1>1, <1>3, HoldsConcatenated
<1>5. /\ ToSet(s) = ToSet(h) \cup ToSet(Tail(s))
      /\ IsInjective(s) => IsInjective(Tail(s)) /\ ToSet(h) \cap ToSet(Tail(s)) = {}
  BY <1>3, <1>4
<1> QED
  BY <1>1, <1>2, <1>5

\* A sequence of members of S is not shortened by Only.
LEMMA OnlyOfAll ==
    ASSUME NEW T, NEW s \in Seq(T), NEW S, ToSet(s) \subseteq S
    PROVE  Only(s, S) = s
<1> DEFINE kept == {i \in DOMAIN s : s[i] \in S}
<1>1. Len(s) \in Nat /\ DOMAIN s = 1..Len(s) /\ kept = 1..Len(s)
  BY DEF ToSet
<1>2. ASSUME NEW n \in Nat PROVE Cardinality(1..n) = n
  BY FS_Interval
<1>3. Only(s, S) = [k \in 1..Cardinality(kept) |->
                        s[CHOOSE i \in kept : Cardinality({j \in kept : j <= i}) = k]]
  BY DEF Only
<1> HIDE DEF kept
<1>4. ASSUME NEW k \in 1..Len(s)
      PROVE  (CHOOSE i \in kept : Cardinality({j \in kept : j <= i}) = k) = k
  <2>1. ASSUME NEW i \in kept PROVE Cardinality({j \in kept : j <= i}) = i
    <3>1. {j \in kept : j <= i} = 1..i /\ i \in Nat
      BY <1>1
    <3> QED
      BY <1>2, <3>1
  <2> QED
    BY <1>1, <2>1
<1>5. Cardinality(kept) = Len(s)
  BY <1>1, <1>2
<1>6. Only(s, S) = [k \in 1..Len(s) |-> s[k]]
  BY <1>3, <1>4, <1>5
<1>7. [k \in 1..Len(s) |-> s[k]] = s
  BY <1>1
<1> QED
  BY <1>6, <1>7

\* The three lists in a row.
LEMMA Lists ==
    ASSUME NEW S, NEW r \in Seq(S), NEW j \in Seq(S), NEW c \in Seq(S)
    PROVE  /\ ToSet(r \o j \o c) = ToSet(r) \cup ToSet(j) \cup ToSet(c)
           /\ ToSet(c \o j) = ToSet(c) \cup ToSet(j)
           /\ IsInjective(c \o j)
                  <=> IsInjective(c) /\ IsInjective(j) /\ ToSet(c) \cap ToSet(j) = {}
<1>1. r \o j \in Seq(S) /\ ToSet(r \o j) = ToSet(r) \cup ToSet(j)
  BY HoldsConcatenated
<1>2. ToSet(r \o j \o c) = ToSet(r \o j) \cup ToSet(c)
  <2> DEFINE rj == r \o j
  <2>1. rj \in Seq(S)
    BY <1>1
  <2> HIDE DEF rj
  <2>2. ToSet(rj \o c) = ToSet(rj) \cup ToSet(c)
    BY <2>1, HoldsConcatenated
  <2> QED
    BY <2>2 DEF rj
<1>3. /\ ToSet(c \o j) = ToSet(c) \cup ToSet(j)
      /\ IsInjective(c \o j)
             <=> IsInjective(c) /\ IsInjective(j) /\ ToSet(c) \cap ToSet(j) = {}
  BY HoldsConcatenated
<1> QED
  BY <1>1, <1>2, <1>3

\* And when they are empty.
LEMMA NothingYet ==
    /\ ToSet(<<>>) = {} /\ IsInjective(<<>>)
    /\ ToSet(<<>> \o <<>> \o <<>>) = {}
    /\ ToSet(<<>> \o <<>>) = {} /\ IsInjective(<<>> \o <<>>)
<1>1. ToSet(<<>>) = {} /\ IsInjective(<<>>) /\ <<>> \in Seq(Nat)
  BY DEF ToSet, IsInjective
<1> QED
  BY <1>1, Lists

-------------------------------------------------------------------------------
(* The invariant is inductive *)

\* The listener notes a response that is on no list yet.
LEMMA OnResponseKeeps ==
    ASSUME XhrInv, NEW x \in Responses, OnResponse(x)
    PROVE  XhrInv'
<1> USE DEF XhrInv, OnResponse
<1>1. TypeOK' /\ documents' <= attempt' /\ since' \subseteq received'
  BY DEF TypeOK
<1>2. x \notin ToSet(collected \o jobs)
  BY Lists DEF TypeOK, ResetForgets
<1>3. FetchedOnce'
  BY <1>2 DEF FetchedOnce
<1>4. ResetForgets'
  BY DEF ResetForgets
<1>5. WithinCaps'
  BY DEF WithinCaps, RunningTotal
<1> QED
  BY <1>1, <1>3, <1>4, <1>5

\* A response that is pending becomes ready, once.
LEMMA OnFinishedKeeps ==
    ASSUME XhrInv, NEW x \in Responses, OnFinished(x)
    PROVE  XhrInv'
<1> USE DEF XhrInv, OnFinished
<1>1. /\ collected \in Seq(Responses) /\ jobs \in Seq(Responses)
      /\ readyIds \in Seq(Responses)
  BY DEF TypeOK
<1>2. \/ readyIds' = readyIds
      \/ /\ readyIds' = Append(readyIds, x) /\ x \in pending /\ x \notin ToSet(readyIds)
         /\ ToSet(readyIds') = ToSet(readyIds) \cup {x} /\ IsInjective(readyIds')
  BY <1>1, HoldsAppended
<1>3. TypeOK' /\ documents' <= attempt' /\ since' \subseteq received'
  BY <1>2 DEF TypeOK
<1>4. FetchedOnce' /\ IsInjective(readyIds)'
  BY <1>2 DEF FetchedOnce
<1>5. ResetForgets'
  <2>1. readyIds' \in Seq(Responses) /\ UNCHANGED <<jobs, collected, pending, since>>
    BY <1>3 DEF TypeOK
  <2>2. ToSet(readyIds') \subseteq ToSet(readyIds) \cup pending
    BY <1>2
  <2>3. ToSet(readyIds' \o jobs \o collected)
            = ToSet(readyIds') \cup ToSet(jobs) \cup ToSet(collected)
    BY ONLY <1>1, <2>1, Lists
  <2>4. pending \cup ToSet(readyIds) \cup ToSet(jobs) \cup ToSet(collected) \subseteq since
    BY <1>1, Lists DEF ResetForgets
  <2> QED
    BY <2>1, <2>2, <2>3, <2>4 DEF ResetForgets
<1>6. WithinCaps'
  BY DEF WithinCaps, RunningTotal
<1> QED
  BY <1>3, <1>4, <1>5, <1>6

\* What has finished loading is taken over, all of it: readyIds holds only what is
\* pending.
LEMMA BeginHarvestKeeps ==
    ASSUME XhrInv, BeginHarvest
    PROVE  XhrInv'
<1> USE DEF XhrInv, BeginHarvest
<1>1. /\ collected \in Seq(Responses) /\ readyIds \in Seq(Responses)
      /\ <<>> \in Seq(Responses) /\ jobs = <<>>
  BY DEF TypeOK
<1>2. jobs' = readyIds /\ readyIds' = <<>> /\ UNCHANGED <<collected, since>>
  BY <1>1, OnlyOfAll DEF FetchedOnce
<1>3. TypeOK' /\ documents' <= attempt' /\ since' \subseteq received'
  BY <1>1, <1>2 DEF TypeOK
<1>4. ToSet(<<>>) = {} /\ IsInjective(<<>>)
  BY DEF ToSet, IsInjective
<1>5. /\ ToSet(readyIds) \subseteq pending /\ IsInjective(collected)
      /\ pending \cap ToSet(collected) = {}
      /\ pending \cup ToSet(readyIds) \cup ToSet(collected) \subseteq since
  BY <1>1, Lists DEF FetchedOnce, ResetForgets
<1>6. FetchedOnce'
  <2>1. IsInjective(collected \o readyIds)
    BY <1>1, <1>5, Lists
  <2>2. pending' \cap ToSet(collected \o readyIds) = {}
    BY <1>1, <1>5, Lists
  <2> QED
    BY <1>2, <1>4, <2>1, <2>2 DEF FetchedOnce
<1>7. ResetForgets'
  <2>1. ToSet(<<>> \o readyIds \o collected) = ToSet(readyIds) \cup ToSet(collected)
    BY <1>1, <1>4, Lists
  <2> QED
    BY <1>2, <1>5, <2>1 DEF ResetForgets
<1>8. WithinCaps'
  BY DEF WithinCaps, RunningTotal
<1>9. IsInjective(readyIds)'
  BY <1>2, <1>4
<1> QED
  BY <1>3, <1>6, <1>7, <1>8, <1>9

\* A body is dropped, ends the harvest at a cap, or is kept within both caps.
LEMMA FetchBodyKeeps ==
    ASSUME XhrInv, FetchBody
    PROVE  XhrInv'
<1> USE DEF XhrInv
<1> DEFINE x == Head(jobs)
<1>1. /\ collected \in Seq(Responses) /\ jobs \in Seq(Responses)
      /\ readyIds \in Seq(Responses) /\ <<>> \in Seq(Responses)
      /\ jobs # <<>> /\ worker = "fetch"
      /\ UNCHANGED <<pending, readyIds, document, wire, attempt, worker>>
  BY DEF TypeOK, FetchBody
<1>2. /\ x \in Responses /\ Tail(jobs) \in Seq(Responses)
      /\ ToSet(jobs) = {x} \cup ToSet(Tail(jobs))
      /\ IsInjective(jobs) => IsInjective(Tail(jobs)) /\ x \notin ToSet(Tail(jobs))
  BY <1>1, HoldsWithoutHead
<1>3. ToSet(<<>>) = {} /\ IsInjective(<<>>)
  BY DEF ToSet, IsInjective
<1>4. /\ IsInjective(collected) /\ IsInjective(jobs) /\ ToSet(collected) \cap ToSet(jobs) = {}
      /\ ToSet(readyIds) \subseteq pending
      /\ pending \cap (ToSet(collected) \cup ToSet(jobs)) = {}
      /\ pending \cup ToSet(readyIds) \cup ToSet(jobs) \cup ToSet(collected) \subseteq since
  BY <1>1, Lists DEF FetchedOnce, ResetForgets
<1> HIDE DEF x
<1>5. CASE jobs' \in {Tail(jobs), <<>>} /\ UNCHANGED <<collected, aggregate>>
  <2>1. /\ jobs' \in Seq(Responses) /\ ToSet(jobs') \subseteq ToSet(jobs)
        /\ IsInjective(jobs')
    BY <1>1, <1>2, <1>3, <1>4, <1>5
  <2>2. TypeOK' /\ documents' <= attempt' /\ since' \subseteq received'
    BY <1>1, <1>5, <2>1 DEF TypeOK
  <2>3. FetchedOnce'
    BY <1>1, <1>4, <1>5, <2>1, Lists DEF FetchedOnce
  <2>4. ResetForgets'
    BY <1>1, <1>4, <1>5, <2>1, Lists DEF ResetForgets
  <2>5. WithinCaps'
    BY <1>5 DEF WithinCaps, RunningTotal
  <2> QED
    BY <1>1, <2>2, <2>3, <2>4, <2>5
<1>6. CASE SizeOf[x] <= MaxBody /\ ~CapReached(x) /\ KeepBody(x)
  <2>1. /\ jobs' = Tail(jobs) /\ collected' = Append(collected, x)
        /\ collected' \in Seq(Responses) /\ ToSet(collected') = ToSet(collected) \cup {x}
        /\ IsInjective(collected')
    BY <1>1, <1>2, <1>4, <1>6, HoldsAppended DEF KeepBody
  <2>2. aggregate' = aggregate + SizeOf[x] /\ SizeOf[x] \in Nat /\ aggregate' \in 0..MaxAggregate
    BY <1>2, <1>6 DEF KeepBody, CapReached, TypeOK
  <2>3. TypeOK' /\ documents' <= attempt' /\ since' \subseteq received'
    BY <1>1, <1>2, <2>1, <2>2 DEF TypeOK
  <2>4. /\ ToSet(collected' \o jobs') = ToSet(collected') \cup ToSet(jobs')
        /\ ToSet(readyIds \o jobs' \o collected')
               = ToSet(readyIds) \cup ToSet(jobs') \cup ToSet(collected')
        /\ IsInjective(collected' \o jobs')
               <=> /\ IsInjective(collected') /\ IsInjective(jobs')
                   /\ ToSet(collected') \cap ToSet(jobs') = {}
    <3>1. /\ readyIds \in Seq(Responses) /\ jobs' \in Seq(Responses)
          /\ collected' \in Seq(Responses)
      BY <1>1, <1>2, <2>1
    <3> QED
      BY ONLY <3>1, Lists
  <2>5. FetchedOnce' /\ ResetForgets'
    <3>1. IsInjective(collected' \o jobs')
      BY <1>2, <1>4, <2>1, <2>4
    <3>2. ToSet(collected' \o jobs') = ToSet(collected) \cup ToSet(jobs)
      BY <1>2, <2>1, <2>4
    <3>3. ToSet(readyIds \o jobs' \o collected') \subseteq since
      BY <1>2, <1>4, <2>1, <2>4
    <3> QED
      BY <1>1, <1>4, <3>1, <3>2, <3>3 DEF FetchedOnce, ResetForgets
  <2>6. WithinCaps'
    <3> DEFINE n == Len(collected)
    <3>1. /\ n \in Nat /\ Len(collected') = n + 1 /\ n < MaxResponses
          /\ \A i \in 1..n : collected'[i] = collected[i]
          /\ collected'[n + 1] = x
      BY <1>1, <1>2, <1>6, <2>1 DEF CapReached, WithinCaps
    <3>2. PICK total \in [0..n -> 0..MaxAggregate] :
              RunningTotal(total) /\ aggregate = total[n]
      BY DEF WithinCaps
    <3> DEFINE longer == [i \in 0..(n + 1) |-> IF i <= n THEN total[i] ELSE aggregate']
    <3>3. longer \in [0..(n + 1) -> 0..MaxAggregate] /\ aggregate' = longer[n + 1]
      BY <2>2, <3>1, <3>2
    <3>4. ASSUME NEW i \in 1..(n + 1)
          PROVE  longer[i] = longer[i - 1] + SizeOf[collected'[i]]
      <4>1. CASE i = n + 1
        BY <2>2, <3>1, <3>2, <4>1
      <4>2. CASE i \in 1..n
        <5>1. /\ i \in 1..Len(collected) /\ i \in Nat /\ i <= n /\ i - 1 <= n
              /\ i \in 0..(n + 1) /\ i - 1 \in 0..(n + 1)
          BY <3>1, <4>2
        <5>2. total[i] = total[i - 1] + SizeOf[collected[i]]
          BY <3>2, <5>1 DEF RunningTotal
        <5>3. longer[i] = total[i] /\ longer[i - 1] = total[i - 1]
          BY <5>1
        <5> QED
          BY <3>1, <4>2, <5>2, <5>3
      <4> QED
        BY <3>1, <4>1, <4>2
    <3>5. longer[0] = 0
      BY <3>1, <3>2 DEF RunningTotal
    <3>6. \A y \in ToSet(collected') : SizeOf[y] <= MaxBody
      BY <1>6, <2>1 DEF WithinCaps
    <3>7. \A i \in 1..Len(collected') :
              longer[i] = longer[i - 1] + SizeOf[collected'[i]]
      BY <3>1, <3>4
    <3>8. longer \in [0..Len(collected') -> 0..MaxAggregate] /\ aggregate' = longer[Len(collected')]
      BY <3>1, <3>3
    <3>9. Len(collected') <= MaxResponses
      BY <3>1
    <3> HIDE DEF longer, n
    <3> QED
      BY <3>5, <3>6, <3>7, <3>8, <3>9 DEF WithinCaps, RunningTotal
  <2> QED
    BY <1>1, <2>3, <2>5, <2>6
<1> QED
  BY <1>5, <1>6 DEF x, FetchBody, KeepBody

\* A reset leaves nothing on any list.
LEMMA ResetKeeps ==
    ASSUME XhrInv, ResetForRetry
    PROVE  XhrInv'
<1>1. /\ pending' = {} /\ readyIds' = <<>> /\ collected' = <<>> /\ jobs' = <<>>
      /\ aggregate' = 0 /\ document' = 0 /\ since' = {} /\ worker' = "browse"
      /\ attempt' = attempt + 1 /\ attempt' \in 1..Attempts
      /\ UNCHANGED <<received, finished, documents>>
  BY DEF XhrInv, TypeOK, ResetForRetry
<1>2. TypeOK' /\ documents' <= attempt' /\ since' \subseteq received'
  BY <1>1 DEF XhrInv, TypeOK
<1>3. FetchedOnce' /\ ResetForgets' /\ IsInjective(readyIds)'
  BY <1>1, NothingYet DEF FetchedOnce, ResetForgets
<1>4. WithinCaps'
  <2> DEFINE total == [i \in 0..0 |-> 0]
  <2>1. Len(<<>>) = 0 /\ total \in [0..0 -> 0..MaxAggregate]
    OBVIOUS
  <2>2. total[0] = 0
    OBVIOUS
  <2> HIDE DEF total
  <2> QED
    BY <1>1, <2>1, <2>2, NothingYet DEF WithinCaps, RunningTotal
<1> QED
  BY <1>1, <1>2, <1>3, <1>4 DEF XhrInv

\* Init, every step, and stuttering.
LEMMA XhrInvInductive ==
    /\ Init => XhrInv
    /\ XhrInv /\ [Next]_vars => XhrInv'
<1>1. ASSUME Init PROVE XhrInv
  <2>1. TypeOK
    BY <1>1 DEF Init, TypeOK
  <2>2. FetchedOnce /\ ResetForgets /\ IsInjective(readyIds)
    BY <1>1, NothingYet DEF Init, FetchedOnce, ResetForgets
  <2>3. WithinCaps
    <3> DEFINE total == [i \in 0..0 |-> 0]
    <3>1. Len(<<>>) = 0 /\ total \in [0..0 -> 0..MaxAggregate]
      OBVIOUS
    <3>2. total[0] = 0
      OBVIOUS
    <3> HIDE DEF total
    <3> QED
      BY <1>1, <3>1, <3>2, NothingYet DEF Init, WithinCaps, RunningTotal
  <2> QED
    BY <1>1, <2>1, <2>2, <2>3 DEF Init, XhrInv
<1>2. ASSUME XhrInv, OnDocument \/ ReturnResults \/ UNCHANGED vars PROVE XhrInv'
  <2>1. UNCHANGED <<pending, readyIds, collected, aggregate, received, since, attempt, jobs>>
    BY <1>2 DEF OnDocument, ReturnResults
  <2>2. TypeOK' /\ documents' <= attempt'
    BY <1>2 DEF XhrInv, TypeOK, OnDocument, ReturnResults
  <2>3. worker' # "fetch" => jobs' = <<>>
    BY <1>2 DEF XhrInv, OnDocument, ReturnResults
  <2>4. FetchedOnce' /\ ResetForgets' /\ WithinCaps'
    BY <1>2, <2>1 DEF XhrInv, FetchedOnce, ResetForgets, WithinCaps, RunningTotal
  <2> QED
    BY <1>2, <2>1, <2>2, <2>3, <2>4 DEF XhrInv
<1> QED
  BY <1>1, <1>2, OnResponseKeeps, OnFinishedKeeps, BeginHarvestKeeps, FetchBodyKeeps, ResetKeeps
  DEF Next

\* Whatever order the events, harvests and resets come in.
THEOREM XhrInvariant == Spec => []XhrInv
BY XhrInvInductive, PTL DEF Spec

-------------------------------------------------------------------------------
(* What follows from it *)

\* Every variable keeps its type; no attempt is begun after the last.
THEOREM XhrTyped == Spec => []TypeOK
BY XhrInvariant, PTL DEF XhrInv

\* The caps and the running total hold for what is returned, whatever the sizes are.
THEOREM CapsAreKept == Spec => []WithinCaps
BY XhrInvariant, PTL DEF XhrInv

\* No response is fetched or returned twice.
THEOREM FetchesAreUnique == Spec => []FetchedOnce
BY XhrInvariant, PTL DEF XhrInv

\* Nothing that a retry finds is older than its reset.
THEOREM ResetIsComplete == Spec => []ResetForgets
BY XhrInvariant, PTL DEF XhrInv
===============================================================================
