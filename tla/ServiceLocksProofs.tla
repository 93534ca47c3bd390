-------------------------- MODULE ServiceLocksProofs ---------------------------
(***************************************************************************)
(* ServiceLocks for any number of workers: the locks are taken in one      *)
(* order, so that no threads wait for each other, and the event loop never *)
(* waits while it serves.                                                  *)
(***************************************************************************)
EXTENDS ServiceLocks, SequenceTheorems, TLAPS

\* What a thread may hold when it gets to a step.
Held == {"none", "ids", "pool"}

\* The choices of a worker, and those of the daemon.
Choices(t) == IF t \in Workers THEN {"enter", "tiers", "dirs", "finish"}
                               ELSE {"reap", "refill", "build"}

\* What is done with no lock held, and all there is to do.
Free(t) == {Brief(l) : l \in Locks} \cup {OneOf(ways) : ways \in Choices(t)} \cup {Wait}
Steps(t) == Free(t) \cup {Io, Get("ids"), Get("pool"), Put("ids"), Put("pool")}

\* The discipline of one step: only one lock is held at a time, calls that block
\* are made under it, and under the lock of the ids only that of the pool is
\* asked for, and only briefly.
Moves(t, step, from, to) ==
    \/ from = "none" /\ to = "none" /\ step \in Free(t)
    \/ from = "none" /\ to \in {"ids", "pool"} /\ step = Get(to)
    \/ from \in {"ids", "pool"} /\ to = "none" /\ step = Put(from)
    \/ from \in {"ids", "pool"} /\ to = from /\ step = Io
    \/ from = "ids" /\ to = "ids" /\ step = Brief("pool")

\* A plan keeps to it: what is held before each of its steps is held[i].
Legal(t, plan, from, to) ==
    /\ plan \in Seq(Steps(t))
    /\ \E held \in [1..(Len(plan) + 1) -> Held] :
           /\ held[1] = from /\ held[Len(plan) + 1] = to
           /\ \A i \in 1..Len(plan) : Moves(t, plan[i], held[i], held[i + 1])

HeldBy(t) == IF owner["pool"] = t THEN "pool" ELSE IF owner["ids"] = t THEN "ids" ELSE "none"

\* Nobody keeps the lock of a session; what a thread has still to do fits what it
\* holds and ends with nothing held; while it serves, the event loop only closes
\* drivers.
LockInv == /\ owner \in [Locks -> Threads \cup {Nobody}]
           /\ todo \in [Threads -> UNION {Seq(Steps(t)) : t \in Threads}]
           /\ \A w \in Workers : owner[w] = Nobody
           /\ owner["pool"] = owner["ids"] => owner["pool"] = Nobody
           /\ \A t \in Threads : Legal(t, todo[t], HeldBy(t), "none")
           /\ stage = "serving" =>
                  todo["loop"] = <<>> \/ \E w \in Workers : todo["loop"] = ForceClose(w)

USE WorkersAssumption, NobodyAssumption

-------------------------------------------------------------------------------
(* Plans that keep to the discipline *)

\* Nothing at all.
LEMMA LegalNothing ==
    ASSUME NEW t, NEW a \in Held
    PROVE  Legal(t, <<>>, a, a)
<1> DEFINE held == [i \in 1..1 |-> a]
<1>1. <<>> \in Seq(Steps(t)) /\ Len(<<>>) = 0
  OBVIOUS
<1>2. held \in [1..(Len(<<>>) + 1) -> Held] /\ held[1] = a /\ held[Len(<<>>) + 1] = a
  BY <1>1
<1> HIDE DEF held
<1> QED
  BY <1>1, <1>2 DEF Legal

\* One step.
LEMMA LegalSingle ==
    ASSUME NEW t, NEW step \in Steps(t), NEW a \in Held, NEW b \in Held, Moves(t, step, a, b)
    PROVE  Legal(t, <<step>>, a, b)
<1> DEFINE held == [i \in 1..2 |-> IF i = 1 THEN a ELSE b]
<1>1. <<step>> \in Seq(Steps(t)) /\ Len(<<step>>) = 1
  OBVIOUS
<1>2. held \in [1..(Len(<<step>>) + 1) -> Held] /\ held[1] = a /\ held[2] = b
  OBVIOUS
<1>3. held[Len(<<step>>) + 1] = b
  BY <1>1, <1>2
<1>4. \A i \in 1..Len(<<step>>) : Moves(t, <<step>>[i], held[i], held[i + 1])
  BY <1>1, <1>2
<1> HIDE DEF held
<1> QED
  BY <1>1, <1>2, <1>3, <1>4 DEF Legal

\* One plan after the other.
LEMMA LegalJoin ==
    ASSUME NEW t, NEW p, NEW q, NEW a, NEW b, NEW c, Legal(t, p, a, b), Legal(t, q, b, c)
    PROVE  Legal(t, p \o q, a, c)
<1>1. p \in Seq(Steps(t)) /\ q \in Seq(Steps(t)) /\ p \o q \in Seq(Steps(t))
  BY DEF Legal
<1>2. PICK f \in [1..(Len(p) + 1) -> Held] :
          /\ f[1] = a /\ f[Len(p) + 1] = b
          /\ \A i \in 1..Len(p) : Moves(t, p[i], f[i], f[i + 1])
  BY DEF Legal
<1>3. PICK g \in [1..(Len(q) + 1) -> Held] :
          /\ g[1] = b /\ g[Len(q) + 1] = c
          /\ \A i \in 1..Len(q) : Moves(t, q[i], g[i], g[i + 1])
  BY DEF Legal
<1> DEFINE held == [i \in 1..(Len(p \o q) + 1) |-> IF i <= Len(p) THEN f[i] ELSE g[i - Len(p)]]
<1>4. Len(p) \in Nat /\ Len(q) \in Nat /\ Len(p \o q) = Len(p) + Len(q)
  BY <1>1
<1>5. held \in [1..(Len(p \o q) + 1) -> Held]
  BY <1>4
<1>6. held[1] = a /\ held[Len(p \o q) + 1] = c
  BY <1>2, <1>3, <1>4
<1>7. ASSUME NEW i \in 1..Len(p \o q)
      PROVE  Moves(t, (p \o q)[i], held[i], held[i + 1])
  <2>1. CASE i < Len(p)
    BY <1>1, <1>2, <1>4, <2>1
  <2>2. CASE i = Len(p)
    BY <1>1, <1>2, <1>3, <1>4, <2>2
  <2>3. CASE i > Len(p)
    <3>1. i - Len(p) \in 1..Len(q) /\ (p \o q)[i] = q[i - Len(p)]
      BY <1>1, <1>4, <2>3
    <3>2. held[i] = g[i - Len(p)] /\ held[i + 1] = g[(i - Len(p)) + 1]
      BY <1>4, <2>3
    <3> QED
      BY <1>3, <3>1, <3>2
  <2> QED
    BY <1>4, <2>1, <2>2, <2>3
<1> QED
  BY <1>1, <1>5, <1>6, <1>7 DEF Legal

\* The head of a plan, and what is left after it.
LEMMA LegalTail ==
    ASSUME NEW t, NEW p, NEW a, NEW b, Legal(t, p, a, b), p # <<>>
    PROVE  \E m \in Held : Moves(t, Head(p), a, m) /\ Legal(t, Tail(p), m, b)
<1>1. PICK f \in [1..(Len(p) + 1) -> Held] :
          /\ f[1] = a /\ f[Len(p) + 1] = b
          /\ \A i \in 1..Len(p) : Moves(t, p[i], f[i], f[i + 1])
  BY DEF Legal
<1>2. p \in Seq(Steps(t)) /\ Len(p) \in Nat \ {0} /\ Tail(p) \in Seq(Steps(t))
  BY DEF Legal
<1>3. Len(Tail(p)) = Len(p) - 1 /\ \A i \in 1..Len(Tail(p)) : Tail(p)[i] = p[i + 1]
  BY <1>2
<1> DEFINE held == [i \in 1..(Len(Tail(p)) + 1) |-> f[i + 1]]
<1>4. held \in [1..(Len(Tail(p)) + 1) -> Held]
  BY <1>2, <1>3
<1>5. held[1] = f[2] /\ held[Len(Tail(p)) + 1] = b
  BY <1>1, <1>2, <1>3
<1>6. ASSUME NEW i \in 1..Len(Tail(p))
      PROVE  Moves(t, Tail(p)[i], held[i], held[i + 1])
  <2>1. i + 1 \in 1..Len(p) /\ held[i] = f[i + 1] /\ held[i + 1] = f[(i + 1) + 1]
    BY <1>2, <1>3
  <2> QED
    BY <1>1, <1>3, <2>1
<1>7. Legal(t, Tail(p), f[2], b)
  BY <1>2, <1>4, <1>5, <1>6 DEF Legal
<1>8. Moves(t, Head(p), a, f[2]) /\ f[2] \in Held
  BY <1>1, <1>2
<1> QED
  BY <1>7, <1>8

-------------------------------------------------------------------------------
(* The operations keep to it *)

\* A step in front of one or two others.
LEMMA Concatenated ==
    ASSUME NEW S, NEW x \in S, NEW y \in S, NEW z \in S
    PROVE  <<x>> \o <<y>> = <<x, y>> /\ <<x>> \o <<y, z>> = <<x, y, z>>
<1>1. /\ <<x>> \o <<y>> \in Seq(S) /\ <<x, y>> \in Seq(S)
      /\ <<x>> \o <<y, z>> \in Seq(S) /\ <<x, y, z>> \in Seq(S)
  OBVIOUS
<1>2. /\ Len(<<x>> \o <<y>>) = 2 /\ Len(<<x, y>>) = 2
      /\ Len(<<x>> \o <<y, z>>) = 3 /\ Len(<<x, y, z>>) = 3
  OBVIOUS
<1>3. \A i \in 1..2 : (<<x>> \o <<y>>)[i] = <<x, y>>[i]
  OBVIOUS
<1>4. \A i \in 1..3 : (<<x>> \o <<y, z>>)[i] = <<x, y, z>>[i]
  OBVIOUS
<1> QED
  BY <1>1, <1>2, <1>3, <1>4, SeqEqual

\* A step that takes no lock and keeps none.
LEMMA FreeStep ==
    ASSUME NEW t, NEW step \in Free(t)
    PROVE  Legal(t, <<step>>, "none", "none")
BY LegalSingle DEF Steps, Moves, Held

\* A lock used briefly.
LEMMA BriefIsLegal ==
    ASSUME NEW t, NEW l \in Locks
    PROVE  Legal(t, <<Brief(l)>>, "none", "none")
BY FreeStep DEF Free

\* A call that blocks, under a lock.
LEMMA IoIsLegal ==
    ASSUME NEW t, NEW l \in {"ids", "pool"}
    PROVE  Legal(t, <<Io>>, l, l)
<1>1. Io \in Steps(t) /\ l \in Held /\ Moves(t, Io, l, l)
  BY DEF Steps, Moves, Held
<1> QED
  BY <1>1, LegalSingle

\* A lock is given back.
LEMMA PutIsLegal ==
    ASSUME NEW t, NEW l \in {"ids", "pool"}
    PROVE  Legal(t, <<Put(l)>>, l, "none")
<1>1. Put(l) \in Steps(t) /\ l \in Held /\ "none" \in Held /\ Moves(t, Put(l), l, "none")
  BY DEF Steps, Moves, Held
<1> QED
  BY <1>1, LegalSingle

\* What is done under a lock is legal when its body is.
LEMMA HoldingIsLegal ==
    ASSUME NEW t, NEW l \in {"ids", "pool"}, NEW body, Legal(t, body, l, l)
    PROVE  Legal(t, Holding(l, body), "none", "none")
<1>1. Get(l) \in Steps(t) /\ l \in Held /\ "none" \in Held /\ Moves(t, Get(l), "none", l)
  BY DEF Steps, Moves, Held
<1>2. Legal(t, <<Get(l)>>, "none", l)
  BY <1>1, LegalSingle
<1>3. Legal(t, <<Get(l)>> \o body, "none", l)
  BY <1>2, LegalJoin
<1> QED
  BY <1>3, PutIsLegal, LegalJoin DEF Holding

\* The pool closes a driver, or reads the cgroup, under its lock.
LEMMA PoolIoIsLegal == ASSUME NEW t PROVE Legal(t, Holding("pool", <<Io>>), "none", "none")
BY IoIsLegal, HoldingIsLegal

\* prune_runtime_dirs: the one place where a lock is asked for under another.
LEMMA PruneIsLegal == ASSUME NEW t PROVE Legal(t, PruneRuntimeDirs, "none", "none")
<1>1. Brief("pool") \in Steps(t) /\ Moves(t, Brief("pool"), "ids", "ids") /\ "ids" \in Held
  BY DEF Steps, Free, Moves, Held, Locks
<1>2. Legal(t, LiveSpareDirs, "ids", "ids")
  BY <1>1, LegalSingle DEF LiveSpareDirs
<1>3. Legal(t, LiveSpareDirs \o <<Io>>, "ids", "ids")
  BY <1>2, IoIsLegal, LegalJoin
<1> QED
  BY <1>3, HoldingIsLegal DEF PruneRuntimeDirs

\* Nothing to do.
LEMMA NoneIsLegal == ASSUME NEW t PROVE Legal(t, <<>>, "none", "none")
BY LegalNothing DEF Held

\* What the worker of a scrape does between take() and the notify.
LEMMA TiersAreLegal ==
    ASSUME NEW w \in Workers, NEW way \in Tiers(w)
    PROVE  Legal(w, way, "none", "none")
<1> DEFINE OK(p) == Legal(w, p, "none", "none")
<1>1. \A p, q : OK(p) /\ OK(q) => OK(p \o q)
  BY LegalJoin
<1>2. /\ OK(ForceClose(w)) /\ OK(UnregisterRequestId) /\ OK(ReleaseAdopted)
      /\ OK(Miss) /\ OK(Hit)
  BY BriefIsLegal DEF ForceClose, UnregisterRequestId, ReleaseAdopted, Miss, Hit, Locks
<1>3. OK(<<OneOf("dirs")>>) /\ OK(<<OneOf("finish")>>)
  BY FreeStep DEF Free, Choices
<1>4. OK(<<>>) /\ OK(Holding("pool", <<Io>>))
  BY NoneIsLegal, PoolIoIsLegal
<1> HIDE DEF OK
<1>5. OK(Unhealthy)
  BY <1>1, <1>2, <1>4 DEF Unhealthy
<1>6. OK(Exit(w, <<>>)) /\ OK(Exit(w, ReleaseAdopted))
  BY <1>1, <1>2, <1>4 DEF Exit
<1>7. ASSUME NEW take \in {Miss, Unhealthy}
      PROVE  OK(take \o <<OneOf("dirs")>> \o Exit(w, <<>>) \o <<OneOf("finish")>>)
  <2>1. OK(take)
    BY <1>2, <1>5
  <2>2. OK(take \o <<OneOf("dirs")>>)
    BY <1>1, <1>3, <2>1
  <2>3. OK(take \o <<OneOf("dirs")>> \o Exit(w, <<>>))
    BY <1>1, <1>6, <2>2
  <2> QED
    BY <1>1, <1>3, <2>3
<1>8. OK(Hit \o <<OneOf("dirs")>> \o Exit(w, ReleaseAdopted) \o <<OneOf("finish")>>)
  <2>1. OK(Hit \o <<OneOf("dirs")>>)
    BY <1>1, <1>2, <1>3
  <2>2. OK(Hit \o <<OneOf("dirs")>> \o Exit(w, ReleaseAdopted))
    BY <1>1, <1>6, <2>1
  <2> QED
    BY <1>1, <1>3, <2>2
<1>9. OK(way)
  BY <1>2, <1>6, <1>7, <1>8 DEF Tiers
<1> QED
  BY <1>9 DEF OK

\* Whatever a thread may choose is legal with nothing held.
LEMMA WaysAreLegal ==
    ASSUME NEW t \in Threads, NEW ways \in Choices(t), NEW way \in Ways(t)[ways]
    PROVE  Legal(t, way, "none", "none")
<1> DEFINE OK(p) == Legal(t, p, "none", "none")
<1>1. \A p, q : OK(p) /\ OK(q) => OK(p \o q)
  BY LegalJoin
<1>2. OK(<<>>) /\ OK(<<Brief("pool")>>) /\ OK(Holding("pool", <<Io>>)) /\ OK(PruneRuntimeDirs)
  BY NoneIsLegal, BriefIsLegal, PoolIoIsLegal, PruneIsLegal DEF Locks
<1>3. t \in Workers => OK(<<OneOf("tiers")>>)
  BY FreeStep DEF Free, Choices
<1>4. t \notin Workers => OK(<<OneOf("build")>>)
  BY FreeStep DEF Free, Choices
<1>5. t \in Workers => \A p \in Tiers(t) : OK(p)
  BY TiersAreLegal
<1> HIDE DEF OK
<1>6. t \in Workers /\ ways = "enter" => OK(way)
  <2>1. t \in Workers => OK(PruneRuntimeDirs \o <<OneOf("tiers")>>)
    BY <1>1, <1>2, <1>3
  <2>2. ways = "enter" => way \in Enter
    BY DEF Ways
  <2> QED
    BY <1>2, <2>1, <2>2 DEF Enter
<1>7. t \in Workers /\ ways = "tiers" => OK(way)
  BY <1>5 DEF Ways
<1>8. ways \in {"dirs", "finish", "reap"} => OK(way)
  BY <1>2 DEF Ways, MakeDirs, Finish, NotifyScrapeFinished, MaybeReapTtl
<1>9. ways = "build" => OK(way)
  BY <1>2 DEF Ways, Built
<1>10. t \notin Workers /\ ways = "refill" => OK(way)
  <2>1. t \notin Workers => OK(Holding("pool", <<Io>>) \o <<OneOf("build")>> \o EndBuild)
    BY <1>1, <1>2, <1>4 DEF EndBuild
  <2>2. ways = "refill" => way \in MaybeRefill
    BY DEF Ways
  <2> QED
    BY <1>2, <2>1, <2>2 DEF MaybeRefill
<1>11. OK(way)
  BY <1>6, <1>7, <1>8, <1>9, <1>10 DEF Choices
<1> QED
  BY <1>11 DEF OK

-------------------------------------------------------------------------------
(* The invariant is inductive *)

\* Making the choice that comes next keeps a plan legal.
LEMMA ChosenIsLegal ==
    ASSUME NEW t \in Threads, NEW plans, NEW a \in Held,
           \A p \in plans : Legal(t, p, a, "none"),
           NEW p \in Chosen(t, plans)
    PROVE  Legal(t, p, a, "none")
<1>1. PICK plan \in plans :
          p \in IF plan # <<>> /\ Head(plan).op = "choose"
                THEN {way \o Tail(plan) : way \in Ways(t)[Head(plan).ways]} ELSE {plan}
  BY DEF Chosen
<1>2. CASE plan # <<>> /\ Head(plan).op = "choose"
  <2>1. PICK m \in Held : Moves(t, Head(plan), a, m) /\ Legal(t, Tail(plan), m, "none")
    BY <1>2, LegalTail
  <2>2. a = "none" /\ m = "none" /\ Head(plan) \in Free(t)
    BY <1>2, <2>1 DEF Moves, Get, Put, Io, Brief
  <2>3. Head(plan).ways \in Choices(t)
    BY <1>2, <2>2 DEF Free, Brief, Wait, OneOf
  <2>4. PICK way \in Ways(t)[Head(plan).ways] : p = way \o Tail(plan)
    BY <1>1, <1>2
  <2>5. Legal(t, way, "none", "none")
    BY <2>3, WaysAreLegal
  <2> QED
    BY <2>1, <2>2, <2>4, <2>5, LegalJoin
<1>3. CASE ~(plan # <<>> /\ Head(plan).op = "choose")
  BY <1>1, <1>3
<1> QED
  BY <1>2, <1>3

\* After a step a thread is left with a legal plan, and the others with theirs.
LEMMA AdvanceIsLegal ==
    ASSUME LockInv, NEW t \in Threads, todo[t] # <<>>, Advance(t)
    PROVE  /\ \E m \in Held : /\ Moves(t, Head(todo[t]), HeldBy(t), m)
                              /\ Legal(t, todo'[t], m, "none")
           /\ todo' \in [Threads -> UNION {Seq(Steps(u)) : u \in Threads}]
           /\ \A u \in Threads \ {t} : todo'[u] = todo[u]
<1>1. Legal(t, todo[t], HeldBy(t), "none") /\ HeldBy(t) \in Held
  BY DEF LockInv, HeldBy, Held
<1>2. PICK m \in Held : /\ Moves(t, Head(todo[t]), HeldBy(t), m)
                        /\ Legal(t, Tail(todo[t]), m, "none")
  BY <1>1, LegalTail
<1>3. PICK plan \in Chosen(t, Chosen(t, {Tail(todo[t])})) : todo' = [todo EXCEPT ![t] = plan]
  BY DEF Advance
<1>4. \A p \in Chosen(t, {Tail(todo[t])}) : Legal(t, p, m, "none")
  BY <1>2, ChosenIsLegal
<1>5. Legal(t, plan, m, "none")
  BY <1>3, <1>4, ChosenIsLegal
<1>6. plan \in Seq(Steps(t))
  BY <1>5 DEF Legal
<1> QED
  BY <1>2, <1>3, <1>5, <1>6 DEF LockInv

\* While it serves, the event loop does nothing but close drivers.
LEMMA LoopIsBrief ==
    ASSUME LockInv, stage = "serving", todo["loop"] # <<>>
    PROVE  \E w \in Workers : todo["loop"] = <<Brief(w)>> /\ Head(todo["loop"]) = Brief(w)
<1>1. PICK w \in Workers : todo["loop"] = <<Brief(w)>>
  BY DEF LockInv, ForceClose
<1>2. Head(<<Brief(w)>>) = Brief(w)
  OBVIOUS
<1> QED
  BY <1>1, <1>2

\* The last step of the event loop while it serves.
LEMMA LoopAdvances ==
    ASSUME LockInv, stage = "serving", todo["loop"] # <<>>, Advance("loop")
    PROVE  todo'["loop"] = <<>>
<1>1. \E w \in Workers : todo["loop"] = <<Brief(w)>>
  BY DEF LockInv, ForceClose
<1>2. Tail(todo["loop"]) = <<>>
  BY <1>1
<1>3. Chosen("loop", {<<>>}) = {<<>>}
  BY DEF Chosen
<1>4. todo' = [todo EXCEPT !["loop"] = <<>>]
  BY <1>2, <1>3 DEF Advance
<1> QED
  BY <1>4 DEF LockInv, Threads

\* A lock is taken by a thread that holds none.
LEMMA AcquireKeeps ==
    ASSUME LockInv, NEW t \in Threads, Acquire(t)
    PROVE  LockInv'
<1>1. PICK m \in Held : /\ Moves(t, Head(todo[t]), HeldBy(t), m)
                        /\ Legal(t, todo'[t], m, "none")
  BY AdvanceIsLegal DEF Acquire, Doing
<1>2. HeldBy(t) = "none" /\ m \in {"ids", "pool"} /\ Lock(t) = m
  BY <1>1 DEF Acquire, Doing, Lock, Moves, Free, Brief, OneOf, Wait, Get, Put, Io
<1>3. owner' = [owner EXCEPT ![m] = t] /\ owner[m] = Nobody /\ m \in Locks \ Workers
  BY <1>2 DEF Acquire, Locks
<1>4. /\ owner' \in [Locks -> Threads \cup {Nobody}]
      /\ \A w \in Workers : owner'[w] = Nobody
      /\ owner'["pool"] = owner'["ids"] => owner'["pool"] = Nobody
  BY <1>2, <1>3 DEF LockInv, HeldBy, Locks
<1>5. HeldBy(t)' = m /\ \A u \in Threads \ {t} : HeldBy(u)' = HeldBy(u)
  BY <1>2, <1>3 DEF LockInv, HeldBy, Locks
<1>6. ASSUME NEW u \in Threads PROVE Legal(u, todo'[u], HeldBy(u)', "none")
  <2>1. CASE u = t
    BY <1>1, <1>5, <2>1
  <2>2. CASE u # t
    <3>1. todo'[u] = todo[u]
      BY <2>2, AdvanceIsLegal DEF Acquire, Doing
    <3>2. Legal(u, todo[u], HeldBy(u), "none")
      BY DEF LockInv
    <3> QED
      BY <1>5, <2>2, <3>1, <3>2
  <2> QED
    BY <2>1, <2>2
<1>7. stage' # "serving" \/ t # "loop"
  <2> SUFFICES ASSUME stage = "serving", t = "loop" PROVE FALSE
    BY DEF Acquire
  <2>1. todo["loop"] # <<>> /\ Head(todo["loop"]).op # "brief"
    BY DEF Acquire, Doing
  <2>2. PICK w \in Workers : Head(todo["loop"]) = Brief(w)
    BY <2>1, LoopIsBrief
  <2>3. Brief(w).op = "brief"
    BY DEF Brief
  <2> QED
    BY <2>1, <2>2, <2>3
<1> QED
  BY <1>4, <1>6, <1>7, AdvanceIsLegal DEF LockInv, Acquire, Doing, Threads

\* A lock is given back by who holds it.
LEMMA ReleaseKeeps ==
    ASSUME LockInv, NEW t \in Threads, Release(t)
    PROVE  LockInv'
<1>1. PICK m \in Held : /\ Moves(t, Head(todo[t]), HeldBy(t), m)
                        /\ Legal(t, todo'[t], m, "none")
  BY AdvanceIsLegal DEF Release, Doing
<1>2. HeldBy(t) \in {"ids", "pool"} /\ m = "none" /\ Lock(t) = HeldBy(t)
  BY <1>1 DEF Release, Doing, Lock, Moves, Free, Brief, OneOf, Wait, Get, Put, Io
<1>3. owner' = [owner EXCEPT ![HeldBy(t)] = Nobody] /\ owner[HeldBy(t)] = t
  BY <1>2 DEF Release, HeldBy
<1>4. /\ owner' \in [Locks -> Threads \cup {Nobody}]
      /\ \A w \in Workers : owner'[w] = Nobody
      /\ owner'["pool"] = owner'["ids"] => owner'["pool"] = Nobody
  BY <1>2, <1>3 DEF LockInv, Locks
<1>5. HeldBy(t)' = "none" /\ \A u \in Threads \ {t} : HeldBy(u)' = HeldBy(u)
  BY <1>2, <1>3 DEF LockInv, HeldBy, Locks, Threads
<1>6. ASSUME NEW u \in Threads PROVE Legal(u, todo'[u], HeldBy(u)', "none")
  <2>1. CASE u = t
    BY <1>1, <1>2, <1>5, <2>1
  <2>2. CASE u # t
    <3>1. todo'[u] = todo[u]
      BY <2>2, AdvanceIsLegal DEF Release, Doing
    <3>2. Legal(u, todo[u], HeldBy(u), "none")
      BY DEF LockInv
    <3> QED
      BY <1>5, <2>2, <3>1, <3>2
  <2> QED
    BY <2>1, <2>2
<1>7. stage' # "serving" \/ t # "loop"
  <2> SUFFICES ASSUME stage = "serving", t = "loop" PROVE FALSE
    BY DEF Release
  <2>1. todo["loop"] # <<>> /\ Head(todo["loop"]).op # "brief"
    BY DEF Release, Doing
  <2>2. PICK w \in Workers : Head(todo["loop"]) = Brief(w)
    BY <2>1, LoopIsBrief
  <2>3. Brief(w).op = "brief"
    BY DEF Brief
  <2> QED
    BY <2>1, <2>2, <2>3
<1> QED
  BY <1>4, <1>6, <1>7, AdvanceIsLegal DEF LockInv, Release, Doing, Threads

\* A brief use, or a call that returns, changes nobody's locks.
LEMMA OtherStepKeeps ==
    ASSUME LockInv, NEW t \in Threads, UseBriefly(t) \/ CallReturns(t)
    PROVE  LockInv'
<1>1. todo[t] # <<>> /\ Advance(t) /\ UNCHANGED <<owner, stage>>
  BY DEF UseBriefly, CallReturns, Doing
<1>2. PICK m \in Held : /\ Moves(t, Head(todo[t]), HeldBy(t), m)
                        /\ Legal(t, todo'[t], m, "none")
  BY <1>1, AdvanceIsLegal
<1>3. m = HeldBy(t)
  BY <1>2 DEF UseBriefly, CallReturns, Doing, Moves, Get, Put
<1>4. \A u \in Threads : HeldBy(u)' = HeldBy(u)
  BY <1>1 DEF HeldBy
<1>5. \A u \in Threads : Legal(u, todo'[u], HeldBy(u)', "none")
  BY <1>1, <1>2, <1>3, <1>4, AdvanceIsLegal DEF LockInv
<1>6. stage' = "serving" => todo'["loop"] = <<>> \/ todo'["loop"] = todo["loop"]
  BY <1>1, LoopAdvances, AdvanceIsLegal DEF Threads
<1> QED
  BY <1>1, <1>5, <1>6, AdvanceIsLegal DEF LockInv

\* Who has nothing to do holds nothing.
LEMMA EmptyHanded ==
    ASSUME LockInv, NEW t \in Threads, todo[t] = <<>>
    PROVE  HeldBy(t) = "none"
<1>1. Legal(t, <<>>, HeldBy(t), "none")
  BY DEF LockInv
<1>2. Len(<<>>) = 0
  OBVIOUS
<1> QED
  BY <1>1, <1>2 DEF Legal

\* An operation that is begun is legal with nothing held, and so is none.
LEMMA BeginKeeps ==
    ASSUME LockInv, NEW t \in Threads, NEW operation, Legal(t, operation, "none", "none"),
           Begin(t, operation),
           t = "loop" => \E w \in Workers : operation = ForceClose(w)
    PROVE  LockInv'
<1>1. todo' = [todo EXCEPT ![t] = operation] /\ todo[t] = <<>> /\ UNCHANGED <<owner, stage>>
  BY DEF Begin
<1>2. operation \in Seq(Steps(t))
  BY DEF Legal
<1>3. todo' \in [Threads -> UNION {Seq(Steps(u)) : u \in Threads}]
  BY <1>1, <1>2 DEF LockInv
<1>4. HeldBy(t) = "none"
  BY <1>1, EmptyHanded
<1>5. ASSUME NEW u \in Threads PROVE Legal(u, todo'[u], HeldBy(u)', "none")
  BY <1>1, <1>4 DEF LockInv, HeldBy
<1>6. t # "loop" => todo'["loop"] = todo["loop"]
  BY <1>1
<1>7. t = "loop" => todo'["loop"] = operation
  BY <1>1 DEF LockInv
<1> QED
  BY <1>1, <1>3, <1>5, <1>6, <1>7 DEF LockInv

\* Each operation, when it is begun.
LEMMA StartsKeep ==
    ASSUME LockInv,
           (\E w \in Workers : StartScrape(w) \/ Reclaim(w)) \/ StartRound \/ Beat
    PROVE  LockInv'
<1>1. ASSUME NEW w \in Workers, StartScrape(w) PROVE LockInv'
  <2>1. Legal(w, <<Brief("ids")>>, "none", "none")
    BY BriefIsLegal DEF Locks
  <2>2. Legal(w, <<OneOf("enter")>>, "none", "none")
    BY FreeStep DEF Free, Choices
  <2>3. Legal(w, Execute, "none", "none")
    BY <2>1, <2>2, LegalJoin DEF Execute, RegisterRequestId
  <2> QED
    BY <1>1, <2>3, BeginKeeps DEF StartScrape, Threads
<1>2. ASSUME NEW w \in Workers, Reclaim(w) PROVE LockInv'
  <2>1. Legal("loop", ForceClose(w), "none", "none")
    BY BriefIsLegal DEF ForceClose, Locks
  <2> QED
    BY <1>2, <2>1, BeginKeeps DEF Reclaim, Threads
<1>3. ASSUME StartRound PROVE LockInv'
  <2>1. Legal("daemon", NextWaitSeconds, "none", "none")
    BY BriefIsLegal DEF NextWaitSeconds, Locks
  <2>2. /\ Wait \in Free("daemon")
        /\ OneOf("reap") \in Free("daemon") /\ OneOf("refill") \in Free("daemon")
    BY DEF Free, Choices
  <2>3. /\ Legal("daemon", <<Wait>>, "none", "none")
        /\ Legal("daemon", <<OneOf("reap")>>, "none", "none")
        /\ Legal("daemon", <<OneOf("refill")>>, "none", "none")
    BY <2>2, FreeStep
  <2>4. /\ <<OneOf("reap")>> \o <<OneOf("refill")>> = <<OneOf("reap"), OneOf("refill")>>
        /\ <<Wait>> \o <<OneOf("reap"), OneOf("refill")>>
               = <<Wait, OneOf("reap"), OneOf("refill")>>
    BY <2>2, Concatenated
  <2>5. Legal("daemon", <<Wait, OneOf("reap"), OneOf("refill")>>, "none", "none")
    BY <2>3, <2>4, LegalJoin
  <2>6. Legal("daemon", Round, "none", "none")
    BY <2>1, <2>5, LegalJoin DEF Round
  <2> QED
    BY <1>3, <2>6, BeginKeeps DEF StartRound, Threads
<1>4. ASSUME Beat PROVE LockInv'
  <2>1. Legal("reporter", EmitOnce, "none", "none")
    BY BriefIsLegal, LegalJoin DEF EmitOnce, ActiveRequestCount, HasReadySpare, Locks
  <2> QED
    BY <1>4, <2>1, BeginKeeps DEF Beat, Threads
<1> QED
  BY <1>1, <1>2, <1>3, <1>4

\* wait() returns, and the daemon may stop there.
LEMMA WakeKeeps ==
    ASSUME LockInv, Wake
    PROVE  LockInv'
<1>1. "daemon" \in Threads /\ todo["daemon"] # <<>> /\ UNCHANGED <<owner, stage>>
  BY DEF Wake, Doing, Threads
<1>2. HeldBy("daemon") = "none"
  <2>1. Legal("daemon", todo["daemon"], HeldBy("daemon"), "none") /\ HeldBy("daemon") \in Held
    BY <1>1 DEF LockInv, HeldBy, Held
  <2>2. PICK m \in Held : Moves("daemon", Head(todo["daemon"]), HeldBy("daemon"), m)
    BY <1>1, <2>1, LegalTail
  <2> QED
    BY <2>2 DEF Wake, Doing, Moves, Get, Put, Io, Brief
<1>3. /\ Legal("daemon", todo'["daemon"], "none", "none")
      /\ todo' \in [Threads -> UNION {Seq(Steps(u)) : u \in Threads}]
      /\ \A u \in Threads \ {"daemon"} : todo'[u] = todo[u]
  <2>1. CASE "daemon" \in stopping
    <3>1. todo' = [todo EXCEPT !["daemon"] = <<>>] /\ <<>> \in Seq(Steps("daemon"))
      BY <2>1 DEF Wake
    <3> QED
      BY <1>1, <3>1, NoneIsLegal DEF LockInv
  <2>2. CASE "daemon" \notin stopping
    <3>1. Advance("daemon")
      BY <2>2 DEF Wake
    <3>2. PICK m \in Held : /\ Moves("daemon", Head(todo["daemon"]), HeldBy("daemon"), m)
                            /\ Legal("daemon", todo'["daemon"], m, "none")
      BY <1>1, <3>1, AdvanceIsLegal
    <3>3. m = "none"
      BY <1>2, <3>2 DEF Wake, Doing, Moves, Get
    <3> QED
      BY <1>1, <3>1, <3>2, <3>3, AdvanceIsLegal
  <2> QED
    BY <2>1, <2>2
<1>4. ASSUME NEW u \in Threads PROVE Legal(u, todo'[u], HeldBy(u)', "none")
  BY <1>1, <1>2, <1>3 DEF LockInv, HeldBy
<1>5. "loop" \in Threads \ {"daemon"}
  BY DEF Threads
<1> QED
  BY <1>1, <1>3, <1>4, <1>5 DEF LockInv

\* At the end the event loop takes the lock of the pool, and no other.
LEMMA ShutdownKeeps ==
    ASSUME LockInv, Shutdown
    PROVE  LockInv'
<1>1. CASE StopReporter \/ JoinReporter \/ StopDaemon \/ JoinDaemon \/ ShutExecutor
  BY <1>1 DEF LockInv, StopReporter, JoinReporter, StopDaemon, JoinDaemon, ShutExecutor, Goes,
              HeldBy
<1>2. CASE ClearForShutdown
  <2>1. /\ owner["pool"] = Nobody /\ owner' = [owner EXCEPT !["pool"] = "loop"]
        /\ todo["loop"] = <<>> /\ todo' = [todo EXCEPT !["loop"] = <<Io, Put("pool")>>]
        /\ stage' = "executor" /\ "loop" \in Threads /\ "pool" \in Locks \ Workers
        /\ "ids" \in Locks
    BY <1>2 DEF ClearForShutdown, Goes, Threads, Locks
  <2>2. HeldBy("loop") = "none"
    BY <2>1, EmptyHanded
  <2>3. /\ owner' \in [Locks -> Threads \cup {Nobody}]
        /\ \A w \in Workers : owner'[w] = Nobody
        /\ owner'["pool"] = owner'["ids"] => owner'["pool"] = Nobody
    BY <2>1, <2>2 DEF LockInv, HeldBy
  <2>4. HeldBy("loop")' = "pool" /\ \A u \in Threads \ {"loop"} : HeldBy(u)' = HeldBy(u)
    BY <2>1, <2>2 DEF LockInv, HeldBy
  <2>5. Legal("loop", <<Io, Put("pool")>>, "pool", "none")
    <3>1. Io \in Steps("loop") /\ Put("pool") \in Steps("loop")
      BY DEF Steps
    <3>2. <<Io>> \o <<Put("pool")>> = <<Io, Put("pool")>>
      BY <3>1, Concatenated
    <3> QED
      BY <3>2, IoIsLegal, PutIsLegal, LegalJoin
  <2>6. <<Io, Put("pool")>> \in Seq(Steps("loop"))
    BY <2>5 DEF Legal
  <2>7. todo' \in [Threads -> UNION {Seq(Steps(u)) : u \in Threads}]
    BY <2>1, <2>6 DEF LockInv
  <2>8. ASSUME NEW u \in Threads PROVE Legal(u, todo'[u], HeldBy(u)', "none")
    BY <2>1, <2>4, <2>5 DEF LockInv
  <2> QED
    BY <2>1, <2>3, <2>7, <2>8 DEF LockInv
<1> QED
  BY <1>1, <1>2 DEF Shutdown

\* Init and every step.
LEMMA LockInvInductive ==
    /\ Init => LockInv
    /\ LockInv /\ [Next]_vars => LockInv'
<1>1. Init => LockInv
  <2> SUFFICES ASSUME Init PROVE LockInv
    OBVIOUS
  <2>1. \A t \in Threads : todo[t] = <<>> /\ <<>> \in Seq(Steps(t)) /\ HeldBy(t) = "none"
    BY DEF Init, HeldBy, Locks
  <2>2. todo \in [Threads -> UNION {Seq(Steps(t)) : t \in Threads}]
    BY <2>1 DEF Init
  <2>3. \A t \in Threads : Legal(t, todo[t], HeldBy(t), "none")
    BY <2>1, NoneIsLegal
  <2> QED
    BY <2>1, <2>2, <2>3 DEF Init, LockInv, Locks, Threads
<1>2. ASSUME LockInv, NEW t \in Threads, Step(t) PROVE LockInv'
  BY <1>2, AcquireKeeps, ReleaseKeeps, OtherStepKeeps DEF Step
<1>3. LockInv /\ (\E t \in {"daemon", "reporter"} : End(t)) => LockInv'
  BY DEF LockInv, End, HeldBy
<1>4. LockInv /\ UNCHANGED vars => LockInv'
  BY DEF LockInv, vars, HeldBy
<1> QED
  BY <1>1, <1>2, <1>3, <1>4, StartsKeep, WakeKeeps, ShutdownKeeps DEF Next

\* However many workers there are, and in whatever order threads run.
THEOREM LockInvariant == Spec => []LockInv
BY LockInvInductive, PTL DEF Spec

-------------------------------------------------------------------------------
(* What follows from it *)

\* Who waits holds nothing, or holds the ids and asks for the lock of the pool.
LEMMA WhoWaits ==
    ASSUME LockInv, NEW t \in Threads, Waiting(t)
    PROVE  /\ owner[Lock(t)] \in Threads /\ HeldBy(owner[Lock(t)]) = Lock(t)
           /\ Lock(t) \in {"ids", "pool"}
           /\ HeldBy(t) = "none" \/ (HeldBy(t) = "ids" /\ Lock(t) = "pool")
<1>1. todo[t] # <<>> /\ Legal(t, todo[t], HeldBy(t), "none") /\ HeldBy(t) \in Held
  BY DEF LockInv, Waiting, Doing, HeldBy, Held
<1>2. PICK m \in Held : Moves(t, Head(todo[t]), HeldBy(t), m)
  BY <1>1, LegalTail
<1>3. HeldBy(t) = "none" \/ (HeldBy(t) = "ids" /\ Lock(t) = "pool")
  BY <1>2 DEF Waiting, Doing, Lock, Moves, Put, Io, Brief
<1>4. Lock(t) \in Locks
  BY <1>2 DEF Waiting, Doing, Lock, Moves, Free, OneOf, Wait, Get, Put, Io, Brief, Locks
<1>5. owner[Lock(t)] \in Threads /\ Lock(t) \in {"ids", "pool"}
  BY <1>4 DEF LockInv, Waiting, Locks
<1>6. HeldBy(owner[Lock(t)]) = Lock(t)
  BY <1>5 DEF LockInv, HeldBy
<1> QED
  BY <1>3, <1>5, <1>6

\* No threads wait for each other: the owner of the pool's lock waits for nobody, and
\* that of the ids at most for the pool's.
THEOREM LocksAreOrdered == Spec => []NoCircularWait
<1>1. ASSUME LockInv, NEW S \in SUBSET {t \in Threads : Waiting(t)}, S # {}
      PROVE  \E t \in S : owner[Lock(t)] \notin S
  <2>1. PICK t \in S : TRUE
    BY <1>1
  <2> DEFINE u == owner[Lock(t)]
  <2>2. CASE u \in S
    <3>1. HeldBy(u) \in {"ids", "pool"}
      BY <1>1, <2>1, WhoWaits
    <3>2. HeldBy(u) = "ids" /\ Lock(u) = "pool"
      BY <1>1, <2>2, <3>1, WhoWaits
    <3>3. HeldBy(owner[Lock(u)]) = "pool"
      BY <1>1, <2>2, <3>2, WhoWaits
    <3>4. owner[Lock(u)] \notin S
      BY <1>1, <3>3, WhoWaits
    <3> QED
      BY <2>2, <3>4
  <2> QED
    BY <2>1, <2>2
<1>2. LockInv => NoCircularWait
  BY <1>1 DEF NoCircularWait
<1> QED
  BY <1>2, LockInvariant, PTL

\* While it serves, the event loop uses the lock of a session only, and these nobody
\* keeps.
THEOREM LoopIsNotHeldUp == Spec => []LoopNotHeldUp
<1>1. ASSUME LockInv, stage = "serving", Waiting("loop") PROVE FALSE
  <2>1. PICK w \in Workers : Head(todo["loop"]) = Brief(w)
    BY <1>1, LoopIsBrief DEF Waiting, Doing
  <2> QED
    BY <1>1, <2>1 DEF LockInv, Waiting, Lock, Brief
<1>2. LockInv => LoopNotHeldUp
  BY <1>1 DEF LoopNotHeldUp
<1> QED
  BY <1>2, LockInvariant, PTL
===============================================================================
