------------------------------ MODULE V1Proofs ------------------------------
(***************************************************************************)
(* Proofs about V1Cache, for any films, directories, viewers, slots, cache *)
(* size and number of jobs.                                                *)
(***************************************************************************)
EXTENDS V1Cache, SeqFacts

-----------------------------------------------------------------------------
(* Jobs and who has asked for them *)

\* A job that is not over is what its key is registered for; a job not yet made is nowhere.
JobsKnown ==
    /\ \A j \in Jobs : j <= made =>
          keyOf[j] \in Keys /\ (verdict[j] = "open" => jobs[keyOf[j]] = j)
    /\ \A j \in Jobs : j > made =>
          run[j] = "over" /\ j \notin ToSet(pending) /\ verdict[j] = "open"
    /\ \A k \in Keys : jobs[k] # None =>
          jobs[k] <= made /\ keyOf[jobs[k]] = k /\ verdict[jobs[k]] = "open"

\* What a viewer asks for is a file, and its job is for that file.
ViewersKnown ==
    \A v \in Viewers :
       /\ pc[v] # "idle" => want[v] \in Keys
       /\ pc[v] \in {"raise", "wait", "grow", "read"} => job[v] # None
       /\ pc[v] \in {"idle", "drop", "check", "start", "lookup"} => job[v] = None
       /\ job[v] # None => job[v] <= made /\ keyOf[job[v]] = want[v]

\* The guesser waits for no job.
GuesserKnown ==
    /\ pc[Guesser] \in {"idle", "drop", "listed", "start", "lookup"} /\ job[Guesser] = None
    /\ pc[Guesser] \in {"start", "lookup"} => want[Guesser] \in Keys

\* The first two parts of OneWriter; the third follows from TypeOK.
AtWork ==
    /\ \A j \in Active \cup ToSet(pending) : jobs[keyOf[j]] = j
    /\ Active \cap ToSet(pending) = {} /\ IsInjective(pending)

\* TypeOK in three parts: the jobs and their output, who asks for them, the slots.
JobsTyped ==
    /\ mkv \in [Keys -> {"none", "partial", "full"}] /\ marker \subseteq Keys /\ used \in Seq(Keys)
    /\ made \in 0 .. MaxJobs /\ jobs \in [Keys -> Jobs \cup {None}]
    /\ pending \in Seq(Jobs) /\ running \subseteq Jobs /\ wake \in BOOLEAN
    /\ keyOf \in [Jobs -> Keys \cup {None}] /\ prio \in [Jobs -> {Prefetch, Playback}]
    /\ verdict \in [Jobs -> {"open", "ok", "error", "dropped"}] /\ stopped \subseteq Jobs
    /\ run \in [Jobs -> {"begin", "convert", "retry", "discard", "requeue", "failed", "finish",
                          "mark", "done", "evict", "evicting", "over"}]

AskersTyped ==
    /\ pc \in [Actors -> {"idle", "drop", "listed", "check", "start", "lookup", "raise",
                           "wait", "cached", "grow", "read", "answered"}]
    /\ want \in [Actors -> Keys \cup Dirs \cup {None}] /\ job \in [Actors -> Jobs \cup {None}]
    /\ fd \in [Viewers -> {None, "growing", "whole", "kept", "cut"}]

SlotsOK == running = Active /\ Cardinality(running) <= Slots

Typed == JobsTyped /\ AskersTyped

Base == Typed /\ SlotsOK /\ JobsKnown /\ AtWork /\ ViewersKnown /\ GuesserKnown

(* The jobs and the key they are for, in one place. *)
LEMMA Numbers ==
    /\ Jobs = 1 .. MaxJobs /\ MaxJobs \in Nat /\ Jobs \subseteq Nat /\ None \notin Jobs
    /\ Actors = Viewers \cup {Guesser} /\ Guesser \notin Viewers /\ None \notin Keys
BY ConstantsOK DEF Jobs, Actors

(* The next jobs in the order of dispatch are as many as there are free slots for. *)
LEMMA NextJobs ==
    ASSUME pending \in Seq(Jobs), IsInjective(pending), prio \in [Jobs -> {Prefetch, Playback}],
           NEW n \in 0 .. Len(pending)
    PROVE  LET start == ToSet(SubSeq(ByPriority, 1, n))
           IN  /\ start \subseteq ToSet(pending) /\ IsFiniteSet(start)
               /\ Cardinality(start) = n
               /\ n = Len(pending) => start = ToSet(pending)
<1> DEFINE guesses == {j \in Jobs : prio[j] = Prefetch}
           p == Without(pending, guesses)
           g == Without(pending, Jobs \ guesses)
           q == ByPriority
           first == SubSeq(q, 1, n)
<1>1. ToSet(pending) \subseteq Jobs /\ Len(pending) \in Nat
  BY DEF ToSet
<1>2. /\ p \in Seq(Jobs) /\ ToSet(p) = ToSet(pending) \ guesses /\ IsInjective(p)
      /\ g \in Seq(Jobs) /\ ToSet(g) = ToSet(pending) \ (Jobs \ guesses) /\ IsInjective(g)
  BY WithoutElements
<1>3. ToSet(p) \cap ToSet(g) = {} /\ ToSet(p) \cup ToSet(g) = ToSet(pending)
  BY <1>1, <1>2
<1>. HIDE DEF p, g
<1>4. q = p \o g
  BY DEF ByPriority, p, g
<1>5. /\ q \in Seq(Jobs) /\ Len(q) = Len(p) + Len(g) /\ Len(p) \in Nat /\ Len(g) \in Nat
      /\ \A i \in 1 .. Len(q) : q[i] = IF i <= Len(p) THEN p[i] ELSE g[i - Len(p)]
      /\ DOMAIN p = 1 .. Len(p) /\ DOMAIN g = 1 .. Len(g) /\ DOMAIN q = 1 .. Len(q)
  BY <1>2, <1>4, ConcatProperties
<1>. HIDE DEF q
<1>6. IsInjective(q)
  <2>1. SUFFICES ASSUME NEW a \in 1 .. Len(q), NEW b \in 1 .. Len(q), q[a] = q[b]
                 PROVE  a = b
    BY <1>5 DEF IsInjective
  <2>2. \A i \in 1 .. Len(p) : p[i] \in ToSet(p)
    BY <1>5 DEF ToSet
  <2>3. \A i \in 1 .. Len(g) : g[i] \in ToSet(g)
    BY <1>5 DEF ToSet
  <2>4. CASE a <= Len(p) /\ b <= Len(p)
    <3>1. a \in 1 .. Len(p) /\ b \in 1 .. Len(p) /\ p[a] = p[b]
      BY <1>5, <2>1, <2>4
    <3>. QED  BY <1>2, <1>5, <3>1 DEF IsInjective
  <2>5. CASE a > Len(p) /\ b > Len(p)
    <3>1. a - Len(p) \in 1 .. Len(g) /\ b - Len(p) \in 1 .. Len(g)
      BY <1>5, <2>5
    <3>2. g[a - Len(p)] = g[b - Len(p)]
      BY <1>5, <2>1, <2>5
    <3>3. a - Len(p) = b - Len(p)
      BY <1>2, <1>5, <3>1, <3>2 DEF IsInjective
    <3>. QED  BY <1>5, <3>3
  <2>6. CASE a <= Len(p) /\ b > Len(p)
    <3>1. a \in 1 .. Len(p) /\ b - Len(p) \in 1 .. Len(g)
      BY <1>5, <2>6
    <3>2. p[a] = g[b - Len(p)]
      BY <1>5, <2>1, <2>6
    <3>. QED  BY <1>3, <2>2, <2>3, <3>1, <3>2
  <2>7. CASE a > Len(p) /\ b <= Len(p)
    <3>1. b \in 1 .. Len(p) /\ a - Len(p) \in 1 .. Len(g)
      BY <1>5, <2>7
    <3>2. p[b] = g[a - Len(p)]
      BY <1>5, <2>1, <2>7
    <3>. QED  BY <1>3, <2>2, <2>3, <3>1, <3>2
  <2>8. (a <= Len(p) \/ a > Len(p)) /\ (b <= Len(p) \/ b > Len(p))
    BY <1>5
  <2>. QED  BY <2>4, <2>5, <2>6, <2>7, <2>8
<1>7. ToSet(q) = ToSet(pending)
  <2>1. ASSUME NEW x \in ToSet(q)
        PROVE  x \in ToSet(p) \cup ToSet(g)
    <3>1. PICK i \in 1 .. Len(q) : x = q[i]
      BY <1>5, <2>1 DEF ToSet
    <3>2. i <= Len(p) => x = p[i] /\ i \in 1 .. Len(p)
      BY <1>5, <3>1
    <3>3. i > Len(p) => x = g[i - Len(p)] /\ i - Len(p) \in 1 .. Len(g)
      BY <1>5, <3>1
    <3>4. i <= Len(p) => x \in ToSet(p)
      BY <1>5, <3>2 DEF ToSet
    <3>5. i > Len(p) => x \in ToSet(g)
      BY <1>5, <3>3 DEF ToSet
    <3>. QED  BY <1>5, <3>4, <3>5
  <2>2. ASSUME NEW x \in ToSet(p)
        PROVE  x \in ToSet(q)
    <3>1. PICK i \in 1 .. Len(p) : x = p[i]
      BY <1>5, <2>2 DEF ToSet
    <3>2. i \in 1 .. Len(q) /\ x = q[i]
      BY <1>5, <3>1
    <3>. QED  BY <1>5, <3>2 DEF ToSet
  <2>3. ASSUME NEW x \in ToSet(g)
        PROVE  x \in ToSet(q)
    <3>1. PICK i \in 1 .. Len(g) : x = g[i]
      BY <1>5, <2>3 DEF ToSet
    <3>2. Len(p) + i \in 1 .. Len(q) /\ ~(Len(p) + i <= Len(p)) /\ Len(p) + i - Len(p) = i
      BY <1>5, <3>1
    <3>3. x = q[Len(p) + i]
      BY <1>5, <3>1, <3>2
    <3>. QED  BY <1>5, <3>2, <3>3 DEF ToSet
  <2>. QED  BY <1>3, <2>1, <2>2, <2>3
<1>8. Len(q) = Len(pending)
  BY <1>5, <1>6, <1>7, InjectiveLength
<1>9. /\ first \in Seq(Jobs) /\ Len(first) = n /\ DOMAIN first = 1 .. n
      /\ \A i \in 1 .. n : first[i] = q[i]
  <2>1. \A i \in 1 .. n : q[i] \in Jobs
    BY <1>1, <1>5, <1>8
  <2>. QED  BY <1>1, <2>1, SubSeqProperties
<1>. HIDE DEF first
<1>10. IsInjective(first)
  BY <1>1, <1>5, <1>6, <1>8, <1>9 DEF IsInjective
<1>11. ToSet(first) \subseteq ToSet(q)
  BY <1>1, <1>5, <1>8, <1>9 DEF ToSet
<1>12. n = Len(pending) => ToSet(q) \subseteq ToSet(first)
  BY <1>1, <1>5, <1>8, <1>9 DEF ToSet
<1>. QED  BY <1>7, <1>9, <1>10, <1>11, <1>12, InjectiveLength DEF first, q

(* There are finitely many conversions, and one that ends frees a slot. *)
LEMMA SlotFreed ==
    ASSUME JobsTyped, SlotsOK
    PROVE  /\ IsFiniteSet(running) /\ Cardinality(running) \in Nat
           /\ \A j : Cardinality(running \ {j}) <= Slots
<1>1. IsFiniteSet(Jobs)
  BY Numbers, FS_Interval
<1>2. IsFiniteSet(running) /\ Cardinality(running) \in Nat
  BY <1>1, FS_Subset, FS_CardinalityType DEF JobsTyped
<1>3. ASSUME NEW j
      PROVE  Cardinality(running \ {j}) <= Slots
  <2>1. Cardinality(running \ {j}) = IF j \in running THEN Cardinality(running) - 1
                                     ELSE Cardinality(running)
    BY <1>2, FS_RemoveElement
  <2>. QED  BY <1>2, <2>1, ConstantsOK DEF SlotsOK
<1>. QED  BY <1>2, <1>3

-----------------------------------------------------------------------------
(* Each step keeps the jobs, their slots and the askers in order *)

LEMMA StartKeeps ==
    ASSUME Base, NEW a \in Actors, Start(a) \/ DropPendingOutside(a)
    PROVE  Base'
<1>. USE DEF Base, Typed
<1>1. CASE StartCheck(a)
  <2>. USE <1>1 DEF StartCheck, Return, Go, cache, maps, fields, asking, reading, history
  <2>1. AskersTyped'
    <3>1. CASE Complete(want[a])
      <4>1. pc' = [pc EXCEPT ![a] = IF a = Guesser THEN "idle" ELSE "cached"]
        BY <3>1
      <4>2. want' = [want EXCEPT ![a] = IF a = Guesser THEN None ELSE want[a]]
        BY <3>1
      <4>. QED  BY <3>1, <4>1, <4>2 DEF AskersTyped
    <3>2. CASE ~Complete(want[a])
      BY <3>2 DEF AskersTyped
    <3>. QED  BY <3>1, <3>2
  <2>2. JobsTyped' /\ SlotsOK' /\ JobsKnown' /\ AtWork'
    BY DEF JobsTyped, SlotsOK, JobsKnown, AtWork, Active
  <2>3. ViewersKnown' /\ GuesserKnown'
    BY Numbers DEF AskersTyped, ViewersKnown, GuesserKnown
  <2>. QED  BY <2>1, <2>2, <2>3
<1>2. CASE StartFind(a)
  <2>. USE <1>2 DEF StartFind, JobFor, Return, Go, cache, maps, fields, asking, reading, history
  <2>1. jobs[want[a]] \in Jobs
    BY Numbers DEF JobsTyped, ViewersKnown, GuesserKnown
  <2>2. AskersTyped'
    <3>1. pc' = [pc EXCEPT ![a] = IF a = Guesser THEN "idle" ELSE "raise"]
      OBVIOUS
    <3>2. want' = [want EXCEPT ![a] = IF a = Guesser THEN None ELSE want[a]]
      OBVIOUS
    <3>. QED  BY <2>1, <3>1, <3>2 DEF AskersTyped
  <2>3. JobsTyped' /\ SlotsOK' /\ JobsKnown' /\ AtWork'
    BY DEF JobsTyped, SlotsOK, JobsKnown, AtWork, Active
  <2>4. ViewersKnown' /\ GuesserKnown'
    BY Numbers, <2>1 DEF AskersTyped, JobsTyped, JobsKnown, ViewersKnown, GuesserKnown
  <2>. QED  BY <2>2, <2>3, <2>4
<1>3. CASE StartCreate(a)
  <2> DEFINE j == made + 1
             k == want[a]
  <2>. USE <1>3 DEF StartCreate, JobFor, Return, Go, cache, maps, fields, asking, reading, history
  <2>1. k \in Keys /\ jobs[k] = None
    BY Numbers DEF ViewersKnown, GuesserKnown
  <2>2. j \in Jobs /\ made \in Nat /\ j > made /\ j # None /\ made' = j
    BY Numbers DEF JobsTyped
  <2>3. pending' \in Seq(Jobs) /\ ToSet(pending') = ToSet(pending) \cup {j}
    BY <2>2, AppendElements DEF JobsTyped
  <2>4. j \notin ToSet(pending) /\ run[j] = "over" /\ verdict[j] = "open"
    BY <2>2 DEF JobsKnown
  <2>5. \A i \in Active \cup ToSet(pending) : i \in Jobs /\ i <= made /\ i # j /\ keyOf[i] # k
    BY Numbers, <2>1, <2>2 DEF AtWork, Active, JobsKnown, JobsTyped, ToSet
  <2>6. keyOf' = [keyOf EXCEPT ![j] = k] /\ jobs' = [jobs EXCEPT ![k] = j]
    OBVIOUS
  <2>7. JobsTyped' /\ AskersTyped'
    BY Numbers, <2>1, <2>2, <2>3 DEF JobsTyped, AskersTyped, Prefetch, Playback
  <2>8. JobsKnown'
    BY Numbers, <2>1, <2>2, <2>3, <2>4, <2>6 DEF JobsKnown, JobsTyped
  <2>9. SlotsOK' /\ Active' = Active
    BY DEF SlotsOK, Active
  <2>10. AtWork'
    <3>1. IsInjective(pending')
      BY <2>2, <2>4 DEF AtWork, IsInjective, ToSet, JobsTyped
    <3>2. \A i \in Active' \cup ToSet(pending') : jobs'[keyOf'[i]] = i
      BY <2>1, <2>2, <2>3, <2>5, <2>6, <2>9 DEF AtWork, JobsTyped
    <3>3. Active' \cap ToSet(pending') = {}
      BY <2>3, <2>5, <2>9 DEF AtWork
    <3>. QED  BY <3>1, <3>2, <3>3 DEF AtWork
  <2>11. ViewersKnown' /\ GuesserKnown'
    <3>1. want'[a] = IF a = Guesser THEN None ELSE k
      BY DEF AskersTyped
    <3>2. job'[a] = IF a = Guesser THEN None ELSE j
      BY DEF AskersTyped
    <3>3. pc'[a] = IF a = Guesser THEN "idle" ELSE "wait"
      BY DEF AskersTyped
    <3>4. \A b \in Actors \ {a} : pc'[b] = pc[b] /\ want'[b] = want[b] /\ job'[b] = job[b]
      BY DEF AskersTyped
    <3>5. keyOf'[j] = k /\ \A i \in Jobs : i <= made => keyOf'[i] = keyOf[i] /\ i <= made'
      BY Numbers, <2>1, <2>2, <2>6 DEF JobsTyped
    <3>6. \A b \in Actors : job[b] \in Jobs \cup {None}
      BY DEF AskersTyped
    <3>7. GuesserKnown'
      BY Numbers, <3>1, <3>2, <3>3, <3>4 DEF GuesserKnown
    <3>8. ViewersKnown'
      BY Numbers, <2>1, <2>2, <3>1, <3>2, <3>3, <3>4, <3>5, <3>6 DEF ViewersKnown
    <3>. QED  BY <3>7, <3>8
  <2>. QED  BY <2>7, <2>8, <2>9, <2>10, <2>11
<1>4. CASE StartRaise(a)
  <2>. USE <1>4 DEF StartRaise, NudgeIf, Go, cache, maps, fields, asking, reading, history
  <2>1. JobsTyped' /\ AskersTyped'
    BY DEF JobsTyped, AskersTyped, Prefetch, Playback
  <2>2. SlotsOK' /\ JobsKnown' /\ AtWork' /\ ViewersKnown' /\ GuesserKnown'
    BY Numbers DEF AskersTyped, SlotsOK, JobsKnown, AtWork, Active, ViewersKnown, GuesserKnown
  <2>. QED  BY <2>1, <2>2
<1>5. CASE DropPendingOutside(a)
  <2> DEFINE gone == {j \in ToSet(pending) : Stale(j, DirFor(want[a]))}
  <2>. USE <1>5 DEF DropPendingOutside, Go, cache, maps, fields, asking, reading, history
  <2>1. /\ pending' \in Seq(Jobs) /\ ToSet(pending') = ToSet(pending) \ gone
        /\ IsInjective(pending) => IsInjective(pending')
    BY WithoutElements DEF JobsTyped
  <2>2. gone \subseteq ToSet(pending) /\ ToSet(pending) \subseteq Jobs
    BY DEF JobsTyped, ToSet
  <2>3. /\ jobs' = [k \in Keys |-> IF jobs[k] \in gone THEN None ELSE jobs[k]]
        /\ verdict' = [j \in Jobs |-> IF j \in gone THEN "dropped" ELSE verdict[j]]
    OBVIOUS
  <2>. HIDE DEF gone
  <2>4. JobsTyped' /\ AskersTyped'
    BY <2>1, <2>3 DEF JobsTyped, AskersTyped
  <2>5. SlotsOK' /\ Active' = Active
    BY DEF SlotsOK, Active
  <2>6. JobsKnown'
    BY Numbers, <2>1, <2>2, <2>3 DEF JobsKnown, JobsTyped
  <2>7. AtWork'
    BY <2>1, <2>2, <2>3, <2>5, Numbers DEF AtWork, JobsTyped, JobsKnown, Active
  <2>8. ViewersKnown' /\ GuesserKnown'
    BY Numbers DEF AskersTyped, ViewersKnown, GuesserKnown
  <2>. QED  BY <2>4, <2>5, <2>6, <2>7, <2>8
<1>. QED  BY <1>1, <1>2, <1>3, <1>4, <1>5 DEF Start

(* The dispatcher starts jobs that wait: all of them, or as many as slots are free. *)
LEMMA DispatchStarts ==
    ASSUME Base, dispatch
    PROVE  \E start \in SUBSET ToSet(pending) :
              /\ pending' = Without(pending, start) /\ running' = running \cup start
              /\ run' = [j \in Jobs |-> IF j \in start THEN "begin" ELSE run[j]]
              /\ wake' = FALSE
              /\ \/ Cardinality(running') < Slots \/ ~WantsIn(pending')
                 \/ {j \in running' : prio[j] = Prefetch} = {}
                 \/ \E j \in running' :
                       stopped' = IF Converting(j) \/ j \in start THEN stopped \cup {j} ELSE stopped
              /\ stopped' = stopped \/ \E j \in running' : stopped' = stopped \cup {j}
              /\ start \cap Active = {}
              /\ Cardinality(running') <= Slots
              /\ start = ToSet(pending) \/ Cardinality(running') = Slots
<1> DEFINE n     == IF Len(pending) < Free THEN Len(pending) ELSE Free
           start == ToSet(SubSeq(ByPriority, 1, n))
<1>. USE DEF Base, Typed
<1>1. /\ pending' = Without(pending, start) /\ running' = running \cup start
      /\ run' = [j \in Jobs |-> IF j \in start THEN "begin" ELSE run[j]]
      /\ wake' = FALSE /\ prio' = prio
      /\ \/ /\ Cardinality(running') < Slots \/ ~WantsIn(Without(pending, start))
               \/ {j \in running \cup start : prio[j] = Prefetch} = {}
            /\ stopped' = stopped
         \/ \E j \in {i \in running \cup start : prio[i] = Prefetch} :
               stopped' = IF Converting(j) \/ j \in start THEN stopped \cup {j} ELSE stopped
  BY Zenon DEF dispatch
<1>2. /\ n \in 0 .. Len(pending) /\ n <= Slots - Cardinality(running)
      /\ n = Len(pending) \/ n = Slots - Cardinality(running)
  <2>1. Free = Slots - Cardinality(running) /\ Free \in Nat /\ Len(pending) \in Nat
    BY SlotFreed, ConstantsOK DEF Free, SlotsOK, JobsTyped
  <2>. QED  BY <2>1
<1>. HIDE DEF n
<1>3. /\ start \subseteq ToSet(pending) /\ IsFiniteSet(start) /\ Cardinality(start) = n
      /\ n = Len(pending) => start = ToSet(pending)
  BY <1>2, NextJobs DEF JobsTyped, AtWork
<1>. HIDE DEF start
<1>4. Cardinality(running') = Cardinality(running) + n
  <2>1. running \cap start = {}
    BY <1>3 DEF SlotsOK, AtWork
  <2>2. Cardinality(running \cup start)
           = Cardinality(running) + Cardinality(start) - Cardinality(running \cap start)
    BY <1>3, SlotFreed, FS_Union
  <2>3. Cardinality(running \cap start) = 0
    BY <2>1, FS_EmptySet
  <2>. QED  BY <1>1, <1>2, <1>3, <2>2, <2>3, SlotFreed
<1>5. Cardinality(running') <= Slots /\ (start = ToSet(pending) \/ Cardinality(running') = Slots)
  BY <1>2, <1>3, <1>4, SlotFreed, ConstantsOK
<1>6. start \cap Active = {}
  BY <1>3 DEF AtWork
<1>7. WantsIn(pending') <=> WantsIn(Without(pending, start))
  BY <1>1
<1>8. \/ Cardinality(running') < Slots \/ ~WantsIn(pending')
      \/ {j \in running' : prio[j] = Prefetch} = {}
      \/ \E j \in running' :
            stopped' = IF Converting(j) \/ j \in start THEN stopped \cup {j} ELSE stopped
  BY <1>1
<1>9. stopped' = stopped \/ \E j \in running' : stopped' = stopped \cup {j}
  BY <1>1
<1>. QED  BY <1>1, <1>3, <1>5, <1>6, <1>8, <1>9

(* It fills no more slots than are free, with jobs that wait. *)
LEMMA DispatchKeeps ==
    ASSUME Base, dispatch
    PROVE  Base'
<1>. USE DEF Base, Typed
<1>1. PICK start \in SUBSET ToSet(pending) :
         /\ pending' = Without(pending, start) /\ running' = running \cup start
         /\ run' = [j \in Jobs |-> IF j \in start THEN "begin" ELSE run[j]]
         /\ wake' = FALSE
         /\ stopped' = stopped \/ \E j \in running' : stopped' = stopped \cup {j}
         /\ start \cap Active = {}
         /\ Cardinality(running') <= Slots
  BY DispatchStarts
<1>2. UNCHANGED <<cache, made, jobs, keyOf, prio, verdict, evict, asking, reading, history>>
  BY Zenon DEF dispatch
<1>3. ToSet(pending) \subseteq Jobs
  BY DEF JobsTyped, ToSet
<1>4. /\ pending' \in Seq(Jobs) /\ ToSet(pending') = ToSet(pending) \ start
      /\ IsInjective(pending) => IsInjective(pending')
  BY <1>1, WithoutElements DEF JobsTyped
<1>5. Typed'
  BY <1>1, <1>2, <1>3, <1>4 DEF JobsTyped, AskersTyped, cache, asking, reading
<1>6. SlotsOK' /\ Active' = Active \cup start
  BY <1>1, <1>3 DEF SlotsOK, Active, JobsTyped
<1>7. JobsKnown'
  BY Numbers, <1>1, <1>2, <1>4 DEF JobsKnown, JobsTyped
<1>8. AtWork'
  BY <1>1, <1>2, <1>4, <1>6 DEF AtWork
<1>9. ViewersKnown' /\ GuesserKnown'
  BY <1>2 DEF ViewersKnown, GuesserKnown, asking
<1>. QED  BY <1>5, <1>6, <1>7, <1>8, <1>9

(* A job that ends, for better or worse, leaves the maps and its slot. *)
LEMMA FinishKeeps ==
    ASSUME Base, NEW j \in Jobs, run[j] \notin {"over", "evict", "evicting"},
           NEW v \in {"ok", "error"}, NEW to \in {"over", "evict"},
           finish(j, v), run' = [run EXCEPT ![j] = to],
           UNCHANGED <<asking, reading, mkv>>, marker' \subseteq Keys, used' \in Seq(Keys)
    PROVE  Base'
<1>. USE DEF Base, Typed, finish, asking, reading
<1>1. Active' = Active \ {j} /\ j \in Active
  BY DEF Active, JobsTyped
<1>2. Typed' /\ SlotsOK'
  BY <1>1, SlotFreed DEF JobsTyped, AskersTyped, SlotsOK
<1>3. jobs[keyOf[j]] = j /\ j <= made /\ keyOf[j] \in Keys
  BY <1>1, Numbers DEF JobsKnown, AtWork, JobsTyped
<1>4. jobs' = [jobs EXCEPT ![keyOf[j]] = None] /\ verdict' = [verdict EXCEPT ![j] = v]
  OBVIOUS
<1>5. JobsKnown'
  <2>1. made' = made /\ keyOf' = keyOf /\ pending' = pending
    OBVIOUS
  <2>2. \A i \in Jobs : run'[i] = IF i = j THEN to ELSE run[i]
    BY DEF JobsTyped
  <2>3. \A i \in Jobs : verdict'[i] = IF i = j THEN v ELSE verdict[i]
    BY <1>4 DEF JobsTyped
  <2>4. \A k \in Keys : jobs'[k] = IF k = keyOf[j] THEN None ELSE jobs[k]
    BY <1>4 DEF JobsTyped
  <2>5. \A k \in Keys : jobs[k] # None => jobs[k] \in Jobs
    BY DEF JobsTyped
  <2>. HIDE DEF finish
  <2>. QED  BY Numbers, <1>3, <2>1, <2>2, <2>3, <2>4, <2>5 DEF JobsKnown
<1>6. AtWork'
  <2>1. \A i \in Active' \cup ToSet(pending') : i # j /\ jobs[keyOf[i]] = i
    BY <1>1 DEF AtWork
  <2>2. \A i \in Active' \cup ToSet(pending') : jobs'[keyOf[i]] = i
    BY <1>3, <1>4, <2>1 DEF JobsTyped
  <2>. QED  BY <1>1, <2>2 DEF AtWork
<1>7. ViewersKnown' /\ GuesserKnown'
  BY DEF ViewersKnown, GuesserKnown
<1>. QED  BY <1>2, <1>5, <1>6, <1>7

(* A job that goes on in its slot. *)
LEMMA WorkKeeps ==
    ASSUME Base, NEW j \in Jobs, RunConvert(j) \/ RunUnstarted(j) \/ RunRetry(j) \/ RunSucceed(j)
                                \/ RunFail(j) \/ RunDiscard(j) \/ RunMark(j)
    PROVE  Base'
<1>. USE DEF Base, Typed, cache, maps, fields, asking, reading, history
<1>1. /\ UNCHANGED <<maps, running, wake, keyOf, prio, verdict, asking>>
      /\ stopped' \subseteq stopped
      /\ \E to : run' = [run EXCEPT ![j] = to] /\ to \notin {"over", "evict", "evicting"}
      /\ run[j] \notin {"over", "evict", "evicting"}
  BY DEF RunConvert, RunUnstarted, RunRetry, RunSucceed, RunFail, RunDiscard, RunMark, Step, Begin
<1>2. Active' = Active
  BY <1>1 DEF Active, JobsTyped
<1>3. Typed'
  <2>1. CASE RunConvert(j) \/ RunRetry(j)
    <3>1. JobsTyped'
      BY <2>1 DEF RunConvert, RunRetry, Step, Begin, JobsTyped
    <3>2. AskersTyped'
      BY <2>1 DEF RunConvert, RunRetry, Begin, Truncated, AskersTyped
    <3>. QED  BY <3>1, <3>2
  <2>2. CASE RunUnstarted(j) \/ RunFail(j)
    <3>1. /\ UNCHANGED <<cache, maps, running, wake, keyOf, prio, verdict, asking, reading,
                         history>>
          /\ stopped' \subseteq stopped
          /\ \E to \in {"discard", "failed"} : run' = [run EXCEPT ![j] = to]
      BY <2>2 DEF RunUnstarted, RunFail, Step
    <3>. QED  BY <3>1 DEF JobsTyped, AskersTyped
  <2>3. CASE RunSucceed(j)
    BY <2>3 DEF RunSucceed, Becomes, JobsTyped, AskersTyped
  <2>4. CASE RunDiscard(j)
    BY <2>4 DEF RunDiscard, RemoveFile, Abandoned, Kept, Becomes, JobsTyped, AskersTyped
  <2>5. CASE RunMark(j)
    <3>1. keyOf[j] \in Keys
      BY <2>5, Numbers DEF RunMark, Step, JobsKnown, JobsTyped
    <3>2. Unused(keyOf[j]) \in Seq(Keys)
      BY WithoutElements DEF Unused, JobsTyped
    <3>3. used' \in Seq(Keys) /\ marker' \subseteq Keys
      BY <2>5, <3>1, <3>2, AppendElements DEF RunMark, MarkComplete, JobsTyped
    <3>4. JobsTyped'
      BY <2>5, <3>3 DEF RunMark, Step, JobsTyped
    <3>5. AskersTyped'
      BY <2>5 DEF RunMark, AskersTyped
    <3>. QED  BY <3>4, <3>5
  <2>. QED  BY <2>1, <2>2, <2>3, <2>4, <2>5
<1>4. SlotsOK'
  BY <1>1, <1>2 DEF SlotsOK
<1>5. JobsKnown'
  BY <1>1 DEF JobsKnown, JobsTyped
<1>6. AtWork'
  BY <1>1, <1>2 DEF AtWork
<1>7. ViewersKnown' /\ GuesserKnown'
  BY <1>1 DEF ViewersKnown, GuesserKnown
<1>. QED  BY <1>3, <1>4, <1>5, <1>6, <1>7

(* A job that goes back to the queue has let go of its slot. *)
LEMMA RequeueKeeps ==
    ASSUME Base, NEW j \in Jobs, RunRequeue(j)
    PROVE  Base'
<1>. USE DEF Base, Typed, RunRequeue, Step, cache, maps, fields, asking, reading, history
<1>1. Active' = Active \ {j} /\ j \in Active /\ j <= made
  BY Numbers DEF Active, JobsTyped, JobsKnown
<1>2. /\ pending' \in Seq(Jobs) /\ ToSet(pending') = ToSet(pending) \cup {j}
      /\ marker' \subseteq Keys /\ used' \in Seq(Keys)
  BY AppendElements, WithoutElements DEF JobsTyped, Unmark, Unused
<1>3. j \notin ToSet(pending)
  BY <1>1 DEF AtWork
<1>4. IsInjective(pending')
  BY <1>3 DEF AtWork, IsInjective, ToSet, JobsTyped
<1>5. Typed' /\ SlotsOK'
  BY <1>1, <1>2, SlotFreed DEF JobsTyped, AskersTyped, SlotsOK
<1>6. JobsKnown'
  BY Numbers, <1>1, <1>2 DEF JobsTyped, JobsKnown
<1>7. AtWork'
  BY <1>1, <1>2, <1>4 DEF AtWork
<1>8. ViewersKnown' /\ GuesserKnown'
  BY DEF ViewersKnown, GuesserKnown
<1>. QED  BY <1>5, <1>6, <1>7, <1>8

LEMMA RunKeeps ==
    ASSUME Base, NEW j \in Jobs, Run(j)
    PROVE  Base'
<1>. USE DEF Base, Typed
<1>1. marker \subseteq Keys /\ used \in Seq(Keys) /\ Unused(keyOf[j]) \in Seq(Keys)
  BY WithoutElements DEF Unused, JobsTyped
<1>2. CASE RunReady(j)
  BY <1>1, <1>2, FinishKeeps DEF RunReady, Step, cache
<1>3. CASE RunError(j)
  BY <1>1, <1>3, FinishKeeps DEF RunError, Step, Unmark
<1>4. CASE RunDone(j)
  BY <1>1, <1>4, FinishKeeps DEF RunDone, Step, cache
<1>5. CASE RunMarkFail(j)
  <2>1. keyOf[j] \in Keys
    BY <1>5, Numbers DEF RunMarkFail, Step, JobsKnown, JobsTyped
  <2>2. Append(Unused(keyOf[j]), keyOf[j]) \in Seq(Keys)
    BY <1>1, <2>1, AppendElements
  <2>3. marker' \subseteq Keys /\ used' \in Seq(Keys)
    BY <1>1, <1>5, <2>1, <2>2 DEF RunMarkFail, MarkComplete
  <2>. QED  BY <1>5, <2>3, FinishKeeps DEF RunMarkFail, Step
<1>. QED  BY <1>2, <1>3, <1>4, <1>5, WorkKeeps, RequeueKeeps DEF Run

(* Making room removes files and markers, and takes no slot. *)
LEMMA EvictKeeps ==
    ASSUME Base, NEW j \in Jobs, Evict(j)
    PROVE  Base'
<1>. USE DEF Base, Typed, cache, maps, fields, asking, reading, history
<1>1. /\ UNCHANGED <<maps, running, wake, fields, asking>>
      /\ \/ run' = run
         \/ /\ run[j] \in {"evict", "evicting"}
            /\ \E to \in {"evicting", "over"} : run' = [run EXCEPT ![j] = to]
  BY DEF Evict, EvictScan, EvictFile, EvictMarker, EvictEnd, Step
<1>2. Active' = Active
  BY <1>1 DEF Active, JobsTyped
<1>3. /\ mkv' \in [Keys -> {"none", "partial", "full"}]
      /\ marker' \subseteq Keys /\ used' \in Seq(Keys)
  BY WithoutElements
     DEF Evict, EvictScan, EvictFile, EvictMarker, EvictEnd, RemoveFile, Unmark, Unused, JobsTyped
<1>7. AskersTyped'
  <2>1. CASE EvictFile(j)
    BY <1>1, <2>1 DEF EvictFile, Kept, Becomes, AskersTyped
  <2>2. CASE ~EvictFile(j)
    BY <1>1, <2>2 DEF Evict, EvictScan, EvictMarker, EvictEnd, AskersTyped
  <2>. QED  BY <2>1, <2>2
<1>4. Typed' /\ SlotsOK'
  BY <1>1, <1>2, <1>3, <1>7 DEF JobsTyped, SlotsOK
<1>5. JobsKnown' /\ AtWork'
  BY <1>1, <1>2 DEF JobsTyped, JobsKnown, AtWork
<1>6. ViewersKnown' /\ GuesserKnown'
  BY <1>1 DEF ViewersKnown, GuesserKnown
<1>. QED  BY <1>4, <1>5, <1>6

(* A request leaves the jobs alone. *)
LEMMA AskingKeeps ==
    ASSUME Base, Typed', UNCHANGED <<maps, running, fields, run>>
    PROVE  SlotsOK' /\ JobsKnown' /\ AtWork'
BY DEF Base, Typed, SlotsOK, JobsKnown, AtWork, Active, maps, fields

LEMMA OpenKeeps ==
    ASSUME Base, NEW v \in Viewers,
           Open(v) \/ Close(v) \/ \E k \in Keys : OpenFile(v, k)
    PROVE  Base'
<1>. USE Numbers DEF Base, Typed, Go, Answer, cache, maps, fields, asking, reading, history
<1>1. UNCHANGED <<mkv, marker, maps, running, wake, fields, run, bare>> /\ used' \in Seq(Keys)
  <2>1. CASE openCached(v)
    <3>1. want[v] \in Keys /\ Unused(want[v]) \in Seq(Keys)
      BY <2>1, WithoutElements DEF openCached, Unused, JobsTyped, ViewersKnown
    <3>2. Append(Unused(want[v]), want[v]) \in Seq(Keys)
      BY <3>1, AppendElements
    <3>. QED  BY <2>1, <3>2 DEF openCached, Touch, JobsTyped
  <2>2. CASE ~openCached(v)
    BY <2>2 DEF Open, OpenCheck, OpenWait, OpenTimeout, openGrowing, ReadEnd, Close, OpenFile,
                JobsTyped
  <2>. QED  BY <2>1, <2>2
<1>2. AskersTyped'
  <2>1. CASE OpenCheck(v) \/ OpenTimeout(v) \/ Close(v) \/ openCached(v) \/ ReadEnd(v)
    BY <2>1 DEF OpenCheck, OpenTimeout, Close, openCached, ReadEnd, AskersTyped
  <2>2. CASE OpenWait(v)
    <3>1. CASE verdict[job[v]] = "ok"
      BY <2>2, <3>1 DEF OpenWait, AskersTyped
    <3>2. CASE verdict[job[v]] # "ok"
      BY <2>2, <3>2 DEF OpenWait, AskersTyped
    <3>. QED  BY <3>1, <3>2
  <2>3. CASE openGrowing(v)
    <3>1. CASE mkv[want[v]] # "none"
      BY <2>3, <3>1 DEF openGrowing, AskersTyped
    <3>2. CASE mkv[want[v]] = "none"
      BY <2>3, <3>2 DEF openGrowing, AskersTyped
    <3>. QED  BY <3>1, <3>2
  <2>4. ASSUME NEW k \in Keys, OpenFile(v, k)
        PROVE  AskersTyped'
    <3>1. CASE pc' = [pc EXCEPT ![v] = "answered"]
      BY <2>4, <3>1 DEF OpenFile, AskersTyped
    <3>2. CASE pc' = [pc EXCEPT ![v] = "drop"]
      BY <2>4, <3>2 DEF OpenFile, AskersTyped
    <3>. QED  BY <2>4, <3>1, <3>2 DEF OpenFile
  <2>. QED  BY <2>1, <2>2, <2>3, <2>4 DEF Open
<1>3. JobsTyped'
  BY <1>1 DEF JobsTyped
<1>4. ViewersKnown' /\ GuesserKnown'
  <2>1. CASE OpenCheck(v) \/ OpenTimeout(v) \/ Close(v) \/ openCached(v) \/ ReadEnd(v)
    BY <2>1 DEF OpenCheck, OpenTimeout, Close, openCached, ReadEnd, AskersTyped,
                ViewersKnown, GuesserKnown
  <2>2. CASE OpenWait(v) \/ openGrowing(v)
    BY <2>2 DEF OpenWait, openGrowing, AskersTyped, ViewersKnown, GuesserKnown
  <2>3. CASE \E k \in Keys : OpenFile(v, k)
    BY <2>3 DEF OpenFile, AskersTyped, ViewersKnown, GuesserKnown
  <2>. QED  BY <2>1, <2>2, <2>3 DEF Open
<1>. QED  BY <1>1, <1>2, <1>3, <1>4, AskingKeeps

LEMMA GuessKeeps ==
    ASSUME Base, \/ \E v \in Viewers, k \in Keys : queueNext(v, k)
                 \/ \E d \in Dirs : prefetch(d)
                 \/ \E k \in Keys : prefetchFile(k)
                 \/ prefetchEnd
    PROVE  Base'
<1>1. PICK x \in Keys \cup Dirs \cup {None}, at \in {"start", "drop", "idle"} :
         Guess(x, at) /\ (at = "start" => x \in Keys)
  BY DEF queueNext, prefetch, prefetchFile, prefetchEnd
<1>. USE Numbers, <1>1 DEF Base, Typed, Guess, Go, cache, maps, fields, asking, reading, history
<1>2. Typed'
  BY DEF JobsTyped, AskersTyped
<1>3. ViewersKnown' /\ GuesserKnown'
  BY DEF AskersTyped, ViewersKnown, GuesserKnown
<1>. QED  BY <1>2, <1>3, AskingKeeps

\* What the process finds on the disk when it begins.
OnDisk ==
    mkv \in [Keys -> {"none", "partial", "full"}] /\ marker \subseteq Keys /\ used \in Seq(Keys)

(* A process that has just begun has no jobs. *)
LEMMA FreshIsBase == Memory /\ OnDisk => Base
<1>. SUFFICES ASSUME Memory, OnDisk PROVE Base
  OBVIOUS
<1>. USE Numbers DEF Memory, OnDisk
<1>1. pending \in Seq(Jobs) /\ ToSet(pending) = {} /\ IsInjective(pending)
  BY DEF ToSet, IsInjective
<1>2. Active = {}
  BY DEF Active
<1>3. Typed
  <2>1. JobsTyped
    <3>1. made \in 0 .. MaxJobs /\ running \subseteq Jobs /\ stopped \subseteq Jobs
      OBVIOUS
    <3>2. wake \in BOOLEAN
      OBVIOUS
    <3>3. jobs \in [Keys -> Jobs \cup {None}] /\ keyOf \in [Jobs -> Keys \cup {None}]
      OBVIOUS
    <3>4. prio \in [Jobs -> {Prefetch, Playback}] 
      BY DEF Prefetch, Playback
    <3>5. verdict \in [Jobs -> {"open", "ok", "error", "dropped"}]
      OBVIOUS
    <3>6. run \in [Jobs -> {"begin", "convert", "retry", "discard", "requeue", "failed", "finish",
                          "mark", "done", "evict", "evicting", "over"}]
      OBVIOUS
    <3>. QED  BY <1>1, <3>1, <3>2, <3>3, <3>4, <3>5, <3>6 DEF JobsTyped
  <2>2. AskersTyped
    BY DEF AskersTyped
  <2>. QED  BY <2>1, <2>2 DEF Typed
<1>4. SlotsOK
  BY <1>2, FS_EmptySet, ConstantsOK DEF SlotsOK
<1>5. JobsKnown /\ AtWork
  BY <1>1, <1>2 DEF JobsKnown, AtWork
<1>6. ViewersKnown /\ GuesserKnown
  BY DEF ViewersKnown, GuesserKnown
<1>. QED  BY <1>3, <1>4, <1>5, <1>6 DEF Base

LEMMA InitIsBase == Init => Base
<1>. SUFFICES ASSUME Init PROVE Base
  OBVIOUS
<1>1. PICK full \in SUBSET Keys :
         mkv = [k \in Keys |-> IF k \in full THEN "full" ELSE "none"]
         /\ marker = full /\ used \in SetToSeqs(full)
  BY DEF Init
<1>2. used \in Seq(Keys)
  <2>1. Cardinality(full) \in Nat
    BY ConstantsOK, FS_Subset, FS_CardinalityType
  <2>. QED  BY <1>1, <2>1 DEF SetToSeqs
<1>3. OnDisk
  BY <1>1, <1>2 DEF OnDisk
<1>. QED  BY <1>3, FreshIsBase DEF Init

LEMMA RestartKeeps ==
    ASSUME Base, Restart
    PROVE  Base'
<1>1. Memory'
  BY Zenon DEF Restart, Memory
<1>2. OnDisk'
  BY DEF Restart, OnDisk, Base, Typed, JobsTyped
<1>3. (Memory /\ OnDisk)' => Base'
  BY FreshIsBase, PTL
<1>. QED  BY <1>1, <1>2, <1>3

(* Every step keeps Base. *)
LEMMA NextKeeps == Base /\ [Next]_vars => Base'
<1>. SUFFICES ASSUME Base, [Next]_vars PROVE Base'
  OBVIOUS
<1>1. CASE Next
  BY <1>1, StartKeeps, DispatchKeeps, RunKeeps, EvictKeeps, OpenKeeps, GuessKeeps, RestartKeeps
     DEF Next
<1>2. CASE UNCHANGED vars
  BY <1>2 DEF vars, cache, maps, fields, asking, reading, history, Base, Typed, JobsTyped,
              AskersTyped, SlotsOK, Active, JobsKnown, AtWork, ViewersKnown, GuesserKnown
<1>. QED  BY <1>1, <1>2

LEMMA AlwaysBase == Spec => []Base
BY InitIsBase, NextKeeps, PTL DEF Spec

(* Every variable keeps its type, and no more jobs convert than there are slots. *)
THEOREM TypeCorrect == Spec => []TypeOK
<1>1. Base => TypeOK
  BY DEF Base, Typed, JobsTyped, AskersTyped, SlotsOK, TypeOK
<1>. QED  BY <1>1, AlwaysBase, PTL

(* Whatever is queued or at work is what its key is registered for, never two for one file. *)
THEOREM OneWriterEach == Spec => []OneWriter
<1>1. Base => OneWriter
  BY DEF Base, SlotsOK, AtWork, OneWriter
<1>. QED  BY <1>1, AlwaysBase, PTL

-----------------------------------------------------------------------------
(* What V1Cache promises of the films it keeps and of those who ask for them *)


\* Half an output beside a marker is one begun beside it, and a job about to set its marker
\* has no half an output.
FullInv ==
    /\ \A k \in Keys : mkv[k] = "partial" /\ k \in marker => k \in unmarked
    /\ \A j \in Jobs : run[j] = "mark" => mkv[keyOf[j]] # "partial"

\* Every viewer has a result, "none" for the time being.
ResultTyped == result = [v \in Viewers |-> result[v]]

\* What a viewer waits for is no guess, and has been dropped only in time.
LateInv ==
    \A v \in Viewers :
       /\ pc[v] \in {"raise", "wait", "grow", "read"} /\ verdict[job[v]] = "dropped"
          => job[v] \in late
       /\ pc[v] \in {"wait", "grow", "read"} => prio[job[v]] = Playback
       /\ pc[v] = "read" => fd[v] \in {"growing", "whole", "kept", "cut"}
       /\ result[v] = "dropped" => pc[v] = "answered" /\ job[v] \in late

Writing(j) == run[j] \in {"convert", "retry", "discard", "failed"}

\* Half an output found beside its marker at the start: it counts as complete, and no one asks
\* for it to be made.
Orphan(k) ==
    /\ k \in marker /\ jobs[k] = None
    /\ \A a \in Actors : pc[a] = "lookup" => want[a] # k
    /\ ~(evict.half /\ Head(evict.left) = k)

EvictTyped ==
    evict = [by |-> evict.by, left |-> evict.left, over |-> evict.over, half |-> evict.half]

\* Half an output has its writer.
PartialOK ==
    \A k \in Keys : mkv[k] = "partial" => (jobs[k] # None /\ Writing(jobs[k])) \/ Orphan(k)

\* Who reads along with an uninterrupted job reads the output of that job.
ReadersOK ==
    \A v \in Viewers :
       /\ pc[v] = "read" /\ fd[v] = "cut" => job[v] \in again
       /\ pc[v] = "read" /\ fd[v] = "growing" /\ job[v] \notin again
          => verdict[job[v]] = "open" /\ Writing(job[v])
       /\ result[v] \in {"cut", "growing"} => pc[v] = "answered" /\ job[v] \in again

\* A finished output without a marker is known to have lost it, or its job has still to set it or
\* to throw the output away.
BareOK ==
    /\ \A k \in Keys : mkv[k] = "full" /\ k \notin marker
          => k \in bare \/ (jobs[k] # None /\ run[jobs[k]] \in {"mark", "discard", "failed"})
    /\ \A j \in Jobs : /\ run[j] \in {"convert", "retry"} => mkv[keyOf[j]] # "full"
                       /\ run[j] \in {"requeue", "finish"} => mkv[keyOf[j]] = "none"

\* The whole file a viewer reads is at its path until it is removed or made anew.
WholeOK == \A v \in Viewers : pc[v] = "read" /\ fd[v] = "whole" => mkv[want[v]] = "full"

-----------------------------------------------------------------------------
(* What is complete is whole *)

(* A conversion begins in the only job for its film. *)
LEMMA BeginsFull ==
    ASSUME Base, FullInv, NEW j \in Jobs, RunConvert(j) \/ RunRetry(j)
    PROVE  FullInv'
<1> DEFINE k == keyOf[j]
<1>1. /\ j \in Active /\ k \in Keys
      /\ mkv' = [mkv EXCEPT ![k] = "partial"] /\ marker' = marker /\ keyOf' = keyOf
      /\ unmarked' = IF k \in marker THEN unmarked \cup {k} ELSE unmarked
      /\ \E to \in {"convert", "retry"} : run' = [run EXCEPT ![j] = to]
  BY Numbers DEF RunConvert, RunRetry, Step, Begin, fields, Base, Typed, JobsTyped, JobsKnown,
                 Active
<1>2. ASSUME NEW i \in Jobs, run'[i] = "mark"
      PROVE  mkv'[keyOf'[i]] # "partial"
  <2>1. i # j /\ run[i] = "mark"
    BY <1>1, <1>2 DEF Base, Typed, JobsTyped
  <2>2. i \in Active /\ keyOf[i] # k
    BY <1>1, <2>1 DEF Base, AtWork, Active
  <2>. QED  BY <1>1, <2>1, <2>2 DEF FullInv, Base, Typed, JobsTyped
<1>3. \A x \in Keys : mkv'[x] = "partial" /\ x \in marker' => x \in unmarked'
  BY <1>1 DEF FullInv, Base, Typed, JobsTyped
<1>. QED  BY <1>2, <1>3 DEF FullInv

LEMMA FullKeeps == Base /\ FullInv /\ [Next]_vars => FullInv'
<1>. SUFFICES ASSUME Base, FullInv, [Next]_vars PROVE FullInv'
  OBVIOUS
<1>. USE DEF Base, Typed, JobsTyped, FullInv, Complete, cache, maps, fields, history
<1>1. ASSUME NEW a \in Actors, Start(a)
      PROVE  FullInv'
  <2>1. /\ UNCHANGED <<mkv, marker, run, unmarked>>
        /\ \A j \in Jobs : run[j] = "mark" => keyOf'[j] = keyOf[j]
    <3>1. CASE StartCreate(a)
      BY <3>1, Numbers DEF StartCreate, JobsKnown
    <3>2. CASE ~StartCreate(a)
      BY <1>1, <3>2 DEF Start, StartCheck, StartFind, StartRaise
    <3>. QED  BY <3>1, <3>2
  <2>. QED  BY <2>1
<1>2. ASSUME NEW a \in Actors, DropPendingOutside(a)
      PROVE  FullInv'
  BY <1>2 DEF DropPendingOutside
<1>3. CASE dispatch
  BY <1>3 DEF dispatch
<1>4. ASSUME NEW j \in Jobs, Run(j)
      PROVE  FullInv'
  <2>1. CASE RunReady(j) \/ RunDone(j)
    BY <2>1 DEF RunReady, RunDone, Step, finish
  <2>2. CASE RunUnstarted(j) \/ RunFail(j)
    <3>1. /\ UNCHANGED <<mkv, marker, keyOf, unmarked>>
          /\ \E to \in {"discard", "failed"} : run' = [run EXCEPT ![j] = to]
      BY <2>2 DEF RunUnstarted, RunFail, Step
    <3>. QED  BY <3>1
  <2>3. CASE RunSucceed(j)
    <3>1. /\ mkv' = [mkv EXCEPT ![keyOf[j]] = IF mkv[keyOf[j]] = "partial" THEN "full"
                                              ELSE mkv[keyOf[j]]]
          /\ keyOf' = keyOf /\ marker' = marker /\ unmarked' = unmarked \ {keyOf[j]}
          /\ \E to \in {"discard", "mark"} : run' = [run EXCEPT ![j] = to]
      BY <2>3 DEF RunSucceed
    <3>2. \A k \in Keys : mkv'[k] = "partial" => mkv[k] = "partial" /\ k # keyOf[j]
      BY <3>1
    <3>3. keyOf[j] \in Keys
      BY <2>3, Numbers DEF RunSucceed, JobsKnown
    <3>4. mkv'[keyOf[j]] # "partial"
      BY <3>1, <3>3
    <3>. QED  BY <3>1, <3>2, <3>4
  <2>4. CASE RunDiscard(j)
    BY <2>4 DEF RunDiscard, RemoveFile
  <2>5. CASE RunRequeue(j)
    BY <2>5 DEF RunRequeue, Step, Unmark
  <2>6. CASE RunError(j)
    BY <2>6 DEF RunError, Step, Unmark, finish
  <2>8. CASE RunMarkFail(j)
    BY <2>8 DEF RunMarkFail, Step, MarkComplete, finish
  <2>7. CASE RunMark(j)
    BY <2>7 DEF RunMark, Step, MarkComplete
  <2>. QED  BY <1>4, <2>1, <2>2, <2>3, <2>4, <2>5, <2>6, <2>7, <2>8, BeginsFull DEF Run
<1>5. ASSUME NEW j \in Jobs, Evict(j)
      PROVE  FullInv'
  <2>1. CASE EvictFile(j)
    BY <2>1 DEF EvictFile, RemoveFile
  <2>2. CASE EvictMarker(j)
    BY <2>2 DEF EvictMarker, Unmark
  <2>3. CASE EvictScan(j) \/ EvictEnd(j)
    <3>1. /\ UNCHANGED <<mkv, marker, keyOf, unmarked>>
          /\ \E to \in {"evicting", "over"} : run' = [run EXCEPT ![j] = to]
      BY <2>3 DEF EvictScan, EvictEnd, Step
    <3>. QED  BY <3>1
  <2>. QED  BY <1>5, <2>1, <2>2, <2>3 DEF Evict
<1>6. ASSUME NEW v \in Viewers, Open(v) \/ Close(v) \/ \E k \in Keys : OpenFile(v, k)
      PROVE  FullInv'
  <2>1. UNCHANGED <<mkv, marker, run, keyOf, unmarked>>
    BY <1>6 DEF Open, OpenCheck, openCached, OpenWait, OpenTimeout, openGrowing, ReadEnd, Close,
                OpenFile
  <2>. QED  BY <2>1
<1>7. CASE UNCHANGED <<cache, maps, fields, run, history>>
  BY <1>7
<1>8. CASE Restart
  BY <1>8 DEF Restart
<1>. QED  BY <1>1, <1>2, <1>3, <1>4, <1>5, <1>6, <1>7, <1>8
          DEF Next, vars, queueNext, prefetch, prefetchFile, prefetchEnd, Guess

(* What is complete is whole, unless it was begun beside the marker of an earlier output. *)
THEOREM CompleteIsFullAlways == Spec => []CompleteIsFull
<1>1. Init => FullInv
  BY DEF Init, Memory, FullInv
<1>2. Base /\ FullInv => CompleteIsFull
  BY DEF Base, Typed, JobsTyped, FullInv, CompleteIsFull, Complete
<1>. QED  BY <1>1, <1>2, FullKeeps, AlwaysBase, PTL DEF Spec

-----------------------------------------------------------------------------
(* No wake-up is lost *)

(* When the dispatcher has filled the slots, whoever still waits has them all taken. *)
LEMMA DispatchServes ==
    ASSUME Base, NoGuessInTheWay, dispatch
    PROVE  NoGuessInTheWay'
<1>. USE DEF Base, Typed
<1>1. PICK start \in SUBSET ToSet(pending) :
         /\ pending' = Without(pending, start) /\ running' = running \cup start
         /\ run' = [j \in Jobs |-> IF j \in start THEN "begin" ELSE run[j]]
         /\ \/ Cardinality(running') < Slots \/ ~WantsIn(pending')
            \/ {j \in running' : prio[j] = Prefetch} = {}
            \/ \E j \in running' :
                  stopped' = IF Converting(j) \/ j \in start THEN stopped \cup {j} ELSE stopped
         /\ start = ToSet(pending) \/ Cardinality(running') = Slots
  BY DispatchStarts
<1>2. prio' = prio
  BY Zenon DEF dispatch
<1>3. pending' \in Seq(Jobs) /\ ToSet(pending') = ToSet(pending) \ start
  BY <1>1, WithoutElements DEF JobsTyped
<1>4. running' \subseteq Jobs
  BY <1>1 DEF JobsTyped, ToSet
<1>5. CASE start = ToSet(pending)
  <2>1. ToSet(pending') = {}
    BY <1>3, <1>5
  <2>. QED  BY <1>3, <2>1 DEF NoGuessInTheWay, WantsIn, ToSet
<1>6. CASE Cardinality(running') = Slots
  <2>1. CASE ~WantsIn(pending')
    BY <1>2, <2>1 DEF NoGuessInTheWay, WantsIn
  <2>2. CASE {j \in running' : prio[j] = Prefetch} = {}
    <3>1. \A j \in running' : prio'[j] = Playback
      BY <1>2, <1>4, <2>2 DEF JobsTyped
    <3>. QED  BY <1>6, <3>1 DEF NoGuessInTheWay
  <2>3. ASSUME NEW j \in running',
               stopped' = IF Converting(j) \/ j \in start THEN stopped \cup {j} ELSE stopped
        PROVE  j \in stopped' \/ ~Converting(j)'
    BY <1>1, <1>4, <2>3 DEF Converting
  <2>4. CASE \E i \in running' : i \in stopped' \/ ~Converting(i)'
    BY <1>6, <2>4 DEF NoGuessInTheWay
  <2>5. ~ (Cardinality(running') < Slots)
    BY <1>6, ConstantsOK
  <2>. QED  BY <1>1, <2>1, <2>2, <2>3, <2>4, <2>5
<1>. QED  BY <1>1, <1>5, <1>6

LEMMA ServedKeeps == Base /\ NoGuessInTheWay /\ [Next]_vars => NoGuessInTheWay'
<1>. SUFFICES ASSUME Base, NoGuessInTheWay, [Next]_vars PROVE NoGuessInTheWay'
  OBVIOUS
<1>. USE DEF Base, Typed, JobsTyped, SlotsOK, Active, NoGuessInTheWay, WantsIn, Converting, cache,
             maps, fields, history
<1>1. ASSUME NEW a \in Actors, Start(a)
      PROVE  NoGuessInTheWay'
  <2>1. CASE StartCheck(a) \/ StartFind(a) \/ StartCreate(a)
    BY <1>1, <2>1 DEF StartCheck, StartFind, StartCreate
  <2>2. CASE StartRaise(a)
    <3>1. CASE prio[job[a]] = Prefetch
      BY <2>2, <3>1 DEF StartRaise, NudgeIf
    <3>2. CASE prio[job[a]] # Prefetch
      <4>1. prio' = prio
        BY <2>2, <3>2 DEF StartRaise, Prefetch, Playback
      <4>. QED  BY <2>2, <3>2, <4>1 DEF StartRaise, NudgeIf
    <3>. QED  BY <3>1, <3>2
  <2>. QED  BY <1>1, <2>1, <2>2 DEF Start
<1>2. ASSUME NEW a \in Actors, DropPendingOutside(a)
      PROVE  NoGuessInTheWay'
  <2>1. pending' \in Seq(Jobs) /\ ToSet(pending') \subseteq ToSet(pending)
    BY <1>2, WithoutElements DEF DropPendingOutside
  <2>2. WantsIn(pending') => WantsIn(pending)
    <3>1. ASSUME NEW i \in DOMAIN pending', prio[pending'[i]] = Playback
          PROVE  \E x \in ToSet(pending) : prio[x] = Playback
      BY <2>1, <3>1 DEF ToSet
    <3>2. prio' = prio
      BY <1>2 DEF DropPendingOutside
    <3>. QED  BY <3>1, <3>2 DEF ToSet
  <2>3. UNCHANGED <<running, wake, prio, stopped, run>>
    BY <1>2 DEF DropPendingOutside
  <2>. QED  BY <2>2, <2>3
<1>3. ASSUME NEW j \in Jobs, Run(j)
      PROVE  NoGuessInTheWay'
  <2>1. CASE RunReady(j) \/ RunRequeue(j) \/ RunError(j) \/ RunMarkFail(j) \/ RunDone(j)
    BY <2>1 DEF RunReady, RunRequeue, RunError, RunMarkFail, RunDone, finish
  <2>2. CASE RunConvert(j) \/ RunRetry(j)
    <3>1. /\ UNCHANGED <<pending, running, wake, prio, stopped>> /\ j \notin stopped
          /\ Converting(j) /\ \E to \in {"convert", "retry"} : run' = [run EXCEPT ![j] = to]
      BY <2>2 DEF RunConvert, RunRetry, Step, Begin
    <3>. QED  BY <3>1
  <2>3. CASE RunUnstarted(j) \/ RunFail(j) \/ RunSucceed(j)
    <3>1. /\ UNCHANGED <<pending, running, wake, prio>> /\ stopped' = stopped \ {j} /\ j \in running
          /\ \E to \in {"discard", "failed", "mark"} : run' = [run EXCEPT ![j] = to]
      BY <2>3 DEF RunUnstarted, RunFail, RunSucceed, Step
    <3>2. ~Converting(j)'
      BY <3>1
    <3>3. \A i \in running \ {j} : /\ i \in stopped => i \in stopped'
                                   /\ ~Converting(i) => ~Converting(i)'
      BY <3>1
    <3>. QED  BY <3>1, <3>2, <3>3
  <2>4. CASE RunDiscard(j) \/ RunMark(j)
    BY <2>4, ZenonT(40) DEF RunDiscard, RunMark, Step
  <2>. QED  BY <1>3, <2>1, <2>2, <2>3, <2>4 DEF Run
<1>4. ASSUME NEW j \in Jobs, Evict(j)
      PROVE  NoGuessInTheWay'
  BY <1>4 DEF Evict, EvictScan, EvictFile, EvictMarker, EvictEnd, Step
<1>5. ASSUME NEW v \in Viewers, Open(v) \/ Close(v) \/ \E k \in Keys : OpenFile(v, k)
      PROVE  NoGuessInTheWay'
  BY <1>5 DEF Open, OpenCheck, openCached, OpenWait, OpenTimeout, openGrowing, ReadEnd, Close,
              OpenFile
<1>6. CASE UNCHANGED <<maps, running, wake, fields, run>>
  BY <1>6
<1>7. CASE Restart
  BY <1>7 DEF Restart
<1>. QED  BY <1>1, <1>2, <1>3, <1>4, <1>5, <1>6, <1>7, DispatchServes
          DEF Next, vars, queueNext, prefetch, prefetchFile, prefetchEnd, Guess

(* With nothing left to wake the dispatcher for, a viewer's job that waits has every slot taken by
   viewers' jobs, or a guess is on its way out. *)
THEOREM NoGuessInTheWayAlways == Spec => []NoGuessInTheWay
<1>1. Init => NoGuessInTheWay
  BY DEF Init, Memory, NoGuessInTheWay, WantsIn
<1>. QED  BY <1>1, ServedKeeps, AlwaysBase, PTL DEF Spec

-----------------------------------------------------------------------------
(* A viewer's own file is not dropped *)

(* A viewer goes on with the job of its file, or with one made for it. *)
LEMMA AskedInTime ==
    ASSUME Base, LateInv, NEW a \in Actors, StartFind(a) \/ StartCreate(a)
    PROVE  LateInv'
<1>. USE DEF Base, Typed, JobsTyped, AskersTyped
<1>1. a # Guesser => job'[a] \in Jobs
  BY Numbers DEF StartFind, StartCreate, Return, JobFor, ViewersKnown
<1>2. /\ \A w \in Viewers \ {a} : pc'[w] = pc[w] /\ job'[w] = job[w]
      /\ a # Guesser => pc'[a] \in {"raise", "wait"}
  <2>1. PICK to, j : to \in {"raise", "wait"} /\ Return(a, j, to)
    BY DEF StartFind, StartCreate
  <2>2. pc' = [pc EXCEPT ![a] = IF a = Guesser THEN "idle" ELSE to]
    BY <2>1 DEF Return, Go
  <2>3. job' = [job EXCEPT ![a] = IF a = Guesser THEN None ELSE j]
    BY <2>1 DEF Return
  <2>. QED  BY Numbers, <2>1, <2>2, <2>3
<1>7. UNCHANGED <<fd, result, late, verdict>>
  BY DEF StartFind, StartCreate, fields, reading, history
<1>3. a # Guesser => verdict[job'[a]] = "open"
  BY Numbers, <1>1
     DEF StartFind, StartCreate, Return, JobFor, JobsKnown, ViewersKnown, GuesserKnown
<1>4. a # Guesser /\ pc'[a] = "wait" => prio'[job'[a]] = Playback
  BY Numbers DEF StartFind, StartCreate, Return, Go, Playback, ViewersKnown
<1>5. \A w \in Viewers : job[w] # None => job[w] \in Jobs /\ prio'[job[w]] = prio[job[w]]
  BY Numbers DEF StartFind, StartCreate, ViewersKnown, fields
<1>6. a # Guesser => result[a] # "dropped"
  BY Numbers DEF LateInv, StartFind, StartCreate
<1>. QED  BY Numbers, <1>1, <1>2, <1>3, <1>4, <1>5, <1>6, <1>7 DEF LateInv, ViewersKnown

LEMMA ResultKept == ResultTyped /\ [Next]_vars => ResultTyped'
<1>. SUFFICES ASSUME ResultTyped, [Next]_vars PROVE ResultTyped'
  OBVIOUS
<1>1. \/ result' = result \/ result' = [v \in Viewers |-> "none"]
      \/ \E v \in Viewers : \E r : result' = [result EXCEPT ![v] = r]
  <2>. USE DEF cache, maps, fields, asking, reading, history
  <2>1. CASE UNCHANGED result \/ Restart
    BY <2>1 DEF Restart
  <2>2. ASSUME NEW v \in Viewers, Open(v) \/ Close(v) \/ \E k \in Keys : OpenFile(v, k)
        PROVE  \/ result' = result \/ \E r : result' = [result EXCEPT ![v] = r]
    BY <2>2, Zenon DEF Open, OpenCheck, openCached, OpenWait, OpenTimeout, openGrowing, ReadEnd,
                       Close, OpenFile, Answer
  <2>3. ASSUME NEW a \in Actors, Start(a) \/ DropPendingOutside(a)
        PROVE  result' = result
    BY <2>3 DEF Start, StartCheck, StartFind, StartCreate, StartRaise, DropPendingOutside
  <2>4. ASSUME NEW j \in Jobs, Run(j) \/ Evict(j)
        PROVE  result' = result
    BY <2>4 DEF Run, RunReady, RunConvert, RunUnstarted, RunRetry, RunSucceed, RunFail, RunDiscard,
                RunRequeue, RunError, RunMark, RunMarkFail, RunDone, Begin, Evict, EvictScan,
                EvictFile, EvictMarker, EvictEnd
  <2>. QED  BY <2>1, <2>2, <2>3, <2>4
            DEF Next, dispatch, vars, queueNext, prefetch, prefetchFile, prefetchEnd, Guess
<1>. QED  BY <1>1 DEF ResultTyped

(* Nothing a job does drops it, and whoever reads goes on reading. *)
LEMMA WorkIsNoDrop ==
    ASSUME Base, LateInv, NEW j \in Jobs, Run(j) \/ Evict(j)
    PROVE  LateInv'
<1>. USE DEF Base, Typed, JobsTyped, AskersTyped, cache, maps, fields, asking, reading, history
<1>1. /\ UNCHANGED <<pc, job, prio, result, late>>
      /\ \A i \in Jobs : verdict'[i] = "dropped" => verdict[i] = "dropped"
  <2>1. CASE Evict(j)
    BY <2>1 DEF Evict, EvictScan, EvictFile, EvictMarker, EvictEnd
  <2>2. CASE RunReady(j) \/ RunError(j) \/ RunMarkFail(j) \/ RunDone(j)
    BY <2>2 DEF RunReady, RunError, RunMarkFail, RunDone, finish
  <2>3. CASE Run(j) /\ ~(RunReady(j) \/ RunError(j) \/ RunMarkFail(j) \/ RunDone(j))
    BY <2>3 DEF Run, RunConvert, RunUnstarted, RunRetry, RunSucceed, RunFail, RunDiscard,
                RunRequeue, RunMark, Begin
  <2>. QED  BY <2>1, <2>2, <2>3
<1>2. \A v \in Viewers : fd'[v] = fd[v] \/ fd'[v] \in {"cut", "whole", "kept"}
  <2>1. CASE Evict(j)
    BY <2>1 DEF Evict, EvictScan, EvictFile, EvictMarker, EvictEnd, Kept, Becomes
  <2>2. CASE RunConvert(j) \/ RunRetry(j) \/ RunDiscard(j)
    BY <2>2 DEF RunConvert, RunRetry, RunDiscard, Begin, Truncated, Abandoned, Kept, Becomes
  <2>3. CASE RunSucceed(j)
    BY <2>3 DEF RunSucceed, Becomes
  <2>4. CASE Run(j) /\ ~(RunConvert(j) \/ RunRetry(j) \/ RunDiscard(j) \/ RunSucceed(j))
    BY <2>4 DEF Run, RunReady, RunUnstarted, RunFail, RunRequeue, RunError, RunMark, RunMarkFail,
                RunDone
  <2>. QED  BY <2>1, <2>2, <2>3, <2>4
<1>3. ASSUME NEW v \in Viewers, pc[v] \in {"raise", "wait", "grow", "read"},
             verdict'[job[v]] = "dropped"
      PROVE  verdict[job[v]] = "dropped"
  BY <1>1, <1>3, Numbers DEF ViewersKnown
<1>. QED  BY Zenon, <1>1, <1>2, <1>3 DEF LateInv

LEMMA LateKeeps == Base /\ ResultTyped /\ LateInv /\ [Next]_vars => LateInv'
<1>. SUFFICES ASSUME Base, ResultTyped, LateInv, [Next]_vars PROVE LateInv'
  OBVIOUS
<1>. USE Numbers DEF Base, Typed, JobsTyped, AskersTyped, ViewersKnown, LateInv, ResultTyped,
                     Prefetch, Playback, Go, cache, maps, fields, asking, reading, history
<1>1. ASSUME NEW a \in Actors, Start(a)
      PROVE  LateInv'
  <2>1. CASE StartCheck(a)
    BY <2>1 DEF StartCheck, Return
  <2>2. CASE StartRaise(a)
    BY <2>2 DEF StartRaise
  <2>. QED  BY <1>1, <2>1, <2>2, AskedInTime DEF Start
<1>2. ASSUME NEW a \in Actors, DropPendingOutside(a)
      PROVE  LateInv'
  BY <1>2 DEF DropPendingOutside, Stale
<1>3. CASE dispatch
  BY <1>3 DEF dispatch
<1>4. ASSUME NEW v \in Viewers, Open(v)
      PROVE  LateInv'
  <2>1. CASE OpenCheck(v) \/ OpenTimeout(v)
    BY <2>1 DEF OpenCheck, OpenTimeout
  <2>2. CASE openCached(v)
    BY <2>2 DEF openCached, Answer
  <2>3. CASE OpenWait(v)
    <3>1. CASE verdict[job[v]] = "ok"
      BY <2>3, <3>1 DEF OpenWait
    <3>2. CASE verdict[job[v]] # "ok"
      BY <2>3, <3>2 DEF OpenWait, Answer
    <3>. QED  BY <3>1, <3>2
  <2>4. CASE openGrowing(v)
    <3>1. CASE mkv[want[v]] # "none"
      BY <2>4, <3>1 DEF openGrowing
    <3>2. CASE mkv[want[v]] = "none"
      BY <2>4, <3>2 DEF openGrowing, Answer
    <3>. QED  BY <3>1, <3>2
  <2>5. CASE ReadEnd(v)
    BY <2>5 DEF ReadEnd, Answer
  <2>. QED  BY <1>4, <2>1, <2>2, <2>3, <2>4, <2>5 DEF Open
<1>5. ASSUME NEW v \in Viewers, Close(v)
      PROVE  LateInv'
  <2>1. /\ \A w \in Viewers \ {v} : /\ pc'[w] = pc[w] /\ job'[w] = job[w] /\ fd'[w] = fd[w]
                                    /\ result'[w] = result[w] /\ job[w] \in Others(v)
        /\ pc'[v] = "idle" /\ result'[v] = "none"
        /\ prio' = prio /\ verdict' = verdict /\ late' = late \cap Others(v)
    BY <1>5 DEF Close, Others
  <2>. HIDE DEF Others, Base, ViewersKnown
  <2>2. ASSUME NEW w \in Viewers \ {v}
        PROVE  /\ pc'[w] \in {"raise", "wait", "grow", "read"} /\ verdict'[job'[w]] = "dropped"
                  => job'[w] \in late'
               /\ pc'[w] \in {"wait", "grow", "read"} => prio'[job'[w]] = Playback
               /\ pc'[w] = "read" => fd'[w] \in {"growing", "whole", "kept", "cut"}
               /\ result'[w] = "dropped" => pc'[w] = "answered" /\ job'[w] \in late'
    BY <2>1, <2>2
  <2>. QED  BY <2>1, <2>2
<1>6. ASSUME NEW v \in Viewers, NEW k \in Keys, OpenFile(v, k)
      PROVE  LateInv'
  <2>1. /\ \A w \in Viewers \ {v} : /\ pc'[w] = pc[w] /\ fd'[w] = fd[w] /\ result'[w] = result[w]
        /\ pc[v] = "idle" /\ pc'[v] \in {"answered", "drop"} /\ result'[v] \in {result[v], "source"}
        /\ UNCHANGED <<job, prio, verdict, late>>
    BY <1>6 DEF OpenFile, Answer
  <2>. QED  BY <2>1
<1>7. ASSUME NEW x, NEW at \in {"start", "drop", "idle"}, Guess(x, at)
      PROVE  LateInv'
  BY <1>7 DEF Guess
<1>8. CASE UNCHANGED vars
  BY <1>8 DEF vars
<1>9. CASE Restart
  BY <1>9 DEF Restart
<1>. QED  BY <1>1, <1>2, <1>3, <1>4, <1>5, <1>6, <1>7, <1>8, <1>9, WorkIsNoDrop
          DEF Next, queueNext, prefetch, prefetchFile, prefetchEnd

(* A viewer's own file is dropped only if it was still a guess when the viewer found it, before the
   viewer had raised it. *)
THEOREM ViewerNotDroppedEver == Spec => []ViewerNotDropped
<1>1. Init => ResultTyped /\ LateInv
  <2>1. Init => /\ result = [v \in Viewers |-> "none"]
                /\ \A v \in Viewers : pc[v] = "idle"
    BY Numbers DEF Init, Memory
  <2>. QED  BY <2>1 DEF ResultTyped, LateInv
<1>2. LateInv => ViewerNotDropped
  BY DEF LateInv, ViewerNotDropped
<1>. QED  BY <1>1, <1>2, ResultKept, LateKeeps, AlwaysBase, PTL DEF Spec

-----------------------------------------------------------------------------
(* A viewer who reads along gets the whole film *)

(* A job at work is the one its film is registered for, and is open. *)
LEMMA TheWriter ==
    ASSUME Base, NEW j \in Jobs, run[j] \notin {"over", "evict", "evicting"}
    PROVE  /\ keyOf[j] \in Keys /\ jobs[keyOf[j]] = j /\ verdict[j] = "open"
           /\ j \notin ToSet(pending) /\ j \in Active
<1>1. j \in Active
  BY DEF Active
<1>2. j <= made /\ keyOf[j] \in Keys
  BY Numbers DEF Base, Typed, JobsTyped, JobsKnown
<1>3. jobs[keyOf[j]] = j /\ j \notin ToSet(pending)
  BY <1>1 DEF Base, AtWork
<1>4. verdict[j] = "open"
  <2>1. jobs[keyOf[j]] # None => verdict[jobs[keyOf[j]]] = "open"
    BY <1>2 DEF Base, JobsKnown
  <2>. QED  BY Numbers, <1>3, <2>1
<1>. QED  BY <1>1, <1>2, <1>3, <1>4

LEMMA EvictKept == EvictTyped /\ [Next]_vars => EvictTyped'
<1>. SUFFICES ASSUME EvictTyped, [Next]_vars PROVE EvictTyped'
  OBVIOUS
<1>1. \/ evict' = evict \/ evict' = NoEvict \/ \E j \in Jobs : EvictScan(j)
      \/ evict' = [evict EXCEPT !.half = TRUE] \/ \E j \in Jobs : EvictMarker(j)
  <2>. USE DEF cache, maps, fields, asking, reading, history
  <2>1. ASSUME NEW j \in Jobs, Run(j)
        PROVE  evict' = evict
    BY <2>1 DEF Run, RunReady, RunConvert, RunUnstarted, RunRetry, RunSucceed, RunFail, RunDiscard,
                RunRequeue, RunError, RunMark, RunMarkFail, RunDone, Begin
  <2>2. ASSUME NEW v \in Viewers, Open(v) \/ Close(v) \/ \E k \in Keys : OpenFile(v, k)
        PROVE  evict' = evict
    BY <2>2 DEF Open, OpenCheck, openCached, OpenWait, OpenTimeout, openGrowing, ReadEnd, Close,
                OpenFile
  <2>3. ASSUME NEW a \in Actors, Start(a) \/ DropPendingOutside(a)
        PROVE  evict' = evict
    BY <2>3 DEF Start, StartCheck, StartFind, StartCreate, StartRaise, DropPendingOutside
  <2>4. CASE Restart \/ UNCHANGED vars \/ dispatch \/ \E x, at : Guess(x, at)
    BY <2>4 DEF Restart, vars, dispatch, Guess
  <2>5. ASSUME NEW j \in Jobs, Evict(j)
        PROVE  \/ evict' = evict \/ evict' = NoEvict \/ EvictScan(j)
               \/ evict' = [evict EXCEPT !.half = TRUE] \/ EvictMarker(j)
    BY <2>5, Zenon DEF Evict, EvictFile, EvictEnd
  <2>. QED  BY <2>1, <2>2, <2>3, <2>4, <2>5
            DEF Next, queueNext, prefetch, prefetchFile, prefetchEnd
<1>2. ASSUME NEW j \in Jobs, EvictMarker(j)
      PROVE  evict' = [by |-> evict.by, left |-> Tail(evict.left), over |-> evict.over - 1,
                       half |-> FALSE]
  BY <1>2, Zenon DEF EvictMarker, EvictTyped
<1>3. ASSUME NEW j \in Jobs, EvictScan(j)
      PROVE  EvictTyped'
  BY <1>3 DEF EvictScan, EvictTyped
<1>. QED  BY <1>1, <1>2, <1>3 DEF EvictTyped, NoEvict

(* Half an output keeps its writer, and an orphan stays unasked for. *)
LEMMA PartialKeeps == Base /\ EvictTyped /\ PartialOK /\ [Next]_vars => PartialOK'
<1>. SUFFICES ASSUME Base, EvictTyped, PartialOK, [Next]_vars,
                     NEW k \in Keys, mkv'[k] = "partial"
              PROVE  ((jobs[k] # None /\ Writing(jobs[k])) \/ Orphan(k))'
  BY DEF PartialOK
<1> DEFINE Goal == (jobs[k] # None /\ Writing(jobs[k])) \/ Orphan(k)
<1>. USE Numbers DEF Base, Typed, JobsTyped, AskersTyped, cache, maps, fields, asking, reading,
                     history
<1>1. mkv[k] = "partial" => Goal
  BY DEF PartialOK
<1>2. jobs[k] # None => jobs[k] \in Jobs /\ keyOf[jobs[k]] = k
  BY DEF JobsKnown
<1>3. ASSUME NEW a \in Actors, Start(a)
      PROVE  Goal'
  <2>1. Goal
    BY <1>1, <1>3 DEF Start, StartCheck, StartFind, StartCreate, StartRaise
  <2>2. UNCHANGED <<marker, run, evict>>
    BY <1>3 DEF Start, StartCheck, StartFind, StartCreate, StartRaise
  <2>3. \A b \in Actors : pc'[b] = "lookup" => /\ want'[b] = want[b]
                                              /\ \/ pc[b] = "lookup" \/ want[b] \notin marker
                                                 \/ mkv[want[b]] = "none"
    <3>1. CASE StartCheck(a)
      <4>1. CASE Complete(want[a])
        BY <3>1, <4>1 DEF StartCheck, Return, Go
      <4>2. CASE ~Complete(want[a])
        BY <3>1, <4>2 DEF StartCheck, Go, Complete
      <4>. QED  BY <4>1, <4>2
    <3>2. CASE StartFind(a) \/ StartCreate(a)
      BY <3>2 DEF StartFind, StartCreate, Return, Go
    <3>3. CASE StartRaise(a)
      BY <3>3 DEF StartRaise, Go
    <3>. QED  BY <1>3, <3>1, <3>2, <3>3 DEF Start
  <2>4. mkv[k] = "partial"
    BY <1>3 DEF Start, StartCheck, StartFind, StartCreate, StartRaise
  <2>5. jobs' = jobs \/ \E x : pc[a] = "lookup" /\ jobs' = [jobs EXCEPT ![want[a]] = x]
                               /\ jobs[want[a]] = None
    BY <1>3 DEF Start, StartCheck, StartFind, StartCreate, StartRaise, JobFor
  <2>6. CASE Orphan(k)
    <3>1. jobs'[k] = None
      BY <2>5, <2>6 DEF Orphan
    <3>2. \A b \in Actors : pc'[b] = "lookup" => want'[b] # k
      BY <2>3, <2>4, <2>6 DEF Orphan
    <3>. QED  BY <2>2, <2>6, <3>1, <3>2 DEF Orphan
  <2>7. CASE jobs[k] # None /\ Writing(jobs[k])
    BY <2>2, <2>5, <2>7 DEF Writing
  <2>. QED  BY <2>1, <2>6, <2>7
<1>4. ASSUME NEW a \in Actors, DropPendingOutside(a)
      PROVE  Goal'
  <2>1. Goal
    BY <1>1, <1>4 DEF DropPendingOutside
  <2>2. CASE Orphan(k)
    BY <1>4, <2>2 DEF DropPendingOutside, Go, Orphan, ToSet
  <2>3. CASE jobs[k] # None /\ Writing(jobs[k])
    <3>1. jobs[k] \notin ToSet(pending)
      BY <1>2, <2>3, TheWriter DEF Writing
    <3>. QED  BY <1>4, <2>3, <3>1 DEF DropPendingOutside, Writing
  <2>. QED  BY <2>1, <2>2, <2>3
<1>5. CASE dispatch
  <2>1. Goal
    BY <1>1, <1>5 DEF dispatch
  <2>2. CASE Orphan(k)
    BY <1>5, <2>2 DEF dispatch, Orphan
  <2>3. CASE jobs[k] # None /\ Writing(jobs[k])
    <3>1. jobs[k] \in Jobs /\ jobs[k] \in Active
      BY <1>2, <2>3, TheWriter DEF Writing
    <3>2. run'[jobs[k]] = run[jobs[k]]
      <4>1. PICK start \in SUBSET ToSet(pending) :
               /\ run' = [j \in Jobs |-> IF j \in start THEN "begin" ELSE run[j]]
               /\ start \cap Active = {}
        BY <1>5, DispatchStarts
      <4>. QED  BY <3>1, <4>1
    <3>. QED  BY <1>5, <2>3, <3>2 DEF dispatch, Writing
  <2>. QED  BY <2>1, <2>2, <2>3
<1>6. ASSUME NEW j \in Jobs, Run(j)
      PROVE  Goal'
  <2> DEFINE of == keyOf[j]
  <2>1. /\ UNCHANGED <<pc, want, evict>> /\ run[j] \notin {"over", "evict", "evicting"}
        /\ \A i \in Jobs \ {j} : run'[i] = run[i]
        /\ \A x \in Keys \ {of} : mkv'[x] = mkv[x] /\ jobs'[x] = jobs[x]
                                /\ (x \in marker' <=> x \in marker)
    <3>1. CASE RunReady(j) \/ RunDone(j) \/ RunError(j) \/ RunRequeue(j)
      BY <3>1 DEF RunReady, RunDone, RunError, RunRequeue, Step, Unmark, finish
    <3>4. CASE RunMarkFail(j)
      BY <3>4 DEF RunMarkFail, MarkComplete, Step, finish
    <3>2. CASE RunConvert(j) \/ RunRetry(j) \/ RunUnstarted(j) \/ RunMark(j)
      BY <3>2 DEF RunConvert, RunRetry, RunUnstarted, RunMark, MarkComplete, Step, Begin
    <3>3. CASE RunSucceed(j) \/ RunFail(j) \/ RunDiscard(j)
      BY <3>3 DEF RunSucceed, RunFail, RunDiscard, RemoveFile
    <3>. QED  BY <1>6, <3>1, <3>2, <3>3, <3>4 DEF Run
  <2>2. of \in Keys /\ jobs[of] = j
    BY <2>1, TheWriter
  <2>3. CASE k # of
    <3>1. Goal /\ mkv[k] = "partial"
      BY <1>1, <2>1, <2>3
    <3>2. CASE Orphan(k)
      BY <2>1, <2>3, <3>2 DEF Orphan
    <3>3. CASE jobs[k] # None /\ Writing(jobs[k])
      <4>1. jobs[k] \in Jobs \ {j}
        BY <1>2, <2>3, <3>3
      <4>. QED  BY <2>1, <2>3, <3>3, <4>1 DEF Writing
    <3>. QED  BY <3>1, <3>2, <3>3
  <2>4. CASE k = of
    <3>1. jobs'[k] = j /\ Writing(j)' => Goal'
      BY <2>2
    <3>2. mkv[k] = "partial" => Writing(j)
      BY <1>1, <2>2, <2>4 DEF Orphan
    <3>3. CASE RunConvert(j) \/ RunRetry(j)
      BY <2>2, <2>4, <3>1, <3>3 DEF RunConvert, RunRetry, Step, Begin, Writing
    <3>4. CASE RunFail(j)
      BY <2>2, <2>4, <3>1, <3>4 DEF RunFail, Writing
    <3>5. CASE RunSucceed(j) \/ RunDiscard(j)
      BY <2>2, <2>4, <3>5 DEF RunSucceed, RunDiscard, RemoveFile
    <3>6. CASE RunUnstarted(j) \/ RunMark(j)
      BY <2>4, <3>2, <3>6 DEF RunUnstarted, RunMark, Step, Writing
    <3>7. CASE RunReady(j) \/ RunDone(j) \/ RunError(j) \/ RunMarkFail(j) \/ RunRequeue(j)
      BY <2>4, <3>2, <3>7 DEF RunReady, RunDone, RunError, RunMarkFail, RunRequeue, Step, Writing
    <3>. QED  BY <1>6, <3>3, <3>4, <3>5, <3>6, <3>7 DEF Run
  <2>. QED  BY <2>3, <2>4
<1>7. ASSUME NEW j \in Jobs, Evict(j)
      PROVE  Goal'
  <2>1. Goal /\ mkv[k] = "partial" /\ UNCHANGED <<jobs, pc, want>>
    BY <1>1, <1>7 DEF Evict, EvictScan, EvictFile, EvictMarker, EvictEnd, RemoveFile
  <2>2. CASE jobs[k] # None /\ Writing(jobs[k])
    <3>1. run'[jobs[k]] = run[jobs[k]]
      BY <1>2, <1>7, <2>2 DEF Evict, EvictScan, EvictFile, EvictMarker, EvictEnd, Step, Writing
    <3>. QED  BY <2>1, <2>2, <3>1 DEF Writing
  <2>3. CASE Orphan(k)
    <3>1. k \in marker' /\ ~(evict'.half /\ Head(evict'.left) = k)
      <4>1. CASE EvictScan(j)
        BY <2>3, <4>1 DEF EvictScan, Orphan
      <4>2. CASE EvictEnd(j)
        BY <2>3, <4>2 DEF EvictEnd, NoEvict, Orphan
      <4>3. CASE EvictFile(j)
        <5>1. evict'.left = evict.left /\ marker' = marker
          BY <4>3 DEF EvictFile, EvictTyped
        <5>2. Head(evict.left) # k
          BY <4>3 DEF EvictFile, RemoveFile
        <5>. QED  BY <2>3, <5>1, <5>2 DEF Orphan
      <4>4. CASE EvictMarker(j)
        <5>1. evict' = [by |-> evict.by, left |-> Tail(evict.left), over |-> evict.over - 1,
                        half |-> FALSE]
          BY <4>4, Zenon DEF EvictMarker, EvictTyped
        <5>2. k \in marker'
          BY <2>3, <4>4 DEF EvictMarker, Unmark, Orphan
        <5>. QED  BY <5>1, <5>2
      <4>. QED  BY <1>7, <4>1, <4>2, <4>3, <4>4 DEF Evict
    <3>. QED  BY <2>1, <2>3, <3>1 DEF Orphan
  <2>. QED  BY <2>1, <2>2, <2>3
<1>8. ASSUME NEW a \in Actors, UNCHANGED <<mkv, marker, jobs, run, evict>>, pc'[a] # "lookup",
             \A b \in Actors \ {a} : pc'[b] = pc[b] /\ want'[b] = want[b]
      PROVE  Goal'
  BY <1>1, <1>8 DEF Orphan, Writing
<1>9. ASSUME NEW v \in Viewers, Open(v) \/ Close(v) \/ \E x \in Keys : OpenFile(v, x)
      PROVE  Goal'
  <2>1. UNCHANGED <<mkv, marker, jobs, run, evict>>
    BY <1>9 DEF Open, OpenCheck, openCached, OpenWait, OpenTimeout, openGrowing, ReadEnd, Close,
                OpenFile
  <2>2. pc'[v] # "lookup" /\ \A b \in Actors \ {v} : pc'[b] = pc[b]
    <3>1. CASE OpenCheck(v) \/ openCached(v) \/ OpenTimeout(v) \/ ReadEnd(v) \/ Close(v)
      BY <3>1 DEF OpenCheck, openCached, OpenTimeout, ReadEnd, Close, Answer, Go
    <3>2. CASE OpenWait(v) \/ openGrowing(v)
      BY <3>2 DEF OpenWait, openGrowing, Answer, Go
    <3>3. CASE \E x \in Keys : OpenFile(v, x)
      BY <3>3 DEF OpenFile, Answer, Go
    <3>. QED  BY <1>9, <3>1, <3>2, <3>3 DEF Open
  <2>3. \A b \in Actors \ {v} : want'[b] = want[b]
    BY <1>9 DEF Open, OpenCheck, openCached, OpenWait, OpenTimeout, openGrowing, ReadEnd, Close,
                OpenFile
  <2>. QED  BY <1>8, <2>1, <2>2, <2>3
<1>10. ASSUME NEW x, NEW at \in {"start", "drop", "idle"}, Guess(x, at)
       PROVE  Goal'
  BY <1>8, <1>10 DEF Guess, Go
<1>11. CASE UNCHANGED vars
  BY <1>1, <1>11 DEF vars, Orphan, Writing
<1>12. CASE Restart
  BY <1>12 DEF Restart, Orphan, Complete, NoEvict
<1>. QED  BY <1>3, <1>4, <1>5, <1>6, <1>7, <1>9, <1>10, <1>11, <1>12
          DEF Next, queueNext, prefetch, prefetchFile, prefetchEnd

(* A finished output loses its marker only where that is noted. *)
LEMMA BareKeeps == Base /\ BareOK /\ [Next]_vars => BareOK'
<1>. SUFFICES ASSUME Base, BareOK, [Next]_vars PROVE BareOK'
  OBVIOUS
<1>. USE Numbers DEF Base, Typed, JobsTyped, cache, maps, fields, history
<1>1. \A k \in Keys : jobs[k] # None => jobs[k] \in Jobs /\ keyOf[jobs[k]] = k
  BY DEF JobsKnown
<1>2. ASSUME NEW a \in Actors, Start(a)
      PROVE  BareOK'
  <2>1. UNCHANGED <<mkv, marker, run, bare>>
    BY <1>2 DEF Start, StartCheck, StartFind, StartCreate, StartRaise
  <2>2. \A j \in Jobs : run[j] # "over" => keyOf'[j] = keyOf[j]
    <3>1. CASE StartCreate(a)
      BY <3>1 DEF StartCreate, JobsKnown
    <3>2. CASE ~StartCreate(a)
      BY <1>2, <3>2 DEF Start, StartCheck, StartFind, StartRaise
    <3>. QED  BY <3>1, <3>2
  <2>3. \A k \in Keys : jobs[k] # None => jobs'[k] = jobs[k]
    BY <1>2 DEF Start, StartCheck, StartFind, StartCreate, StartRaise, JobFor
  <2>4. \A k \in Keys : mkv'[k] = "full" /\ k \notin marker' => k \in bare'
            \/ (jobs'[k] # None /\ run'[jobs'[k]] \in {"mark", "discard", "failed"})
    BY <2>1, <2>3 DEF BareOK
  <2>5. \A j \in Jobs : run[j] \in {"convert", "retry", "requeue", "finish"} => keyOf'[j] = keyOf[j]
    BY <2>2
  <2>. QED  BY <2>1, <2>4, <2>5 DEF BareOK
<1>3. ASSUME NEW a \in Actors, DropPendingOutside(a)
      PROVE  BareOK'
  <2>1. UNCHANGED <<mkv, marker, run, bare, keyOf>>
    BY <1>3 DEF DropPendingOutside
  <2>2. ASSUME NEW k \in Keys, jobs[k] # None, run[jobs[k]] \in {"mark", "discard", "failed"}
        PROVE  jobs'[k] = jobs[k]
    <3>1. jobs[k] \notin ToSet(pending)
      BY <1>1, <2>2, TheWriter
    <3>. QED  BY <1>3, <3>1 DEF DropPendingOutside
  <2>. QED  BY <2>1, <2>2 DEF BareOK
<1>4. CASE dispatch
  <2>1. PICK start \in SUBSET ToSet(pending) :
           /\ run' = [j \in Jobs |-> IF j \in start THEN "begin" ELSE run[j]]
           /\ start \cap Active = {}
    BY <1>4, DispatchStarts
  <2>2. UNCHANGED <<mkv, marker, bare, keyOf, jobs>>
    BY <1>4 DEF dispatch
  <2>. HIDE DEF Base
  <2>3. \A i \in Jobs : /\ run[i] \in {"mark", "discard", "failed"} => run'[i] = run[i]
                        /\ run'[i] # "begin" => run'[i] = run[i]
    BY <2>1 DEF Active
  <2>. QED  BY <1>1, <2>2, <2>3 DEF BareOK
<1>5. ASSUME NEW j \in Jobs, Run(j)
      PROVE  BareOK'
  <2> DEFINE of == keyOf[j]
  <2>1. /\ keyOf' = keyOf /\ run[j] \notin {"over", "evict", "evicting"}
        /\ \A i \in Jobs \ {j} : run'[i] = run[i]
        /\ \A x \in Keys \ {of} : /\ mkv'[x] = mkv[x] /\ jobs'[x] = jobs[x]
                                /\ (x \in marker' <=> x \in marker) /\ (x \in bare' <=> x \in bare)
    <3>1. CASE RunReady(j) \/ RunDone(j) \/ RunError(j) \/ RunRequeue(j)
      BY <3>1 DEF RunReady, RunDone, RunError, RunRequeue, Step, Unmark, finish
    <3>2. CASE RunConvert(j) \/ RunRetry(j) \/ RunUnstarted(j)
      BY <3>2 DEF RunConvert, RunRetry, RunUnstarted, Step, Begin
    <3>3. CASE RunSucceed(j) \/ RunFail(j) \/ RunDiscard(j)
      BY <3>3 DEF RunSucceed, RunFail, RunDiscard, RemoveFile
    <3>4. CASE RunMark(j) \/ RunMarkFail(j)
      BY <3>4 DEF RunMark, RunMarkFail, MarkComplete, Bared, Step, finish
    <3>. QED  BY <1>5, <3>1, <3>2, <3>3, <3>4 DEF Run
  <2>2. of \in Keys /\ jobs[of] = j
    BY <2>1, TheWriter
  <2>3. /\ mkv'[of] = "full" /\ of \notin marker'
           => \/ of \in bare'
              \/ jobs'[of] # None /\ run'[jobs'[of]] \in {"mark", "discard", "failed"}
        /\ run'[j] \in {"convert", "retry"} => mkv'[of] # "full"
        /\ run'[j] \in {"requeue", "finish"} => mkv'[of] = "none"
    <3>1. /\ mkv[of] = "full" /\ of \notin marker
             => of \in bare \/ run[j] \in {"mark", "discard", "failed"}
          /\ run[j] \in {"requeue", "finish"} => mkv[of] = "none"
          /\ run[j] \in {"convert", "retry"} => mkv[of] # "full"
      BY <2>2 DEF BareOK
    <3>2. CASE RunReady(j) \/ RunDone(j)
      BY <2>2, <3>1, <3>2 DEF RunReady, RunDone, Step, finish, Complete
    <3>3. CASE RunError(j) \/ RunRequeue(j)
      BY <2>2, <3>1, <3>3 DEF RunError, RunRequeue, Step, Unmark, finish
    <3>4. CASE RunConvert(j) \/ RunRetry(j)
      BY <2>2, <3>4 DEF RunConvert, RunRetry, Step, Begin
    <3>5. CASE RunUnstarted(j)
      BY <2>2, <3>1, <3>5 DEF RunUnstarted, Step
    <3>6. CASE RunSucceed(j)
      <4>1. jobs' = jobs /\ run'[j] \in {"mark", "discard"}
        BY <3>6 DEF RunSucceed
      <4>. QED  BY <2>2, <4>1
    <3>7. CASE RunFail(j)
      <4>1. UNCHANGED <<mkv, marker, bare, jobs>> /\ run'[j] \in {"discard", "failed"}
        BY <3>7 DEF RunFail
      <4>. QED  BY <2>2, <3>1, <4>1
    <3>8. CASE RunDiscard(j)
      BY <2>2, <3>8 DEF RunDiscard, RemoveFile
    <3>9. CASE RunMark(j)
      BY <2>2, <3>9 DEF RunMark, Step, MarkComplete
    <3>10. CASE RunMarkFail(j)
      BY <2>2, <3>10 DEF RunMarkFail, Step, Bared, MarkComplete
    <3>. QED  BY <1>5, <3>2, <3>3, <3>4, <3>5, <3>6, <3>7, <3>8, <3>9, <3>10 DEF Run
  <2>4. ASSUME NEW i \in Jobs \ {j},
               run[i] \in {"convert", "retry", "requeue", "finish"}
        PROVE  keyOf[i] \in Keys \ {of}
    BY <2>2, <2>4, TheWriter
  <2>5. ASSUME NEW x \in Keys \ {of}, jobs[x] # None
        PROVE  jobs[x] \in Jobs \ {j}
    BY <1>1, <2>5
  <2>6. ASSUME NEW x \in Keys, mkv'[x] = "full", x \notin marker'
        PROVE  x \in bare'
               \/ (jobs'[x] # None /\ run'[jobs'[x]] \in {"mark", "discard", "failed"})
    <3>1. CASE x = of
      BY <2>3, <2>6, <3>1
    <3>2. CASE x # of
      <4>1. x \in bare \/ (jobs[x] # None /\ run[jobs[x]] \in {"mark", "discard", "failed"})
        BY <2>1, <2>6, <3>2 DEF BareOK
      <4>. QED  BY <2>1, <2>5, <3>2, <4>1
    <3>. QED  BY <3>1, <3>2
  <2>7. ASSUME NEW i \in Jobs
        PROVE  /\ run'[i] \in {"convert", "retry"} => mkv'[keyOf'[i]] # "full"
               /\ run'[i] \in {"requeue", "finish"} => mkv'[keyOf'[i]] = "none"
    <3>1. CASE i = j
      BY <2>1, <2>3, <3>1
    <3>2. CASE i # j
      BY <2>1, <2>4, <3>2 DEF BareOK
    <3>. QED  BY <3>1, <3>2
  <2>. QED  BY <2>6, <2>7 DEF BareOK
<1>6. ASSUME NEW j \in Jobs, Evict(j)
      PROVE  BareOK'
  <2>1. /\ UNCHANGED <<keyOf, jobs>>
        /\ \A i \in Jobs : /\ run[i] \notin {"evict", "evicting"} => run'[i] = run[i]
                           /\ run'[i] \notin {"evicting", "over"} => run'[i] = run[i]
    BY <1>6 DEF Evict, EvictScan, EvictFile, EvictMarker, EvictEnd, Step
  <2>2. \A k \in Keys : mkv'[k] = mkv[k] \/ mkv'[k] = "none"
    BY <1>6 DEF Evict, EvictScan, EvictFile, EvictMarker, EvictEnd, RemoveFile
  <2>3. ASSUME NEW k \in Keys, mkv'[k] = "full"
        PROVE  /\ k \in bare => k \in bare'
               /\ k \in marker => k \in marker' \/ k \in bare'
    BY <1>6, <2>3
       DEF Evict, EvictScan, EvictFile, EvictMarker, EvictEnd, RemoveFile, Unmark, Bared
  <2>4. \A i \in Jobs : run[i] \in {"convert", "retry", "requeue", "finish"} => keyOf[i] \in Keys
    BY TheWriter
  <2>5. ASSUME NEW x \in Keys, mkv'[x] = "full", x \notin marker'
        PROVE  x \in bare'
               \/ (jobs'[x] # None /\ run'[jobs'[x]] \in {"mark", "discard", "failed"})
    <3>1. mkv[x] = "full"
      BY <2>2, <2>5
    <3>2. CASE x \in marker \/ x \in bare
      BY <2>3, <2>5, <3>2
    <3>3. CASE jobs[x] # None /\ run[jobs[x]] \in {"mark", "discard", "failed"}
      BY <1>1, <2>1, <3>3
    <3>. QED  BY <3>1, <3>2, <3>3 DEF BareOK
  <2>6. ASSUME NEW i \in Jobs
        PROVE  /\ run'[i] \in {"convert", "retry"} => mkv'[keyOf'[i]] # "full"
               /\ run'[i] \in {"requeue", "finish"} => mkv'[keyOf'[i]] = "none"
    <3>1. CASE run'[i] \in {"convert", "retry", "requeue", "finish"}
      <4>1. run'[i] = run[i] /\ keyOf'[i] = keyOf[i] /\ keyOf[i] \in Keys
        BY <2>1, <2>4, <3>1
      <4>2. mkv'[keyOf[i]] = mkv[keyOf[i]] \/ mkv'[keyOf[i]] = "none"
        BY <2>2, <4>1
      <4>. QED  BY <4>1, <4>2 DEF BareOK
    <3>. QED  BY <3>1
  <2>. QED  BY <2>5, <2>6 DEF BareOK
<1>7. CASE UNCHANGED <<mkv, marker, jobs, run, keyOf, bare>>
  BY <1>7 DEF BareOK
<1>8. ASSUME NEW v \in Viewers, Open(v) \/ Close(v) \/ \E k \in Keys : OpenFile(v, k)
      PROVE  BareOK'
  BY <1>7, <1>8 DEF Open, OpenCheck, openCached, OpenWait, OpenTimeout, openGrowing, ReadEnd, Close,
                    OpenFile
<1>9. CASE Restart
  BY <1>9 DEF Restart, BareOK, Complete
<1>. QED  BY <1>2, <1>3, <1>4, <1>5, <1>6, <1>7, <1>8, <1>9
          DEF Next, vars, queueNext, prefetch, prefetchFile, prefetchEnd, Guess

(* Who reads a whole file has it taken away with its name, or under the name. *)
LEMMA WholeKeeps == Base /\ WholeOK /\ [Next]_vars => WholeOK'
<1>. SUFFICES ASSUME Base, WholeOK, [Next]_vars, NEW v \in Viewers, pc'[v] = "read",
                     fd'[v] = "whole"
              PROVE  mkv'[want'[v]] = "full"
  BY DEF WholeOK
<1>. USE Numbers DEF Base, Typed, JobsTyped, AskersTyped, ViewersKnown, WholeOK, Go, cache, maps,
                     fields, asking, reading, history
<1>1. ASSUME NEW a \in Actors, Start(a) \/ DropPendingOutside(a)
      PROVE  mkv'[want'[v]] = "full"
  <2>1. mkv' = mkv /\ fd' = fd
    BY <1>1 DEF Start, StartCheck, StartFind, StartCreate, StartRaise, DropPendingOutside
  <2>2. a # v /\ pc'[v] = pc[v]
    <3>1. CASE StartCheck(a)
      <4>1. CASE Complete(want[a])
        BY <3>1, <4>1 DEF StartCheck, Return
      <4>2. CASE ~Complete(want[a])
        BY <3>1, <4>2 DEF StartCheck
      <4>. QED  BY <4>1, <4>2
    <3>2. CASE StartFind(a) \/ StartCreate(a)
      BY <3>2 DEF StartFind, StartCreate, Return
    <3>3. CASE StartRaise(a) \/ DropPendingOutside(a)
      BY <3>3 DEF StartRaise, DropPendingOutside
    <3>. QED  BY <1>1, <3>1, <3>2, <3>3 DEF Start
  <2>3. want'[v] = want[v]
    BY <1>1, <2>2
       DEF Start, StartCheck, StartFind, StartCreate, StartRaise, DropPendingOutside, Return
  <2>. QED  BY <2>1, <2>2, <2>3
<1>2. CASE dispatch
  BY <1>2 DEF dispatch
<1>3. ASSUME NEW j \in Jobs, Run(j)
      PROVE  mkv'[want'[v]] = "full"
  <2>1. pc' = pc /\ want' = want /\ want[v] \in Keys
    BY <1>3 DEF Run, RunReady, RunConvert, RunUnstarted, RunRetry, RunSucceed, RunFail, RunDiscard,
                RunRequeue, RunError, RunMark, RunMarkFail, RunDone, Begin
  <2>2. CASE RunConvert(j) \/ RunRetry(j)
    <3>1. /\ mkv' = [mkv EXCEPT ![keyOf[j]] = "partial"]
          /\ fd' = Truncated(keyOf[j])
      BY <2>2 DEF RunConvert, RunRetry, Begin
    <3>2. fd[v] = "whole" /\ want[v] # keyOf[j]
      BY <3>1 DEF Truncated
    <3>. QED  BY <2>1, <3>1, <3>2
  <2>3. CASE RunSucceed(j)
    BY <2>1, <2>3 DEF RunSucceed, Becomes
  <2>4. CASE RunDiscard(j)
    BY <2>1, <2>4 DEF RunDiscard, RemoveFile, Abandoned, Kept, Becomes
  <2>5. CASE ~(RunConvert(j) \/ RunRetry(j) \/ RunDiscard(j) \/ RunSucceed(j))
    BY <1>3, <2>1, <2>5 DEF Run, RunReady, RunUnstarted, RunFail, RunRequeue, RunError, RunMark,
                            RunMarkFail, RunDone
  <2>. QED  BY <2>2, <2>3, <2>4, <2>5
<1>4. ASSUME NEW j \in Jobs, Evict(j)
      PROVE  mkv'[want'[v]] = "full"
  <2>1. CASE EvictFile(j)
    BY <2>1 DEF EvictFile, RemoveFile, Kept, Becomes
  <2>2. CASE ~EvictFile(j)
    BY <1>4, <2>2 DEF Evict, EvictScan, EvictMarker, EvictEnd
  <2>. QED  BY <2>1, <2>2
<1>5. ASSUME NEW w \in Viewers, Open(w) \/ Close(w) \/ \E k \in Keys : OpenFile(w, k)
      PROVE  mkv'[want'[v]] = "full"
  <2>1. CASE OpenCheck(w) \/ OpenTimeout(w) \/ Close(w)
    BY <2>1 DEF OpenCheck, OpenTimeout, Close
  <2>2. CASE openCached(w) \/ ReadEnd(w)
    BY <2>2 DEF openCached, ReadEnd, Answer
  <2>3. CASE OpenWait(w)
    <3>1. CASE verdict[job[w]] = "ok"
      BY <2>3, <3>1 DEF OpenWait
    <3>2. CASE verdict[job[w]] # "ok"
      BY <2>3, <3>2 DEF OpenWait, Answer
    <3>. QED  BY <3>1, <3>2
  <2>4. CASE openGrowing(w)
    <3>1. CASE mkv[want[w]] # "none"
      BY <2>4, <3>1 DEF openGrowing
    <3>2. CASE mkv[want[w]] = "none"
      BY <2>4, <3>2 DEF openGrowing, Answer
    <3>. QED  BY <3>1, <3>2
  <2>5. ASSUME NEW k \in Keys, OpenFile(w, k)
        PROVE  mkv'[want'[v]] = "full"
    <3>1. CASE pc' = [pc EXCEPT ![w] = "answered"]
      BY <2>5, <3>1 DEF OpenFile, Answer
    <3>2. CASE pc' = [pc EXCEPT ![w] = "drop"]
      BY <2>5, <3>2 DEF OpenFile, Answer
    <3>. QED  BY <2>5, <3>1, <3>2 DEF OpenFile, Answer
  <2>. QED  BY <1>5, <2>1, <2>2, <2>3, <2>4, <2>5 DEF Open
<1>6. ASSUME NEW x, NEW at \in {"start", "drop", "idle"}, Guess(x, at)
      PROVE  mkv'[want'[v]] = "full"
  BY <1>6 DEF Guess
<1>7. CASE UNCHANGED vars
  BY <1>7 DEF vars
<1>8. CASE Restart
  BY <1>8 DEF Restart
<1>. QED  BY <1>1, <1>2, <1>3, <1>4, <1>5, <1>6, <1>7, <1>8
          DEF Next, queueNext, prefetch, prefetchFile, prefetchEnd

(* Who reads along with a job that goes on, or is not its own, reads on. *)
LEMMA ReadsOnWith ==
    ASSUME Base, BareOK, WholeOK, ReadersOK, NEW j \in Jobs, Run(j)
    PROVE  ReadersOK'
<1> DEFINE of == keyOf[j]
<1>. USE Numbers DEF Base, Typed, JobsTyped, AskersTyped, cache, maps, fields, asking, reading,
                     history
<1>1. /\ UNCHANGED <<pc, job, want, result>> /\ again \subseteq again'
      /\ run[j] \notin {"over", "evict", "evicting"}
      /\ \A i \in Jobs \ {j} : run'[i] = run[i] /\ verdict'[i] = verdict[i]
  <2>1. CASE RunReady(j) \/ RunDone(j) \/ RunError(j)
    BY <2>1 DEF RunReady, RunDone, RunError, Step, finish
  <2>7. CASE RunMarkFail(j)
    BY <2>7 DEF RunMarkFail, Step, finish
  <2>2. CASE RunConvert(j)
    BY <2>2 DEF RunConvert, Step, Begin
  <2>5. CASE RunRetry(j)
    BY <2>5 DEF RunRetry, Step, Begin, Interrupt
  <2>6. CASE RunDiscard(j)
    <3>1. again \subseteq again'
      BY <2>6 DEF RunDiscard, Interrupt
    <3>. QED  BY <2>6, <3>1 DEF RunDiscard
  <2>3. CASE RunUnstarted(j) \/ RunRequeue(j) \/ RunMark(j)
    BY <2>3 DEF RunUnstarted, RunRequeue, RunMark, Step
  <2>4. CASE RunSucceed(j) \/ RunFail(j)
    BY <2>4 DEF RunSucceed, RunFail
  <2>. QED  BY <2>1, <2>2, <2>3, <2>4, <2>5, <2>6, <2>7 DEF Run
<1>2. of \in Keys /\ jobs[of] = j
  BY <1>1, TheWriter
<1>3. SUFFICES ASSUME NEW v \in Viewers, pc[v] = "read", fd'[v] \in {"cut", "growing"},
                      job[v] \notin again'
               PROVE  fd'[v] = "growing" /\ verdict'[job[v]] = "open" /\ Writing(job[v])'
  BY <1>1 DEF ReadersOK
<1>4. fd[v] \in {"cut", "growing"}
  <2>1. CASE RunConvert(j) \/ RunRetry(j)
    <3>1. SUFFICES ASSUME fd[v] = "whole", want[v] = of
                   PROVE  FALSE
      BY <1>3, <2>1 DEF RunConvert, RunRetry, Begin, Truncated
    <3>2. mkv[of] = "full"
      BY <1>3, <3>1 DEF WholeOK
    <3>3. RunConvert(j) /\ of \notin marker /\ run[j] = "begin"
      BY <1>2, <2>1, <3>2 DEF BareOK, RunConvert, RunRetry, Step, Complete
    <3>4. of \in bare
      BY <1>2, <3>2, <3>3 DEF BareOK
    <3>5. again' = again \cup Overwritten(of)
      BY <3>3 DEF RunConvert
    <3>6. job[v] \in Overwritten(of)
      BY <3>1, <3>4 DEF Overwritten
    <3>. QED  BY <1>3, <3>5, <3>6
  <2>4. CASE RunDiscard(j)
    BY <1>3, <2>4 DEF RunDiscard, Abandoned, Kept, Becomes
  <2>2. CASE RunSucceed(j)
    BY <1>3, <2>2 DEF RunSucceed, Becomes
  <2>3. CASE ~(RunConvert(j) \/ RunRetry(j) \/ RunDiscard(j) \/ RunSucceed(j))
    BY <1>3, <2>3
       DEF Run, RunReady, RunUnstarted, RunFail, RunRequeue, RunError, RunMark, RunMarkFail,
           RunDone
  <2>. QED  BY <2>1, <2>2, <2>3, <2>4
<1>5. fd[v] = "growing" /\ verdict[job[v]] = "open" /\ Writing(job[v])
  BY <1>1, <1>3, <1>4 DEF ReadersOK
<1>6. job[v] \in Jobs /\ want[v] \in Keys /\ jobs[want[v]] = job[v]
  BY <1>3, <1>5 DEF ViewersKnown, JobsKnown
<1>7. CASE job[v] # j
  <2>1. want[v] # of
    BY <1>2, <1>6, <1>7
  <2>2. fd'[v] = fd[v]
    <3>1. CASE RunConvert(j) \/ RunRetry(j) \/ RunDiscard(j)
      BY <2>1, <3>1
         DEF RunConvert, RunRetry, RunDiscard, Begin, Truncated, Abandoned, Kept, Becomes
    <3>2. CASE RunSucceed(j)
      BY <2>1, <3>2 DEF RunSucceed, Becomes
    <3>3. CASE ~(RunConvert(j) \/ RunRetry(j) \/ RunDiscard(j) \/ RunSucceed(j))
      BY <3>3 DEF Run, RunReady, RunUnstarted, RunFail, RunRequeue, RunError, RunMark,
                  RunMarkFail, RunDone
    <3>. QED  BY <3>1, <3>2, <3>3
  <2>. QED  BY <1>1, <1>5, <1>6, <1>7, <2>2 DEF Writing
<1>8. CASE job[v] = j
  <2>1. want[v] = of
    BY <1>6, <1>8 DEF ViewersKnown
  <2>2. Writing(j)
    BY <1>5, <1>8
  <2>3. ~RunRetry(j) /\ ~RunDiscard(j)
    BY <1>3, <1>5, <1>8 DEF RunRetry, RunDiscard, Interrupt
  <2>4. ~RunSucceed(j)
    <3>1. RunSucceed(j) => fd'[v] \in {"whole", "kept"}
      BY <1>5, <2>1 DEF RunSucceed, Becomes
    <3>. QED  BY <1>3, <3>1
  <2>5. RunFail(j)
    BY <2>2, <2>3, <2>4 DEF Run, RunReady, RunConvert, RunUnstarted, RunRequeue, RunError, RunMark,
                            RunMarkFail, RunDone, Step, Writing
  <2>. QED  BY <1>5, <1>8, <2>5 DEF RunFail, Writing
<1>. QED  BY <1>7, <1>8

(* A file that grows when it is opened is written by the job of the viewer, unless that is over. *)
LEMMA OpensOwnFile ==
    ASSUME Base, PartialOK, ReadersOK, NEW v \in Viewers, openGrowing(v), mkv[want[v]] # "none"
    PROVE  ReadersOK'
<1> DEFINE k == want[v]
<1>. USE Numbers DEF Base, Typed, JobsTyped, AskersTyped, cache, maps, fields, asking, reading,
                     history
<1>1. /\ fd' = [fd EXCEPT ![v] = IF mkv[k] = "full" THEN "whole" ELSE "growing"]
      /\ again' = IF mkv[k] # "full" /\ Over(v) THEN again \cup {job[v]} ELSE again
      /\ pc' = [pc EXCEPT ![v] = "read"]
      /\ UNCHANGED <<job, result, verdict, run>> /\ pc[v] = "grow"
  BY DEF openGrowing, Go
<1>2. ASSUME mkv[k] # "full", verdict[job[v]] = "open"
      PROVE  Writing(job[v])
  <2>1. k \in Keys /\ mkv[k] = "partial"
    BY <1>1, <1>2 DEF ViewersKnown
  <2>2. job[v] # None /\ jobs[k] = job[v]
    BY <1>1, <1>2 DEF ViewersKnown, JobsKnown
  <2>. QED  BY <2>1, <2>2 DEF PartialOK, Orphan
<1>3. ~Over(v) <=> verdict[job[v]] = "open"
  BY DEF Over
<1>. QED  BY <1>1, <1>2, <1>3 DEF ReadersOK, Writing

LEMMA ReadersKeep ==
    Base /\ ResultTyped /\ LateInv /\ PartialOK /\ BareOK /\ WholeOK /\ ReadersOK /\ [Next]_vars
    => ReadersOK'
<1>. SUFFICES ASSUME Base, ResultTyped, LateInv, PartialOK, BareOK, WholeOK, ReadersOK, [Next]_vars
              PROVE  ReadersOK'
  OBVIOUS
<1>. USE Numbers DEF Base, Typed, JobsTyped, AskersTyped, ResultTyped, cache, maps, fields, asking,
                     reading, history
<1>1. ASSUME NEW v \in Viewers, pc[v] = "read", Writing(job[v])
      PROVE  job[v] \in Jobs /\ job[v] \in Active /\ job[v] \notin ToSet(pending)
  <2>1. job[v] \in Jobs
    BY <1>1 DEF ViewersKnown
  <2>2. run[job[v]] \notin {"over", "evict", "evicting"}
    BY <1>1 DEF Writing
  <2>. QED  BY <2>1, <2>2, TheWriter
<1>2. ASSUME NEW a \in Actors, Start(a)
      PROVE  ReadersOK'
  <2>1. \A w \in Viewers \ {a} : pc'[w] = pc[w] /\ job'[w] = job[w]
    <3>1. CASE StartCheck(a)
      <4>1. CASE Complete(want[a])
        BY <3>1, <4>1 DEF StartCheck, Return, Go
      <4>2. CASE ~Complete(want[a])
        BY <3>1, <4>2 DEF StartCheck, Go
      <4>. QED  BY <4>1, <4>2
    <3>2. CASE StartFind(a) \/ StartCreate(a)
      BY <3>2 DEF StartFind, StartCreate, Return, Go
    <3>3. CASE StartRaise(a)
      BY <3>3 DEF StartRaise, Go
    <3>. QED  BY <1>2, <3>1, <3>2, <3>3 DEF Start
  <2>2. a \in Viewers => pc[a] \in {"start", "lookup", "raise"} /\ pc'[a] # "read"
    <3>1. CASE StartCheck(a)
      <4>1. CASE Complete(want[a])
        BY <3>1, <4>1 DEF StartCheck, Return, Go
      <4>2. CASE ~Complete(want[a])
        BY <3>1, <4>2 DEF StartCheck, Go
      <4>. QED  BY <4>1, <4>2
    <3>2. CASE StartFind(a) \/ StartCreate(a)
      BY <3>2 DEF StartFind, StartCreate, Return, Go
    <3>3. CASE StartRaise(a)
      BY <3>3 DEF StartRaise, Go
    <3>. QED  BY <1>2, <3>1, <3>2, <3>3 DEF Start
  <2>3. UNCHANGED <<fd, result, verdict, run, again>>
    BY <1>2 DEF Start, StartCheck, StartFind, StartCreate, StartRaise
  <2>. QED  BY <2>1, <2>2, <2>3 DEF ReadersOK, Writing
<1>3. ASSUME NEW a \in Actors, DropPendingOutside(a)
      PROVE  ReadersOK'
  <2>1. /\ \A w \in Viewers : pc'[w] = pc[w] \/ (pc[w] = "drop" /\ pc'[w] = "check")
        /\ \A i \in Jobs \ ToSet(pending) : verdict'[i] = verdict[i]
        /\ UNCHANGED <<job, fd, result, run, again>>
    BY <1>3 DEF DropPendingOutside, Go
  <2>. QED  BY <1>1, <2>1 DEF ReadersOK, Writing
<1>4. CASE dispatch
  <2>1. \A i \in Active : run'[i] = run[i]
    <3>1. PICK start \in SUBSET ToSet(pending) :
             /\ run' = [j \in Jobs |-> IF j \in start THEN "begin" ELSE run[j]]
             /\ start \cap Active = {}
      BY <1>4, DispatchStarts
    <3>. QED  BY <3>1 DEF Active
  <2>2. UNCHANGED <<pc, job, verdict, fd, result, again>>
    BY <1>4 DEF dispatch
  <2>. QED  BY <1>1, <2>1, <2>2 DEF ReadersOK, Writing
<1>5. ASSUME NEW j \in Jobs, Evict(j)
      PROVE  ReadersOK'
  <2>1. /\ UNCHANGED <<pc, job, verdict, result, again>>
        /\ \A v \in Viewers : fd'[v] = fd[v] \/ fd'[v] = "kept"
        /\ \A i \in Jobs : Writing(i) => run'[i] = run[i]
    BY <1>5 DEF Evict, EvictScan, EvictFile, EvictMarker, EvictEnd, Step, Writing, Kept, Becomes
  <2>. QED  BY <1>1, <2>1 DEF ReadersOK, Writing
<1>6. ASSUME NEW v \in Viewers, Open(v)
      PROVE  ReadersOK'
  <2>1. CASE OpenCheck(v) \/ OpenTimeout(v)
    BY <2>1 DEF OpenCheck, OpenTimeout, Go, ReadersOK, Writing
  <2>2. CASE openCached(v)
    BY <2>2 DEF openCached, Answer, Go, ReadersOK, Writing
  <2>3. CASE OpenWait(v)
    <3>1. CASE verdict[job[v]] = "ok"
      BY <2>3, <3>1 DEF OpenWait, Go, ReadersOK, Writing
    <3>2. CASE verdict[job[v]] # "ok"
      <4>1. verdict[job[v]] \in {"open", "error", "dropped"}
        BY <2>3, <3>2 DEF OpenWait, ViewersKnown
      <4>. QED  BY <2>3, <3>2, <4>1 DEF OpenWait, Answer, Go, ReadersOK, Writing
    <3>. QED  BY <3>1, <3>2
  <2>4. CASE openGrowing(v)
    <3>1. CASE mkv[want[v]] = "none"
      <4>1. verdict[job[v]] \in {"open", "ok", "error", "dropped"}
        BY <2>4, <3>1 DEF openGrowing, ViewersKnown
      <4>. QED  BY <2>4, <3>1, <4>1 DEF openGrowing, Answer, Go, ReadersOK, Writing
    <3>. QED  BY <2>4, <3>1, OpensOwnFile
  <2>5. CASE ReadEnd(v)
    <3>1. verdict[job[v]] \in {"ok", "error", "dropped"}
      BY <2>5 DEF ReadEnd, MayEnd, Over, ViewersKnown
    <3>2. fd[v] \in {"cut", "growing"} => job[v] \in again
      BY <2>5, <3>1 DEF ReadEnd, ReadersOK
    <3>. QED  BY <2>5, <3>1, <3>2 DEF ReadEnd, Answer, Go, ReadersOK, Writing
  <2>. QED  BY <1>6, <2>1, <2>2, <2>3, <2>4, <2>5 DEF Open
<1>7. ASSUME NEW v \in Viewers, Close(v)
      PROVE  ReadersOK'
  <2>1. /\ \A w \in Viewers \ {v} : /\ pc'[w] = pc[w] /\ job'[w] = job[w] /\ fd'[w] = fd[w]
                                    /\ result'[w] = result[w] /\ job[w] \in Others(v)
        /\ pc'[v] = "idle" /\ result'[v] = "none"
        /\ run' = run /\ verdict' = verdict /\ again' = again \cap Others(v)
    BY <1>7 DEF Close, Go, Others
  <2>. HIDE DEF Others, Base
  <2>2. ASSUME NEW w \in Viewers \ {v}
        PROVE  /\ pc'[w] = "read" /\ fd'[w] = "cut" => job'[w] \in again'
               /\ pc'[w] = "read" /\ fd'[w] = "growing" /\ job'[w] \notin again'
                  => verdict'[job'[w]] = "open" /\ Writing(job[w])'
               /\ result'[w] \in {"cut", "growing"} => pc'[w] = "answered" /\ job'[w] \in again'
    BY <2>1, <2>2 DEF ReadersOK, Writing
  <2>. QED  BY <2>1, <2>2 DEF ReadersOK
<1>8. ASSUME NEW v \in Viewers, NEW k \in Keys, OpenFile(v, k)
      PROVE  ReadersOK'
  <2>1. /\ \A w \in Viewers \ {v} : /\ pc'[w] = pc[w] /\ fd'[w] = fd[w] /\ result'[w] = result[w]
        /\ pc[v] = "idle" /\ pc'[v] \in {"answered", "drop"} /\ result'[v] \in {result[v], "source"}
        /\ UNCHANGED <<job, run, verdict, again>>
    BY <1>8 DEF OpenFile, Answer, Go
  <2>. QED  BY <2>1 DEF ReadersOK, Writing
<1>9. ASSUME NEW x, NEW at \in {"start", "drop", "idle"}, Guess(x, at)
      PROVE  ReadersOK'
  BY <1>9 DEF Guess, Go, ReadersOK, Writing
<1>10. CASE UNCHANGED vars
  BY <1>10 DEF vars, ReadersOK, Writing
<1>11. CASE Restart
  <2>1. \A v \in Viewers : pc'[v] = "idle" /\ result'[v] = "none"
    BY <1>11 DEF Restart
  <2>. QED  BY <2>1 DEF ReadersOK
<1>. QED  BY <1>2, <1>3, <1>4, <1>5, <1>6, <1>7, <1>8, <1>9, <1>10, <1>11, ReadsOnWith
          DEF Next, queueNext, prefetch, prefetchFile, prefetchEnd

(* A viewer who reads along gets the whole film, unless the job it was given is interrupted or tried
   again, or was over before the viewer opened the file, or the film had lost its marker and was
   made anew in the file the viewer reads. *)
THEOREM ReaderWholeAlways == Spec => []ReaderWhole
<1>1. Init => ResultTyped /\ LateInv /\ EvictTyped /\ PartialOK /\ BareOK /\ WholeOK /\ ReadersOK
  <2>1. Init => /\ result = [v \in Viewers |-> "none"] /\ evict = NoEvict
                /\ \A v \in Viewers : pc[v] = "idle"
                /\ \A k \in Keys : mkv[k] # "partial"
    BY Numbers DEF Init, Memory
  <2>2. Init => BareOK /\ WholeOK
    BY Numbers DEF Init, Memory, BareOK, WholeOK
  <2>. QED  BY <2>1, <2>2 DEF ResultTyped, LateInv, EvictTyped, NoEvict, PartialOK, ReadersOK
<1>2. ReadersOK => ReaderWhole
  BY DEF ReadersOK, ReaderWhole
<1>. QED  BY <1>1, <1>2, ResultKept, LateKeeps, EvictKept, PartialKeeps, BareKeeps, WholeKeeps,
             ReadersKeep, AlwaysBase, PTL DEF Spec

=============================================================================
