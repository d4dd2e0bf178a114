--------------------------- MODULE EveningProofs ---------------------------
(***************************************************************************)
(* Proofs about an evening, for every value of the constants.              *)
(*                                                                         *)
(* History: what was noted is in its order, and on the disk once it has    *)
(* been flushed, whatever the films, the reports, the starts and the       *)
(* limit.  Film: every film is converted with the subtitle its viewer      *)
(* asked for, whatever lies in the directory.                              *)
(***************************************************************************)
EXTENDS Evening, SeqFacts

-----------------------------------------------------------------------------
(* History: the inductive invariant *)

Entries == [title : Titles, pos : Places, updated : Nat, seq : Nat, nth : Nat]

\* Each title has its own entry.
IsMap(es) ==
    /\ DOMAIN es \subseteq Titles /\ es \in [DOMAIN es -> Entries]
    /\ \A t \in DOMAIN es : es[t].title = t

\* No two reports have one number.
Distinct(es) == \A t, u \in DOMAIN es : es[t].seq = es[u].seq => t = u

\* Of the first n reports, and no more than may be kept.
Sound(es, n) ==
    /\ IsMap(es) /\ Distinct(es) /\ Cardinality(DOMAIN es) <= keep
    /\ \A t \in DOMAIN es : es[t].nth <= n /\ es[t].seq <= n

\* With a clock that has not been set back, the newer entry is the later report.
Ordered(es, now) ==
    /\ \A t \in DOMAIN es : es[t].updated <= now
    /\ \A t, u \in DOMAIN es : es[t].nth > es[u].nth => newerFirst(es[t], es[u])

RightFor(es, n, still, now) == Sound(es, n) /\ (still => Ordered(es, now))

Right(es) == RightFor(es, noted, steady, clock)

Stored(x) == x \in {Absent, Torn} \/ Right(x)

Scalars ==
    /\ seq \in Nat /\ seq <= noted
    /\ dirty \in BOOLEAN /\ harmed \in BOOLEAN /\ steady \in BOOLEAN
    /\ clock \in 0 .. MaxClock /\ noted \in 0 .. MaxNotes /\ starts \in 1 .. MaxStarts
    /\ serving \in {"down", "up", "stopping"}
    /\ flush \in [Flushers -> {"idle", "create", "write", "rename", "done"}]
    /\ fd \in [Flushers -> {"closed", "tmp", "file"}]
    /\ marshaled = [f \in Flushers |-> marshaled[f]]
    /\ serving = "down" => \A f \in Flushers : flush[f] = "idle"

Rights ==
    /\ Right(entries) /\ \A f \in Flushers : Right(marshaled[f])
    /\ Stored(file) /\ Stored(tmp)

\* The next report has a number of its own.
SeqTop == \A t \in DOMAIN entries : entries[t].seq <= seq

\* One writer at a time, who has what is remembered on the way to the file.
Alone == \A f, g \in Flushing : f = g

OnTheWay(f) ==
    /\ flush[f] \in {"create", "write"} => marshaled[f] = entries
    /\ flush[f] = "write" => fd[f] = "tmp" /\ tmp = Torn
    /\ flush[f] = "rename" => tmp = entries

Follows == ~harmed =>
    /\ Alone
    /\ ~dirty => /\ \A f \in Flushing : OnTheWay(f)
                 /\ Flushing = {} /\ serving # "down" => Loaded = entries

-----------------------------------------------------------------------------
(* The order of entries *)

LEMMA FinitelyMany ==
    ASSUME NEW es, IsMap(es)
    PROVE  IsFiniteSet(DOMAIN es) /\ Cardinality(DOMAIN es) \in Nat
<1>1. IsFiniteSet(DOMAIN es)
    BY HistoryConstantsOK, FS_Subset DEF IsMap
<1>2. QED
    BY <1>1, FS_CardinalityType

Before(es, t) == {u \in DOMAIN es : newerFirst(es[u], es[t])}

\* Entries are in a line: of two, one is before the other, with all that is before it.
LEMMA InALine ==
    ASSUME NEW es, IsMap(es), Distinct(es), NEW t \in DOMAIN es, NEW u \in DOMAIN es
    PROVE  /\ t # u => newerFirst(es[t], es[u]) \/ newerFirst(es[u], es[t])
           /\ ~newerFirst(es[t], es[t])
           /\ newerFirst(es[t], es[u]) =>
                  Before(es, t) \subseteq Before(es, u) /\ t \in Before(es, u) \ Before(es, t)
<1>1. \A v \in DOMAIN es : es[v] \in Entries
    BY DEF IsMap
<1>2. \A v \in DOMAIN es : es[v].updated \in Nat /\ es[v].seq \in Nat
    BY <1>1 DEF Entries
<1>3. t # u => es[t].seq # es[u].seq
    BY DEF Distinct
<1>4. t # u => newerFirst(es[t], es[u]) \/ newerFirst(es[u], es[t])
    BY <1>2, <1>3 DEF newerFirst
<1>5. ~newerFirst(es[t], es[t])
    BY <1>2 DEF newerFirst
<1>6. ASSUME newerFirst(es[t], es[u])
      PROVE  Before(es, t) \subseteq Before(es, u) /\ t \in Before(es, u) \ Before(es, t)
  <2>1. ASSUME NEW v \in DOMAIN es, newerFirst(es[v], es[t]) PROVE newerFirst(es[v], es[u])
    BY <1>2, <1>6, <2>1 DEF newerFirst
  <2>2. QED
    BY <1>5, <1>6, <2>1 DEF Before
<1>7. QED
    BY <1>4, <1>5, <1>6

LEMMA BeforeFinite ==
    ASSUME NEW es, IsMap(es), NEW t \in DOMAIN es
    PROVE  IsFiniteSet(Before(es, t)) /\ Cardinality(Before(es, t)) \in Nat
<1>1. IsFiniteSet(DOMAIN es)
    BY FinitelyMany
<1>2. Before(es, t) \in SUBSET DOMAIN es
    BY DEF Before
<1>3. IsFiniteSet(Before(es, t))
    BY <1>1, <1>2, FS_Subset
<1>4. QED
    BY <1>3, FS_CardinalityType

\* The place in the list grows with the age.
LEMMA PlacesGrow ==
    ASSUME NEW es, IsMap(es), Distinct(es), NEW t \in DOMAIN es, NEW u \in DOMAIN es,
           newerFirst(es[t], es[u])
    PROVE  Cardinality(Before(es, t)) < Cardinality(Before(es, u))
<1>1. Before(es, t) \in SUBSET Before(es, u) /\ t \in Before(es, u) \ Before(es, t)
    BY InALine
<1>2. Before(es, t) # Before(es, u)
    BY <1>1
<1>3. IsFiniteSet(Before(es, u)) /\ Cardinality(Before(es, u)) \in Nat
      /\ Cardinality(Before(es, t)) \in Nat
    BY BeforeFinite
<1>4. Cardinality(Before(es, t)) <= Cardinality(Before(es, u))
      /\ Cardinality(Before(es, t)) # Cardinality(Before(es, u))
    BY <1>1, <1>2, <1>3, FS_Subset
<1>5. QED
    BY <1>3, <1>4

\* No more than n are the newest n: two of more than n would have one place.
LEMMA NewestFew ==
    ASSUME NEW es, IsMap(es), Distinct(es), NEW n \in Nat
    PROVE  Newest(es, n) \subseteq DOMAIN es /\ Cardinality(Newest(es, n)) <= n
<1>1. Newest(es, n) \subseteq DOMAIN es
      /\ \A t \in Newest(es, n) : Cardinality(Before(es, t)) < n
    BY DEF Newest, Before
<1>2. IsFiniteSet(Newest(es, n)) /\ Cardinality(Newest(es, n)) \in Nat
  <2>1. IsFiniteSet(Newest(es, n))
    BY <1>1, FinitelyMany, FS_Subset
  <2>2. QED
    BY <2>1, FS_CardinalityType
<1>3. SUFFICES ASSUME n < Cardinality(Newest(es, n)) PROVE FALSE
    BY <1>1, <1>2
<1> DEFINE place == [t \in Newest(es, n) |-> Cardinality(Before(es, t))]
<1>4. IsFiniteSet(0 .. n - 1) /\ Cardinality(0 .. n - 1) = n
  <2>1. IsFiniteSet(0 .. n - 1)
        /\ Cardinality(0 .. n - 1) = IF 0 > n - 1 THEN 0 ELSE (n - 1) - 0 + 1
    BY FS_Interval
  <2>2. QED
    BY <2>1
<1>5. place \in [Newest(es, n) -> 0 .. n - 1]
  <2>1. \A t \in Newest(es, n) : Cardinality(Before(es, t)) \in 0 .. n - 1
    BY <1>1, BeforeFinite
  <2>2. QED
    BY <2>1
<1> HIDE DEF place
<1>6. PICK t, u \in Newest(es, n) : t # u /\ place[t] = place[u]
    BY <1>2, <1>3, <1>4, <1>5, FS_PigeonHole
<1>7. newerFirst(es[t], es[u]) \/ newerFirst(es[u], es[t])
    BY <1>1, <1>6, InALine
<1>8. place[t] = Cardinality(Before(es, t)) /\ place[u] = Cardinality(Before(es, u))
    BY DEF place
<1>9. Cardinality(Before(es, t)) \in Nat /\ Cardinality(Before(es, u)) \in Nat
    BY <1>1, BeforeFinite
<1>10. CASE newerFirst(es[t], es[u])
  <2>1. t \in DOMAIN es /\ u \in DOMAIN es
    BY <1>1
  <2>2. Cardinality(Before(es, t)) < Cardinality(Before(es, u))
    BY <1>10, <2>1, PlacesGrow
  <2>3. Cardinality(Before(es, t)) = Cardinality(Before(es, u))
    BY <1>6, <1>8
  <2>4. QED
    BY <1>9, <2>2, <2>3
<1>11. CASE newerFirst(es[u], es[t])
  <2>1. t \in DOMAIN es /\ u \in DOMAIN es
    BY <1>1
  <2>2. Cardinality(Before(es, u)) < Cardinality(Before(es, t))
    BY <1>11, <2>1, PlacesGrow
  <2>3. Cardinality(Before(es, u)) = Cardinality(Before(es, t))
    BY <1>6, <1>8
  <2>4. QED
    BY <1>9, <2>2, <2>3
<1>12. QED
    BY <1>7, <1>10, <1>11

\* All are the newest of as many as there are.
LEMMA NewestAll ==
    ASSUME NEW es, IsMap(es), Distinct(es)
    PROVE  Newest(es, Cardinality(DOMAIN es)) = DOMAIN es
<1>1. ASSUME NEW t \in DOMAIN es PROVE Cardinality(Before(es, t)) < Cardinality(DOMAIN es)
  <2>1. Before(es, t) \in SUBSET DOMAIN es /\ t \notin Before(es, t)
    BY InALine DEF Before
  <2>2. IsFiniteSet(DOMAIN es) /\ Cardinality(DOMAIN es) \in Nat
        /\ Cardinality(Before(es, t)) \in Nat
    BY FinitelyMany, BeforeFinite
  <2>3. Before(es, t) # DOMAIN es
    BY <2>1
  <2>4. Cardinality(Before(es, t)) <= Cardinality(DOMAIN es)
        /\ Cardinality(Before(es, t)) # Cardinality(DOMAIN es)
    BY <2>1, <2>2, <2>3, FS_Subset
  <2>5. QED
    BY <2>2, <2>4
<1>2. QED
    BY <1>1 DEF Newest, Before

\* What is left of a sound history is sound, and in order.
LEMMA PartSound ==
    ASSUME NEW es, NEW n \in Nat, NEW ts \in SUBSET DOMAIN es, IsMap(es), Distinct(es),
           \A t \in DOMAIN es : es[t].nth <= n /\ es[t].seq <= n,
           Cardinality(ts) <= keep
    PROVE  /\ Sound([t \in ts |-> es[t]], n)
           /\ \A now : Ordered(es, now) => Ordered([t \in ts |-> es[t]], now)
<1> DEFINE part == [t \in ts |-> es[t]]
<1>1. DOMAIN part = ts /\ \A t \in ts : part[t] = es[t]
    OBVIOUS
<1>2. part \in [ts -> Entries]
    BY DEF IsMap
<1> HIDE DEF part
<1>3. IsMap(part)
    BY <1>1, <1>2 DEF IsMap
<1>4. Distinct(part)
    BY <1>1 DEF Distinct
<1>5. \A now : Ordered(es, now) => Ordered(part, now)
    BY <1>1 DEF Ordered
<1>6. Sound(part, n)
    BY <1>1, <1>3, <1>4 DEF Sound
<1>7. QED
    BY <1>5, <1>6 DEF part

LEMMA NowhereRight ==
    ASSUME NEW n \in Nat
    PROVE  Sound(Nowhere, n) /\ \A now : Ordered(Nowhere, now)
<1>1. DOMAIN Nowhere = {} /\ Nowhere \in [{} -> Entries]
    BY DEF Nowhere
<1>2. Cardinality(DOMAIN Nowhere) <= keep
    BY <1>1, FS_EmptySet, HistoryConstantsOK
<1>3. QED
    BY <1>1, <1>2 DEF Sound, IsMap, Distinct, Ordered

\* A history is neither of the marks for a file that is none.
LEMMA NotAMark ==
    ASSUME NEW es, IsMap(es)
    PROVE  es \notin {Absent, Torn}
    BY HistoryConstantsOK DEF IsMap, Entries

\* The number to go on with after a start: there is a highest one.
LEMMA HighestIs ==
    ASSUME NEW es, NEW n \in Nat, Sound(es, n)
    PROVE  /\ Highest(es) \in 0 .. n
           /\ \A t \in DOMAIN es : es[t].seq <= Highest(es)
<1>1. \A t \in DOMAIN es : es[t].seq \in Nat /\ es[t].seq <= n
  <2>1. \A t \in DOMAIN es : es[t] \in Entries
    BY DEF Sound, IsMap
  <2>2. QED
    BY <2>1 DEF Sound, Entries
<1> DEFINE T == {k \in Nat : \A t \in DOMAIN es : es[t].seq <= k}
           seqs == {0} \cup {es[t].seq : t \in DOMAIN es}
<1>2. T \subseteq Nat /\ n \in T
    BY <1>1
<1>3. PICK m \in T : \A k \in T : m <= k
    BY <1>2, LeastNumber
<1>4. m \in seqs
  <2>1. SUFFICES ASSUME m \notin seqs PROVE FALSE
    OBVIOUS
  <2>2. m - 1 \in Nat
    BY <2>1, <1>3
  <2>3. \A t \in DOMAIN es : es[t].seq <= m - 1
    BY <2>1, <1>1, <1>3
  <2>4. QED
    BY <1>3, <2>2, <2>3
<1>5. \E k \in seqs : \A t \in DOMAIN es : es[t].seq <= k
    BY <1>3, <1>4
<1>6. Highest(es) \in seqs /\ \A t \in DOMAIN es : es[t].seq <= Highest(es)
    BY <1>5 DEF Highest
<1>7. seqs \subseteq 0 .. n
    BY <1>1
<1>8. QED
    BY <1>6, <1>7

-----------------------------------------------------------------------------
(* Steps *)

LEMMA RightLater ==
    ASSUME NEW es, NEW n \in Nat, NEW m \in Nat, NEW still, NEW later, NEW c \in Nat, NEW d \in Nat,
           RightFor(es, n, still, c), n <= m, later => still /\ c <= d
    PROVE  RightFor(es, m, later, d)
<1>1. \A t \in DOMAIN es : es[t].nth \in Nat /\ es[t].seq \in Nat /\ es[t].updated \in Nat
  <2>1. \A t \in DOMAIN es : es[t] \in Entries
    BY DEF RightFor, Sound, IsMap
  <2>2. QED
    BY <2>1 DEF Entries
<1>2. Sound(es, m)
    BY <1>1 DEF RightFor, Sound
<1>3. ASSUME later PROVE Ordered(es, d)
    BY <1>1, <1>3 DEF RightFor, Ordered
<1>4. QED
    BY <1>2, <1>3 DEF RightFor

Put(es, t, e) == [u \in DOMAIN es \cup {t} |-> IF u = t THEN e ELSE es[u]]

\* A report is put in: it has the highest number, is the last, and not older than the others.
LEMMA NotedRight ==
    ASSUME NEW es, NEW n \in Nat, NEW m \in Nat, NEW still, NEW later, NEW c \in Nat, NEW d \in Nat,
           NEW t \in Titles, NEW e \in Entries, RightFor(es, n, still, c), m <= n,
           \A u \in DOMAIN es : es[u].seq <= m,
           e.title = t, e.updated = d, e.seq = m + 1, e.nth = n + 1,
           later => still /\ c <= d
    PROVE  /\ RightFor(trim(Put(es, t, e)), n + 1, later, d)
           /\ \A u \in DOMAIN trim(Put(es, t, e)) : trim(Put(es, t, e))[u].seq <= m + 1
<1> DEFINE all == Put(es, t, e)
<1>1. \A u \in DOMAIN es : es[u] \in Entries /\ u \in Titles /\ es[u].title = u
    BY DEF RightFor, Sound, IsMap
<1>2. /\ DOMAIN all = DOMAIN es \cup {t} /\ all[t] = e
      /\ \A u \in DOMAIN es : u # t => all[u] = es[u]
      /\ all \in [DOMAIN all -> Entries]
    BY <1>1 DEF Put
<1> HIDE DEF all
<1>3. IsMap(all)
  <2>1. \A u \in DOMAIN all : all[u].title = u /\ u \in Titles
    BY <1>1, <1>2
  <2>2. QED
    BY <1>2, <2>1 DEF IsMap
<1>4. \A u \in DOMAIN es : /\ es[u].nth \in Nat /\ es[u].nth <= n
                          /\ es[u].seq \in Nat /\ es[u].seq <= m /\ es[u].updated \in Nat
  <2>1. \A u \in DOMAIN es : es[u].nth \in Nat /\ es[u].seq \in Nat /\ es[u].updated \in Nat
    BY <1>1 DEF Entries
  <2>2. QED
    BY <2>1 DEF RightFor, Sound
<1>5. Distinct(all)
  <2>1. Distinct(es)
    BY DEF RightFor, Sound
  <2>2. \A u \in DOMAIN es : es[u].seq # e.seq
    BY <1>4
  <2>3. QED
    BY <1>2, <2>1, <2>2 DEF Distinct
<1>6. \A u \in DOMAIN all : all[u].nth <= n + 1 /\ all[u].seq <= n + 1 /\ all[u].seq <= m + 1
    BY <1>2, <1>4
<1>7. ASSUME later PROVE Ordered(all, d)
  <2>1. Ordered(es, c) /\ c <= d
    BY <1>7 DEF RightFor
  <2>2. \A u \in DOMAIN es : es[u].updated <= d
    BY <1>4, <2>1 DEF Ordered
  <2>3. \A u \in DOMAIN all : all[u].updated <= d
    BY <1>2, <2>2
  <2>4. ASSUME NEW u \in DOMAIN all, NEW v \in DOMAIN all, all[u].nth > all[v].nth
        PROVE  newerFirst(all[u], all[v])
    <3>1. CASE u # t /\ v # t
      BY <1>2, <2>1, <2>4, <3>1 DEF Ordered
    <3>2. CASE u = t /\ v # t
      <4>1. v \in DOMAIN es /\ all[v] = es[v] /\ all[u] = e
        BY <1>2, <3>2
      <4>2. QED
        BY <1>4, <2>2, <4>1 DEF newerFirst
    <3>3. CASE v = t
      BY <1>2, <1>4, <2>4, <3>3
    <3>4. QED
      BY <3>1, <3>2, <3>3
  <2>5. QED
    BY <2>3, <2>4 DEF Ordered
<1>8. keep \in Nat /\ Newest(all, keep) \in SUBSET DOMAIN all
      /\ Cardinality(Newest(all, keep)) <= keep
    BY <1>3, <1>5, NewestFew, HistoryConstantsOK
<1>9. trim(all) = [u \in Newest(all, keep) |-> all[u]]
    BY DEF trim
<1>10. /\ Sound(trim(all), n + 1)
       /\ Ordered(all, d) => Ordered(trim(all), d)
  <2>1. n + 1 \in Nat /\ \A u \in DOMAIN all : all[u].nth <= n + 1 /\ all[u].seq <= n + 1
    BY <1>6
  <2>2. PICK ts \in SUBSET DOMAIN all : ts = Newest(all, keep) /\ Cardinality(ts) <= keep
    BY <1>8
  <2>3. Sound([u \in ts |-> all[u]], n + 1)
        /\ \A now : Ordered(all, now) => Ordered([u \in ts |-> all[u]], now)
    BY <1>3, <1>5, <2>1, <2>2, PartSound
  <2>4. QED
    BY <1>9, <2>2, <2>3
<1>11. RightFor(trim(all), n + 1, later, d)
    BY <1>7, <1>10 DEF RightFor
<1>12. \A u \in DOMAIN trim(all) : trim(all)[u].seq <= m + 1
    BY <1>6, <1>8, <1>9
<1>13. QED
    BY <1>11, <1>12 DEF all

LEMMA ForgetRight ==
    ASSUME NEW es, NEW n \in Nat, NEW still, NEW now, NEW t \in DOMAIN es,
           RightFor(es, n, still, now)
    PROVE  LET rest == [u \in DOMAIN es \ {t} |-> es[u]]
           IN  /\ RightFor(rest, n, still, now)
               /\ \A u \in DOMAIN rest : u \in DOMAIN es /\ rest[u] = es[u]
<1>1. IsFiniteSet(DOMAIN es) /\ Cardinality(DOMAIN es) \in Nat
    BY FinitelyMany DEF RightFor, Sound
<1>2. DOMAIN es \ {t} \in SUBSET DOMAIN es
    OBVIOUS
<1>3. Cardinality(DOMAIN es \ {t}) <= Cardinality(DOMAIN es)
      /\ Cardinality(DOMAIN es \ {t}) \in Nat
    BY <1>1, <1>2, FS_Subset, FS_CardinalityType
<1>4. Cardinality(DOMAIN es \ {t}) <= keep
    BY <1>1, <1>3, HistoryConstantsOK DEF RightFor, Sound
<1>5. QED
    BY <1>2, <1>4, PartSound DEF RightFor, Sound

LEMMA LoadedRight ==
    ASSUME Rights, noted \in Nat
    PROVE  Right(Loaded)
    BY NowhereRight DEF Rights, Stored, Loaded, Right, RightFor

\* The steps in which nothing is noted.
Silent == UNCHANGED <<noted, steady, clock>>

LEMMA ScalarsStep ==
    ASSUME Scalars, Rights, [HistoryNext]_historyVars
    PROVE  Scalars'
<1> USE DEF Flushers
<1>1. ASSUME NEW t \in Titles, NEW p \in Places, Note(t, p) PROVE Scalars'
    BY <1>1, HistoryConstantsOK DEF Note, Scalars
<1>2. ASSUME NEW t \in Titles, Forget(t) PROVE Scalars'
    BY <1>2 DEF Forget, Scalars
<1>3. ASSUME NEW f \in Flushers, FlushClean(f) PROVE Scalars'
    BY <1>3 DEF FlushClean, FlushGo, After, MayFlush, memory, Scalars
<1>4. ASSUME NEW f \in Flushers, FlushMarshal(f) PROVE Scalars'
    BY <1>4 DEF FlushMarshal, FlushGo, Cleaned, MayFlush, Scalars
<1>5. ASSUME NEW f \in Flushers, FlushCreate(f) PROVE Scalars'
    BY <1>5 DEF FlushCreate, FlushGo, memory, Scalars
<1>6. ASSUME NEW f \in Flushers, FlushWrite(f) PROVE Scalars'
    BY <1>6 DEF FlushWrite, FlushGo, memory, Scalars
<1>7. ASSUME NEW f \in Flushers, FlushFail(f) PROVE Scalars'
    BY <1>7 DEF FlushFail, FlushGo, After, memory, Scalars
<1>8. ASSUME NEW f \in Flushers, FlushRename(f) PROVE Scalars'
    BY <1>8 DEF FlushRename, FlushGo, After, Cleaned, Moved, Scalars
<1>9. CASE Stop
    BY <1>9 DEF Stop, memory, Scalars
<1>10. CASE Die
  <2>1. flush' \in [Flushers -> {"idle", "create", "write", "rename", "done"}]
        /\ \A f \in Flushers : flush'[f] = "idle"
    BY <1>10 DEF Die
  <2>2. fd' \in [Flushers -> {"closed", "tmp", "file"}]
        /\ marshaled' = [f \in Flushers |-> marshaled'[f]]
    BY <1>10 DEF Die
  <2>3. seq' \in Nat /\ seq' <= noted
    BY <1>10, HistoryConstantsOK DEF Die, Scalars
  <2>4. dirty' \in BOOLEAN /\ serving' = "down"
    BY <1>10 DEF Die
  <2>5. QED
    BY <1>10, <2>1, <2>2, <2>3, <2>4 DEF Die, Scalars
<1>11. CASE New
  <2>1. noted \in Nat
    BY HistoryConstantsOK DEF Scalars
  <2>2. Sound(Loaded, noted)
    BY <2>1, LoadedRight DEF Right, RightFor
  <2>3. Highest(Loaded) \in 0 .. noted
    BY <2>1, <2>2, HighestIs
  <2>4. harmed' \in BOOLEAN /\ dirty' \in BOOLEAN
    BY <1>11 DEF New
  <2>5. starts' \in 1 .. MaxStarts /\ seq' \in Nat /\ seq' <= noted /\ serving' = "up"
    BY <1>11, <2>1, <2>3, HistoryConstantsOK DEF New, Scalars
  <2>6. QED
    BY <1>11, <2>4, <2>5 DEF New, Scalars
<1>12. CASE UNCHANGED historyVars
    BY <1>12 DEF historyVars, Scalars
<1>13. QED
    BY <1>1, <1>2, <1>3, <1>4, <1>5, <1>6, <1>7, <1>8, <1>9, <1>10, <1>11, <1>12 DEF HistoryNext

LEMMA SeqTopStep ==
    ASSUME Scalars, Rights, SeqTop, [HistoryNext]_historyVars
    PROVE  SeqTop'
<1>1. ASSUME NEW t \in Titles, NEW p \in Places, Note(t, p) PROVE SeqTop'
  <2>1. Entry(t, p) \in Entries /\ clock' \in Nat
    BY <1>1, HistoryConstantsOK DEF Note, Entry, Entries, Scalars
  <2>2. /\ Entry(t, p).title = t /\ Entry(t, p).updated = clock'
        /\ Entry(t, p).seq = seq + 1 /\ Entry(t, p).nth = noted + 1
    BY DEF Entry
  <2>3. RightFor(entries, noted, steady, clock) /\ \A u \in DOMAIN entries : entries[u].seq <= seq
    BY DEF Rights, Right, SeqTop
  <2>4. noted \in Nat /\ seq \in Nat /\ clock \in Nat /\ seq <= noted
    BY HistoryConstantsOK DEF Scalars
  <2>5. PICK e \in Entries : e = Entry(t, p)
    BY <2>1
  <2>6. entries' = trim(Put(entries, t, e))
    BY <1>1, <2>5 DEF Note, Put
  <2>7. steady' => steady /\ clock <= clock'
    BY <1>1, <2>1, <2>4 DEF Note, Scalars
  <2>8. \A u \in DOMAIN entries' : entries'[u].seq <= seq + 1
    BY <2>1, <2>2, <2>3, <2>4, <2>5, <2>6, <2>7, NotedRight
  <2>9. QED
    BY <1>1, <2>8 DEF Note, SeqTop
<1>2. ASSUME NEW t \in Titles, Forget(t) PROVE SeqTop'
    BY <1>2 DEF Forget, SeqTop
<1>3. ASSUME NEW f \in Flushers,
             FlushClean(f) \/ FlushMarshal(f) \/ FlushCreate(f) \/ FlushWrite(f)
                 \/ FlushFail(f) \/ FlushRename(f)
      PROVE  SeqTop'
    BY <1>3 DEF FlushClean, FlushMarshal, FlushCreate, FlushWrite, FlushFail, FlushRename, memory,
       SeqTop
<1>4. CASE Stop \/ UNCHANGED historyVars
    BY <1>4 DEF Stop, memory, historyVars, SeqTop
<1>5. CASE Die
    BY <1>5 DEF Die, Nowhere, SeqTop
<1>6. CASE New
  <2>1. noted \in Nat
    BY HistoryConstantsOK DEF Scalars
  <2>2. Sound(Loaded, noted)
    BY <2>1, LoadedRight DEF Right, RightFor
  <2>3. \A t \in DOMAIN Loaded : Loaded[t].seq <= Highest(Loaded)
    BY <2>1, <2>2, HighestIs
  <2>4. QED
    BY <1>6, <2>3 DEF New, SeqTop
<1>7. QED
    BY <1>1, <1>2, <1>3, <1>4, <1>5, <1>6 DEF HistoryNext

LEMMA RightsStep ==
    ASSUME Scalars, Rights, SeqTop, [HistoryNext]_historyVars
    PROVE  Rights'
<1> USE DEF Flushers
<1>0. noted \in Nat /\ seq \in Nat /\ clock \in Nat /\ seq <= noted
      /\ marshaled = [f \in Flushers |-> marshaled[f]]
    BY HistoryConstantsOK DEF Scalars
<1> DEFINE Now(es) == RightFor(es, noted, steady, clock)
<1>r. /\ Now(entries) /\ \A f \in Flushers : Now(marshaled[f])
      /\ file \in {Absent, Torn} \/ Now(file)
      /\ tmp \in {Absent, Torn} \/ Now(tmp)
      /\ Now(Nowhere)
    BY <1>0, NowhereRight DEF Rights, Right, Stored, RightFor
<1> HIDE DEF Now
<1>s. ASSUME Silent, Now(entries'), \A f \in Flushers : Now(marshaled'[f]),
             file' \in {Absent, Torn} \/ Now(file'), tmp' \in {Absent, Torn} \/ Now(tmp')
      PROVE  Rights'
    BY <1>s DEF Silent, Rights, Right, Stored, Now
<1>1. ASSUME NEW t \in Titles, NEW p \in Places, Note(t, p) PROVE Rights'
  <2>1. Entry(t, p) \in Entries /\ clock' \in Nat
    BY <1>1, HistoryConstantsOK DEF Note, Entry, Entries, Scalars
  <2>2. /\ Entry(t, p).title = t /\ Entry(t, p).updated = clock'
        /\ Entry(t, p).seq = seq + 1 /\ Entry(t, p).nth = noted + 1
    BY DEF Entry
  <2>3. RightFor(entries, noted, steady, clock) /\ \A u \in DOMAIN entries : entries[u].seq <= seq
    BY DEF Rights, Right, SeqTop
  <2>4. noted' = noted + 1 /\ (steady' => steady /\ clock <= clock')
    BY <1>1, <2>1, <1>0 DEF Note, Scalars
  <2>5. RightFor(entries', noted + 1, steady', clock')
    <3>1. PICK e \in Entries : e = Entry(t, p)
      BY <2>1
    <3>2. entries' = trim(Put(entries, t, e))
      BY <1>1, <3>1 DEF Note, Put
    <3>3. QED
      BY <2>1, <2>2, <2>3, <2>4, <3>1, <3>2, <1>0, NotedRight
  <2>6. \A es : Now(es) => RightFor(es, noted + 1, steady', clock')
    BY <1>0, <2>1, <2>4, RightLater DEF Now
  <2>7. UNCHANGED <<marshaled, file, tmp>>
    BY <1>1 DEF Note
  <2>8. QED
    BY <1>r, <2>4, <2>5, <2>6, <2>7 DEF Rights, Right, Stored
<1>2. ASSUME NEW t \in Titles, Forget(t) PROVE Rights'
  <2>1. Now(entries')
    BY <1>2, <1>0, <1>r, ForgetRight DEF Forget, Now
  <2>2. QED
    BY <1>2, <1>r, <1>s, <2>1 DEF Forget, Silent
<1>3. ASSUME NEW f \in Flushers, FlushClean(f) \/ FlushCreate(f) PROVE Rights'
    BY <1>3, <1>r, <1>s DEF FlushClean, FlushCreate, memory, Silent
<1>4. ASSUME NEW f \in Flushers, FlushMarshal(f) PROVE Rights'
  <2>1. \A g \in Flushers : Now(marshaled'[g])
    BY <1>4, <1>0, <1>r DEF FlushMarshal
  <2>2. QED
    BY <1>4, <1>r, <1>s, <2>1 DEF FlushMarshal, Silent
<1>5. ASSUME NEW f \in Flushers, FlushWrite(f) PROVE Rights'
  <2>1. \A g \in Flushers : Now(marshaled'[g])
    BY <1>5, <1>0, <1>r DEF FlushWrite
  <2>2. PICK b \in Written(f) : /\ tmp' = IF fd[f] = "tmp" THEN b ELSE tmp
                                /\ file' = IF fd[f] = "file" THEN b ELSE file
    BY <1>5 DEF FlushWrite
  <2>3. b = Torn \/ Now(b)
    BY <1>r DEF Written
  <2>4. QED
    BY <1>5, <1>r, <1>s, <2>1, <2>2, <2>3 DEF FlushWrite, memory, Silent
<1>6. ASSUME NEW f \in Flushers, FlushFail(f) PROVE Rights'
  <2>1. \A g \in Flushers : Now(marshaled'[g])
    BY <1>6, <1>0, <1>r DEF FlushFail
  <2>2. QED
    BY <1>6, <1>r, <1>s, <2>1 DEF FlushFail, Leftover, memory, Silent
<1>7. ASSUME NEW f \in Flushers, FlushRename(f) PROVE Rights'
    BY <1>7, <1>r, <1>s DEF FlushRename, Silent
<1>8. CASE Stop \/ UNCHANGED historyVars
    BY <1>8, <1>r, <1>s DEF Stop, memory, historyVars, Silent
<1>9. CASE Die
    BY <1>9, <1>r, <1>s DEF Die, Leftover, Silent
<1>10. CASE New
  <2>1. Now(Loaded)
    BY <1>0, LoadedRight DEF Right, Now
  <2>2. QED
    BY <1>10, <1>r, <1>s, <2>1 DEF New, Silent
<1>11. QED
    BY <1>1, <1>2, <1>3, <1>4, <1>5, <1>6, <1>7, <1>8, <1>9, <1>10 DEF HistoryNext

LEMMA FollowsStep ==
    ASSUME Scalars, Rights, Follows, [HistoryNext]_historyVars
    PROVE  Follows'
<1>0. /\ flush \in [Flushers -> {"idle", "create", "write", "rename", "done"}]
      /\ fd \in [Flushers -> {"closed", "tmp", "file"}]
      /\ marshaled = [f \in Flushers |-> marshaled[f]]
    BY DEF Scalars
\* A step that leaves the writers and the files alone.
<1>s. ASSUME UNCHANGED <<flush, marshaled, fd, tmp, file, harmed>>,
             ~dirty' => ~dirty /\ entries' = entries,
             serving' # "down" => serving # "down"
      PROVE  Follows'
    BY <1>s DEF Follows, Alone, Flushing, OnTheWay, Loaded
<1>1. ASSUME NEW t \in Titles, NEW p \in Places, Note(t, p) PROVE Follows'
    BY <1>1, <1>s DEF Note
<1>2. ASSUME NEW t \in Titles, Forget(t) PROVE Follows'
    BY <1>2, <1>s DEF Forget
<1>3. ASSUME NEW f \in Flushers, FlushClean(f) PROVE Follows'
  <2>1. Flushing' = Flushing /\ \A g \in Flushing : flush'[g] = flush[g]
    BY <1>0, <1>3 DEF FlushClean, FlushGo, After, Flushing
  <2>2. UNCHANGED <<entries, dirty, serving, marshaled, fd, tmp, file, harmed>>
    BY <1>3 DEF FlushClean, memory
  <2>3. QED
    BY <2>1, <2>2 DEF Follows, Alone, OnTheWay, Loaded
<1>4. ASSUME NEW f \in Flushers, FlushMarshal(f) PROVE Follows'
  <2>1. SUFFICES ASSUME ~harmed' PROVE Follows'
    BY DEF Follows
  <2>2. ~harmed /\ Flushing = {}
    BY <1>4, <2>1 DEF FlushMarshal
  <2>3. Flushing' = {f} /\ flush'[f] = "create" /\ marshaled'[f] = entries /\ entries' = entries
    BY <1>0, <1>4, <2>2 DEF FlushMarshal, FlushGo, Flushing
  <2>4. QED
    BY <2>3 DEF Follows, Alone, OnTheWay
<1>5. ASSUME NEW f \in Flushers, FlushCreate(f) PROVE Follows'
  <2>1. Flushing' = Flushing /\ f \in Flushing
    BY <1>0, <1>5 DEF FlushCreate, FlushGo, Flushing
  <2>2. UNCHANGED <<entries, dirty, serving, marshaled, file, harmed>>
    BY <1>5 DEF FlushCreate, memory
  <2>3. flush'[f] = "write" /\ fd'[f] = "tmp" /\ tmp' = Torn
    BY <1>0, <1>5 DEF FlushCreate, FlushGo
  <2>4. ASSUME ~harmed, ~dirty PROVE marshaled[f] = entries
    BY <1>5, <2>1, <2>4 DEF FlushCreate, Follows, OnTheWay
  <2>5. QED
    BY <2>1, <2>2, <2>3, <2>4 DEF Follows, Alone, OnTheWay
<1>6. ASSUME NEW f \in Flushers, FlushWrite(f) PROVE Follows'
  <2>1. Flushing' = Flushing /\ f \in Flushing
    BY <1>0, <1>6 DEF FlushWrite, FlushGo, Flushing
  <2>2. UNCHANGED <<entries, dirty, serving, harmed>>
    BY <1>6 DEF FlushWrite, memory
  <2>3. flush'[f] = "rename" /\ flush[f] = "write"
    BY <1>0, <1>6 DEF FlushWrite, FlushGo
  <2>4. ASSUME ~harmed, ~dirty PROVE tmp' = entries
    <3>1. marshaled[f] = entries /\ fd[f] = "tmp" /\ tmp = Torn
      BY <2>1, <2>3, <2>4 DEF Follows, OnTheWay
    <3>2. Written(f) = {entries}
      BY <3>1 DEF Written
    <3>3. QED
      BY <1>6, <3>1, <3>2 DEF FlushWrite
  <2>5. QED
    BY <2>1, <2>2, <2>3, <2>4 DEF Follows, Alone, OnTheWay
<1>7. ASSUME NEW f \in Flushers, FlushFail(f) PROVE Follows'
    BY <1>7 DEF FlushFail, Follows
<1>8. ASSUME NEW f \in Flushers, FlushRename(f) PROVE Follows'
  <2>1. SUFFICES ASSUME ~harmed' PROVE Follows'
    BY DEF Follows
  <2>2. UNCHANGED <<entries, dirty, serving>> /\ file' = tmp /\ flush[f] = "rename"
    BY <1>8 DEF FlushRename, Cleaned
  <2>3. Flushing = {f} /\ (~dirty => tmp = entries)
    <3>1. CASE harmed
      BY <1>8, <2>1, <3>1 DEF FlushRename
    <3>2. CASE ~harmed
      BY <2>2, <3>2 DEF Follows, Alone, OnTheWay, Flushing
    <3>3. QED
      BY <3>1, <3>2
  <2>4. Flushing' = {}
    BY <1>0, <1>8, <2>3 DEF FlushRename, FlushGo, After, Flushing
  <2>5. entries \notin {Absent, Torn}
    BY NotAMark DEF Rights, Right, RightFor, Sound
  <2>6. ~dirty => Loaded' = entries
    BY <2>2, <2>3, <2>5 DEF Loaded
  <2>7. QED
    BY <2>2, <2>4, <2>6 DEF Follows, Alone
<1>9. CASE Stop
  <2>1. UNCHANGED <<entries, dirty, flush, marshaled, fd, tmp, file, harmed>> /\ serving # "down"
    BY <1>9 DEF Stop, memory
  <2>2. QED
    BY <1>s, <2>1
<1>10. CASE Die
  <2>1. Flushing' = {} /\ serving' = "down"
    BY <1>10 DEF Die, Flushing
  <2>2. QED
    BY <2>1 DEF Follows, Alone
<1>11. CASE New
  <2>1. Flushing' = {} /\ entries' = Loaded /\ file' = file
    BY <1>11 DEF New, Flushing, Scalars
  <2>2. Loaded' = Loaded
    BY <2>1 DEF Loaded
  <2>3. QED
    BY <2>1, <2>2 DEF Follows, Alone
<1>12. CASE UNCHANGED historyVars
  <2>1. UNCHANGED <<entries, dirty, serving, flush, marshaled, fd, tmp, file, harmed>>
    BY <1>12 DEF historyVars
  <2>2. QED
    BY <1>s, <2>1
<1>13. QED
    BY <1>1, <1>2, <1>3, <1>4, <1>5, <1>6, <1>7, <1>8, <1>9, <1>10, <1>11, <1>12 DEF HistoryNext

-----------------------------------------------------------------------------
(* What follows *)

HistoryInv == Scalars /\ Rights /\ SeqTop /\ Follows

\* Entries, files and the flag of History agree throughout (history.go:40-186).
THEOREM HistoryInvariance == HistorySpec => []HistoryInv
<1>1. HistoryInit => HistoryInv
  <2> SUFFICES ASSUME HistoryInit PROVE HistoryInv
    OBVIOUS
  <2>2. Scalars
    <3>1. flush \in [Flushers -> {"idle", "create", "write", "rename", "done"}]
          /\ fd \in [Flushers -> {"closed", "tmp", "file"}]
          /\ marshaled = [f \in Flushers |-> marshaled[f]]
      BY DEF HistoryInit
    <3>2. /\ seq \in Nat /\ seq <= noted /\ clock \in 0 .. MaxClock /\ noted \in 0 .. MaxNotes
          /\ starts \in 1 .. MaxStarts
      BY HistoryConstantsOK DEF HistoryInit
    <3>3. dirty \in BOOLEAN /\ harmed \in BOOLEAN /\ steady \in BOOLEAN /\ serving = "up"
      BY DEF HistoryInit
    <3>4. QED
      BY <3>1, <3>2, <3>3 DEF Scalars
  <2>3. Rights
    BY NowhereRight DEF HistoryInit, Rights, Right, RightFor, Stored
  <2>4. SeqTop
    BY DEF HistoryInit, SeqTop, Nowhere
  <2>5. Follows
    BY DEF HistoryInit, Follows, Alone, Flushing, Loaded
  <2>6. QED
    BY <2>2, <2>3, <2>4, <2>5 DEF HistoryInv
<1>2. HistoryInv /\ [HistoryNext]_historyVars => HistoryInv'
    BY ScalarsStep, RightsStep, SeqTopStep, FollowsStep DEF HistoryInv
<1>3. QED
    BY <1>1, <1>2, PTL DEF HistorySpec

\* No more than keep titles are remembered, each under its own name, in memory and in the file.
THEOREM HistoryTypeCorrect == HistorySpec => []HistoryTyped
<1>1. ASSUME HistoryInv PROVE HistoryTyped
  <2>1. ASSUME NEW es, Sound(es, noted) PROVE IsHistory(es)
    <3>1. \A t \in DOMAIN es : es[t] \in Entries /\ es[t].title = t
      BY <2>1 DEF Sound, IsMap
    <3>2. \A t \in DOMAIN es : /\ es[t].pos \in Places
                              /\ {es[t].updated, es[t].seq, es[t].nth} \subseteq Nat
      BY <3>1 DEF Entries
    <3>3. QED
      BY <2>1, <3>1, <3>2 DEF Sound, IsMap, IsHistory
  <2>2. Sound(entries, noted) /\ \A f \in Flushers : Sound(marshaled[f], noted)
    BY <1>1 DEF HistoryInv, Rights, Right, RightFor
  <2>3. Sound(Loaded, noted)
    <3>1. noted \in Nat
      BY <1>1, HistoryConstantsOK DEF HistoryInv, Scalars
    <3>2. QED
      BY <1>1, <3>1, LoadedRight DEF HistoryInv, Right, RightFor
  <2>4. \A es \in {entries, Loaded} \cup {marshaled[f] : f \in Flushers} : Sound(es, noted)
    BY <2>2, <2>3
  <2>5. \A es \in {entries, Loaded} \cup {marshaled[f] : f \in Flushers} : IsHistory(es)
    BY <2>1, <2>4
  <2>6. QED
    BY <1>1, <2>5 DEF HistoryInv, Scalars, HistoryTyped
<1>2. QED
    BY <1>1, HistoryInvariance, PTL

\* What was noted is on the disk once nobody writes, and in its order.
THEOREM PlacesAreKept == HistorySpec => []PlacesKept
<1>1. ASSUME HistoryInv PROVE FileFollows
    BY <1>1 DEF HistoryInv, Follows, FileFollows
<1>2. ASSUME HistoryInv PROVE LaterIsHigher
  <2>1. SUFFICES ASSUME steady, NEW t \in DOMAIN entries, NEW u \in DOMAIN entries,
                        entries[t].nth > entries[u].nth
                 PROVE  Recent(Cardinality(DOMAIN entries))[t]
                            < Recent(Cardinality(DOMAIN entries))[u]
    BY DEF LaterIsHigher
  <2>2. IsMap(entries) /\ Distinct(entries) /\ Ordered(entries, clock)
    BY <1>2, <2>1 DEF HistoryInv, Rights, Right, RightFor, Sound
  <2>3. newerFirst(entries[t], entries[u])
    BY <2>1, <2>2 DEF Ordered
  <2>4. Recent(Cardinality(DOMAIN entries)) =
            [v \in DOMAIN entries |-> 1 + Cardinality(Before(entries, v))]
    BY <2>2, NewestAll DEF Recent, Before
  <2>5. Cardinality(Before(entries, t)) < Cardinality(Before(entries, u))
        /\ Cardinality(Before(entries, t)) \in Nat /\ Cardinality(Before(entries, u)) \in Nat
    BY <2>2, <2>3, PlacesGrow, BeforeFinite
  <2>6. QED
    BY <2>4, <2>5
<1>3. QED
    BY <1>1, <1>2, HistoryInvariance, PTL DEF PlacesKept

-----------------------------------------------------------------------------
(* Film: sequences *)

\* Concatenation keeps sequences injective that have no element in common.
LEMMA ConcatInjective ==
    ASSUME NEW S, NEW s \in Seq(S), NEW t \in Seq(S), IsInjective(s), IsInjective(t),
           ToSet(s) \cap ToSet(t) = {}
    PROVE  s \o t \in Seq(S) /\ IsInjective(s \o t)
<1>1. /\ s \o t \in Seq(S) /\ Len(s \o t) = Len(s) + Len(t)
      /\ \A i \in 1 .. Len(s) + Len(t) : (s \o t)[i] = IF i <= Len(s) THEN s[i] ELSE t[i - Len(s)]
  BY ConcatProperties
<1>2. Len(s) \in Nat /\ Len(t) \in Nat /\ DOMAIN s = 1 .. Len(s) /\ DOMAIN t = 1 .. Len(t)
  OBVIOUS
<1> DEFINE c == s \o t
<1>. HIDE DEF c
<1>3. c \in Seq(S) /\ Len(c) = Len(s) + Len(t) /\ DOMAIN c = 1 .. (Len(s) + Len(t))
  BY <1>1, <1>2 DEF c
<1>4. \A i \in 1 .. Len(s) : c[i] = s[i] /\ c[i] \in ToSet(s)
  BY <1>1, <1>2 DEF c, ToSet
<1>5. \A i \in Len(s) + 1 .. Len(s) + Len(t) : c[i] = t[i - Len(s)] /\ c[i] \in ToSet(t)
  <2>. SUFFICES ASSUME NEW i \in Len(s) + 1 .. Len(s) + Len(t)
                PROVE  c[i] = t[i - Len(s)] /\ c[i] \in ToSet(t)
    OBVIOUS
  <2>1. i - Len(s) \in 1 .. Len(t) /\ i \in 1 .. Len(s) + Len(t) /\ ~(i <= Len(s))
    BY <1>2
  <2>. QED  BY <1>1, <1>2, <2>1 DEF c, ToSet
<1>6. ASSUME NEW i \in DOMAIN c, NEW k \in DOMAIN c, c[i] = c[k]
      PROVE  i = k
  <2>1. CASE i <= Len(s) /\ k <= Len(s)
    BY <1>2, <1>3, <1>4, <1>6, <2>1 DEF IsInjective
  <2>2. CASE i > Len(s) /\ k > Len(s)
    <3>1. i - Len(s) \in DOMAIN t /\ k - Len(s) \in DOMAIN t /\ t[i - Len(s)] = t[k - Len(s)]
      BY <1>2, <1>3, <1>5, <1>6, <2>2
    <3>2. i - Len(s) = k - Len(s)
      BY <3>1 DEF IsInjective
    <3>. QED  BY <1>2, <1>3, <3>2
  <2>3. CASE i <= Len(s) /\ k > Len(s)
    BY <1>2, <1>3, <1>4, <1>5, <1>6, <2>3
  <2>4. CASE i > Len(s) /\ k <= Len(s)
    BY <1>2, <1>3, <1>4, <1>5, <1>6, <2>4
  <2>. QED  BY <1>2, <1>3, <2>1, <2>2, <2>3, <2>4
<1>. QED  BY <1>3, <1>6 DEF IsInjective, c

LEMMA KeptElements ==
    ASSUME NEW S, NEW s \in Seq(S), NEW wanted
    PROVE  /\ Kept(s, wanted) \in Seq(S)
           /\ ToSet(Kept(s, wanted)) = ToSet(s) \cap wanted
           /\ IsInjective(s) => IsInjective(Kept(s, wanted))
BY WithoutElements DEF Kept

\* A part of the directory has films of the directory, each once.
LEMMA PartOfFilms ==
    ASSUME NEW m \in Nat \ {0}, NEW n \in Nat, n <= Len(films)
    PROVE  /\ SubSeq(films, m, n) \in Seq(Films) /\ IsInjective(SubSeq(films, m, n))
           /\ \A x \in ToSet(SubSeq(films, m, n)) : \E i \in m .. n : x = films[i]
<1> DEFINE part == SubSeq(films, m, n)
<1>1. films \in Seq(Films) /\ DOMAIN films = 1 .. Len(films) /\ Len(films) \in Nat
  BY FilmConstantsOK
<1>2. \A i \in m .. n : films[i] \in Films /\ i \in DOMAIN films
  BY <1>1
<1>3. /\ part \in Seq(Films) /\ Len(part) = IF m <= n THEN n - m + 1 ELSE 0
      /\ \A i \in 1 .. n - m + 1 : part[i] = films[m + i - 1]
  BY <1>2, SubSeqProperties
<1>. HIDE DEF part
<1>4. \A i \in DOMAIN part : m + i - 1 \in m .. n /\ part[i] = films[m + i - 1] /\ i \in Nat
  BY <1>3
<1>5. IsInjective(part)
  <2>. SUFFICES ASSUME NEW i \in DOMAIN part, NEW k \in DOMAIN part, part[i] = part[k]
                PROVE  i = k
    BY DEF IsInjective
  <2>1. m + i - 1 = m + k - 1
    BY <1>2, <1>4, FilmConstantsOK DEF IsInjective
  <2>. QED  BY <1>4, <2>1
<1>. QED  BY <1>3, <1>4, <1>5 DEF part, ToSet

\* The films of a request are films of the directory, each once.
LEMMA OrderInjective ==
    ASSUME NEW f \in Films, NEW scope \in {"file", "onwards", "folder"}
    PROVE  Order(f, scope) \in Seq(Films) /\ IsInjective(Order(f, scope))
<1> DEFINE n == Len(films)
<1>1. films \in Seq(Films) /\ DOMAIN films = 1 .. n /\ n \in Nat
  BY FilmConstantsOK
<1>2. At(f) \in 1 .. n
  BY <1>1 DEF At, Films
<1>3. /\ SubSeq(films, At(f), n) \in Seq(Films) /\ IsInjective(SubSeq(films, At(f), n))
      /\ \A x \in ToSet(SubSeq(films, At(f), n)) : \E i \in At(f) .. n : x = films[i]
  BY <1>1, <1>2, PartOfFilms
<1>4. /\ SubSeq(films, 1, At(f) - 1) \in Seq(Films) /\ IsInjective(SubSeq(films, 1, At(f) - 1))
      /\ \A x \in ToSet(SubSeq(films, 1, At(f) - 1)) : \E i \in 1 .. At(f) - 1 : x = films[i]
  BY <1>1, <1>2, PartOfFilms
<1>5. ToSet(SubSeq(films, At(f), n)) \cap ToSet(SubSeq(films, 1, At(f) - 1)) = {}
  <2>. SUFFICES ASSUME NEW i \in At(f) .. n, NEW k \in 1 .. At(f) - 1, films[i] = films[k]
                PROVE  FALSE
    BY <1>3, <1>4
  <2>1. i \in DOMAIN films /\ k \in DOMAIN films /\ i # k
    BY <1>1, <1>2
  <2>. QED  BY <2>1, FilmConstantsOK DEF IsInjective
<1>6. CASE scope = "file"
  BY <1>6 DEF Order, IsInjective
<1>7. CASE scope = "onwards"
  BY <1>3, <1>7 DEF Order
<1>8. CASE scope = "folder"
  BY <1>3, <1>4, <1>5, <1>8, ConcatInjective DEF Order
<1>. QED  BY <1>6, <1>7, <1>8

-----------------------------------------------------------------------------
(* Film: the tracks of a film *)

LEMMA FolderTypes ==
    ASSUME folder \in Folders, NEW f \in Films
    PROVE  /\ folder.streams[f] \in Seq(Streams) /\ folder.sidecars \in Seq(Sidecars)
           /\ \A i, k \in DOMAIN folder.sidecars :
                  folder.sidecars[i].name = folder.sidecars[k].name => i = k
BY FoldersOK

\* What ffprobe has found, when it was asked.
LEMMA EmbeddedTracks ==
    ASSUME folder \in Folders, NEW f \in Films, NEW cache
    PROVE  /\ embedded(f, cache) \in Seq(Track)
           /\ f \in cache => embedded(f, cache) = embedded(f, Films)
           /\ f \notin cache => embedded(f, cache) = <<>>
           /\ \A i \in DOMAIN embedded(f, cache) : embedded(f, cache)[i].id = <<"embedded", i>>
<1> DEFINE s == folder.streams[f]
           Of(i) == [id |-> <<"embedded", i>>, lang |-> s[i].lang, hint |-> s[i].hint,
                     bitmap |-> s[i].bitmap, text |-> s[i].text]
<1>1. s \in Seq(Streams) /\ DOMAIN s = 1 .. Len(s) /\ Len(s) \in Nat
  BY FolderTypes
<1>2. ASSUME NEW i \in 1 .. Len(s) PROVE Of(i) \in Track
  <2>1. s[i] \in Streams /\ i \in Nat
    BY <1>1
  <2>2. <<"embedded", i>> \in Ids
    BY <2>1 DEF Ids
  <2>. QED  BY <2>1, <2>2 DEF Streams, Track
<1>3. embedded(f, cache) = IF f \in cache THEN [i \in 1 .. Len(s) |-> Of(i)] ELSE <<>>
  BY <1>1 DEF embedded
<1>4. embedded(f, Films) = [i \in 1 .. Len(s) |-> Of(i)]
  BY <1>1 DEF embedded
<1>5. \A i \in 1 .. Len(s) : Of(i).id = <<"embedded", i>>
  OBVIOUS
<1>. HIDE DEF s, Of
<1>6. [i \in 1 .. Len(s) |-> Of(i)] \in Seq(Track)
  BY <1>1, <1>2
<1>. QED  BY <1>1, <1>3, <1>4, <1>5, <1>6

\* A sidecar of the folder, as a track.
LEMMA BesideTrack ==
    ASSUME folder \in Folders, NEW f \in Films, NEW s \in Sidecars
    PROVE  Beside(s, f) \in Track /\ Beside(s, f).id = <<"sidecar", s.name>>
<1>1. Lang(s, f) \in STRING \cup {"kor"}
  BY DEF Lang, Sidecars
<1>2. <<"sidecar", s.name>> \in Ids
  BY DEF Ids, Sidecars
<1>. QED  BY <1>1, <1>2 DEF Beside, Track, Sidecars

LEMMA CollectedTracks ==
    ASSUME folder \in Folders, NEW f \in Films, NEW place
    PROVE  /\ collect(f, place) \in Seq(Track)
           /\ \A t \in ToSet(collect(f, place)) : \E i \in DOMAIN folder.sidecars :
                  t = Beside(folder.sidecars[i], f)
<1> DEFINE wanted == {s \in ToSet(folder.sidecars) :
                         s.place = place /\ (place = "dir" => f \in s.named)}
           in == Kept(folder.sidecars, wanted)
<1>1. folder.sidecars \in Seq(Sidecars)
  BY FolderTypes
<1>2. in \in Seq(Sidecars) /\ ToSet(in) \subseteq ToSet(folder.sidecars)
  BY <1>1, KeptElements
<1>3. collect(f, place) = [i \in DOMAIN in |-> Beside(in[i], f)]
  BY DEF collect
<1>. HIDE DEF in
<1>4. DOMAIN in = 1 .. Len(in) /\ Len(in) \in Nat /\ \A i \in DOMAIN in : in[i] \in Sidecars
  BY <1>2
<1>5. \A i \in DOMAIN in : Beside(in[i], f) \in Track
  BY <1>4, BesideTrack
<1>6. [i \in 1 .. Len(in) |-> Beside(in[i], f)] \in Seq(Track)
  BY <1>4, <1>5
<1>7. ASSUME NEW t \in ToSet(collect(f, place))
      PROVE  \E i \in DOMAIN folder.sidecars : t = Beside(folder.sidecars[i], f)
  <2>1. PICK k \in DOMAIN in : t = Beside(in[k], f)
    BY <1>3, <1>7 DEF ToSet
  <2>2. in[k] \in ToSet(folder.sidecars)
    BY <1>2 DEF ToSet
  <2>. QED  BY <2>1, <2>2 DEF ToSet
<1>. QED  BY <1>3, <1>4, <1>6, <1>7

LEMMA SidecarTracks ==
    ASSUME folder \in Folders, NEW f \in Films
    PROVE  /\ sidecars(f) \in Seq(Track)
           /\ \A t \in ToSet(sidecars(f)) : \E i \in DOMAIN folder.sidecars :
                  t = Beside(folder.sidecars[i], f)
<1> DEFINE a == collect(f, "dir")
           b == collect(f, "Subs")
           c == collect(f, f)
           ab == a \o b
<1>1. a \in Seq(Track) /\ b \in Seq(Track) /\ c \in Seq(Track)
  BY CollectedTracks
<1>2. \A t \in ToSet(a) \cup ToSet(b) \cup ToSet(c) : \E i \in DOMAIN folder.sidecars :
          t = Beside(folder.sidecars[i], f)
  BY CollectedTracks
<1>3. sidecars(f) = ab \o c
  BY DEF sidecars
<1>. HIDE DEF a, b, c
<1>4. ab \in Seq(Track) /\ ToSet(ab) = ToSet(a) \cup ToSet(b)
  BY <1>1, ConcatElements
<1>. HIDE DEF ab
<1>5. ab \o c \in Seq(Track) /\ ToSet(ab \o c) = ToSet(ab) \cup ToSet(c)
  BY <1>1, <1>4, ConcatElements
<1>. QED  BY <1>2, <1>3, <1>4, <1>5

\* A film that has been probed has all its tracks, another one only those beside it.
LEMMA FoundTracks ==
    ASSUME folder \in Folders, NEW f \in Films, NEW cache
    PROVE  /\ Find(f, cache) \in Seq(Track)
           /\ f \in cache => Find(f, cache) = Find(f, Films)
           /\ ToSet(Find(f, cache)) = ToSet(embedded(f, cache)) \cup ToSet(sidecars(f))
           /\ ToSet(Find(f, cache)) \subseteq ToSet(Find(f, Films))
<1>1. ASSUME NEW known
      PROVE  /\ Find(f, known) \in Seq(Track)
             /\ ToSet(Find(f, known)) = ToSet(embedded(f, known)) \cup ToSet(sidecars(f))
  <2>1. embedded(f, known) \in Seq(Track) /\ sidecars(f) \in Seq(Track)
    BY EmbeddedTracks, SidecarTracks
  <2>. QED  BY <2>1, ConcatElements DEF Find
<1>2. f \in cache => embedded(f, cache) = embedded(f, Films)
  BY EmbeddedTracks
<1>3. f \notin cache => ToSet(embedded(f, cache)) = {}
  BY EmbeddedTracks DEF ToSet
<1>. QED  BY <1>1, <1>2, <1>3 DEF Find

\* No two tracks of a film have one name.
LEMMA UniqueIds ==
    ASSUME folder \in Folders, NEW f \in Films, NEW t \in ToSet(Find(f, Films)),
           NEW u \in ToSet(Find(f, Films)), t.id = u.id
    PROVE  t = u
<1>1. ToSet(Find(f, Films)) = ToSet(embedded(f, Films)) \cup ToSet(sidecars(f))
  BY FoundTracks
<1>2. ASSUME NEW v \in ToSet(embedded(f, Films))
      PROVE  \E i \in DOMAIN embedded(f, Films) :
                 v = embedded(f, Films)[i] /\ v.id = <<"embedded", i>>
  BY <1>2, EmbeddedTracks DEF ToSet
<1>3. ASSUME NEW v \in ToSet(sidecars(f))
      PROVE  \E i \in DOMAIN folder.sidecars :
                 /\ v = Beside(folder.sidecars[i], f)
                 /\ v.id = <<"sidecar", folder.sidecars[i].name>>
  <2>1. PICK i \in DOMAIN folder.sidecars : v = Beside(folder.sidecars[i], f)
    BY SidecarTracks
  <2>2. folder.sidecars[i] \in Sidecars
    BY FolderTypes
  <2>. QED  BY <2>1, <2>2, BesideTrack
<1>4. CASE t \in ToSet(embedded(f, Films)) /\ u \in ToSet(embedded(f, Films))
  BY <1>2, <1>4
<1>5. CASE t \in ToSet(sidecars(f)) /\ u \in ToSet(sidecars(f))
  <2>1. PICK i \in DOMAIN folder.sidecars : /\ t = Beside(folder.sidecars[i], f)
                                            /\ t.id = <<"sidecar", folder.sidecars[i].name>>
    BY <1>3, <1>5
  <2>2. PICK k \in DOMAIN folder.sidecars : /\ u = Beside(folder.sidecars[k], f)
                                            /\ u.id = <<"sidecar", folder.sidecars[k].name>>
    BY <1>3, <1>5
  <2>. QED  BY <2>1, <2>2, FolderTypes
<1>6. CASE t \in ToSet(embedded(f, Films)) /\ u \in ToSet(sidecars(f))
  BY <1>2, <1>3, <1>6
<1>7. CASE t \in ToSet(sidecars(f)) /\ u \in ToSet(embedded(f, Films))
  BY <1>2, <1>3, <1>7
<1>. QED  BY <1>1, <1>4, <1>5, <1>6, <1>7

\* The first of these is one of them, if there are any.
LEMMA FirstIs ==
    ASSUME NEW tracks \in Seq(Track), NEW these
    PROVE  \/ First(tracks, these) = NoTrack /\ ToSet(tracks) \cap these = {}
           \/ First(tracks, these) # NoTrack /\ First(tracks, these) \in ToSet(tracks) \cap these
<1> DEFINE found == {i \in DOMAIN tracks : tracks[i] \in these}
           Comes(i, k) == \/ Rank(tracks[i]) < Rank(tracks[k])
                          \/ Rank(tracks[i]) = Rank(tracks[k]) /\ i <= k
<1>1. First(tracks, these) = IF found = {} THEN NoTrack
                             ELSE tracks[CHOOSE i \in found : \A k \in found : Comes(i, k)]
  BY DEF First
<1>2. CASE found = {}
  BY <1>1, <1>2 DEF ToSet
<1>3. CASE found # {}
  <2> DEFINE ranks == {Rank(tracks[i]) : i \in found}
  <2>0. found \subseteq Nat /\ \A i \in found : i \in DOMAIN tracks /\ tracks[i] \in these
    OBVIOUS
  <2>1. ranks \subseteq Nat /\ ranks # {}
    BY <1>3 DEF Rank
  <2>2. PICK r \in ranks : \A q \in ranks : r <= q
    BY <2>1, LeastNumber
  <2>3. \A i \in found : Rank(tracks[i]) \in ranks
    OBVIOUS
  <2> DEFINE best == {i \in found : Rank(tracks[i]) = r}
  <2>4. best # {} /\ best \subseteq Nat
    BY <2>0
  <2>5. PICK i \in best : \A k \in best : i <= k
    BY <2>4, LeastNumber
  <2>6. i \in found /\ \A k \in found : Comes(i, k)
    <3>. SUFFICES ASSUME NEW k \in found PROVE Comes(i, k)
      BY <2>5
    <3>1. Rank(tracks[i]) = r /\ r <= Rank(tracks[k]) /\ r \in Nat /\ Rank(tracks[k]) \in Nat
      BY <2>1, <2>2, <2>3, <2>5
    <3>2. Rank(tracks[k]) = r => i <= k
      BY <2>5
    <3>. QED  BY <3>1, <3>2
  <2>. HIDE DEF Comes, found
  <2>7. (CHOOSE j \in found : \A k \in found : Comes(j, k)) \in found
    BY <2>6
  <2>8. First(tracks, these) \in ToSet(tracks) \cap these
    BY <1>1, <1>3, <2>0, <2>7 DEF ToSet
  <2>9. \A t \in ToSet(tracks) : t # NoTrack
    BY FilmConstantsOK DEF ToSet
  <2>. QED  BY <2>8, <2>9
<1>. QED  BY <1>2, <1>3

-----------------------------------------------------------------------------
(* Film: the inductive invariant *)

Langs == STRING \cup {"kor", ""}
Jobs  == [film : Films, batch : Nat, first : BOOLEAN, preferred : Ids \cup {NoTrack}]
Batch == [picked : Ids \cup {NoTrack}, burn : BOOLEAN, film : Films, lang : Langs, seen : Langs]

FilmScalars ==
    /\ folder \in Folders /\ probed \subseteq Films /\ saved \subseteq Films
    /\ restarts \in 0 .. MaxRestarts /\ made = [f \in Films |-> made[f]]

\* A page offers tracks its film has.
PageRight == page # NoPage => \E f \in Films :
    /\ page.film = f /\ page.tracks \in Seq(Track)
    /\ ToSet(page.tracks) \subseteq ToSet(Find(f, Films))

\* What was picked is a track of the film of the page, and was shown in the language it has.
PickedFrom(b, tracks) == b.picked # NoTrack =>
    \E t \in ToSet(tracks) : t.id = b.picked /\ Burnable(t) /\ b.seen = Language(t)

BatchesRight ==
    /\ batches \in Seq(Batch) /\ Len(batches) <= MaxBatches
    /\ \A b \in DOMAIN batches : \E f \in Films :
           batches[b].film = f /\ PickedFrom(batches[b], Find(f, Films))

\* Each film waits once.
OnceEach(jobs) == \A i, k \in DOMAIN jobs : jobs[i].film = jobs[k].film => i = k

\* A job has the track that was picked when it is the first of its batch.
OfBatch(j, bs) ==
    j.batch \in DOMAIN bs /\ j.preferred = IF j.first THEN bs[j.batch].picked ELSE NoTrack

\* What waits in a queue does not run.
Waits(j, bs, now) == OfBatch(j, bs) /\ (now # NoJob => now.film # j.film)

QueueRight ==
    /\ pending \in Seq(Jobs) /\ OnceEach(pending)
    /\ \A i \in DOMAIN pending : Waits(pending[i], batches, running)

WellMade(m) == m.film \in Films /\ m.batch \in DOMAIN batches /\ AsAsked(m)

RunRight == running # NoJob => \E m : m = running /\ WellMade(m)

MadeRight ==
    \A f \in Films : made[f] # NotMade => \E m : m = made[f] /\ m.film = f /\ WellMade(m)

TodoRight == /\ DOMAIN todo \subseteq DOMAIN batches
             /\ \A b \in DOMAIN todo : todo[b] \in Seq(Films) /\ IsInjective(todo[b])

FilmInv ==
    /\ FilmScalars /\ PageRight /\ BatchesRight /\ QueueRight /\ RunRight /\ MadeRight /\ TodoRight

-----------------------------------------------------------------------------
(* Film: what steps have in common *)

\* The folder stays, and so do the options of a batch.
Grown ==
    /\ folder' = folder /\ DOMAIN batches \subseteq DOMAIN batches'
    /\ \A b \in DOMAIN batches : batches'[b] = batches[b]

LEMMA FoundStays ==
    ASSUME folder' = folder, NEW f, NEW cache
    PROVE  Find(f, cache)' = Find(f, cache)
BY DEF Find, embedded, sidecars, collect

LEMMA WellMadeStays ==
    ASSUME Grown, NEW m, WellMade(m)
    PROVE  WellMade(m)'
<1>1. Find(m.film, Films)' = Find(m.film, Films)
  BY FoundStays DEF Grown
<1>2. m.batch \in DOMAIN batches /\ m.batch \in DOMAIN batches' /\ batches'[m.batch] = batches[m.batch]
  BY DEF WellMade, Grown
<1>. QED  BY <1>1, <1>2 DEF WellMade, AsAsked, Asked, Straight

LEMMA OfBatchStays ==
    ASSUME Grown, NEW j, OfBatch(j, batches)
    PROVE  OfBatch(j, batches')
BY DEF Grown, OfBatch

LEMMA GrownStep ==
    ASSUME BatchesRight, [FilmNext]_filmVars
    PROVE  Grown
<1>1. ASSUME NEW picked, NEW scope, NEW burn, handleConvert(picked, scope, burn)
      PROVE  Grown
  <2>1. folder' = folder /\ \E b : batches' = Append(batches, b)
    BY <1>1 DEF handleConvert
  <2>2. PICK b : batches' = Append(batches, b)
    BY <2>1
  <2>3. batches \in Seq(Batch \cup {b})
    BY DEF BatchesRight
  <2>4. DOMAIN batches' = 1 .. Len(batches) + 1 /\ \A i \in 1 .. Len(batches) : batches'[i] = batches[i]
    BY <2>2, <2>3, AppendProperties
  <2>5. DOMAIN batches = 1 .. Len(batches) /\ Len(batches) \in Nat
    BY <2>3
  <2>. QED  BY <2>1, <2>4, <2>5 DEF Grown
<1>2. ASSUME NEW f, handleWatch(f) PROVE Grown
  BY <1>2 DEF handleWatch, Grown
<1>3. CASE RunStart \/ RunPlanFail \/ RunDone \/ RunFail
  BY <1>3 DEF RunStart, RunPlanFail, RunDone, RunFail, Grown
<1>4. CASE FlushProbes \/ Restart \/ (\E b \in DOMAIN todo : RestoreBatch(b))
  BY <1>4 DEF FlushProbes, Restart, RestoreBatch, Grown
<1>5. CASE UNCHANGED filmVars
  BY <1>5 DEF filmVars, Grown
<1>. QED  BY <1>1, <1>2, <1>3, <1>4, <1>5 DEF FilmNext

\* The jobs of a batch that Enqueue makes.
LEMMA CreatedJobs ==
    ASSUME NEW b \in Nat, NEW fs \in Seq(Films), IsInjective(fs), NEW busy,
           NEW picked \in Ids \cup {NoTrack}
    PROVE  LET jobs == Created(b, fs, busy, picked) IN
           /\ jobs \in Seq(Jobs) /\ OnceEach(jobs)
           /\ \A i \in DOMAIN jobs :
                  /\ jobs[i].film \in Films \ busy /\ jobs[i].batch = b
                  /\ jobs[i].preferred = IF jobs[i].first THEN picked ELSE NoTrack
<1> DEFINE wanted == {f \in Films \ busy : ~Converted(f)}
           new == Kept(fs, wanted)
           Job(i) == [film |-> new[i], batch |-> b, first |-> i = 1,
                      preferred |-> IF i = 1 THEN picked ELSE NoTrack]
<1>1. new \in Seq(Films) /\ IsInjective(new) /\ ToSet(new) \subseteq wanted
  BY KeptElements
<1>2. Created(b, fs, busy, picked) = [i \in DOMAIN new |-> Job(i)]
  BY DEF Created, Handed
<1>3. \A i \in DOMAIN new : new[i] \in Films \ busy
  BY <1>1 DEF ToSet
<1>. HIDE DEF new
<1>4. DOMAIN new = 1 .. Len(new) /\ Len(new) \in Nat
  BY <1>1
<1>5. \A i \in DOMAIN new : Job(i) \in Jobs
  <2>. SUFFICES ASSUME NEW i \in DOMAIN new PROVE Job(i) \in Jobs
    OBVIOUS
  <2>1. new[i] \in Films /\ (i = 1) \in BOOLEAN
    BY <1>3
  <2>2. (IF i = 1 THEN picked ELSE NoTrack) \in Ids \cup {NoTrack}
    OBVIOUS
  <2>. QED  BY <2>1, <2>2 DEF Jobs
<1>6. [i \in 1 .. Len(new) |-> Job(i)] \in Seq(Jobs)
  BY <1>4, <1>5
<1>7. \A i \in DOMAIN new : Job(i).film = new[i] /\ Job(i).batch = b
                            /\ Job(i).preferred = IF Job(i).first THEN picked ELSE NoTrack
  OBVIOUS
<1>. HIDE DEF Job
<1>8. OnceEach([i \in 1 .. Len(new) |-> Job(i)])
  BY <1>1, <1>4, <1>7 DEF OnceEach, IsInjective
<1>. QED  BY <1>2, <1>3, <1>4, <1>6, <1>7, <1>8

-----------------------------------------------------------------------------
(* Film: the queue *)

\* Enqueue puts its jobs at the end of the queue: films that neither wait there nor run.
LEMMA QueueGrows ==
    ASSUME QueueRight, Grown, running' \in {running, NoJob},
           NEW b \in DOMAIN batches', b \in Nat, batches'[b].picked \in Ids \cup {NoTrack},
           NEW fs \in Seq(Films), IsInjective(fs),
           pending' = pending \o Created(b, fs, Busy(running'), batches'[b].picked)
    PROVE  QueueRight'
<1> DEFINE n == Len(pending)
<1>0. PICK busy : busy = Busy(running')
  OBVIOUS
<1>1. PICK c : c = Created(b, fs, busy, batches'[b].picked)
  OBVIOUS
<1>2. /\ c \in Seq(Jobs) /\ OnceEach(c)
      /\ \A i \in DOMAIN c :
             /\ c[i].film \in Films \ busy /\ c[i].batch = b
             /\ c[i].preferred = IF c[i].first THEN batches'[b].picked ELSE NoTrack
  BY <1>1, CreatedJobs
<1>3. /\ pending \in Seq(Jobs) /\ OnceEach(pending) /\ n \in Nat /\ DOMAIN pending = 1 .. n
      /\ Len(c) \in Nat /\ DOMAIN c = 1 .. Len(c)
  BY <1>2 DEF QueueRight
<1>4. /\ pending' \in Seq(Jobs) /\ DOMAIN pending' = 1 .. n + Len(c)
      /\ \A i \in 1 .. n + Len(c) : pending'[i] = IF i <= n THEN pending[i] ELSE c[i - n]
  <2>1. pending' = pending \o c
    BY <1>0, <1>1
  <2>2. pending \o c \in Seq(Jobs) /\ Len(pending \o c) = n + Len(c)
        /\ \A i \in 1 .. n + Len(c) : (pending \o c)[i] = IF i <= n THEN pending[i] ELSE c[i - n]
    BY <1>2, <1>3, ConcatProperties
  <2>. QED  BY <1>3, <2>1, <2>2
<1>5. \A i \in DOMAIN pending' : IF i <= n THEN i \in DOMAIN pending /\ pending'[i] = pending[i]
                                 ELSE i - n \in DOMAIN c /\ pending'[i] = c[i - n]
  BY <1>3, <1>4
<1>6. /\ \A i \in DOMAIN pending : pending[i].film \in busy
      /\ running' # NoJob => running'.film \in busy
  BY <1>0 DEF Busy
<1>7. ASSUME NEW i \in DOMAIN pending'
      PROVE  Waits(pending'[i], batches', running')
  <2>1. CASE i <= n
    <3>1. i \in DOMAIN pending /\ pending'[i] = pending[i]
      BY <1>5, <2>1
    <3>2. Waits(pending[i], batches, running)
      BY <3>1 DEF QueueRight
    <3>3. OfBatch(pending[i], batches')
      BY <3>2, OfBatchStays DEF Waits
    <3>. QED  BY <3>1, <3>2, <3>3 DEF Waits
  <2>2. CASE ~(i <= n)
    <3>1. i - n \in DOMAIN c /\ pending'[i] = c[i - n]
      BY <1>5, <2>2
    <3>2. OfBatch(c[i - n], batches')
      BY <1>2, <3>1 DEF OfBatch
    <3>. QED  BY <1>2, <1>6, <3>1, <3>2 DEF Waits
  <2>. QED  BY <2>1, <2>2
<1>8. OnceEach(pending')
  <2>. SUFFICES ASSUME NEW i \in DOMAIN pending', NEW k \in DOMAIN pending',
                       pending'[i].film = pending'[k].film
                PROVE  i = k
    BY DEF OnceEach
  <2>0. i \in Nat /\ k \in Nat
    BY <1>4
  <2>1. CASE i <= n /\ k <= n
    BY <1>3, <1>5, <2>1 DEF OnceEach
  <2>2. CASE ~(i <= n) /\ ~(k <= n)
    <3>1. i - n = k - n
      BY <1>2, <1>5, <2>2 DEF OnceEach
    <3>. QED  BY <1>3, <2>0, <3>1
  <2>3. CASE i <= n /\ ~(k <= n)
    BY <1>2, <1>5, <1>6, <2>3
  <2>4. CASE ~(i <= n) /\ k <= n
    BY <1>2, <1>5, <1>6, <2>4
  <2>. QED  BY <2>1, <2>2, <2>3, <2>4
<1>. QED  BY <1>4, <1>7, <1>8 DEF QueueRight

\* A job that waits is picked.
LEMMA PickedOne ==
    ASSUME QueueRight, pending # <<>>
    PROVE  pickLocked \in 1 .. Len(pending)
<1> DEFINE copies == {i \in DOMAIN pending : copyOnly(pending[i])}
<1>1. DOMAIN pending = 1 .. Len(pending) /\ Len(pending) \in Nat /\ Len(pending) > 0
  BY DEF QueueRight
<1>2. pickLocked = IF copies = {} THEN 1 ELSE CHOOSE i \in copies : \A k \in copies : i <= k
  BY DEF pickLocked
<1>3. copies \subseteq 1 .. Len(pending) /\ copies \subseteq Nat
  BY <1>1
<1>. HIDE DEF copies
<1>4. CASE copies = {}
  BY <1>1, <1>2, <1>4
<1>5. CASE copies # {}
  <2>1. \E i \in copies : \A k \in copies : i <= k
    BY <1>3, <1>5, LeastNumber
  <2>2. (CHOOSE i \in copies : \A k \in copies : i <= k) \in copies
    BY <2>1
  <2>. QED  BY <1>2, <1>3, <1>5, <2>2
<1>. QED  BY <1>4, <1>5

\* The job that is picked leaves the queue; what is left does not have its film.
LEMMA PickedAndRest ==
    ASSUME QueueRight, pending # <<>>, NEW rest, rest = RemoveAt(pending, pickLocked)
    PROVE  /\ Picked \in Jobs /\ Waits(Picked, batches, running)
           /\ rest \in Seq(Jobs) /\ OnceEach(rest)
           /\ \A i \in DOMAIN rest : /\ \E k \in DOMAIN pending : rest[i] = pending[k]
                                     /\ rest[i].film # Picked.film
<1> DEFINE n == Len(pending)
           place(i, at) == IF i < at THEN i ELSE i + 1
<1>1. /\ pending \in Seq(Jobs) /\ OnceEach(pending) /\ DOMAIN pending = 1 .. n
      /\ n \in Nat /\ n > 0
  BY DEF QueueRight
<1>2. PICK at \in 1 .. n : at = pickLocked
  BY PickedOne
<1>3. /\ rest \in Seq(Jobs) /\ Len(rest) = n - 1
      /\ \A i \in 1 .. n - 1 : rest[i] = IF i < at THEN pending[i] ELSE pending[i + 1]
  BY <1>1, <1>2, RemoveAtShifts
<1>4. DOMAIN rest = 1 .. n - 1
  BY <1>3
<1>5. \A i \in 1 .. n - 1 : /\ rest[i] = pending[place(i, at)]
                            /\ place(i, at) \in 1 .. n /\ place(i, at) # at
  BY <1>1, <1>2, <1>3
<1>6. \A i, k \in 1 .. n - 1 : place(i, at) = place(k, at) => i = k
  BY <1>1, <1>2
<1>. HIDE DEF place
<1>7. OnceEach(rest)
  BY <1>1, <1>4, <1>5, <1>6 DEF OnceEach
<1>8. Picked = pending[at] /\ Picked \in Jobs /\ Waits(Picked, batches, running)
  BY <1>1, <1>2 DEF Picked, QueueRight
<1>9. \A i \in DOMAIN rest : rest[i].film # Picked.film
  BY <1>1, <1>2, <1>4, <1>5, <1>8 DEF OnceEach
<1>. QED  BY <1>1, <1>3, <1>4, <1>5, <1>7, <1>8, <1>9

\* So the rest of the queue is as it was.
LEMMA RestRight ==
    ASSUME QueueRight, pending # <<>>, pending' = RemoveAt(pending, pickLocked), Grown,
           running' # NoJob => running'.film = Picked.film
    PROVE  QueueRight'
<1>1. /\ pending' \in Seq(Jobs) /\ OnceEach(pending')
      /\ \A i \in DOMAIN pending' : /\ \E k \in DOMAIN pending : pending'[i] = pending[k]
                                    /\ pending'[i].film # Picked.film
  BY PickedAndRest
<1>2. ASSUME NEW i \in DOMAIN pending'
      PROVE  Waits(pending'[i], batches', running')
  <2>1. Waits(pending'[i], batches, running)
    BY <1>1 DEF QueueRight
  <2>2. OfBatch(pending'[i], batches')
    BY <2>1, OfBatchStays DEF Waits
  <2>. QED  BY <1>1, <2>1, <2>2 DEF Waits
<1>. QED  BY <1>1, <1>2 DEF QueueRight

\* The films of a batch that run or wait, each once.
LEMMA OutstandingOnce ==
    ASSUME QueueRight, RunRight, NEW b
    PROVE  Outstanding(b) \in Seq(Films) /\ IsInjective(Outstanding(b))
<1> DEFINE of == {j \in ToSet(pending) : j.batch = b}
           waiting == Kept(pending, of)
           titles == [i \in DOMAIN waiting |-> waiting[i].film]
           first == IF running # NoJob /\ running.batch = b THEN <<running.film>> ELSE <<>>
<1>1. pending \in Seq(Jobs) /\ OnceEach(pending)
  BY DEF QueueRight
<1>2. IsInjective(pending)
  BY <1>1 DEF OnceEach, IsInjective
<1>3. waiting \in Seq(Jobs) /\ ToSet(waiting) \subseteq ToSet(pending) /\ IsInjective(waiting)
  BY <1>1, <1>2, KeptElements
<1>4. Outstanding(b) = first \o titles
  BY DEF Outstanding
<1>. HIDE DEF waiting
<1>5. DOMAIN waiting = 1 .. Len(waiting) /\ Len(waiting) \in Nat
      /\ \A i \in DOMAIN waiting : waiting[i] \in Jobs
  BY <1>3
<1>6. titles \in Seq(Films) /\ DOMAIN titles = DOMAIN waiting
  <2>1. \A i \in DOMAIN waiting : waiting[i].film \in Films
    BY <1>5 DEF Jobs
  <2>. QED  BY <1>5, <2>1
<1>7. \A i \in DOMAIN waiting : \E k \in DOMAIN pending : waiting[i] = pending[k]
  BY <1>3 DEF ToSet
<1>8. IsInjective(titles)
  <2>. SUFFICES ASSUME NEW i \in DOMAIN waiting, NEW k \in DOMAIN waiting,
                       waiting[i].film = waiting[k].film
                PROVE  i = k
    BY DEF IsInjective
  <2>1. waiting[i] = waiting[k]
    BY <1>1, <1>7 DEF OnceEach
  <2>. QED  BY <1>3, <2>1 DEF IsInjective
<1>9. first \in Seq(Films) /\ IsInjective(first)
      /\ \A x \in ToSet(first) : running # NoJob /\ x = running.film
  <2>1. CASE running # NoJob /\ running.batch = b
    <3>1. first = <<running.film>> /\ running.film \in Films
      BY <2>1 DEF RunRight, WellMade
    <3>. HIDE DEF first
    <3>. QED  BY <2>1, <3>1 DEF IsInjective, ToSet
  <2>2. CASE ~(running # NoJob /\ running.batch = b)
    <3>1. first = <<>>
      BY <2>2
    <3>. HIDE DEF first
    <3>. QED  BY <3>1 DEF IsInjective, ToSet
  <2>. QED  BY <2>1, <2>2
<1>10. ToSet(first) \cap ToSet(titles) = {}
  <2>. SUFFICES ASSUME NEW i \in DOMAIN waiting, running # NoJob, waiting[i].film = running.film
                PROVE  FALSE
    BY <1>6, <1>9 DEF ToSet
  <2>. QED  BY <1>7 DEF QueueRight, Waits
<1>. HIDE DEF first, titles
<1>. QED  BY <1>4, <1>6, <1>8, <1>9, <1>10, ConcatInjective

-----------------------------------------------------------------------------
(* Film: what a step leaves alone *)

LEMMA PageStays ==
    ASSUME PageRight, Grown, page' \in {page, NoPage}
    PROVE  PageRight'
BY FoundStays DEF PageRight, Grown

LEMMA BatchesStay ==
    ASSUME BatchesRight, Grown, batches' = batches
    PROVE  BatchesRight'
BY FoundStays DEF BatchesRight, Grown

LEMMA QueueStays ==
    ASSUME QueueRight, Grown, pending' = pending, running' \in {running, NoJob}
    PROVE  QueueRight'
<1>1. ASSUME NEW i \in DOMAIN pending
      PROVE  Waits(pending[i], batches', running')
  <2>1. Waits(pending[i], batches, running)
    BY DEF QueueRight
  <2>2. OfBatch(pending[i], batches')
    BY <2>1, OfBatchStays DEF Waits
  <2>. QED  BY <2>1, <2>2 DEF Waits
<1>. QED  BY <1>1 DEF QueueRight

LEMMA RunStays ==
    ASSUME RunRight, Grown, running' \in {running, NoJob}
    PROVE  RunRight'
<1>1. CASE running' = NoJob
  BY <1>1 DEF RunRight
<1>2. CASE running' = running /\ running # NoJob
  <2>1. PICK m : m = running /\ WellMade(m)
    BY <1>2 DEF RunRight
  <2>2. WellMade(m)'
    BY <2>1, WellMadeStays
  <2>. QED  BY <1>2, <2>1, <2>2 DEF RunRight
<1>. QED  BY <1>1, <1>2

LEMMA MadeStays ==
    ASSUME MadeRight, Grown, made' = made
    PROVE  MadeRight'
<1>1. ASSUME NEW f \in Films, made'[f] # NotMade
      PROVE  \E m : m = made'[f] /\ m.film = f /\ WellMade(m)'
  <2>1. PICK m : m = made[f] /\ m.film = f /\ WellMade(m)
    BY <1>1 DEF MadeRight
  <2>2. WellMade(m)'
    BY <2>1, WellMadeStays
  <2>. QED  BY <2>1, <2>2
<1>. QED  BY <1>1 DEF MadeRight

\* A conversion that ends, in the midst of another step too, leaves a film that is as was asked.
LEMMA EndsRight ==
    ASSUME FilmInv, Grown, Overlooks
    PROVE  /\ running' \in {running, NoJob} /\ made' = [f \in Films |-> made'[f]]
           /\ RunRight' /\ MadeRight'
<1>1. CASE UNCHANGED <<running, made>>
  BY <1>1, RunStays, MadeStays DEF FilmInv, FilmScalars
<1>2. CASE Ends
  <2>1. PICK m : m = running /\ WellMade(m)
    BY <1>2 DEF FilmInv, RunRight, Ends
  <2>2. WellMade(m)' /\ m.film \in Films
    BY <2>1, WellMadeStays DEF WellMade
  <2>3. made' = [made EXCEPT ![m.film] = m] /\ made = [f \in Films |-> made[f]] /\ running' = NoJob
    BY <1>2, <2>1 DEF Ends, FilmInv, FilmScalars
  <2>4. /\ made' = [f \in Films |-> made'[f]]
        /\ \A f \in Films : made'[f] = IF f = m.film THEN m ELSE made[f]
    BY <2>2, <2>3
  <2>5. ASSUME NEW f \in Films, made'[f] # NotMade
        PROVE  \E k : k = made'[f] /\ k.film = f /\ WellMade(k)'
    <3>1. CASE f = m.film
      BY <2>2, <2>4, <3>1
    <3>2. CASE f # m.film
      <4>1. made'[f] = made[f]
        BY <2>4, <3>2
      <4>2. PICK k : k = made[f] /\ k.film = f /\ WellMade(k)
        BY <2>5, <4>1 DEF FilmInv, MadeRight
      <4>3. WellMade(k)'
        BY <4>2, WellMadeStays
      <4>. QED  BY <4>1, <4>2, <4>3
    <3>. QED  BY <3>1, <3>2
  <2>. QED  BY <2>3, <2>4, <2>5 DEF MadeRight, RunRight
<1>. QED  BY <1>1, <1>2 DEF Overlooks

LEMMA TodoStays ==
    ASSUME TodoRight, Grown, todo' = todo
    PROVE  TodoRight'
BY DEF TodoRight, Grown

-----------------------------------------------------------------------------
(* Film: the page and the form *)

\* A track is found by its name when it is there.
LEMMA FoundByID ==
    ASSUME NEW tracks \in Seq(Track), NEW id
    PROVE  \/ FindByID(tracks, id) = NoTrack /\ \A t \in ToSet(tracks) : t.id # id
           \/ /\ FindByID(tracks, id) # NoTrack
              /\ FindByID(tracks, id) \in ToSet(tracks) /\ FindByID(tracks, id).id = id
<1> DEFINE these == {t \in ToSet(tracks) : t.id = id}
<1>1. \/ First(tracks, these) = NoTrack /\ ToSet(tracks) \cap these = {}
      \/ First(tracks, these) # NoTrack /\ First(tracks, these) \in ToSet(tracks) \cap these
  BY FirstIs
<1>2. FindByID(tracks, id) = First(tracks, these)
  BY DEF FindByID
<1>. QED  BY <1>1, <1>2

LEMMA ElementType ==
    ASSUME NEW S, NEW s \in Seq(S), NEW x \in ToSet(s)
    PROVE  x \in S
BY DEF ToSet

LEMMA LanguageType ==
    ASSUME NEW tracks \in Seq(Track), NEW id
    PROVE  LanguageOf(tracks, id) \in Langs
<1>1. PICK t : t = FindByID(tracks, id)
  OBVIOUS
<1>2. t = NoTrack \/ t \in Track
  BY <1>1, FoundByID, ElementType
<1>. QED  BY <1>1, <1>2 DEF LanguageOf, Language, Langs, Track

\* A page shows what its film has, whether the film is known to the prober or not.
LEMMA WatchKeeps ==
    ASSUME FilmInv, NEW f \in Films, handleWatch(f)
    PROVE  FilmInv'
<1>1. Grown
  BY DEF handleWatch, Grown
<1>2. PageRight'
  <2>1. PICK cache : cache = probed'
    OBVIOUS
  <2>2. page' = [film |-> f, tracks |-> Find(f, cache)]
    BY <2>1 DEF handleWatch
  <2>3. Find(f, cache) \in Seq(Track) /\ ToSet(Find(f, cache)) \subseteq ToSet(Find(f, Films))
    BY FoundTracks DEF FilmInv, FilmScalars
  <2>4. Find(f, Films)' = Find(f, Films)
    BY <1>1, FoundStays DEF Grown
  <2>. QED  BY <2>2, <2>3, <2>4 DEF PageRight
<1>3. FilmScalars'
  BY DEF FilmInv, FilmScalars, handleWatch
<1>. QED  BY <1>1, <1>2, <1>3, BatchesStay, QueueStays, RunStays, MadeStays, TodoStays
          DEF FilmInv, handleWatch

\* The options a form makes: what was picked is a track of the film, in the language it has.
LEMMA OptionsRight ==
    ASSUME FilmScalars, PageRight, page # NoPage, NEW picked \in Offers, NEW burn \in BOOLEAN,
           NEW b, b = [picked |-> picked, burn |-> burn, film |-> page.film,
                       lang |-> LanguageOf(Find(page.film, probed), picked),
                       seen |-> LanguageOf(page.tracks, picked)]
    PROVE  /\ b \in Batch
           /\ \E f \in Films : b.film = f /\ PickedFrom(b, Find(f, Films))
<1>1. PICK f \in Films : /\ page.film = f /\ page.tracks \in Seq(Track)
                         /\ ToSet(page.tracks) \subseteq ToSet(Find(f, Films))
  BY DEF PageRight
<1>2. PICK shown : shown = page.tracks
  OBVIOUS
<1>3. shown \in Seq(Track) /\ ToSet(shown) \subseteq ToSet(Find(f, Films))
  BY <1>1, <1>2
<1>4. picked # NoTrack => \E u \in ToSet(shown) : Burnable(u) /\ picked = u.id
  BY <1>2 DEF Offers, ToSet
<1>5. picked \in Ids \cup {NoTrack}
  <2>1. CASE picked # NoTrack
    <3>1. PICK u \in ToSet(shown) : picked = u.id
      BY <1>4, <2>1
    <3>2. u \in Track
      BY <1>3, ElementType
    <3>. QED  BY <3>1, <3>2 DEF Track
  <2>. QED  BY <2>1
<1>6. LanguageOf(Find(page.film, probed), picked) \in Langs
  <2>1. PICK cache : cache = probed
    OBVIOUS
  <2>2. Find(f, cache) \in Seq(Track)
    BY FoundTracks DEF FilmScalars
  <2>. QED  BY <1>1, <2>1, <2>2, LanguageType
<1>7. LanguageOf(shown, picked) \in Langs
  BY <1>3, LanguageType
<1>8. b \in Batch
  BY <1>1, <1>2, <1>5, <1>6, <1>7 DEF Batch
<1>9. ASSUME picked # NoTrack
      PROVE  \E t \in ToSet(Find(f, Films)) :
                 t.id = picked /\ Burnable(t) /\ LanguageOf(shown, picked) = Language(t)
  <2>1. PICK u \in ToSet(shown) : Burnable(u) /\ picked = u.id
    BY <1>4, <1>9
  <2>2. PICK t : t = FindByID(shown, picked)
    OBVIOUS
  <2>3. t # NoTrack /\ t \in ToSet(shown) /\ t.id = u.id
    BY <1>3, <2>1, <2>2, FoundByID
  <2>4. t = u
    BY <1>3, <2>3, UniqueIds DEF FilmScalars
  <2>5. LanguageOf(shown, picked) = Language(t)
    BY <2>2, <2>3 DEF LanguageOf
  <2>. QED  BY <1>3, <2>1, <2>3, <2>4, <2>5
<1>. QED  BY <1>1, <1>2, <1>8, <1>9 DEF PickedFrom

LEMMA ConvertKeeps ==
    ASSUME FilmInv, Grown, page # NoPage, NEW picked \in Offers,
           NEW scope \in {"file", "onwards", "folder"}, NEW burn \in BOOLEAN,
           handleConvert(picked, scope, burn)
    PROVE  FilmInv'
<1> DEFINE n == Len(batches)
<1>0. /\ running' \in {running, NoJob} /\ made' = [g \in Films |-> made'[g]]
      /\ RunRight' /\ MadeRight'
  BY EndsRight DEF handleConvert
<1>1. PICK b : b = [picked |-> picked, burn |-> burn, film |-> page.film,
                    lang |-> LanguageOf(Find(page.film, probed), picked),
                    seen |-> LanguageOf(page.tracks, picked)]
  OBVIOUS
<1>2. b \in Batch /\ b.picked = picked
  BY <1>1, OptionsRight DEF FilmInv
<1>3. PICK f \in Films : b.film = f /\ PickedFrom(b, Find(f, Films))
  BY <1>1, OptionsRight DEF FilmInv
<1>4. batches' = Append(batches, b) /\ n + 1 <= MaxBatches
  BY <1>1 DEF handleConvert
<1>5. batches \in Seq(Batch) /\ n \in Nat /\ DOMAIN batches = 1 .. n
  BY DEF FilmInv, BatchesRight
<1>6. /\ batches' \in Seq(Batch) /\ Len(batches') = n + 1 /\ DOMAIN batches' = 1 .. n + 1
      /\ batches'[n + 1] = b /\ \A k \in 1 .. n : batches'[k] = batches[k]
  BY <1>2, <1>4, <1>5, AppendProperties
<1>7. folder' = folder
  BY DEF handleConvert
<1>8. BatchesRight'
  <2>1. ASSUME NEW k \in DOMAIN batches'
        PROVE  \E g \in Films : batches'[k].film = g /\ PickedFrom(batches'[k], Find(g, Films)')
    <3>1. CASE k = n + 1
      BY <1>3, <1>6, <1>7, <3>1, FoundStays
    <3>2. CASE k # n + 1
      <4>1. k \in DOMAIN batches /\ batches'[k] = batches[k]
        BY <1>5, <1>6, <3>2
      <4>2. PICK g \in Films : batches[k].film = g /\ PickedFrom(batches[k], Find(g, Films))
        BY <4>1 DEF FilmInv, BatchesRight
      <4>. QED  BY <1>7, <4>1, <4>2, FoundStays
    <3>. QED  BY <3>1, <3>2
  <2>. QED  BY <1>4, <1>6, <2>1 DEF BatchesRight, PickedFrom
<1>9. QueueRight'
  <2>1. PICK fs : fs = Order(page.film, scope)
    OBVIOUS
  <2>2. fs \in Seq(Films) /\ IsInjective(fs)
    BY <2>1, OrderInjective DEF FilmInv, PageRight
  <2>3. pending' = pending \o Created(n + 1, fs, Busy(running'), batches'[n + 1].picked)
    BY <1>2, <1>6, <2>1 DEF handleConvert
  <2>4. n + 1 \in DOMAIN batches' /\ n + 1 \in Nat /\ batches'[n + 1].picked \in Ids \cup {NoTrack}
    BY <1>2, <1>5, <1>6 DEF Batch
  <2>. QED  BY <1>0, <2>2, <2>3, <2>4, QueueGrows DEF FilmInv
<1>10. FilmScalars'
  BY <1>0 DEF FilmInv, FilmScalars, handleConvert
<1>. QED  BY <1>0, <1>8, <1>9, <1>10, PageStays, TodoStays DEF FilmInv, handleConvert

-----------------------------------------------------------------------------
(* Film: a conversion *)

\* The language a track is shown in is never "ko".
LEMMA ShownLanguage ==
    ASSUME NEW t
    PROVE  Language(t) # "ko" /\ (Korean(t) <=> Language(t) = "kor")
BY DEF Language, Korean, koreanTags

\* PickLang finds none, or one in the language.
LEMMA PickLangIn ==
    ASSUME NEW tracks \in Seq(Track), NEW lang, lang # "ko"
    PROVE  \/ /\ PickLang(tracks, lang) = NoTrack
              /\ \A t \in ToSet(tracks) : ~ (Burnable(t) /\ Language(t) = lang)
           \/ PickLang(tracks, lang) # NoTrack /\ In(PickLang(tracks, lang), lang)
<1> DEFINE these == {t \in ToSet(tracks) :
                        Burnable(t) /\ IF lang \in {"kor", "ko"} THEN Korean(t) ELSE t.lang = lang}
<1>1. PICK s : s = PickLang(tracks, lang)
  OBVIOUS
<1>2. s = First(tracks, these)
  BY <1>1 DEF PickLang
<1>3. \/ s = NoTrack /\ ToSet(tracks) \cap these = {}
      \/ s # NoTrack /\ s \in these
  BY <1>2, FirstIs
<1>4. CASE s = NoTrack /\ ToSet(tracks) \cap these = {}
  <2>1. ASSUME NEW t \in ToSet(tracks), Burnable(t), Language(t) = lang
        PROVE  t \in these
    <3>1. CASE lang = "kor"
      BY <2>1, <3>1, ShownLanguage
    <3>2. CASE lang # "kor"
      BY <2>1, <3>2 DEF Language
    <3>. QED  BY <3>1, <3>2
  <2>. QED  BY <1>1, <1>4, <2>1
<1>5. CASE s # NoTrack /\ s \in these
  <2>1. CASE lang = "kor"
    BY <1>1, <1>5, <2>1, ShownLanguage DEF In
  <2>2. CASE lang # "kor"
    BY <1>1, <1>5, <2>2 DEF In
  <2>. QED  BY <2>1, <2>2
<1>. QED  BY <1>3, <1>4, <1>5

\* What plan makes of the job that is picked.
LEMMA PlannedAsAsked ==
    ASSUME FilmInv, RunStart, NEW m, m = running'
    PROVE  WellMade(m) /\ m.film = Picked.film
<1>1. PICK j : j = Picked
  OBVIOUS
<1>2. j \in Jobs /\ Waits(j, batches, running) /\ pending # <<>>
  BY <1>1, PickedAndRest DEF FilmInv, RunStart
<1>3. j.film \in Films /\ j.batch \in DOMAIN batches
      /\ j.preferred = IF j.first THEN batches[j.batch].picked ELSE NoTrack
  BY <1>2 DEF Jobs, Waits, OfBatch
<1>4. PICK b : b = batches[j.batch]
  OBVIOUS
<1>5. b \in Batch
  BY <1>3, <1>4 DEF FilmInv, BatchesRight
<1>6. PICK f \in Films : b.film = f /\ PickedFrom(b, Find(f, Films))
  BY <1>3, <1>4 DEF FilmInv, BatchesRight
<1>7. PICK cache : cache = probed'
  OBVIOUS
<1>8. j.film \in cache
  BY <1>1, <1>7 DEF RunStart
<1>9. PICK tracks : tracks = Find(j.film, cache)
  OBVIOUS
<1>10. tracks \in Seq(Track) /\ tracks = Find(j.film, Films)
  BY <1>3, <1>8, <1>9, FoundTracks DEF FilmInv, FilmScalars
<1>11. PICK sub : sub = IF Asked(j) THEN Chosen(j) ELSE NoTrack
  OBVIOUS
<1>12. m = [film |-> j.film, batch |-> j.batch, first |-> j.first, sub |-> sub,
            burnt |-> (b.burn /\ sub # NoTrack), tag |-> subtitleLang(j),
            copied |-> (j.film \in folder.copyable /\ ~(b.burn /\ sub # NoTrack))]
  BY <1>1, <1>4, <1>11 DEF RunStart, plan
<1>13. subtitleLang(j) = IF b.lang = "" THEN "kor" ELSE b.lang
  BY <1>4 DEF subtitleLang
<1>14. /\ m.film = j.film /\ m.batch = j.batch /\ m.first = j.first /\ m.sub = sub
       /\ m.burnt = (b.burn /\ sub # NoTrack) /\ m.tag = IF b.lang = "" THEN "kor" ELSE b.lang
       /\ m.copied = (j.film \in folder.copyable /\ ~(b.burn /\ sub # NoTrack))
  <2> DEFINE burnt == b.burn /\ sub # NoTrack
             copied == j.film \in folder.copyable /\ ~burnt
             tag == subtitleLang(j)
  <2>1. m = [film |-> j.film, batch |-> j.batch, first |-> j.first, sub |-> sub,
             burnt |-> burnt, tag |-> tag, copied |-> copied]
    BY <1>12
  <2>2. tag = IF b.lang = "" THEN "kor" ELSE b.lang
    BY <1>13
  <2>. HIDE DEF burnt, copied, tag
  <2>3. /\ m.film = j.film /\ m.batch = j.batch /\ m.first = j.first /\ m.sub = sub
        /\ m.burnt = burnt /\ m.tag = tag /\ m.copied = copied
    BY <2>1
  <2>. QED  BY <2>2, <2>3 DEF burnt, copied
<1>15. Asked(j) <=> b.picked # NoTrack
  BY <1>4 DEF Asked
<1>16. ASSUME b.picked # NoTrack, b.lang = b.seen, b.seen # "", ~m.first \/ m.film = b.film
       PROVE  IF PickLang(tracks, b.seen) = NoTrack THEN m.sub = NoTrack
              ELSE /\ m.sub # NoTrack /\ In(m.sub, b.seen)
                   /\ m.burnt = b.burn /\ (~m.burnt => m.tag = b.seen)
  <2>1. PICK t \in ToSet(Find(f, Films)) : t.id = b.picked /\ Burnable(t) /\ b.seen = Language(t)
    BY <1>6, <1>16 DEF PickedFrom
  <2>2. b.seen # "ko" /\ b.burn \in BOOLEAN
    BY <1>5, <2>1, ShownLanguage DEF Batch
  <2>3. \/ /\ PickLang(tracks, b.seen) = NoTrack
           /\ \A u \in ToSet(tracks) : ~ (Burnable(u) /\ Language(u) = b.seen)
        \/ PickLang(tracks, b.seen) # NoTrack /\ In(PickLang(tracks, b.seen), b.seen)
    BY <1>10, <2>2, PickLangIn
  <2>4. sub = Chosen(j)
    BY <1>11, <1>15, <1>16
  <2>5. CASE ~j.first
    <3>1. j.preferred = NoTrack
      BY <1>3, <2>5
    <3>2. sub = PickLang(tracks, b.seen)
      BY <1>4, <1>7, <1>9, <1>16, <2>4, <3>1 DEF Chosen
    <3>. QED  BY <1>14, <1>16, <2>2, <2>3, <3>2
  <2>6. CASE j.first
    <3>1. j.preferred = b.picked /\ j.film = f
      BY <1>3, <1>4, <1>6, <1>14, <1>16, <2>6
    <3>2. sub = FindByID(tracks, b.picked)
      BY <1>4, <1>7, <1>9, <1>16, <2>4, <3>1 DEF Chosen
    <3>3. t \in ToSet(tracks)
      BY <1>10, <2>1, <3>1
    <3>4. sub # NoTrack /\ sub \in ToSet(tracks) /\ sub.id = t.id
      BY <1>10, <2>1, <3>2, <3>3, FoundByID
    <3>5. sub = t
      BY <1>10, <3>1, <3>3, <3>4, UniqueIds DEF FilmInv, FilmScalars
    <3>6. PickLang(tracks, b.seen) # NoTrack
      BY <2>1, <2>3, <3>3
    <3>. QED  BY <1>14, <1>16, <2>1, <2>2, <3>4, <3>5, <3>6 DEF In
  <2>. QED  BY <2>5, <2>6
<1>17. b.picked = NoTrack => m.sub = NoTrack
  BY <1>11, <1>14, <1>15
<1>18. AsAsked(m)
  <2>1. batches[m.batch] = b /\ Find(m.film, Films) = tracks
    BY <1>4, <1>10, <1>14
  <2>2. (Asked(m) <=> b.picked # NoTrack) /\ ~(m.burnt /\ m.copied)
    BY <1>14, <2>1 DEF Asked
  <2>3. Straight(m) => b.lang = b.seen /\ b.seen # "" /\ (~m.first \/ m.film = b.film)
    BY <2>1 DEF Straight
  <2>. QED  BY <1>16, <1>17, <2>1, <2>2, <2>3 DEF AsAsked
<1>. QED  BY <1>1, <1>3, <1>14, <1>18 DEF WellMade

LEMMA StartKeeps ==
    ASSUME FilmInv, Grown, RunStart
    PROVE  FilmInv'
<1>1. PICK m : m = running'
  OBVIOUS
<1>2. WellMade(m) /\ m.film = Picked.film
  BY <1>1, PlannedAsAsked
<1>3. /\ Picked \in Jobs /\ Waits(Picked, batches, running) /\ made' = made
      /\ probed' = probed \cup {Picked.film} /\ UNCHANGED <<folder, saved, restarts>>
  BY PickedAndRest DEF FilmInv, RunStart
<1>4. RunRight'
  <2>1. WellMade(m)'
    BY <1>2, WellMadeStays
  <2>. QED  BY <1>1, <2>1 DEF RunRight
<1>5. QueueRight'
  BY <1>1, <1>2, RestRight DEF FilmInv, RunStart
<1>6. FilmScalars'
  BY <1>3 DEF FilmInv, FilmScalars, Jobs
<1>. QED  BY <1>4, <1>5, <1>6, PageStays, BatchesStay, MadeStays, TodoStays DEF FilmInv, RunStart

LEMMA PlanFailKeeps ==
    ASSUME FilmInv, Grown, RunPlanFail
    PROVE  FilmInv'
<1>1. /\ Picked \in Jobs /\ UNCHANGED <<folder, saved, restarts, made>>
      /\ probed' \in {probed, probed \cup {Picked.film}}
  BY PickedAndRest DEF FilmInv, RunPlanFail
<1>2. FilmScalars'
  BY <1>1 DEF FilmInv, FilmScalars, Jobs
<1>3. QueueRight'
  BY RestRight DEF FilmInv, RunPlanFail
<1>. QED  BY <1>2, <1>3, PageStays, BatchesStay, RunStays, MadeStays, TodoStays
          DEF FilmInv, RunPlanFail

LEMMA DoneKeeps ==
    ASSUME FilmInv, Grown, RunDone
    PROVE  FilmInv'
<1>1. /\ Overlooks
      /\ UNCHANGED <<folder, probed, saved, page, batches, pending, todo, restarts>>
  BY DEF RunDone, Overlooks
<1>2. /\ running' \in {running, NoJob} /\ made' = [f \in Films |-> made'[f]]
      /\ RunRight' /\ MadeRight'
  BY <1>1, EndsRight
<1>3. FilmScalars'
  BY <1>1, <1>2 DEF FilmInv, FilmScalars
<1>. QED  BY <1>1, <1>2, <1>3, PageStays, BatchesStay, QueueStays, TodoStays DEF FilmInv

LEMMA FailOrFlushKeeps ==
    ASSUME FilmInv, Grown, RunFail \/ FlushProbes
    PROVE  FilmInv'
<1>1. FilmScalars'
  BY DEF FilmInv, FilmScalars, RunFail, FlushProbes
<1>. QED  BY <1>1, PageStays, BatchesStay, QueueStays, RunStays, MadeStays, TodoStays
          DEF FilmInv, RunFail, FlushProbes

-----------------------------------------------------------------------------
(* Film: restarts *)

\* What was queued or ran is restored, each film once.
LEMMA RestartKeeps ==
    ASSUME FilmInv, Grown, Restart
    PROVE  FilmInv'
<1>1. /\ UNCHANGED <<folder, saved, page, batches, made>> /\ pending' = <<>> /\ running' = NoJob
      /\ probed' = saved /\ restarts < MaxRestarts /\ restarts' = restarts + 1
      /\ todo' = [b \in {c \in DOMAIN batches : Outstanding(c) # <<>>} |-> Outstanding(b)]
  BY DEF Restart
<1>2. TodoRight'
  <2> DEFINE of(b) == Outstanding(b)
             left == {c \in DOMAIN batches : of(c) # <<>>}
  <2>1. \A b \in left : of(b) \in Seq(Films) /\ IsInjective(of(b))
    BY OutstandingOnce DEF FilmInv
  <2>2. left \subseteq DOMAIN batches /\ todo' = [b \in left |-> of(b)]
    BY <1>1
  <2>. HIDE DEF of, left
  <2>3. DOMAIN todo' = left /\ \A b \in left : todo'[b] = of(b)
    BY <2>2
  <2>. QED  BY <1>1, <2>1, <2>2, <2>3 DEF TodoRight
<1>3. QueueRight'
  BY <1>1 DEF QueueRight, OnceEach
<1>4. RunRight'
  BY <1>1 DEF RunRight
<1>5. FilmScalars'
  BY <1>1, FilmConstantsOK DEF FilmInv, FilmScalars
<1>. QED  BY <1>1, <1>2, <1>3, <1>4, <1>5, PageStays, BatchesStay, MadeStays DEF FilmInv

\* The batches come back in any order, and none takes the place of a film of another.
LEMMA RestoreKeeps ==
    ASSUME FilmInv, Grown, NEW b \in DOMAIN todo, RestoreBatch(b)
    PROVE  FilmInv'
<1>0. /\ running' \in {running, NoJob} /\ made' = [f \in Films |-> made'[f]]
      /\ RunRight' /\ MadeRight'
  BY EndsRight DEF RestoreBatch
<1>1. /\ UNCHANGED <<folder, probed, saved, page, batches, restarts>>
      /\ todo' = [c \in DOMAIN todo \ {b} |-> todo[c]]
  BY DEF RestoreBatch
<1>2. todo[b] \in Seq(Films) /\ IsInjective(todo[b]) /\ b \in DOMAIN batches
  BY DEF FilmInv, TodoRight
<1>3. b \in Nat /\ batches[b].picked \in Ids \cup {NoTrack}
  <2>1. batches \in Seq(Batch)
    BY DEF FilmInv, BatchesRight
  <2>2. batches[b] \in Batch /\ b \in Nat
    BY <1>2, <2>1
  <2>. QED  BY <2>2 DEF Batch
<1>4. QueueRight'
  BY <1>0, <1>1, <1>2, <1>3, QueueGrows DEF FilmInv, RestoreBatch
<1>5. TodoRight'
  BY <1>1 DEF FilmInv, TodoRight
<1>6. FilmScalars'
  BY <1>0, <1>1 DEF FilmInv, FilmScalars
<1>. QED  BY <1>0, <1>1, <1>4, <1>5, <1>6, PageStays, BatchesStay DEF FilmInv

LEMMA FilmInvInit == FilmInit => FilmInv
<1> SUFFICES ASSUME FilmInit PROVE FilmInv
  OBVIOUS
<1>1. FilmScalars /\ PageRight /\ RunRight /\ TodoRight /\ MadeRight
  BY FilmConstantsOK DEF FilmInit, FilmScalars, PageRight, RunRight, TodoRight, MadeRight
<1>2. BatchesRight
  BY FilmConstantsOK DEF FilmInit, BatchesRight
<1>3. QueueRight
  BY DEF FilmInit, QueueRight, OnceEach
<1>. QED  BY <1>1, <1>2, <1>3 DEF FilmInv

LEMMA FilmInvStep == FilmInv /\ [FilmNext]_filmVars => FilmInv'
<1>1. SUFFICES ASSUME FilmInv, [FilmNext]_filmVars PROVE FilmInv'
  OBVIOUS
<1>2. Grown
  BY <1>1, GrownStep DEF FilmInv
<1>3. CASE \E f \in Films : Serving /\ MoreForms /\ handleWatch(f)
  BY <1>1, <1>3, WatchKeeps
<1>4. CASE \E scope \in {"file", "onwards", "folder"}, burn \in BOOLEAN :
              Serving /\ page # NoPage /\ \E picked \in Offers : handleConvert(picked, scope, burn)
  BY <1>1, <1>2, <1>4, ConvertKeeps
<1>5. CASE RunStart
  BY <1>1, <1>2, <1>5, StartKeeps
<1>6. CASE RunPlanFail
  BY <1>1, <1>2, <1>6, PlanFailKeeps
<1>7. CASE RunDone
  BY <1>1, <1>2, <1>7, DoneKeeps
<1>8. CASE RunFail \/ FlushProbes
  BY <1>1, <1>2, <1>8, FailOrFlushKeeps
<1>9. CASE Restart
  BY <1>1, <1>2, <1>9, RestartKeeps
<1>10. CASE \E b \in DOMAIN todo : RestoreBatch(b)
  BY <1>1, <1>2, <1>10, RestoreKeeps
<1>11. CASE UNCHANGED filmVars
  BY <1>1, <1>2, <1>11, PageStays, BatchesStay, QueueStays, RunStays, MadeStays, TodoStays
  DEF filmVars, FilmInv, FilmScalars
<1>. QED  BY <1>1, <1>3, <1>4, <1>5, <1>6, <1>7, <1>8, <1>9, <1>10, <1>11 DEF FilmNext

\* The parts of the invariant that the type invariant is made of.
LEMMA FilmInvTyped == FilmInv => FilmTyped
<1>1. SUFFICES ASSUME FilmInv PROVE FilmTyped
  OBVIOUS
<1> DEFINE one == IF running = NoJob THEN <<>> ELSE <<running>>
           S == Jobs \cup {running}
           n == Len(pending)
           jobs == pending \o one
           Fits(j) == j.film \in Films /\ j.batch \in DOMAIN batches
<1>2. pending \in Seq(S) /\ OnceEach(pending) /\ n \in Nat /\ DOMAIN pending = 1 .. n
  BY <1>1 DEF FilmInv, QueueRight
<1>3. one \in Seq(S) /\ Len(one) = (IF running = NoJob THEN 0 ELSE 1)
      /\ (running # NoJob => one[1] = running)
  OBVIOUS
<1>. HIDE DEF one
<1>4. /\ jobs \in Seq(S) /\ Len(jobs) = n + Len(one)
      /\ \A i \in 1 .. n + Len(one) : jobs[i] = IF i <= n THEN pending[i] ELSE one[i - n]
  BY <1>2, <1>3, ConcatProperties
<1>. HIDE DEF jobs
<1>5. DOMAIN jobs = 1 .. n + Len(one)
  BY <1>4
<1>6. ASSUME NEW i \in DOMAIN jobs
      PROVE  \/ i \in 1 .. n /\ jobs[i] = pending[i]
             \/ i = n + 1 /\ running # NoJob /\ jobs[i] = running
  <2>1. CASE i <= n
    BY <1>2, <1>4, <1>5, <2>1
  <2>2. CASE ~(i <= n)
    <3>1. i = n + 1 /\ running # NoJob /\ i - n = 1
      BY <1>2, <1>3, <1>5, <2>2
    <3>. QED  BY <1>3, <1>4, <1>5, <2>2, <3>1
  <2>. QED  BY <2>1, <2>2
<1>7. ASSUME NEW i \in 1 .. n
      PROVE  Fits(pending[i]) /\ (running # NoJob => running.film # pending[i].film)
  <2>1. pending[i] \in Jobs /\ Waits(pending[i], batches, running)
    BY <1>1, <1>2 DEF FilmInv, QueueRight
  <2>. QED  BY <2>1 DEF Waits, OfBatch, Jobs
<1>8. running # NoJob => Fits(running)
  BY <1>1 DEF FilmInv, RunRight, WellMade
<1>9. \A i \in DOMAIN jobs : Fits(jobs[i])
  BY <1>6, <1>7, <1>8
<1>10. \A i, k \in DOMAIN jobs : jobs[k].film = jobs[i].film => k = i
  <2>. SUFFICES ASSUME NEW i \in DOMAIN jobs, NEW k \in DOMAIN jobs, jobs[k].film = jobs[i].film
                PROVE  k = i
    OBVIOUS
  <2>. QED  BY <1>2, <1>6, <1>7 DEF OnceEach
<1>11. /\ probed \cup saved \subseteq Films /\ restarts \in 0 .. MaxRestarts
       /\ DOMAIN todo \subseteq DOMAIN batches
       /\ page # NoPage => page.film \in Films
       /\ DOMAIN made = Films /\ Len(batches) <= MaxBatches
  BY <1>1 DEF FilmInv, FilmScalars, TodoRight, PageRight, BatchesRight
<1>. QED  BY <1>9, <1>10, <1>11 DEF FilmTyped, jobs, one

LEMMA FilmInvAsAsked == FilmInv => SubtitleAsAsked
BY DEF FilmInv, MadeRight, WellMade, SubtitleAsAsked, Converted

-----------------------------------------------------------------------------
(* Film: the theorems *)

\* The invariant of Film holds throughout.
THEOREM FilmInvariance == FilmSpec => []FilmInv
BY FilmInvInit, FilmInvStep, PTL DEF FilmSpec

\* No film is on its way twice: what waits neither waits a second time nor converts.
THEOREM FilmTypeCorrect == FilmSpec => []FilmTyped
BY FilmInvariance, FilmInvTyped, PTL

\* A film has a subtitle in the language its viewer picked exactly when there is one to make, in
\* every directory, whatever the order in which batches are restored and whatever the prober had
\* forgotten; except in a batch that has lost the language, and for a job that came first in the
\* place of the film whose track was picked.
THEOREM SubtitlesAreAsAsked == FilmSpec => []SubtitleAsAsked
BY FilmInvariance, FilmInvAsAsked, PTL

-----------------------------------------------------------------------------
(* Evening: the two together *)

\* An evening is a behaviour of each of its halves.
THEOREM EveningOfBoth == Spec => FilmSpec /\ HistorySpec
<1>1. Init => FilmInit /\ HistoryInit
  BY DEF Init
<1>2. [Next]_<<filmVars, historyVars, evening>> => [FilmNext]_filmVars /\ [HistoryNext]_historyVars
  BY DEF Next, Convert, Watch
<1>. QED  BY <1>1, <1>2, PTL DEF Spec, FilmSpec, HistorySpec

\* Both halves stay well typed: the history within its limit, no film on its way twice.
THEOREM TypeCorrect == Spec => []TypeOK
<1>1. FilmTyped /\ HistoryTyped => TypeOK
  BY DEF TypeOK
<1>. QED  BY <1>1, EveningOfBoth, FilmTypeCorrect, HistoryTypeCorrect, PTL

\* And what is promised of each holds of an evening.
THEOREM EveningKept == Spec => [](PlacesKept /\ SubtitleAsAsked)
BY EveningOfBoth, PlacesAreKept, SubtitlesAreAsAsked, PTL

=============================================================================
