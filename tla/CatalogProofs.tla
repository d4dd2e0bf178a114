--------------------------- MODULE CatalogProofs ---------------------------
(***************************************************************************)
(* What the invariants and the action properties of Catalog rest on: a     *)
(* discard by source knows until it removes the file that no conversion    *)
(* that holds the output was under way when it looked, a .vtt that may be  *)
(* another conversion's has a reason, and the index, whoever is reading    *)
(* the tree for it, has what was promised.                                 *)
(***************************************************************************)
EXTENDS Catalog, FiniteSetTheorems, TLAPS

Stages  == {"idle", "index", "walk", "untrack", "remove", "discarded", "probe", "probed"}
Ended   == {"over", "done", "counted"}
Ats     == {"none"} \cup Active \cup Ended

Conversions == [of : Titles \cup {None}, at : Ats, struck : BOOLEAN]
Promises    == [there : SUBSET Outputs, gone : SUBSET Outputs, told : SUBSET Titles]

Typed ==
    /\ src \subseteq Titles /\ probed \subseteq Titles
    /\ made \in 0 .. MaxJobs /\ finished \in Nat
    /\ out \in [Outputs -> (0 .. made) \cup {Old}] /\ track \in [Outputs -> 0 .. made]
    /\ jobs \in [Versions -> Conversions]
    /\ asking \in Titles \cup {None} /\ (Locked => made < MaxJobs)
    /\ indexMu \in Requests \cup {None}
    /\ pc \in [Requests -> Stages]
    /\ about \in [Requests -> Titles \cup Outputs \cup {None}]
    /\ gen \in [Requests -> Nat] /\ was = [r \in Requests |-> was[r]]
    /\ counted \subseteq Outputs /\ discarded \subseteq Outputs /\ explained \subseteq Titles
    /\ promised \in [Requests -> Promises]

\* The conversions asked for are the first ones.
Entered == \A j \in Versions :
    /\ jobs[j].at = "none" <=> made < j
    /\ jobs[j].of \in Titles <=> j <= made

CountedJobs == {j \in Versions : jobs[j].at = "counted"}

CountIs == finished = Cardinality(CountedJobs)

\* What a request holds while it is where it is.
Holds(r) ==
    /\ indexMu = r <=> pc[r] = "walk"
    /\ pc[r] \in {"untrack", "remove", "discarded"} => about[r] \in Outputs
    /\ pc[r] \in {"probe", "probed"} => about[r] \in Titles
    /\ pc[r] = "probed" => about[r] \in probed
    /\ pc[r] = "walk" => was[r] \subseteq Outputs
    /\ pc[r] \in {"untrack", "remove", "discarded"} => was[r] \subseteq Nat
    /\ pc[r] \in {"idle", "index", "probe", "probed"} => was[r] = {}
    /\ pc[r] \in {"idle", "probe", "probed"} => gen[r] = 0

HoldsAll == \A r \in Requests : Holds(r)

\* A .vtt beside an output is of the conversion that made it, or has a reason to be there; and a
\* discard by source that has removed it finds no other without one.
Beside == \A o \in Outputs : track[o] # 0 /\ track[o] # out[o] => o \in stray

Untracked == \A r \in Requests :
    pc[r] = "remove" /\ was[r] # {} => track[about[r]] = 0 \/ about[r] \in stray

\* What a discard by source knows, from its look at the queue until it removes the file.
Knows(r) ==
    /\ gen[r] <= made
    /\ \A j \in Versions :
           j <= gen[r] /\ Output(jobs[j].of) = about[r] /\ ~jobs[j].struck => jobs[j].at \in Ended
    /\ out[about[r]] \in 1 .. gen[r] /\ ~jobs[out[about[r]]].struck => out[about[r]] \in was[r]

LookedAt(r) ==
    /\ pc[r] = "untrack" => Knows(r)
    /\ pc[r] = "remove" => (was[r] = {} /\ gen[r] = 0) \/ Knows(r)

Looked == \A r \in Requests : LookedAt(r)

\* What has been said about an output, a film, is still so.
SaidTrue ==
    /\ \A o \in counted : out[o] # 0
    /\ \A o \in discarded : out[o] = 0
    /\ explained \subseteq probed
    /\ \A r \in Requests : /\ promised[r].there \subseteq counted
                           /\ promised[r].gone \subseteq discarded
                           /\ promised[r].told \subseteq explained

Waits(r) == pc[r] \in {"index", "walk"}

Covers(rows, outs) == \A o \in outs : \E row \in rows : IsOf(row, o)

\* What a walk has read.
WalkSees(r) == pc[r] = "walk" =>
    /\ gen[r] = finished => counted \subseteq was[r]
    /\ \A q \in Requests : Waits(q) /\ gen[q] = gen[r] => promised[q].there \subseteq was[r]
    /\ discarded \cap was[r] = {}

Walks == \A r \in Requests : (Waits(r) => gen[r] <= finished) /\ WalkSees(r)

\* What the index says.
RowsClean(rows) == \A row \in rows :
    /\ row.film \in Titles \cup Outputs
    /\ row.kind = "orphan" => row.film.blank
           \/ ~\E other \in rows \ {row} : Output(other.film) = row.film

IndexRight == playable # None =>
    /\ playable.gen \in Nat /\ playable.gen <= finished
    /\ playable.gen = finished => Covers(playable.rows, counted)
    /\ \A q \in Requests : Waits(q) /\ gen[q] = playable.gen
                               => Covers(playable.rows, promised[q].there)
    /\ \A o \in discarded : \A row \in playable.rows : ~IsOf(row, o)
    /\ \A t \in explained : Row(t, "guessed") \notin playable.rows
    /\ RowsClean(playable.rows)

-----------------------------------------------------------------------------
(* Names and rows *)

Names == [dir : Seq(STRING), base : STRING, ext : STRING \cup {"mp4"}, blank : BOOLEAN]

\* An output has the name of its source with the extension mp4, and is its own output.
LEMMA OutputName ==
    ASSUME NEW f \in Names
    PROVE  /\ Output(f) \in Names /\ Output(f).ext = "mp4" /\ Output(f).blank = f.blank
           /\ Output(f).dir = f.dir /\ Output(Output(f)) = Output(f)
    BY DEF Names, Output

LEMMA TitleNames ==
    /\ Titles \subseteq Names /\ Outputs \subseteq Names
    /\ \A t \in Titles : Output(t) \in Outputs
    /\ \A o \in Outputs : o.ext = "mp4" /\ Output(o) = o
<1>1. Titles \subseteq Names
    BY ConstantsOK DEF Names
<1>2. \A t \in Titles : Output(t) \in Outputs
    BY DEF Outputs
<1>3. ASSUME NEW o \in Outputs PROVE o \in Names /\ o.ext = "mp4" /\ Output(o) = o
  <2>1. PICK t \in Titles : o = Output(t)
    BY DEF Outputs
  <2>2. QED
    BY <2>1, <1>1, OutputName
<1>4. QED
    BY <1>1, <1>2, <1>3

\* Two names that are the same without their extension have one output.
LEMMA SameStem ==
    ASSUME NEW f \in Names, NEW o \in Outputs
    PROVE  TrimExt(f) = TrimExt(o) <=> Output(f) = o /\ (f.blank => f = o)
<1>1. o \in Names /\ o.ext = "mp4" /\ Output(o) = o
    BY TitleNames
<1>2. CASE f.blank /\ o.blank
    BY <1>1, <1>2 DEF TrimExt
<1>3. CASE f.blank /\ ~o.blank
  <2>1. TrimExt(f).blank = f.blank /\ TrimExt(o).blank = o.blank
    BY <1>1, <1>3 DEF TrimExt, Names
  <2>2. Output(f).blank = f.blank
    BY OutputName
  <2>3. QED
    BY <1>3, <2>1, <2>2
<1>4. CASE ~f.blank /\ o.blank
  <2>1. TrimExt(f).blank = f.blank /\ TrimExt(o).blank = o.blank
    BY <1>1, <1>4 DEF TrimExt, Names
  <2>2. Output(f).blank = f.blank
    BY OutputName
  <2>3. QED
    BY <1>4, <2>1, <2>2
<1>5. CASE ~f.blank /\ ~o.blank
  <2>1. TrimExt(f) = [f EXCEPT !.ext = "none"] /\ TrimExt(o) = [o EXCEPT !.ext = "none"]
    BY <1>5 DEF TrimExt
  <2>2. ASSUME TrimExt(f) = TrimExt(o) PROVE Output(f) = o
    <3>1. f.dir = o.dir /\ f.base = o.base /\ f.blank = o.blank
      BY <2>1, <2>2, <1>1 DEF Names
    <3>2. QED
      BY <3>1, <1>1 DEF Output, Names
  <2>3. ASSUME Output(f) = o PROVE TrimExt(f) = TrimExt(o)
    BY <2>1, <2>3, <1>1 DEF Output, Names
  <2>4. QED
    BY <1>5, <2>2, <2>3
<1>6. QED
    BY <1>2, <1>3, <1>4, <1>5

\* The output tree is not part of the library.
LEMMA InsideExcluded ==
    ASSUME NEW o \in Outputs
    PROVE  Excluded(Inside(o))
<1>1. o \in Names /\ o.dir \in Seq(STRING) /\ OutDir \in Seq(STRING)
    BY TitleNames, ConstantsOK DEF Names
<1>2. Inside(o).dir = OutDir \o o.dir
    BY <1>1 DEF Inside, Names
<1>3. Len(OutDir) <= Len(OutDir \o o.dir)
    BY <1>1
<1>4. SubSeq(OutDir \o o.dir, 1, Len(OutDir)) = OutDir
    BY <1>1
<1>5. QED
    BY <1>2, <1>3, <1>4 DEF Excluded, IsUnder

LEMMA FilmWalked ==
    ASSUME src \subseteq Titles,
           NEW f \in WalkVideos(src \cup Junk \cup {Inside(o) : o \in There})
    PROVE  f \in Titles
<1>1. f \in src \cup Junk \cup {Inside(o) : o \in There} /\ f \in WalkVideos({f})
    BY DEF WalkVideos
<1>2. CASE f \in Junk
  <2>1. f \in WalkVideos(Junk)
    BY <1>1, <1>2 DEF WalkVideos
  <2>2. QED
    BY <2>1, FilmsFound
<1>3. ASSUME NEW o \in There, f = Inside(o) PROVE FALSE
  <2>1. o \in Outputs
    BY DEF There
  <2>2. QED
    BY <2>1, <1>1, <1>3, InsideExcluded DEF WalkVideos
<1>4. QED
    BY <1>1, <1>2, <1>3

\* The rows made of the outputs a walk has read, and of the library there is at its end.
LEMMA RowsOf ==
    ASSUME src \subseteq Titles, NEW outs \in SUBSET Outputs, NEW row \in Rows(outs)
    PROVE  \/ /\ row.film \in Titles /\ row.kind = "converted" /\ Output(row.film) \in outs
              /\ row = Row(row.film, "converted")
              /\ \E o \in outs : TrimExt(o) = TrimExt(row.film)
           \/ /\ row.film \in Titles /\ row.kind = "asis" /\ row = Row(row.film, "asis")
           \/ /\ row.film \in Titles /\ row.kind = "guessed" /\ row = Row(row.film, "guessed")
              /\ row.film \notin probed
           \/ /\ row.film \in outs /\ row.kind = "orphan" /\ row = Row(row.film, "orphan")
              /\ \A r \in Rows(outs) : r.kind # "orphan" => TrimExt(r.film) # TrimExt(row.film)
<1> DEFINE stems == {TrimExt(o) : o \in outs}
           converted(f) == TrimExt(f) \in stems
           listed == {f \in WalkVideos(src \cup Junk \cup {Inside(o) : o \in There}) :
                         converted(f) \/ playableEntry(f)}
           seen == {TrimExt(f) : f \in listed}
           KindOf(f) == IF converted(f) THEN "converted"
                        ELSE IF f \in probed THEN "asis" ELSE "guessed"
<1>1. Rows(outs) = {Row(f, KindOf(f)) : f \in listed}
                       \cup {Row(o, "orphan") : o \in {x \in outs : TrimExt(x) \notin seen}}
    BY DEF Rows
<1>2. \A f \in listed : f \in Titles
    BY FilmWalked
<1>3. \A f, k : Row(f, k).film = f /\ Row(f, k).kind = k
    BY DEF Row
<1> HIDE DEF stems, listed, seen
<1>4. CASE \E f \in listed : row = Row(f, KindOf(f))
  <2>1. PICK f \in listed : row = Row(f, KindOf(f))
    BY <1>4
  <2>2. row.film = f /\ row.kind = KindOf(f) /\ f \in Titles /\ f \in Names
    BY <2>1, <1>2, <1>3, TitleNames
  <2>3. CASE converted(f)
    <3>1. PICK o \in outs : TrimExt(f) = TrimExt(o)
      BY <2>3 DEF stems
    <3>2. Output(f) = o
      BY <3>1, <2>2, SameStem
    <3>3. QED
      BY <3>1, <3>2, <2>1, <2>2, <2>3
  <2>4. CASE ~converted(f)
    BY <2>1, <2>2, <2>4
  <2>5. QED
    BY <2>3, <2>4
<1>5. CASE \E o \in {x \in outs : TrimExt(x) \notin seen} : row = Row(o, "orphan")
  <2>1. PICK o \in outs : TrimExt(o) \notin seen /\ row = Row(o, "orphan")
    BY <1>5
  <2>2. row.film = o /\ row.kind = "orphan"
    BY <2>1, <1>3
  <2>3. ASSUME NEW r \in Rows(outs), r.kind # "orphan" PROVE TrimExt(r.film) # TrimExt(row.film)
    <3>1. PICK f \in listed : r = Row(f, KindOf(f))
      BY <2>3, <1>1, <1>3
    <3>2. TrimExt(r.film) \in seen
      BY <3>1, <1>3 DEF seen
    <3>3. QED
      BY <3>2, <2>1, <2>2
  <2>4. QED
    BY <2>1, <2>2, <2>3
<1>6. QED
    BY <1>1, <1>4, <1>5

\* Every output that was read has a row,
LEMMA RowsCover ==
    ASSUME src \subseteq Titles, NEW outs \in SUBSET Outputs
    PROVE  Covers(Rows(outs), outs)
<1> DEFINE stems == {TrimExt(o) : o \in outs}
           converted(f) == TrimExt(f) \in stems
           listed == {f \in WalkVideos(src \cup Junk \cup {Inside(o) : o \in There}) :
                         converted(f) \/ playableEntry(f)}
           seen == {TrimExt(f) : f \in listed}
           KindOf(f) == IF converted(f) THEN "converted"
                        ELSE IF f \in probed THEN "asis" ELSE "guessed"
<1>1. Rows(outs) = {Row(f, KindOf(f)) : f \in listed}
                       \cup {Row(o, "orphan") : o \in {x \in outs : TrimExt(x) \notin seen}}
    BY DEF Rows
<1>2. \A f \in listed : f \in Titles
    BY FilmWalked
<1> HIDE DEF listed
<1>3. SUFFICES ASSUME NEW o \in outs PROVE \E row \in Rows(outs) : IsOf(row, o)
    BY DEF Covers
<1>4. CASE TrimExt(o) \in seen
  <2>1. PICK f \in listed : TrimExt(f) = TrimExt(o)
    BY <1>4
  <2>2. Output(f) = o
    BY <2>1, <1>2, TitleNames, SameStem
  <2>3. KindOf(f) = "converted"
    BY <2>1
  <2>4. Row(f, "converted") \in Rows(outs)
    BY <2>3, <1>1
  <2>5. IsOf(Row(f, "converted"), o)
    BY <2>2 DEF IsOf, Row
  <2>6. QED
    BY <2>4, <2>5
<1>5. CASE TrimExt(o) \notin seen
  <2>1. Row(o, "orphan") \in Rows(outs)
    BY <1>1, <1>5
  <2>2. IsOf(Row(o, "orphan"), o)
    BY DEF IsOf, Row
  <2>3. QED
    BY <2>1, <2>2
<1>6. QED
    BY <1>4, <1>5

\* and no other output has one.
LEMMA RowsOnly ==
    ASSUME src \subseteq Titles, NEW outs \in SUBSET Outputs, NEW row \in Rows(outs),
           NEW o, IsOf(row, o)
    PROVE  o \in outs
    BY RowsOf DEF IsOf

LEMMA RowsAreClean ==
    ASSUME src \subseteq Titles, NEW outs \in SUBSET Outputs
    PROVE  RowsClean(Rows(outs))
<1> SUFFICES ASSUME NEW row \in Rows(outs)
             PROVE  /\ row.film \in Titles \cup Outputs
                    /\ row.kind = "orphan" => row.film.blank
                           \/ ~\E other \in Rows(outs) \ {row} : Output(other.film) = row.film
    BY DEF RowsClean
<1>1. row.film \in Titles \cup Outputs
    BY RowsOf
<1>2. ASSUME row.kind = "orphan", ~row.film.blank, NEW other \in Rows(outs) \ {row},
             Output(other.film) = row.film
      PROVE  FALSE
  <2>1. row.film \in outs /\ row = Row(row.film, "orphan")
        /\ \A r \in Rows(outs) : r.kind # "orphan" => TrimExt(r.film) # TrimExt(row.film)
    BY <1>2, RowsOf
  <2>2. CASE other.kind = "orphan"
    <3>1. other.film \in outs /\ other = Row(other.film, "orphan")
      BY <2>2, RowsOf
    <3>2. other.film = row.film
      BY <3>1, <1>2, TitleNames
    <3>3. QED
      BY <3>1, <3>2, <2>1, <1>2
  <2>3. CASE other.kind # "orphan"
    <3>1. other.film \in Titles
      BY <2>3, RowsOf
    <3>2. other.film \in Names /\ Output(other.film).blank = other.film.blank
      BY <3>1, TitleNames, OutputName
    <3>3. ~other.film.blank
      BY <3>2, <1>2
    <3>4. TrimExt(other.film) = TrimExt(row.film)
      BY <3>2, <3>3, <2>1, <1>2, SameStem
    <3>5. QED
      BY <3>4, <2>1, <2>3
  <2>4. QED
    BY <2>2, <2>3
<1>3. QED
    BY <1>1, <1>2

LEMMA WalkedThere == WalkOutput(There) = There
<1>1. There \subseteq Outputs
    BY DEF There
<1>2. ASSUME NEW o \in There PROVE o \in WalkOutput(There)
  <2>1. o \in WalkOutput(Titles \cup Outputs)
    BY <1>1, <1>2, FilmsFound
  <2>2. QED
    BY <2>1, <1>2 DEF WalkOutput, WalkVideos
<1>3. QED
    BY <1>2 DEF WalkOutput, WalkVideos

-----------------------------------------------------------------------------
(* Types, and what a request holds while it is where it is *)

\* A conversion is entered.
LEMMA Asked ==
    ASSUME Typed, NEW t \in Titles, made < MaxJobs, Claim(t)
    PROVE  /\ made' = made + 1 /\ made + 1 \in Versions /\ made \in Nat /\ made' \in 0 .. MaxJobs
           /\ jobs' \in [Versions -> Conversions]
           /\ jobs'[made + 1] = [of |-> t, at |-> "queued", struck |-> FALSE]
           /\ \A k \in Versions : k # made + 1 => jobs'[k] = jobs[k]
<1>1. made' = made + 1 /\ made + 1 \in Versions /\ made \in Nat /\ made' \in 0 .. MaxJobs
    BY ConstantsOK DEF Claim, Typed, Versions
<1>2. jobs' = [jobs EXCEPT ![made + 1] = [of |-> t, at |-> "queued", struck |-> FALSE]]
    BY <1>1 DEF Claim
<1>3. [of |-> t, at |-> "queued", struck |-> FALSE] \in Conversions
    BY DEF Conversions, Ats, Active
<1>4. QED
    BY <1>1, <1>2, <1>3 DEF Typed

\* enqueue enters one, of a film nobody is at, or looks on.
LEMMA Enqueues ==
    ASSUME Typed, (\E t \in Titles \ Fixed : EnqueueStat(t)) \/ EnqueueClaim
    PROVE  /\ \/ UNCHANGED <<made, jobs>> /\ asking' \in Titles \cup {None}
                 /\ (Locked' => made' < MaxJobs)
              \/ /\ \E t \in Titles : Claim(t) /\ ~Busy(t)
                 /\ made < MaxJobs /\ asking' = None
           /\ UNCHANGED <<files, probed, finished, index, request, history>>
    BY DEF EnqueueStat, EnqueueClaim, Locked, Typed

LEMMA TypedStep ==
    ASSUME Typed, Entered, HoldsAll, [Next]_vars
    PROVE  Typed'
<1>1. ASSUME NEW r \in Requests, PageBegin(r) PROVE Typed'
    BY <1>1 DEF PageBegin, Go, files, queue, index, request, history, answers, Typed, Stages,
       Conversions, Ats, Promises, NoPromise, Holds, HoldsAll, Locked
<1>2. ASSUME NEW r \in Requests, PageCached(r) PROVE Typed'
    BY <1>2 DEF PageCached, PageEnd, Go, files, queue, index, request, history, answers, Typed,
       Stages, Conversions, Ats, Promises, NoPromise, Holds, HoldsAll, Locked
<1>3. ASSUME NEW r \in Requests, PageWalk(r) PROVE Typed'
    BY <1>3 DEF PageWalk, Go, files, queue, index, request, history, answers, Typed, Stages,
       Conversions, Ats, Promises, NoPromise, Holds, HoldsAll, Locked
<1>4. ASSUME NEW r \in Requests, PageStore(r) PROVE Typed'
    BY <1>4 DEF PageStore, PageEnd, Go, files, queue, index, request, history, answers, Typed,
       Stages, Conversions, Ats, Promises, NoPromise, Holds, HoldsAll, Locked
<1>5. ASSUME NEW r \in Requests, Refresh(r) PROVE Typed'
    BY <1>5 DEF Refresh, Forget, Go, files, queue, index, request, history, answers, Typed,
       Stages, Conversions, Ats, Promises, NoPromise, Holds, HoldsAll, Locked
<1>6. ASSUME NEW r \in Requests, DiscardTrack(r) PROVE Typed'
    BY <1>6 DEF DiscardTrack, WithoutTrack, Go, files, queue, index, request, history, answers,
       Typed, Stages, Conversions, Ats, Promises, NoPromise, Holds, HoldsAll, Locked
<1>7. ASSUME NEW r \in Requests, DiscardFile(r) PROVE Typed'
  <2>1. about[r] \in Outputs /\ was[r] \subseteq Nat
    BY <1>7 DEF DiscardFile, HoldsAll, Holds
  <2>2. out' \in [Outputs -> (0 .. made) \cup {Old}]
    BY <1>7, <2>1 DEF DiscardFile, Typed, Locked
  <2>3. promised' \in [Requests -> Promises]
    BY <1>7, <2>1, ZenonT(40) DEF DiscardFile, Vanishes, Typed, Promises
  <2>4. QED
    BY <1>7, <2>1, <2>2, <2>3 DEF DiscardFile, Vanishes, Go, files, queue, index, request, history,
       answers, Typed, Stages, Conversions, Ats, Promises, NoPromise, Holds, HoldsAll, Locked
<1>8. ASSUME NEW r \in Requests, DiscardEnd(r) PROVE Typed'
    BY <1>8 DEF DiscardEnd, Forget, Go, files, queue, index, request, history, answers, Typed,
       Stages, Conversions, Ats, Promises, NoPromise, Holds, HoldsAll, Locked
<1>9. ASSUME NEW r \in Requests, WatchProbe(r) PROVE Typed'
    BY <1>9 DEF WatchProbe, Go, files, queue, index, request, history, answers, Typed, Stages,
       Conversions, Ats, Promises, NoPromise, Holds, HoldsAll, Locked
<1>10. ASSUME NEW r \in Requests, WatchEnd(r) PROVE Typed'
    BY <1>10 DEF WatchEnd, StopGuessing, Forget, Go, files, queue, index, request, history,
       answers, Typed, Stages, Conversions, Ats, Promises, NoPromise, Holds, HoldsAll, Locked
<1>11. ASSUME NEW r \in Requests, NEW t \in Titles, Watch(r, t) PROVE Typed'
    BY <1>11 DEF Watch, Go, files, queue, index, request, history, answers, Typed, Stages,
       Conversions, Ats, Promises, NoPromise, Holds, HoldsAll, Locked
<1>12. ASSUME NEW r \in Requests, NEW t \in Titles \ Fixed, DiscardRel(r, t) PROVE Typed'
  <2>1. Output(t) \in Outputs
    BY TitleNames
  <2>2. gen' \in [Requests -> Nat]
    BY <1>12 DEF DiscardRel, Typed, Locked
  <2>3. was' = [q \in Requests |-> was'[q]] /\ pc' \in [Requests -> Stages]
    BY <1>12 DEF DiscardRel, Typed, Go, Stages
  <2>4. QED
    BY <1>12, <2>1, <2>2, <2>3 DEF DiscardRel, files, queue, index, history, answers, Typed, Locked
<1>13. ASSUME NEW r \in Requests, NEW t \in Titles \ Fixed, DiscardOut(r, Output(t)) PROVE Typed'
  <2>1. Output(t) \in Outputs
    BY TitleNames
  <2>2. QED
    BY <1>13, <2>1 DEF DiscardOut, Go, files, queue, index, request, history, answers, Typed,
       Stages, Conversions, Ats, Promises, NoPromise, Holds, HoldsAll, Locked
<1>14. ASSUME (\E t \in Titles \ Fixed : EnqueueStat(t)) \/ EnqueueClaim PROVE Typed'
  <2>1. UNCHANGED <<files, probed, finished, index, request, history>>
    BY <1>14, Enqueues
  <2>2. CASE UNCHANGED <<made, jobs>> /\ asking' \in Titles \cup {None}
             /\ (Locked' => made' < MaxJobs)
    BY <2>1, <2>2 DEF Typed, files, index, request, history, answers
  <2>3. ASSUME NEW t \in Titles, Claim(t), made < MaxJobs, asking' = None PROVE Typed'
    <3>1. made' \in 0 .. MaxJobs /\ jobs' \in [Versions -> Conversions] /\ made' = made + 1
      BY <2>3, Asked
    <3>2. 0 .. made \subseteq 0 .. made'
      BY <3>1 DEF Typed
    <3>3. out' \in [Outputs -> (0 .. made') \cup {Old}] /\ track' \in [Outputs -> 0 .. made']
      BY <2>1, <3>2 DEF files, Typed
    <3>4. QED
      BY <2>1, <2>3, <3>1, <3>3 DEF files, index, request, history, answers, Typed, Locked
  <2>4. QED
    BY <1>14, Enqueues, <2>2, <2>3
<1>15. ASSUME NEW t \in Titles \ Fixed, SourceComesOrGoes(t) PROVE Typed'
    BY <1>15 DEF SourceComesOrGoes, Go, files, queue, index, request, history, answers, Typed,
       Stages, Conversions, Ats, Promises, NoPromise, Holds, HoldsAll, Locked
<1>16. ASSUME NEW j \in Versions, RunRename(j) PROVE Typed'
  <2>1. j \in 0 .. made /\ jobs[j].of \in Titles
    BY <1>16 DEF RunRename, Move, Entered, Typed, Versions
  <2>2. Output(jobs[j].of) \in Outputs
    BY <2>1, TitleNames
  <2>3. jobs' \in [Versions -> Conversions]
    BY <1>16 DEF RunRename, Move, Typed, Conversions, Ats, Active
  <2>4. out' \in [Outputs -> (0 .. made) \cup {Old}] /\ probed' \subseteq Titles
    BY <1>16, <2>1, <2>2 DEF RunRename, Typed, Locked
  <2>5. promised' \in [Requests -> Promises]
    BY <1>16, ZenonT(40) DEF RunRename, Appears, Typed, Promises
  <2>6. QED
    BY <1>16, <2>3, <2>4, <2>5 DEF RunRename, Appears, index, request, Typed, Locked
<1>17. ASSUME NEW j \in Versions, RunTrack(j) PROVE Typed'
  <2>1. j \in 0 .. made
    BY <1>17 DEF RunTrack, Move, Entered, Typed, Versions
  <2>2. jobs' \in [Versions -> Conversions]
    BY <1>17 DEF RunTrack, Move, Typed, Conversions, Ats, Active
  <2>3. track' \in [Outputs -> 0 .. made]
    BY <1>17, <2>1 DEF RunTrack, Typed, Locked
  <2>4. QED
    BY <1>17, <2>2, <2>3 DEF RunTrack, index, request, answers, Typed, Locked
<1>18. ASSUME NEW j \in Versions, RunFinish(j) PROVE Typed'
  <2>1. jobs' \in [Versions -> Conversions]
    BY <1>18 DEF RunFinish, Move, Typed, Conversions, Ats, Ended
  <2>2. QED
    BY <1>18, <2>1 DEF RunFinish, files, index, request, history, answers, Typed, Locked
<1>19. ASSUME NEW j \in Versions, RunCount(j) PROVE Typed'
  <2>1. jobs' \in [Versions -> Conversions] /\ finished' \in Nat /\ counted' \subseteq Outputs
    BY <1>19 DEF RunCount, MayCount, Typed, Conversions, Ats, Ended
  <2>2. QED
    BY <1>19, <2>1 DEF RunCount, files, index, request, Typed, Locked
<1>20. ASSUME Expire PROVE Typed'
    BY <1>20 DEF Expire, files, queue, index, request, history, answers, Typed, Stages,
       Conversions, Ats, Promises, NoPromise, Holds, HoldsAll, Locked
<1>21. ASSUME UNCHANGED vars PROVE Typed'
    BY <1>21 DEF vars, files, queue, index, request, history, answers, Typed, Stages, Conversions,
       Ats, Promises, NoPromise, Holds, HoldsAll, Locked
<1>22. ASSUME NEW j \in Versions, Strike(j) PROVE Typed'
  <2>1. jobs' \in [Versions -> Conversions]
    BY <1>22 DEF Strike, Typed, Conversions
  <2>2. QED
    BY <1>22, <2>1 DEF Strike, files, index, request, history, answers, Typed, Locked
<1>23. ASSUME NEW j \in Versions, RunStop(j) PROVE Typed'
  <2>1. jobs' \in [Versions -> Conversions]
    BY <1>23 DEF RunStop, Move, Typed, Conversions, Ats, Ended
  <2>2. QED
    BY <1>23, <2>1 DEF RunStop, files, index, request, history, answers, Typed, Locked
<1>24. ASSUME NEW r \in Requests, DiscardFail(r) PROVE Typed'
    BY <1>24 DEF DiscardFail, Go, files, queue, index, request, history, answers, Typed, Stages,
       Conversions, Ats, Promises, NoPromise, Holds, HoldsAll, Locked
<1>25. QED
    BY <1>1, <1>2, <1>3, <1>4, <1>5, <1>6, <1>7, <1>8, <1>9, <1>10, <1>11, <1>12, <1>13, <1>14,
       <1>15, <1>16, <1>17, <1>18, <1>19, <1>20, <1>21, <1>22, <1>23, <1>24
    DEF Next, Page, Discard, Run

LEMMA EnteredStep ==
    ASSUME Typed, Entered, [Next]_vars
    PROVE  Entered'
<1>1. ASSUME NEW r \in Requests, PageBegin(r) PROVE Entered'
    BY <1>1 DEF PageBegin, Go, files, queue, index, request, history, answers, Typed, Entered
<1>2. ASSUME NEW r \in Requests, PageCached(r) PROVE Entered'
    BY <1>2 DEF PageCached, PageEnd, Go, files, queue, index, request, history, answers, Typed,
       Entered
<1>3. ASSUME NEW r \in Requests, PageWalk(r) PROVE Entered'
    BY <1>3 DEF PageWalk, Go, files, queue, index, request, history, answers, Typed, Entered
<1>4. ASSUME NEW r \in Requests, PageStore(r) PROVE Entered'
    BY <1>4 DEF PageStore, PageEnd, Go, files, queue, index, request, history, answers, Typed,
       Entered
<1>5. ASSUME NEW r \in Requests, Refresh(r) PROVE Entered'
    BY <1>5 DEF Refresh, Forget, Go, files, queue, index, request, history, answers, Typed,
       Entered
<1>6. ASSUME NEW r \in Requests, DiscardTrack(r) PROVE Entered'
    BY <1>6 DEF DiscardTrack, WithoutTrack, Go, files, queue, index, request, history, answers,
       Typed, Entered
<1>7. ASSUME NEW r \in Requests, DiscardFile(r) PROVE Entered'
    BY <1>7 DEF DiscardFile, Vanishes, Go, files, queue, index, request, history, answers, Typed,
       Entered
<1>8. ASSUME NEW r \in Requests, DiscardEnd(r) PROVE Entered'
    BY <1>8 DEF DiscardEnd, Forget, Go, files, queue, index, request, history, answers, Typed,
       Entered
<1>9. ASSUME NEW r \in Requests, WatchProbe(r) PROVE Entered'
    BY <1>9 DEF WatchProbe, Go, files, queue, index, request, history, answers, Typed, Entered
<1>10. ASSUME NEW r \in Requests, WatchEnd(r) PROVE Entered'
    BY <1>10 DEF WatchEnd, StopGuessing, Forget, Go, files, queue, index, request, history,
       answers, Typed, Entered
<1>11. ASSUME NEW r \in Requests, NEW t \in Titles, Watch(r, t) PROVE Entered'
    BY <1>11 DEF Watch, Go, files, queue, index, request, history, answers, Typed, Entered
<1>12. ASSUME NEW r \in Requests, NEW t \in Titles \ Fixed, DiscardRel(r, t) PROVE Entered'
    BY <1>12 DEF DiscardRel, Go, files, queue, index, request, history, answers, Typed, Entered
<1>13. ASSUME NEW r \in Requests, NEW t \in Titles \ Fixed, DiscardOut(r, Output(t)) PROVE Entered'
    BY <1>13 DEF DiscardOut, Go, files, queue, index, request, history, answers, Typed, Entered
<1>14. ASSUME (\E t \in Titles \ Fixed : EnqueueStat(t)) \/ EnqueueClaim PROVE Entered'
  <2>1. CASE UNCHANGED <<made, jobs>>
    BY <2>1 DEF Entered
  <2>2. ASSUME NEW t \in Titles, Claim(t), made < MaxJobs PROVE Entered'
    <3>1. /\ made' = made + 1 /\ made + 1 \in Versions /\ made \in Nat
          /\ jobs'[made + 1] = [of |-> t, at |-> "queued", struck |-> FALSE]
          /\ \A k \in Versions : k # made + 1 => jobs'[k] = jobs[k]
      BY <2>2, Asked
    <3>2. ASSUME NEW k \in Versions
          PROVE  /\ jobs'[k].at = "none" <=> made' < k
                 /\ jobs'[k].of \in Titles <=> k <= made'
      <4>1. CASE k = made + 1
        BY <4>1, <3>1
      <4>2. CASE k # made + 1
        BY <4>2, <3>1 DEF Entered, Versions
      <4>3. QED
        BY <4>1, <4>2
    <3>3. QED
      BY <3>2 DEF Entered
  <2>3. QED
    BY <1>14, Enqueues, <2>1, <2>2
<1>15. ASSUME NEW t \in Titles \ Fixed, SourceComesOrGoes(t) PROVE Entered'
    BY <1>15 DEF SourceComesOrGoes, Go, files, queue, index, request, history, answers, Typed,
       Entered
<1>16. ASSUME NEW j \in Versions, RunRename(j) PROVE Entered'
  <2>1. jobs[j].at # "none" /\ made' = made
    BY <1>16 DEF RunRename, Move, MayCount
  <2>2. ASSUME NEW k \in Versions
        PROVE  jobs'[k].of = jobs[k].of /\ (jobs'[k].at = "none" <=> jobs[k].at = "none")
    BY <1>16, <2>1 DEF RunRename, Move, Typed, Conversions
  <2>3. QED
    BY <2>1, <2>2 DEF Entered
<1>17. ASSUME NEW j \in Versions, RunTrack(j) PROVE Entered'
  <2>1. jobs[j].at # "none" /\ made' = made
    BY <1>17 DEF RunTrack, Move, MayCount
  <2>2. ASSUME NEW k \in Versions
        PROVE  jobs'[k].of = jobs[k].of /\ (jobs'[k].at = "none" <=> jobs[k].at = "none")
    BY <1>17, <2>1 DEF RunTrack, Move, Typed, Conversions
  <2>3. QED
    BY <2>1, <2>2 DEF Entered
<1>18. ASSUME NEW j \in Versions, RunFinish(j) PROVE Entered'
  <2>1. jobs[j].at # "none" /\ made' = made
    BY <1>18 DEF RunFinish, Move, MayCount
  <2>2. ASSUME NEW k \in Versions
        PROVE  jobs'[k].of = jobs[k].of /\ (jobs'[k].at = "none" <=> jobs[k].at = "none")
    BY <1>18, <2>1 DEF RunFinish, Move, Typed, Conversions
  <2>3. QED
    BY <2>1, <2>2 DEF Entered
<1>19. ASSUME NEW j \in Versions, RunCount(j) PROVE Entered'
  <2>1. jobs[j].at # "none" /\ made' = made
    BY <1>19 DEF RunCount, Move, MayCount
  <2>2. ASSUME NEW k \in Versions
        PROVE  jobs'[k].of = jobs[k].of /\ (jobs'[k].at = "none" <=> jobs[k].at = "none")
    BY <1>19, <2>1 DEF RunCount, Move, Typed, Conversions
  <2>3. QED
    BY <2>1, <2>2 DEF Entered
<1>20. ASSUME Expire PROVE Entered'
    BY <1>20 DEF Expire, files, queue, index, request, history, answers, Typed, Entered
<1>21. ASSUME UNCHANGED vars PROVE Entered'
    BY <1>21 DEF vars, files, queue, index, request, history, answers, Typed, Entered
<1>22. ASSUME NEW j \in Versions, Strike(j) PROVE Entered'
  <2>1. jobs[j].at # "none" /\ made' = made
    BY <1>22 DEF Strike
  <2>2. ASSUME NEW k \in Versions
        PROVE  jobs'[k].of = jobs[k].of /\ (jobs'[k].at = "none" <=> jobs[k].at = "none")
    BY <1>22, <2>1 DEF Strike, Typed, Conversions
  <2>3. QED
    BY <2>1, <2>2 DEF Entered
<1>23. ASSUME NEW j \in Versions, RunStop(j) PROVE Entered'
  <2>1. jobs[j].at # "none" /\ made' = made
    BY <1>23 DEF RunStop, Move
  <2>2. ASSUME NEW k \in Versions
        PROVE  jobs'[k].of = jobs[k].of /\ (jobs'[k].at = "none" <=> jobs[k].at = "none")
    BY <1>23, <2>1 DEF RunStop, Move, Typed, Conversions
  <2>3. QED
    BY <2>1, <2>2 DEF Entered
<1>24. ASSUME NEW r \in Requests, DiscardFail(r) PROVE Entered'
    BY <1>24 DEF DiscardFail, queue, Entered
<1>25. QED
    BY <1>1, <1>2, <1>3, <1>4, <1>5, <1>6, <1>7, <1>8, <1>9, <1>10, <1>11, <1>12, <1>13, <1>14,
       <1>15, <1>16, <1>17, <1>18, <1>19, <1>20, <1>21, <1>22, <1>23, <1>24
    DEF Next, Page, Discard, Run

LEMMA CountStep ==
    ASSUME Typed, Entered, CountIs, [Next]_vars
    PROVE  CountIs'
<1>1. ASSUME NEW r \in Requests, PageBegin(r) PROVE CountIs'
    BY <1>1 DEF PageBegin, Go, files, queue, index, request, history, answers, CountIs,
       CountedJobs, Typed
<1>2. ASSUME NEW r \in Requests, PageCached(r) PROVE CountIs'
    BY <1>2 DEF PageCached, PageEnd, Go, files, queue, index, request, history, answers, CountIs,
       CountedJobs, Typed
<1>3. ASSUME NEW r \in Requests, PageWalk(r) PROVE CountIs'
    BY <1>3 DEF PageWalk, Go, files, queue, index, request, history, answers, CountIs,
       CountedJobs, Typed
<1>4. ASSUME NEW r \in Requests, PageStore(r) PROVE CountIs'
    BY <1>4 DEF PageStore, PageEnd, Go, files, queue, index, request, history, answers, CountIs,
       CountedJobs, Typed
<1>5. ASSUME NEW r \in Requests, Refresh(r) PROVE CountIs'
    BY <1>5 DEF Refresh, Forget, Go, files, queue, index, request, history, answers, CountIs,
       CountedJobs, Typed
<1>6. ASSUME NEW r \in Requests, DiscardTrack(r) PROVE CountIs'
    BY <1>6 DEF DiscardTrack, WithoutTrack, Go, files, queue, index, request, history, answers,
       CountIs, CountedJobs, Typed
<1>7. ASSUME NEW r \in Requests, DiscardFile(r) PROVE CountIs'
    BY <1>7 DEF DiscardFile, Vanishes, Go, files, queue, index, request, history, answers, CountIs,
       CountedJobs, Typed
<1>8. ASSUME NEW r \in Requests, DiscardEnd(r) PROVE CountIs'
    BY <1>8 DEF DiscardEnd, Forget, Go, files, queue, index, request, history, answers, CountIs,
       CountedJobs, Typed
<1>9. ASSUME NEW r \in Requests, WatchProbe(r) PROVE CountIs'
    BY <1>9 DEF WatchProbe, Go, files, queue, index, request, history, answers, CountIs,
       CountedJobs, Typed
<1>10. ASSUME NEW r \in Requests, WatchEnd(r) PROVE CountIs'
    BY <1>10 DEF WatchEnd, StopGuessing, Forget, Go, files, queue, index, request, history,
       answers, CountIs, CountedJobs, Typed
<1>11. ASSUME NEW r \in Requests, NEW t \in Titles, Watch(r, t) PROVE CountIs'
    BY <1>11 DEF Watch, Go, files, queue, index, request, history, answers, CountIs, CountedJobs,
       Typed
<1>12. ASSUME NEW r \in Requests, NEW t \in Titles \ Fixed, DiscardRel(r, t) PROVE CountIs'
    BY <1>12 DEF DiscardRel, Go, files, queue, index, request, history, answers, CountIs,
       CountedJobs, Typed
<1>13. ASSUME NEW r \in Requests, NEW t \in Titles \ Fixed, DiscardOut(r, Output(t)) PROVE CountIs'
    BY <1>13 DEF DiscardOut, Go, files, queue, index, request, history, answers, CountIs,
       CountedJobs, Typed
<1>14. ASSUME (\E t \in Titles \ Fixed : EnqueueStat(t)) \/ EnqueueClaim PROVE CountIs'
  <2>1. finished' = finished
    BY <1>14, Enqueues
  <2>2. CASE UNCHANGED <<made, jobs>>
    BY <2>1, <2>2 DEF CountIs, CountedJobs
  <2>3. ASSUME NEW t \in Titles, Claim(t), made < MaxJobs PROVE CountIs'
    <3>1. /\ made + 1 \in Versions /\ made \in Nat
          /\ jobs'[made + 1] = [of |-> t, at |-> "queued", struck |-> FALSE]
          /\ \A k \in Versions : k # made + 1 => jobs'[k] = jobs[k]
      BY <2>3, Asked
    <3>2. jobs'[made + 1].at = "queued"
      BY <3>1
    <3>3. jobs[made + 1].at = "none"
      BY <3>1 DEF Entered, Versions
    <3>4. CountedJobs' = CountedJobs
      BY <3>1, <3>2, <3>3 DEF CountedJobs
    <3>5. QED
      BY <2>1, <3>4 DEF CountIs
  <2>4. QED
    BY <1>14, Enqueues, <2>2, <2>3
<1>15. ASSUME NEW t \in Titles \ Fixed, SourceComesOrGoes(t) PROVE CountIs'
    BY <1>15 DEF SourceComesOrGoes, Go, files, queue, index, request, history, answers, CountIs,
       CountedJobs, Typed
<1>16. ASSUME NEW j \in Versions, RunRename(j) PROVE CountIs'
  <2>1. CountedJobs' = CountedJobs
    BY <1>16 DEF RunRename, Move, CountedJobs, Typed, Conversions
  <2>2. QED
    BY <1>16, <2>1 DEF RunRename, CountIs
<1>17. ASSUME NEW j \in Versions, RunTrack(j) PROVE CountIs'
  <2>1. CountedJobs' = CountedJobs
    BY <1>17 DEF RunTrack, Move, CountedJobs, Typed, Conversions
  <2>2. QED
    BY <1>17, <2>1 DEF RunTrack, CountIs
<1>18. ASSUME NEW j \in Versions, RunFinish(j) PROVE CountIs'
  <2>1. CountedJobs' = CountedJobs
    BY <1>18 DEF RunFinish, Move, CountedJobs, Typed, Conversions
  <2>2. QED
    BY <1>18, <2>1 DEF RunFinish, CountIs
<1>19. ASSUME NEW j \in Versions, RunCount(j) PROVE CountIs'
  <2>1. CountedJobs' = CountedJobs \cup {j} /\ j \notin CountedJobs
    BY <1>19 DEF RunCount, MayCount, CountedJobs, Typed, Conversions
  <2>2. IsFiniteSet(CountedJobs)
    <3>1. IsFiniteSet(Versions)
      BY ConstantsOK, FS_Interval DEF Versions
    <3>2. QED
      BY <3>1, FS_Subset DEF CountedJobs
  <2>3. Cardinality(CountedJobs') = Cardinality(CountedJobs) + 1
    BY <2>1, <2>2, FS_AddElement
  <2>4. QED
    BY <1>19, <2>3 DEF RunCount, CountIs
<1>20. ASSUME Expire PROVE CountIs'
    BY <1>20 DEF Expire, files, queue, index, request, history, answers, CountIs, CountedJobs,
       Typed
<1>21. ASSUME UNCHANGED vars PROVE CountIs'
    BY <1>21 DEF vars, files, queue, index, request, history, answers, CountIs, CountedJobs, Typed
<1>22. ASSUME NEW j \in Versions, Strike(j) PROVE CountIs'
  <2>1. CountedJobs' = CountedJobs
    BY <1>22 DEF Strike, CountedJobs, Typed, Conversions
  <2>2. QED
    BY <1>22, <2>1 DEF Strike, CountIs
<1>23. ASSUME NEW j \in Versions, RunStop(j) PROVE CountIs'
  <2>1. CountedJobs' = CountedJobs
    BY <1>23 DEF RunStop, Move, CountedJobs, Typed, Conversions
  <2>2. QED
    BY <1>23, <2>1 DEF RunStop, CountIs
<1>24. ASSUME NEW r \in Requests, DiscardFail(r) PROVE CountIs'
    BY <1>24 DEF DiscardFail, queue, CountIs, CountedJobs
<1>25. QED
    BY <1>1, <1>2, <1>3, <1>4, <1>5, <1>6, <1>7, <1>8, <1>9, <1>10, <1>11, <1>12, <1>13, <1>14,
       <1>15, <1>16, <1>17, <1>18, <1>19, <1>20, <1>21, <1>22, <1>23, <1>24
    DEF Next, Page, Discard, Run

LEMMA HoldsStep ==
    ASSUME Typed, Entered, HoldsAll, [Next]_vars
    PROVE  HoldsAll'
<1>1. ASSUME NEW r \in Requests, PageBegin(r) PROVE HoldsAll'
    BY <1>1 DEF PageBegin, Go, files, queue, index, request, history, answers, Typed, HoldsAll,
       Holds, Stages
<1>2. ASSUME NEW r \in Requests, PageCached(r) PROVE HoldsAll'
    BY <1>2 DEF PageCached, PageEnd, Go, files, queue, index, request, history, answers, Typed,
       HoldsAll, Holds, Stages
<1>3. ASSUME NEW r \in Requests, PageWalk(r) PROVE HoldsAll'
  <2>1. r # None
    BY ConstantsOK
  <2>2. WalkOutput(There) \subseteq Outputs
    BY WalkedThere DEF There
  <2>3. ASSUME NEW q \in Requests PROVE Holds(q)'
    <3>1. CASE q = r
      <4>1. pc'[r] = "walk" /\ was'[r] = WalkOutput(There) /\ indexMu' = r
        BY <1>3 DEF PageWalk, Go, Typed
      <4>2. QED
        BY <4>1, <2>1, <2>2, <3>1 DEF Holds
    <3>2. CASE q # r
      <4>1. /\ pc'[q] = pc[q] /\ was'[q] = was[q] /\ gen'[q] = gen[q] /\ about'[q] = about[q]
            /\ probed' = probed
        BY <1>3, <3>2 DEF PageWalk, Go, Typed
      <4>2. pc[q] # "walk" /\ indexMu' # q
        BY <1>3, <3>2, ConstantsOK DEF PageWalk, HoldsAll, Holds
      <4>3. QED
        BY <4>1, <4>2 DEF HoldsAll, Holds
    <3>3. QED
      BY <3>1, <3>2
  <2>4. QED
    BY <2>3 DEF HoldsAll
<1>4. ASSUME NEW r \in Requests, PageStore(r) PROVE HoldsAll'
  <2>1. r # None
    BY ConstantsOK
  <2>2. WalkOutput(There) \subseteq Outputs
    BY WalkedThere DEF There
  <2>3. ASSUME NEW q \in Requests PROVE Holds(q)'
    <3>1. CASE q = r
      <4>1. pc'[r] = "idle" /\ was'[r] = {} /\ gen'[r] = 0 /\ indexMu' = None
        BY <1>4 DEF PageStore, PageEnd, Go, Typed
      <4>2. QED
        BY <4>1, <2>1, <2>2, <3>1 DEF Holds
    <3>2. CASE q # r
      <4>1. /\ pc'[q] = pc[q] /\ was'[q] = was[q] /\ gen'[q] = gen[q] /\ about'[q] = about[q]
            /\ probed' = probed
        BY <1>4, <3>2 DEF PageStore, PageEnd, Go, Typed
      <4>2. pc[q] # "walk" /\ indexMu' # q
        BY <1>4, <3>2, ConstantsOK DEF PageStore, PageEnd, HoldsAll, Holds
      <4>3. QED
        BY <4>1, <4>2 DEF HoldsAll, Holds
    <3>3. QED
      BY <3>1, <3>2
  <2>4. QED
    BY <2>3 DEF HoldsAll
<1>5. ASSUME NEW r \in Requests, Refresh(r) PROVE HoldsAll'
    BY <1>5 DEF Refresh, Forget, Go, files, queue, index, request, history, answers, Typed,
       HoldsAll, Holds, Stages
<1>6. ASSUME NEW r \in Requests, DiscardTrack(r) PROVE HoldsAll'
    BY <1>6 DEF DiscardTrack, WithoutTrack, Go, files, queue, index, request, history, answers,
       Typed, HoldsAll, Holds, Stages
<1>7. ASSUME NEW r \in Requests, DiscardFile(r) PROVE HoldsAll'
    BY <1>7 DEF DiscardFile, Vanishes, Go, files, queue, index, request, history, answers, Typed,
       HoldsAll, Holds, Stages
<1>8. ASSUME NEW r \in Requests, DiscardEnd(r) PROVE HoldsAll'
    BY <1>8 DEF DiscardEnd, Forget, Go, files, queue, index, request, history, answers, Typed,
       HoldsAll, Holds, Stages
<1>9. ASSUME NEW r \in Requests, WatchProbe(r) PROVE HoldsAll'
    BY <1>9 DEF WatchProbe, Go, files, queue, index, request, history, answers, Typed, HoldsAll,
       Holds, Stages
<1>10. ASSUME NEW r \in Requests, WatchEnd(r) PROVE HoldsAll'
    BY <1>10 DEF WatchEnd, StopGuessing, Forget, Go, files, queue, index, request, history,
       answers, Typed, HoldsAll, Holds, Stages
<1>11. ASSUME NEW r \in Requests, NEW t \in Titles, Watch(r, t) PROVE HoldsAll'
    BY <1>11 DEF Watch, Go, files, queue, index, request, history, answers, Typed, HoldsAll,
       Holds, Stages
<1>12. ASSUME NEW r \in Requests, NEW t \in Titles \ Fixed, DiscardRel(r, t) PROVE HoldsAll'
  <2>1. Output(t) \in Outputs
    BY TitleNames
  <2>2. {out[Output(t)]} \subseteq Nat
    BY <2>1, ConstantsOK DEF Typed, Old
  <2>3. QED
    BY <1>12, <2>1, <2>2 DEF DiscardRel, Go, files, queue, index, request, history, answers,
       Typed, HoldsAll, Holds, Stages
<1>13. ASSUME NEW r \in Requests, NEW t \in Titles \ Fixed, DiscardOut(r, Output(t)) PROVE HoldsAll'
  <2>1. Output(t) \in Outputs
    BY TitleNames
  <2>2. QED
    BY <1>13, <2>1 DEF DiscardOut, Go, files, queue, index, request, history, answers, Typed,
       HoldsAll, Holds, Stages
<1>14. ASSUME (\E t \in Titles \ Fixed : EnqueueStat(t)) \/ EnqueueClaim PROVE HoldsAll'
  <2>1. UNCHANGED <<probed, index, request>>
    BY <1>14, Enqueues
  <2>2. QED
    BY <2>1 DEF index, request, HoldsAll, Holds
<1>15. ASSUME NEW t \in Titles \ Fixed, SourceComesOrGoes(t) PROVE HoldsAll'
    BY <1>15 DEF SourceComesOrGoes, Go, files, queue, index, request, history, answers, Typed,
       HoldsAll, Holds, Stages
<1>16. ASSUME NEW j \in Versions, RunRename(j) PROVE HoldsAll'
    BY <1>16 DEF RunRename, Move, Appears, Go, files, queue, index, request, history, answers,
       Typed, HoldsAll, Holds, Stages
<1>17. ASSUME NEW j \in Versions, RunTrack(j) PROVE HoldsAll'
    BY <1>17 DEF RunTrack, Move, Go, files, queue, index, request, history, answers, Typed,
       HoldsAll, Holds, Stages
<1>18. ASSUME NEW j \in Versions, RunFinish(j) PROVE HoldsAll'
    BY <1>18 DEF RunFinish, Move, Go, files, queue, index, request, history, answers, Typed,
       HoldsAll, Holds, Stages
<1>19. ASSUME NEW j \in Versions, RunCount(j) PROVE HoldsAll'
    BY <1>19 DEF RunCount, MayCount, Go, files, queue, index, request, history, answers, Typed,
       HoldsAll, Holds, Stages
<1>20. ASSUME Expire PROVE HoldsAll'
    BY <1>20 DEF Expire, files, queue, index, request, history, answers, Typed, HoldsAll, Holds,
       Stages
<1>21. ASSUME UNCHANGED vars PROVE HoldsAll'
    BY <1>21 DEF vars, files, queue, index, request, history, answers, Typed, HoldsAll, Holds,
       Stages
<1>22. ASSUME NEW j \in Versions, Strike(j) PROVE HoldsAll'
    BY <1>22 DEF Strike, index, request, HoldsAll, Holds
<1>23. ASSUME NEW j \in Versions, RunStop(j) PROVE HoldsAll'
    BY <1>23 DEF RunStop, index, request, HoldsAll, Holds
<1>24. ASSUME NEW r \in Requests, DiscardFail(r) PROVE HoldsAll'
    BY <1>24 DEF DiscardFail, Go, files, queue, index, request, history, answers, Typed,
       HoldsAll, Holds, Stages
<1>25. QED
    BY <1>1, <1>2, <1>3, <1>4, <1>5, <1>6, <1>7, <1>8, <1>9, <1>10, <1>11, <1>12, <1>13, <1>14,
       <1>15, <1>16, <1>17, <1>18, <1>19, <1>20, <1>21, <1>22, <1>23, <1>24
    DEF Next, Page, Discard, Run

-----------------------------------------------------------------------------
(* Conversions and their outputs *)

\* The steps of a conversion.
Steps(j) == Strike(j) \/ RunStop(j) \/ RunRename(j) \/ RunTrack(j) \/ RunFinish(j) \/ RunCount(j)

\* The steps that change the queue or the output tree.
LEMMA Makers ==
    ASSUME Typed, [Next]_vars
    PROVE  \/ /\ \E t \in Titles : Claim(t) /\ made < MaxJobs
              /\ UNCHANGED <<out, track, stray, wrong>>
           \/ \E j \in Versions : Steps(j)
           \/ \E r \in Requests : DiscardTrack(r) \/ DiscardFile(r)
           \/ UNCHANGED <<out, track, made, jobs, stray, wrong>>
<1>1. ASSUME NEW r \in Requests,
             Page(r) \/ DiscardFail(r) \/ DiscardEnd(r) \/ WatchProbe(r) \/ WatchEnd(r)
      PROVE  UNCHANGED <<out, track, made, jobs, stray, wrong>>
    BY <1>1 DEF Page, PageBegin, PageCached, PageWalk, PageStore, PageEnd, Refresh, DiscardEnd,
       DiscardFail, Forget, WatchProbe, WatchEnd, StopGuessing, files, queue, history
<1>2. ASSUME NEW r \in Requests, NEW t, Watch(r, t) \/ DiscardRel(r, t) \/ DiscardOut(r, t)
      PROVE  UNCHANGED <<out, track, made, jobs, stray, wrong>>
    BY <1>2 DEF Watch, DiscardRel, DiscardOut, files, queue, history
<1>3. ASSUME NEW t, SourceComesOrGoes(t)
      PROVE  UNCHANGED <<out, track, made, jobs, stray, wrong>>
    BY <1>3 DEF SourceComesOrGoes, queue, history
<1>4. ASSUME Expire \/ UNCHANGED vars
      PROVE  UNCHANGED <<out, track, made, jobs, stray, wrong>>
    BY <1>4 DEF Expire, vars, files, queue, history
<1>5. ASSUME (\E t \in Titles \ Fixed : EnqueueStat(t)) \/ EnqueueClaim
      PROVE  \/ /\ \E t \in Titles : Claim(t) /\ made < MaxJobs
                /\ UNCHANGED <<out, track, stray, wrong>>
             \/ UNCHANGED <<out, track, made, jobs, stray, wrong>>
    BY <1>5, Enqueues DEF files, history
<1>6. QED
    BY <1>1, <1>2, <1>3, <1>4, <1>5 DEF Next, Discard, Run, Steps

\* A conversion goes on.
LEMMA Moved ==
    ASSUME Typed, Entered, NEW j \in Versions, Steps(j)
    PROVE  /\ jobs[j].of \in Titles /\ Output(jobs[j].of) \in Outputs /\ j \in 1 .. made
           /\ \A k \in Versions : jobs'[k].of = jobs[k].of /\ (k # j => jobs'[k] = jobs[k])
           /\ jobs[j].struck => jobs'[j].struck
           /\ jobs[j].at \in Ended => jobs'[j].at \in Ended
           /\ made' = made
           /\ RunRename(j) => jobs[j].at = "queued" /\ jobs'[j].struck = jobs[j].struck
<1>1. jobs[j].at # "none"
    BY DEF Steps, Strike, RunStop, RunRename, RunTrack, RunFinish, RunCount, MayCount, Move
<1>2. made' = made
    BY DEF Steps, Strike, RunStop, RunRename, RunTrack, RunFinish, RunCount
<1>3. j \in 1 .. made /\ jobs[j].of \in Titles
    BY <1>1 DEF Entered, Typed, Versions
<1>4. \/ Strike(j) /\ jobs' = [jobs EXCEPT ![j].struck = TRUE] /\ jobs[j].at = "queued"
      \/ \E to \in {"over", "renamed", "written", "done", "counted"} :
             /\ jobs' = [jobs EXCEPT ![j].at = to]
             /\ jobs[j].at \in Ended => to = "counted"
    BY DEF Steps, Strike, RunStop, RunRename, RunTrack, RunFinish, RunCount, MayCount, Move, Ended
<1>5. \A k \in Versions : jobs'[k].of = jobs[k].of /\ (k # j => jobs'[k] = jobs[k])
    BY <1>4 DEF Typed, Conversions
<1>6. (jobs[j].struck => jobs'[j].struck) /\ (jobs[j].at \in Ended => jobs'[j].at \in Ended)
    BY <1>4 DEF Typed, Conversions, Ended
<1>7. RunRename(j) => jobs[j].at = "queued" /\ jobs'[j].struck = jobs[j].struck
    BY DEF RunRename, Move, Typed, Conversions
<1>8. QED
    BY <1>2, <1>3, <1>5, <1>6, <1>7, TitleNames

LEMMA BesideStep ==
    ASSUME Typed, Entered, HoldsAll, Untracked, Beside, [Next]_vars
    PROVE  Beside'
<1>1. ASSUME NEW j \in Versions, RunRename(j) PROVE Beside'
  <2>1. Output(jobs[j].of) \in Outputs
    BY <1>1, Moved DEF Steps
  <2>2. \A o \in Outputs : out'[o] = IF o = Output(jobs[j].of) THEN j ELSE out[o]
    BY <1>1 DEF RunRename, Typed
  <2>3. track' = track /\ stray \subseteq stray'
        /\ (out[Output(jobs[j].of)] = 0 \/ Output(jobs[j].of) \in stray')
    BY <1>1 DEF RunRename
  <2>4. QED
    BY <2>1, <2>2, <2>3 DEF Beside
<1>2. ASSUME NEW j \in Versions, RunTrack(j) PROVE Beside'
  <2> DEFINE o == Output(jobs[j].of)
             removing == \E r \in Requests : pc[r] = "remove" /\ about[r] = o
  <2>1. o \in Outputs /\ out' = out
    BY <1>2, Moved DEF Steps, RunTrack
  <2>2. CASE j \notin Soft
    <3>1. track' = track /\ stray' = stray
      BY <1>2, <2>2 DEF RunTrack
    <3>2. QED
      BY <2>1, <3>1 DEF Beside
  <2>3. CASE j \in Soft
    <3>1. \A x \in Outputs : track'[x] = IF x = o THEN j ELSE track[x]
      BY <1>2, <2>3 DEF RunTrack, Typed
    <3>2. CASE out[o] # j \/ removing
      <4>1. stray' = stray \cup {o}
        BY <1>2, <2>3, <3>2 DEF RunTrack
      <4>2. QED
        BY <2>1, <3>1, <4>1 DEF Beside
    <3>3. CASE out[o] = j /\ ~removing
      <4>1. stray' = stray \ {o}
        BY <1>2, <2>3, <3>3 DEF RunTrack
      <4>2. QED
        BY <2>1, <3>1, <3>3, <4>1 DEF Beside
    <3>4. QED
      BY <3>2, <3>3
  <2>4. QED
    BY <2>2, <2>3
<1>3. ASSUME NEW j \in Versions, Strike(j) \/ RunStop(j) \/ RunFinish(j) \/ RunCount(j)
      PROVE  Beside'
    BY <1>3 DEF Strike, RunStop, RunFinish, RunCount, files, history, Beside
<1>4. ASSUME NEW r \in Requests, DiscardTrack(r) PROVE Beside'
  <2>1. CASE track' = WithoutTrack(about[r]) /\ stray' = stray \ {about[r]}
    <3>1. \A o \in Outputs : track'[o] = IF o = about[r] THEN 0 ELSE track[o]
      BY <2>1 DEF WithoutTrack, Typed
    <3>2. QED
      BY <1>4, <2>1, <3>1 DEF DiscardTrack, Beside
  <2>2. CASE track' = track /\ stray' = stray \cup {about[r]}
    BY <1>4, <2>2 DEF DiscardTrack, Beside
  <2>3. QED
    BY <1>4, <2>1, <2>2 DEF DiscardTrack
<1>5. ASSUME NEW r \in Requests, DiscardFile(r) PROVE Beside'
  <2>1. about[r] \in Outputs /\ track' = track /\ stray \subseteq stray' /\ pc[r] = "remove"
    BY <1>5 DEF DiscardFile, HoldsAll, Holds
  <2>2. \A o \in Outputs : out'[o] = IF o = about[r] THEN 0 ELSE out[o]
    BY <1>5 DEF DiscardFile, Typed
  <2>3. track[about[r]] # 0 => about[r] \in stray'
    BY <1>5, <2>1 DEF DiscardFile, Untracked
  <2>4. QED
    BY <2>1, <2>2, <2>3 DEF Beside
<1>6. CASE UNCHANGED <<out, track, stray, wrong>>
    BY <1>6 DEF Beside
<1>7. QED
    BY <1>1, <1>2, <1>3, <1>4, <1>5, <1>6, Makers DEF Steps

\* What a discard knows stays so, whatever the queue and the other discards do.
LEMMA KnowsStep ==
    ASSUME Typed, Entered, HoldsAll, NEW r \in Requests, Knows(r), about[r] \in Outputs,
           about'[r] = about[r], gen'[r] = gen[r], was'[r] = was[r], [Next]_vars
    PROVE  Knows(r)'
<1>1. ASSUME NEW t \in Titles, Claim(t), made < MaxJobs, UNCHANGED out PROVE Knows(r)'
  <2>1. made' = made + 1 /\ made \in Nat /\ \A k \in Versions : k # made + 1 => jobs'[k] = jobs[k]
    BY <1>1, Asked
  <2>2. gen[r] <= made' /\ gen[r] \in Nat
    BY <2>1 DEF Knows, Typed
  <2>3. \A j \in Versions : j <= gen[r] => jobs'[j] = jobs[j]
    BY <2>1, <2>2 DEF Knows, Versions
  <2>4. ASSUME out[about[r]] \in 1 .. gen[r] PROVE out[about[r]] \in Versions
    BY <2>1, <2>2, <2>4, ConstantsOK DEF Knows, Typed, Versions
  <2>5. QED
    BY <1>1, <2>2, <2>3, <2>4 DEF Knows, Versions
<1>2. ASSUME NEW j \in Versions, Steps(j) PROVE Knows(r)'
  <2>1. /\ made' = made /\ \A k \in Versions : jobs'[k].of = jobs[k].of
        /\ \A k \in Versions : (jobs[k].struck => jobs'[k].struck)
                              /\ (jobs[k].at \in Ended => jobs'[k].at \in Ended)
    BY <1>2, Moved
  <2>2. ASSUME NEW k \in Versions, k <= gen[r], Output(jobs'[k].of) = about[r], ~jobs'[k].struck
        PROVE  jobs'[k].at \in Ended
    BY <2>1, <2>2 DEF Knows
  <2>3. ASSUME out'[about[r]] \in 1 .. gen[r], ~jobs'[out'[about[r]]].struck
        PROVE  out'[about[r]] \in was[r]
    <3>1. out'[about[r]] \in Versions
      BY <2>3, ConstantsOK DEF Knows, Typed, Versions
    <3>2. CASE out'[about[r]] = out[about[r]]
      BY <2>1, <2>3, <3>1, <3>2 DEF Knows
    <3>3. CASE out'[about[r]] # out[about[r]]
      <4>1. RunRename(j)
        BY <1>2, <3>3 DEF Steps, Strike, RunStop, RunTrack, RunFinish, RunCount, files
      <4>2. Output(jobs[j].of) = about[r] /\ out'[about[r]] = j
        BY <4>1, <3>3 DEF RunRename, Typed
      <4>3. jobs[j].at = "queued" /\ jobs'[j].struck = jobs[j].struck /\ j <= gen[r]
        BY <1>2, <4>1, <4>2, <2>3, Moved DEF Typed
      <4>4. QED
        BY <4>2, <4>3, <2>3 DEF Knows, Ended
    <3>4. QED
      BY <3>2, <3>3
  <2>4. QED
    BY <2>1, <2>2, <2>3 DEF Knows
<1>3. ASSUME NEW q \in Requests, DiscardTrack(q) PROVE Knows(r)'
    BY <1>3 DEF DiscardTrack, queue, Knows
<1>4. ASSUME NEW q \in Requests, DiscardFile(q) PROVE Knows(r)'
  <2>1. jobs' = jobs /\ made' = made
    BY <1>4 DEF DiscardFile, queue
  <2>2. out'[about[r]] = 0 \/ out'[about[r]] = out[about[r]]
    BY <1>4 DEF DiscardFile, Typed
  <2>3. 0 \notin 1 .. gen[r]
    OBVIOUS
  <2>4. QED
    BY <2>1, <2>2, <2>3 DEF Knows
<1>5. CASE UNCHANGED <<out, track, made, jobs, stray, wrong>>
    BY <1>5 DEF Knows
<1>6. QED
    BY <1>1, <1>2, <1>3, <1>4, <1>5, Makers

\* A discard by source is let in when no conversion that holds the output is under way: it knows.
LEMMA LooksAt ==
    ASSUME Typed, Entered, NEW r \in Requests, NEW t \in Titles, DiscardRel(r, t)
    PROVE  Knows(r)'
<1>1. /\ about'[r] = Output(t) /\ gen'[r] = made /\ was'[r] = {out[Output(t)]}
      /\ Output(t) \in Outputs
    BY TitleNames DEF DiscardRel, Go, Typed
<1>2. UNCHANGED <<out, made, jobs>> /\ made \in Nat
    BY DEF DiscardRel, files, queue, Typed
<1>3. ASSUME NEW j \in Versions, j <= made, Output(jobs[j].of) = Output(t), ~jobs[j].struck
      PROVE  jobs[j].at \in Ended
  <2>1. jobs[j].at \notin Active
    BY <1>3 DEF DiscardRel, ByRel, Busy
  <2>2. jobs[j].at # "none" /\ jobs[j].at \in Ats
    BY <1>2, <1>3 DEF Entered, Typed, Conversions, Versions
  <2>3. QED
    BY <2>1, <2>2 DEF Ats
<1>4. QED
    BY <1>1, <1>2, <1>3 DEF Knows

LEMMA LookedStep ==
    ASSUME Typed, Entered, HoldsAll, Looked, [Next]_vars
    PROVE  Looked'
<1> SUFFICES ASSUME NEW r \in Requests PROVE LookedAt(r)'
    BY DEF Looked
<1> DEFINE Stays == /\ about'[r] = about[r] /\ gen'[r] = gen[r] /\ was'[r] = was[r]
                    /\ \/ pc'[r] = pc[r]
                       \/ DiscardTrack(r) /\ pc'[r] = "remove" /\ pc[r] = "untrack"
           Enters == \/ \E t \in Titles \ Fixed : DiscardRel(r, t) /\ pc'[r] = "untrack"
                     \/ /\ pc[r] = "idle" /\ pc'[r] = "remove"
                        /\ was'[r] = was[r] /\ gen'[r] = gen[r]
<1>1. ASSUME pc[r] \in {"untrack", "remove"}, pc'[r] \in {"untrack", "remove"}
      PROVE  Stays
  <2>1. ASSUME NEW q \in Requests, Page(q) \/ WatchProbe(q) \/ WatchEnd(q) PROVE Stays
    BY <1>1, <2>1 DEF Page, PageBegin, PageCached, PageWalk, PageStore, PageEnd, Refresh,
       Forget, WatchProbe, WatchEnd, StopGuessing, Go, Typed
  <2>2. ASSUME NEW q \in Requests, Discard(q) PROVE Stays
    BY <1>1, <2>2 DEF Discard, DiscardTrack, DiscardFile, DiscardFail, DiscardEnd,
       Forget, Go, Typed
  <2>3. ASSUME NEW q \in Requests, NEW t, Watch(q, t) \/ DiscardRel(q, t) \/ DiscardOut(q, t)
        PROVE  Stays
    BY <1>1, <2>3 DEF Watch, DiscardRel, DiscardOut, Go, Typed
  <2>4. ASSUME NEW t, EnqueueStat(t) \/ EnqueueClaim \/ SourceComesOrGoes(t) PROVE Stays
    BY <1>1, <2>4 DEF EnqueueStat, EnqueueClaim, SourceComesOrGoes, request
  <2>5. ASSUME NEW j \in Versions, Run(j) PROVE Stays
    BY <1>1, <2>5 DEF Run, Strike, RunStop, RunRename, RunTrack, RunFinish, RunCount, request
  <2>6. CASE Expire \/ UNCHANGED vars
    BY <1>1, <2>6 DEF Expire, vars, request
  <2> HIDE DEF Stays
  <2>7. QED
    BY <2>1, <2>2, <2>3, <2>4, <2>5, <2>6 DEF Next
<1>2. ASSUME pc[r] \notin {"untrack", "remove"}, pc'[r] \in {"untrack", "remove"}
      PROVE  Enters
  <2>1. ASSUME NEW q \in Requests, Page(q) \/ WatchProbe(q) \/ WatchEnd(q) PROVE FALSE
    BY <1>2, <2>1 DEF Page, PageBegin, PageCached, PageWalk, PageStore, PageEnd, Refresh,
       Forget, WatchProbe, WatchEnd, StopGuessing, Go, Typed
  <2>2. ASSUME NEW q \in Requests, Discard(q) PROVE FALSE
    BY <1>2, <2>2 DEF Discard, DiscardTrack, DiscardFile, DiscardFail, DiscardEnd,
       Forget, Go, Typed
  <2>3. ASSUME NEW q \in Requests, NEW t \in Titles \ Fixed,
               Watch(q, t) \/ DiscardRel(q, t) \/ DiscardOut(q, Output(t))
        PROVE  Enters
    BY <1>2, <2>3 DEF Watch, DiscardRel, DiscardOut, Go, Typed
  <2>4. ASSUME NEW q \in Requests, NEW t \in Titles, Watch(q, t) PROVE FALSE
    BY <1>2, <2>4 DEF Watch, Go, Typed
  <2>5. ASSUME NEW t, EnqueueStat(t) \/ EnqueueClaim \/ SourceComesOrGoes(t) PROVE FALSE
    BY <1>2, <2>5 DEF EnqueueStat, EnqueueClaim, SourceComesOrGoes, request
  <2>6. ASSUME NEW j \in Versions, Run(j) PROVE FALSE
    BY <1>2, <2>6 DEF Run, Strike, RunStop, RunRename, RunTrack, RunFinish, RunCount, request
  <2>7. CASE Expire \/ UNCHANGED vars
    BY <1>2, <2>7 DEF Expire, vars, request
  <2> HIDE DEF Enters
  <2>8. QED
    BY <2>1, <2>2, <2>3, <2>4, <2>5, <2>6, <2>7 DEF Next
<1>3. CASE pc'[r] \notin {"untrack", "remove"}
    BY <1>3 DEF LookedAt
<1>4. CASE pc'[r] \in {"untrack", "remove"} /\ pc[r] \notin {"untrack", "remove"}
  <2>1. CASE \E t \in Titles \ Fixed : DiscardRel(r, t) /\ pc'[r] = "untrack"
    <3>1. Knows(r)'
      BY <2>1, LooksAt
    <3>2. QED
      BY <2>1, <3>1 DEF LookedAt
  <2>2. CASE pc[r] = "idle" /\ pc'[r] = "remove" /\ was'[r] = was[r] /\ gen'[r] = gen[r]
    <3>1. was[r] = {} /\ gen[r] = 0
      BY <2>2 DEF HoldsAll, Holds
    <3>2. QED
      BY <2>2, <3>1 DEF LookedAt
  <2>3. QED
    BY <1>2, <1>4, <2>1, <2>2
<1>5. CASE pc'[r] \in {"untrack", "remove"} /\ pc[r] \in {"untrack", "remove"}
  <2>1. /\ about'[r] = about[r] /\ gen'[r] = gen[r] /\ was'[r] = was[r]
        /\ pc'[r] = pc[r] \/ (DiscardTrack(r) /\ pc'[r] = "remove" /\ pc[r] = "untrack")
    BY <1>1, <1>5
  <2>2. about[r] \in Outputs
    BY <1>5 DEF HoldsAll, Holds
  <2>3. CASE pc'[r] = pc[r] /\ was[r] = {} /\ gen[r] = 0 /\ pc[r] = "remove"
    BY <2>1, <2>3 DEF LookedAt
  <2>4. CASE pc'[r] = pc[r] /\ Knows(r)
    <3>1. Knows(r)'
      BY <2>1, <2>2, <2>4, KnowsStep
    <3>2. QED
      BY <3>1 DEF LookedAt
  <2>5. CASE pc[r] = "untrack"
    <3>1. Knows(r)
      BY <2>5 DEF Looked, LookedAt
    <3>2. Knows(r)'
      BY <2>1, <2>2, <3>1, KnowsStep
    <3>3. QED
      BY <3>2 DEF LookedAt
  <2>6. QED
    BY <1>5, <2>1, <2>3, <2>4, <2>5 DEF Looked, LookedAt
<1>6. QED
    BY <1>3, <1>4, <1>5

\* A discard comes to remove the file: by its source, or by where it is.
LEMMA Removes ==
    ASSUME Typed, HoldsAll, [Next]_vars, NEW r \in Requests, pc'[r] = "remove"
    PROVE  \/ pc[r] = "remove" /\ about'[r] = about[r] /\ was'[r] = was[r]
           \/ was'[r] = {}
           \/ DiscardTrack(r)
<1> DEFINE Good == \/ pc[r] = "remove" /\ about'[r] = about[r] /\ was'[r] = was[r]
                   \/ was'[r] = {}
                   \/ DiscardTrack(r)
<1>1. ASSUME NEW q \in Requests, Page(q) \/ WatchProbe(q) \/ WatchEnd(q) PROVE Good
    BY <1>1 DEF Page, PageBegin, PageCached, PageWalk, PageStore, PageEnd, Refresh,
       Forget, WatchProbe, WatchEnd, StopGuessing, Go, Typed
<1>2. ASSUME NEW q \in Requests, Discard(q) PROVE Good
    BY <1>2 DEF Discard, DiscardTrack, DiscardFile, DiscardFail, DiscardEnd, Forget, Go, Typed
<1>3. ASSUME NEW q \in Requests, NEW t, Watch(q, t) \/ DiscardRel(q, t) PROVE Good
    BY <1>3 DEF Watch, DiscardRel, Go, Typed
<1>4. ASSUME NEW q \in Requests, NEW t \in Titles \ Fixed, DiscardOut(q, Output(t)) PROVE Good
  <2>1. was' = was /\ pc[q] = "idle" /\ (q # r => pc'[r] = pc[r] /\ about'[r] = about[r])
    BY <1>4 DEF DiscardOut, Go, Typed
  <2>2. QED
    BY <2>1 DEF HoldsAll, Holds
<1>5. ASSUME NEW t, EnqueueStat(t) \/ EnqueueClaim \/ SourceComesOrGoes(t) PROVE Good
    BY <1>5 DEF EnqueueStat, EnqueueClaim, SourceComesOrGoes, request
<1>6. ASSUME NEW j \in Versions, Run(j) PROVE Good
    BY <1>6 DEF Run, Strike, RunStop, RunRename, RunTrack, RunFinish, RunCount, request
<1>7. ASSUME Expire \/ UNCHANGED vars PROVE Good
    BY <1>7 DEF Expire, vars, request
<1> HIDE DEF Good
<1>8. Good
    BY <1>1, <1>2, <1>3, <1>4, <1>5, <1>6, <1>7 DEF Next
<1>9. QED
    BY <1>8 DEF Good

\* What a discard has removed comes back only with a reason.
LEMMA TrackStep ==
    ASSUME Typed, Entered, [Next]_vars, NEW r \in Requests, pc[r] = "remove",
           track[about[r]] = 0 \/ about[r] \in stray, about[r] \in Outputs
    PROVE  track'[about[r]] = 0 \/ about[r] \in stray'
<1>1. ASSUME NEW j \in Versions, RunTrack(j)
      PROVE  track'[about[r]] = 0 \/ about[r] \in stray'
  <2>1. CASE j \notin Soft
    BY <1>1, <2>1 DEF RunTrack
  <2>2. CASE j \in Soft /\ Output(jobs[j].of) = about[r]
    BY <1>1, <2>2 DEF RunTrack
  <2>3. CASE j \in Soft /\ Output(jobs[j].of) # about[r]
    <3>1. track'[about[r]] = track[about[r]]
      BY <1>1, <2>3 DEF RunTrack, Typed
    <3>2. about[r] \in stray => about[r] \in stray'
      BY <1>1, <2>3 DEF RunTrack
    <3>3. QED
      BY <3>1, <3>2
  <2>4. QED
    BY <2>1, <2>2, <2>3
<1>2. ASSUME NEW j \in Versions, Steps(j), ~RunTrack(j)
      PROVE  track' = track /\ stray \subseteq stray'
    BY <1>2 DEF Steps, Strike, RunStop, RunRename, RunFinish, RunCount, files, history
<1>3. ASSUME NEW q \in Requests, DiscardTrack(q)
      PROVE  track'[about[r]] = 0 \/ about[r] \in stray'
  <2>1. CASE track' = WithoutTrack(about[q]) /\ stray' = stray \ {about[q]}
    BY <2>1 DEF WithoutTrack, Typed
  <2>2. CASE track' = track /\ stray' = stray \cup {about[q]}
    BY <2>2
  <2>3. QED
    BY <1>3, <2>1, <2>2 DEF DiscardTrack
<1>4. ASSUME NEW q \in Requests, DiscardFile(q) PROVE track' = track /\ stray \subseteq stray'
    BY <1>4 DEF DiscardFile
<1>5. QED
    BY <1>1, <1>2, <1>3, <1>4, Makers

LEMMA UntrackedStep ==
    ASSUME Typed, Entered, HoldsAll, Untracked, [Next]_vars
    PROVE  Untracked'
<1> SUFFICES ASSUME NEW r \in Requests, pc'[r] = "remove", was'[r] # {}
             PROVE  track'[about'[r]] = 0 \/ about'[r] \in stray'
    BY DEF Untracked
<1>1. CASE pc[r] = "remove" /\ about'[r] = about[r] /\ was'[r] = was[r]
  <2>1. about[r] \in Outputs /\ (track[about[r]] = 0 \/ about[r] \in stray)
    BY <1>1 DEF Untracked, HoldsAll, Holds
  <2>2. QED
    BY <1>1, <2>1, TrackStep
<1>2. CASE DiscardTrack(r)
  <2>1. about'[r] = about[r] /\ about[r] \in Outputs
    BY <1>2 DEF DiscardTrack, HoldsAll, Holds
  <2>2. CASE track' = WithoutTrack(about[r])
    BY <2>1, <2>2 DEF WithoutTrack, Typed
  <2>3. CASE stray' = stray \cup {about[r]}
    BY <2>1, <2>3
  <2>4. QED
    BY <1>2, <2>2, <2>3 DEF DiscardTrack
<1>3. QED
    BY <1>1, <1>2, Removes

LEMMA SparesStep ==
    ASSUME Typed, HoldsAll, Looked, wrong = {}, [Next]_vars
    PROVE  wrong' = {}
<1>1. ASSUME NEW r \in Requests, DiscardFile(r) PROVE wrong' = {}
  <2>1. wrong' = {j \in {out[about[r]]} \ was[r] : 0 < j /\ j <= gen[r] /\ ~jobs[j].struck}
    BY <1>1 DEF DiscardFile
  <2>2. about[r] \in Outputs /\ gen[r] \in Nat
    BY <1>1 DEF DiscardFile, HoldsAll, Holds, Typed
  <2>3. out[about[r]] \in Nat
    BY <2>2, ConstantsOK DEF Typed, Old
  <2>4. CASE gen[r] = 0
    BY <2>1, <2>3, <2>4
  <2>5. CASE Knows(r)
    <3>1. out[about[r]] \in 1 .. gen[r] /\ ~jobs[out[about[r]]].struck
              => out[about[r]] \in was[r]
      BY <2>5 DEF Knows
    <3>2. QED
      BY <2>1, <2>2, <2>3, <3>1
  <2>6. QED
    BY <1>1, <2>4, <2>5 DEF DiscardFile, Looked, LookedAt
<1>2. ASSUME NEW r \in Requests, DiscardTrack(r) PROVE wrong' = {}
    BY <1>2 DEF DiscardTrack
<1>3. ASSUME NEW j \in Versions, Steps(j) PROVE wrong' = {}
    BY <1>3 DEF Steps, Strike, RunStop, RunRename, RunTrack, RunFinish, RunCount, history
<1>4. QED
    BY <1>1, <1>2, <1>3, Makers

-----------------------------------------------------------------------------
(* The index *)

LEMMA SaidTrueStep ==
    ASSUME Typed, Entered, HoldsAll, SaidTrue, [Next]_vars
    PROVE  SaidTrue'
<1>1. ASSUME NEW r \in Requests, PageBegin(r) PROVE SaidTrue'
  <2>1. promised' = [promised EXCEPT ![r] = [there |-> counted, gone |-> discarded,
                                                   told |-> explained]]
    BY <1>1 DEF PageBegin, PageEnd
  <2>2. UNCHANGED <<out, probed, counted, discarded, explained>>
    BY <1>1 DEF PageBegin, PageEnd, files
  <2>3. \A q \in Requests : /\ promised'[q].there \subseteq counted
                            /\ promised'[q].gone \subseteq discarded
                            /\ promised'[q].told \subseteq explained
    BY <2>1 DEF Typed, SaidTrue, NoPromise
  <2>4. QED
    BY <2>2, <2>3 DEF SaidTrue
<1>2. ASSUME NEW r \in Requests, PageCached(r) PROVE SaidTrue'
  <2>1. promised' = [promised EXCEPT ![r] = NoPromise]
    BY <1>2 DEF PageCached, PageEnd
  <2>2. UNCHANGED <<out, probed, counted, discarded, explained>>
    BY <1>2 DEF PageCached, PageEnd, files
  <2>3. \A q \in Requests : /\ promised'[q].there \subseteq counted
                            /\ promised'[q].gone \subseteq discarded
                            /\ promised'[q].told \subseteq explained
    BY <2>1 DEF Typed, SaidTrue, NoPromise
  <2>4. QED
    BY <2>2, <2>3 DEF SaidTrue
<1>3. ASSUME NEW r \in Requests, PageWalk(r) PROVE SaidTrue'
    BY <1>3 DEF PageWalk, Go, files, queue, index, request, history, answers, SaidTrue
<1>4. ASSUME NEW r \in Requests, PageStore(r) PROVE SaidTrue'
  <2>1. promised' = [promised EXCEPT ![r] = NoPromise]
    BY <1>4 DEF PageStore, PageEnd
  <2>2. UNCHANGED <<out, probed, counted, discarded, explained>>
    BY <1>4 DEF PageStore, PageEnd, files
  <2>3. \A q \in Requests : /\ promised'[q].there \subseteq counted
                            /\ promised'[q].gone \subseteq discarded
                            /\ promised'[q].told \subseteq explained
    BY <2>1 DEF Typed, SaidTrue, NoPromise
  <2>4. QED
    BY <2>2, <2>3 DEF SaidTrue
<1>5. ASSUME NEW r \in Requests, Refresh(r) PROVE SaidTrue'
    BY <1>5 DEF Refresh, Forget, Go, files, queue, index, request, history, answers, SaidTrue
<1>6. ASSUME NEW r \in Requests, DiscardTrack(r) PROVE SaidTrue'
    BY <1>6 DEF DiscardTrack, WithoutTrack, Go, files, queue, index, request, history, answers,
       SaidTrue
<1>7. ASSUME NEW r \in Requests, DiscardFile(r) PROVE SaidTrue'
  <2>1. about[r] \in Outputs
    BY <1>7 DEF DiscardFile, HoldsAll, Holds
  <2>2. \A o \in Outputs : out'[o] = IF o = about[r] THEN 0 ELSE out[o]
    BY <1>7 DEF DiscardFile, Typed
  <2>3. /\ counted' = counted \ {about[r]} /\ counted' \subseteq Outputs
        /\ discarded' = discarded /\ discarded' \subseteq Outputs
        /\ explained' = explained /\ probed' = probed
    BY <1>7 DEF DiscardFile, Vanishes, Typed
  <2>4. \A q \in Requests : /\ promised'[q].there = promised[q].there \ {about[r]}
                            /\ promised'[q].gone = promised[q].gone
                            /\ promised'[q].told = promised[q].told
    BY <1>7 DEF DiscardFile, Vanishes, Typed, Promises
  <2>5. QED
    BY <2>1, <2>2, <2>3, <2>4 DEF SaidTrue
<1>8. ASSUME NEW r \in Requests, DiscardEnd(r) PROVE SaidTrue'
  <2>1. about[r] \in Outputs /\ discarded' = discarded \cup ({about[r]} \ There)
    BY <1>8 DEF DiscardEnd, HoldsAll, Holds
  <2>2. \A o \in {about[r]} \ There : out[o] = 0
    BY <2>1 DEF There
  <2>3. QED
    BY <1>8, <2>1, <2>2 DEF DiscardEnd, Forget, files, SaidTrue
<1>9. ASSUME NEW r \in Requests, WatchProbe(r) PROVE SaidTrue'
    BY <1>9 DEF WatchProbe, Go, files, queue, index, request, history, answers, SaidTrue
<1>10. ASSUME NEW r \in Requests, WatchEnd(r) PROVE SaidTrue'
  <2>1. about[r] \in probed /\ explained' = explained \cup {about[r]}
    BY <1>10 DEF WatchEnd, HoldsAll, Holds
  <2>2. QED
    BY <1>10, <2>1 DEF WatchEnd, StopGuessing, Forget, files, SaidTrue
<1>11. ASSUME NEW r \in Requests, NEW t \in Titles, Watch(r, t) PROVE SaidTrue'
    BY <1>11 DEF Watch, Go, files, queue, index, request, history, answers, SaidTrue
<1>12. ASSUME NEW r \in Requests, NEW t \in Titles \ Fixed, DiscardRel(r, t) PROVE SaidTrue'
    BY <1>12 DEF DiscardRel, Go, files, queue, index, request, history, answers, SaidTrue
<1>13. ASSUME NEW r \in Requests, NEW t \in Titles \ Fixed, DiscardOut(r, Output(t)) PROVE SaidTrue'
    BY <1>13 DEF DiscardOut, Go, files, queue, index, request, history, answers, SaidTrue
<1>14. ASSUME (\E t \in Titles \ Fixed : EnqueueStat(t)) \/ EnqueueClaim PROVE SaidTrue'
  <2>1. UNCHANGED <<files, probed, history>>
    BY <1>14, Enqueues
  <2>2. QED
    BY <2>1 DEF files, history, answers, SaidTrue
<1>15. ASSUME NEW t \in Titles \ Fixed, SourceComesOrGoes(t) PROVE SaidTrue'
    BY <1>15 DEF SourceComesOrGoes, Go, files, queue, index, request, history, answers, SaidTrue
<1>16. ASSUME NEW j \in Versions, RunRename(j) PROVE SaidTrue'
  <2>1. Output(jobs[j].of) \in Outputs /\ j # 0
    BY <1>16, Moved DEF Versions, Steps
  <2>2. \A o \in Outputs : out'[o] = IF o = Output(jobs[j].of) THEN j ELSE out[o]
    BY <1>16 DEF RunRename, Typed
  <2>3. /\ counted' = counted /\ counted' \subseteq Outputs
        /\ discarded' = discarded \ {Output(jobs[j].of)} /\ discarded' \subseteq Outputs
        /\ explained' = explained /\ probed \subseteq probed'
    BY <1>16 DEF RunRename, Appears, Typed
  <2>4. \A r \in Requests :
            /\ promised'[r].there = promised[r].there
            /\ promised'[r].gone = promised[r].gone \ {Output(jobs[j].of)}
            /\ promised'[r].told = promised[r].told
    BY <1>16 DEF RunRename, Appears, Typed, Promises
  <2>5. QED
    BY <2>1, <2>2, <2>3, <2>4 DEF SaidTrue
<1>17. ASSUME NEW j \in Versions, RunTrack(j) PROVE SaidTrue'
    BY <1>17 DEF RunTrack, Move, Go, files, queue, index, request, history, answers, SaidTrue
<1>18. ASSUME NEW j \in Versions, RunFinish(j) PROVE SaidTrue'
    BY <1>18 DEF RunFinish, Move, Go, files, queue, index, request, history, answers, SaidTrue
<1>19. ASSUME NEW j \in Versions, RunCount(j) PROVE SaidTrue'
  <2>1. counted' = counted \cup {o \in Outputs : out[o] = j} /\ j # 0
    BY <1>19 DEF RunCount, Versions
  <2>2. QED
    BY <1>19, <2>1 DEF RunCount, files, SaidTrue
<1>20. ASSUME Expire PROVE SaidTrue'
    BY <1>20 DEF Expire, files, queue, index, request, history, answers, SaidTrue
<1>21. ASSUME UNCHANGED vars PROVE SaidTrue'
    BY <1>21 DEF vars, files, queue, index, request, history, answers, SaidTrue
<1>22. ASSUME NEW j \in Versions, Strike(j) PROVE SaidTrue'
    BY <1>22 DEF Strike, files, history, answers, SaidTrue
<1>23. ASSUME NEW j \in Versions, RunStop(j) PROVE SaidTrue'
    BY <1>23 DEF RunStop, files, history, answers, SaidTrue
<1>24. ASSUME NEW r \in Requests, DiscardFail(r) PROVE SaidTrue'
    BY <1>24 DEF DiscardFail, files, history, answers, SaidTrue
<1>25. QED
    BY <1>1, <1>2, <1>3, <1>4, <1>5, <1>6, <1>7, <1>8, <1>9, <1>10, <1>11, <1>12, <1>13, <1>14,
       <1>15, <1>16, <1>17, <1>18, <1>19, <1>20, <1>21, <1>22, <1>23, <1>24
    DEF Next, Page, Discard, Run

\* Pages wait for what had been counted when they came; outputs are counted one by one.
Steady ==
    /\ \/ finished' = finished /\ counted' \subseteq counted
       \/ finished' = finished + 1
    /\ \A q \in Requests : Waits(q)' =>
           \/ Waits(q) /\ gen'[q] = gen[q] /\ promised'[q].there \subseteq promised[q].there
           \/ gen'[q] = finished /\ promised'[q].there \subseteq counted /\ finished' = finished

LEMMA SteadyStep ==
    ASSUME Typed, Entered, [Next]_vars
    PROVE  Steady
<1>1. ASSUME NEW r \in Requests, PageBegin(r) PROVE Steady
    BY <1>1 DEF PageBegin, Go, files, queue, index, request, history, answers, Steady, Waits,
       Typed
<1>2. ASSUME NEW r \in Requests, PageCached(r) PROVE Steady
    BY <1>2 DEF PageCached, PageEnd, Go, files, queue, index, request, history, answers, Steady,
       Waits, Typed
<1>3. ASSUME NEW r \in Requests, PageWalk(r) PROVE Steady
    BY <1>3 DEF PageWalk, Go, files, queue, index, request, history, answers, Steady, Waits, Typed
<1>4. ASSUME NEW r \in Requests, PageStore(r) PROVE Steady
    BY <1>4 DEF PageStore, PageEnd, Go, files, queue, index, request, history, answers, Steady,
       Waits, Typed
<1>5. ASSUME NEW r \in Requests, Refresh(r) PROVE Steady
    BY <1>5 DEF Refresh, Forget, Go, files, queue, index, request, history, answers, Steady,
       Waits, Typed
<1>6. ASSUME NEW r \in Requests, DiscardTrack(r) PROVE Steady
    BY <1>6 DEF DiscardTrack, WithoutTrack, Go, files, queue, index, request, history, answers,
       Steady, Waits, Typed
<1>7. ASSUME NEW r \in Requests, DiscardFile(r) PROVE Steady
  <2>1. finished' = finished /\ counted' \subseteq counted /\ gen' = gen
    BY <1>7 DEF DiscardFile, Vanishes, queue
  <2>2. \A q \in Requests : promised'[q].there \subseteq promised[q].there
    BY <1>7 DEF DiscardFile, Vanishes, Typed, Promises
  <2>3. \A q \in Requests : Waits(q)' => Waits(q)
    BY <1>7 DEF DiscardFile, Go, Typed, Waits
  <2>4. QED
    BY <2>1, <2>2, <2>3 DEF Steady
<1>8. ASSUME NEW r \in Requests, DiscardEnd(r) PROVE Steady
    BY <1>8 DEF DiscardEnd, Forget, Go, files, queue, index, request, history, answers, Steady,
       Waits, Typed
<1>9. ASSUME NEW r \in Requests, WatchProbe(r) PROVE Steady
    BY <1>9 DEF WatchProbe, Go, files, queue, index, request, history, answers, Steady, Waits,
       Typed
<1>10. ASSUME NEW r \in Requests, WatchEnd(r) PROVE Steady
    BY <1>10 DEF WatchEnd, StopGuessing, Forget, Go, files, queue, index, request, history,
       answers, Steady, Waits, Typed
<1>11. ASSUME NEW r \in Requests, NEW t \in Titles, Watch(r, t) PROVE Steady
    BY <1>11 DEF Watch, Go, files, queue, index, request, history, answers, Steady, Waits, Typed
<1>12. ASSUME NEW r \in Requests, NEW t \in Titles \ Fixed, DiscardRel(r, t) PROVE Steady
    BY <1>12 DEF DiscardRel, Go, files, queue, index, request, history, answers, Steady, Waits,
       Typed
<1>13. ASSUME NEW r \in Requests, NEW t \in Titles \ Fixed, DiscardOut(r, Output(t)) PROVE Steady
    BY <1>13 DEF DiscardOut, Go, files, queue, index, request, history, answers, Steady, Waits,
       Typed
<1>14. ASSUME (\E t \in Titles \ Fixed : EnqueueStat(t)) \/ EnqueueClaim PROVE Steady
  <2>1. UNCHANGED <<finished, request, history>>
    BY <1>14, Enqueues
  <2>2. QED
    BY <2>1 DEF request, history, answers, Steady, Waits
<1>15. ASSUME NEW t \in Titles \ Fixed, SourceComesOrGoes(t) PROVE Steady
    BY <1>15 DEF SourceComesOrGoes, Go, files, queue, index, request, history, answers, Steady,
       Waits, Typed
<1>16. ASSUME NEW j \in Versions, RunRename(j) PROVE Steady
  <2>1. finished' = finished /\ counted' \subseteq counted /\ UNCHANGED <<pc, gen>>
    BY <1>16 DEF RunRename, Appears, request
  <2>2. \A q \in Requests : promised'[q].there \subseteq promised[q].there
    BY <1>16 DEF RunRename, Appears, Typed, Promises
  <2>3. QED
    BY <2>1, <2>2 DEF Steady, Waits
<1>17. ASSUME NEW j \in Versions, RunTrack(j) PROVE Steady
    BY <1>17 DEF RunTrack, Move, Go, files, queue, index, request, history, answers, Steady,
       Waits, Typed
<1>18. ASSUME NEW j \in Versions, RunFinish(j) PROVE Steady
    BY <1>18 DEF RunFinish, Move, Go, files, queue, index, request, history, answers, Steady,
       Waits, Typed
<1>19. ASSUME NEW j \in Versions, RunCount(j) PROVE Steady
    BY <1>19 DEF RunCount, MayCount, Go, files, queue, index, request, history, answers, Steady,
       Waits, Typed
<1>20. ASSUME Expire PROVE Steady
    BY <1>20 DEF Expire, files, queue, index, request, history, answers, Steady, Waits, Typed
<1>21. ASSUME UNCHANGED vars PROVE Steady
    BY <1>21 DEF vars, files, queue, index, request, history, answers, Steady, Waits, Typed
<1>22. ASSUME NEW j \in Versions, Strike(j) PROVE Steady
    BY <1>22 DEF Strike, request, history, answers, Steady, Waits
<1>23. ASSUME NEW j \in Versions, RunStop(j) PROVE Steady
    BY <1>23 DEF RunStop, request, history, answers, Steady, Waits
<1>24. ASSUME NEW r \in Requests, DiscardFail(r) PROVE Steady
    BY <1>24 DEF DiscardFail, Go, queue, history, answers, Steady, Waits, Typed
<1>25. QED
    BY <1>1, <1>2, <1>3, <1>4, <1>5, <1>6, <1>7, <1>8, <1>9, <1>10, <1>11, <1>12, <1>13, <1>14,
       <1>15, <1>16, <1>17, <1>18, <1>19, <1>20, <1>21, <1>22, <1>23, <1>24
    DEF Next, Page, Discard, Run

LEMMA NotWalking ==
    ASSUME HoldsAll, MayForget
    PROVE  \A q \in Requests : pc[q] # "walk"
    BY ConstantsOK DEF HoldsAll, Holds, MayForget

\* A walk goes on, or begins, or something is forgotten while there is none.
LEMMA WalkSteps ==
    ASSUME Typed, HoldsAll, [Next]_vars, NEW r \in Requests, pc'[r] = "walk"
    PROVE  \/ /\ pc[r] = "walk" /\ was'[r] = was[r] /\ gen'[r] = gen[r]
              /\ discarded' \subseteq discarded
           \/ PageWalk(r)
<1> DEFINE Good == \/ /\ pc[r] = "walk" /\ was'[r] = was[r] /\ gen'[r] = gen[r]
                      /\ discarded' \subseteq discarded
                   \/ PageWalk(r)
<1> USE ConstantsOK
<1>1. ASSUME NEW q \in Requests, PageBegin(q) \/ PageCached(q) \/ PageStore(q) PROVE Good
    BY <1>1 DEF PageBegin, PageCached, PageStore, PageEnd, Go, Typed
<1>2. ASSUME NEW q \in Requests, PageWalk(q) PROVE Good
    BY <1>2 DEF PageWalk, Go, Typed, history, answers
<1>3. ASSUME NEW q \in Requests, Refresh(q) \/ WatchEnd(q) PROVE Good
    BY <1>3 DEF Refresh, WatchEnd, StopGuessing, Forget, Go, Typed
<1>4. ASSUME NEW q \in Requests, DiscardEnd(q) PROVE Good
  <2>1. pc[r] # "walk"
    BY <1>4, NotWalking DEF DiscardEnd, Forget
  <2>2. QED
    BY <1>4, <2>1 DEF DiscardEnd, Forget, Go, Typed
<1>5. ASSUME NEW q \in Requests,
             DiscardTrack(q) \/ DiscardFile(q) \/ DiscardFail(q) \/ WatchProbe(q)
      PROVE  Good
    BY <1>5 DEF DiscardTrack, DiscardFile, DiscardFail, Vanishes, WatchProbe, Go, Typed,
       history, answers
<1>6. ASSUME NEW q \in Requests, NEW t, Watch(q, t) \/ DiscardRel(q, t) \/ DiscardOut(q, t)
      PROVE  Good
    BY <1>6 DEF Watch, DiscardRel, DiscardOut, Go, Typed, history, answers
<1>7. ASSUME NEW t, EnqueueStat(t) \/ EnqueueClaim \/ SourceComesOrGoes(t) PROVE Good
    BY <1>7 DEF EnqueueStat, EnqueueClaim, SourceComesOrGoes, request, history, answers
<1>8. ASSUME NEW j \in Versions, Run(j) PROVE Good
    BY <1>8 DEF Run, Strike, RunStop, RunRename, RunTrack, RunFinish, RunCount, Appears, request,
       history, answers
<1>9. ASSUME Expire \/ UNCHANGED vars PROVE Good
    BY <1>9 DEF Expire, vars, request, history, answers
<1> HIDE DEF Good
<1>10. Good
    BY <1>1, <1>2, <1>3, <1>4, <1>5, <1>6, <1>7, <1>8, <1>9 DEF Next, Page, Discard
<1>11. QED
    BY <1>10 DEF Good

LEMMA WalksStep ==
    ASSUME Typed, Entered, HoldsAll, SaidTrue, Walks, [Next]_vars
    PROVE  Walks'
<1>1. Steady
    BY SteadyStep
<1>2. finished \in Nat /\ \A q \in Requests : gen[q] \in Nat
    BY DEF Typed
<1>3. ASSUME NEW r \in Requests, Waits(r)' PROVE gen'[r] <= finished'
    BY <1>1, <1>2, <1>3 DEF Steady, Walks
<1>4. ASSUME NEW r \in Requests, pc'[r] = "walk",
             pc[r] = "walk", was'[r] = was[r], gen'[r] = gen[r], discarded' \subseteq discarded
      PROVE  WalkSees(r)'
  <2>1. /\ gen[r] = finished => counted \subseteq was[r]
        /\ \A q \in Requests : Waits(q) /\ gen[q] = gen[r] => promised[q].there \subseteq was[r]
        /\ discarded \cap was[r] = {}
        /\ gen[r] <= finished
    BY <1>4 DEF Walks, WalkSees, Waits
  <2>2. gen'[r] = finished' => counted' \subseteq was'[r]
    BY <1>1, <1>2, <1>4, <2>1 DEF Steady
  <2>3. ASSUME NEW q \in Requests, Waits(q)', gen'[q] = gen'[r]
        PROVE  promised'[q].there \subseteq was'[r]
    BY <1>1, <1>4, <2>1, <2>3 DEF Steady
  <2>4. QED
    BY <1>4, <2>1, <2>2, <2>3 DEF WalkSees
<1>5. ASSUME NEW r \in Requests, PageWalk(r) PROVE WalkSees(r)'
  <2>1. was'[r] = There
    BY <1>5, WalkedThere DEF PageWalk, Typed
  <2>2. UNCHANGED <<counted, discarded, promised>>
    BY <1>5 DEF PageWalk, history, answers
  <2>3. counted \subseteq There /\ discarded \cap There = {}
    BY DEF SaidTrue, There, Typed
  <2>4. \A q \in Requests : promised[q].there \subseteq There
    BY <2>3 DEF SaidTrue
  <2>5. QED
    BY <2>1, <2>2, <2>3, <2>4 DEF WalkSees
<1>6. ASSUME NEW r \in Requests PROVE WalkSees(r)'
  <2>1. CASE pc'[r] # "walk"
    BY <2>1 DEF WalkSees
  <2>2. CASE pc'[r] = "walk"
    BY <2>2, <1>4, <1>5, WalkSteps
  <2>3. QED
    BY <2>1, <2>2
<1>7. QED
    BY <1>3, <1>6 DEF Walks

\* The index is forgotten, kept or made anew.
LEMMA IndexSteps ==
    ASSUME Typed, HoldsAll, [Next]_vars
    PROVE  \/ playable' = None
           \/ playable' = playable /\ discarded' \subseteq discarded /\ explained' = explained
           \/ \E r \in Requests : PageStore(r)
<1> DEFINE Good == \/ playable' = None
                   \/ /\ playable' = playable
                      /\ discarded' \subseteq discarded /\ explained' = explained
                   \/ \E r \in Requests : PageStore(r)
<1>1. ASSUME NEW q \in Requests,
             Page(q) \/ Discard(q) \/ WatchProbe(q) \/ WatchEnd(q)
      PROVE  Good
    BY <1>1 DEF Page, PageBegin, PageCached, PageWalk, PageEnd, Refresh, Forget, Discard,
       DiscardTrack, DiscardFile, DiscardFail, DiscardEnd, Vanishes, WatchProbe, WatchEnd,
       StopGuessing, index, history, answers
<1>2. ASSUME NEW q \in Requests, NEW t, Watch(q, t) \/ DiscardRel(q, t) \/ DiscardOut(q, t)
      PROVE  Good
    BY <1>2 DEF Watch, DiscardRel, DiscardOut, index, history, answers
<1>3. ASSUME NEW t, EnqueueStat(t) \/ EnqueueClaim \/ SourceComesOrGoes(t) PROVE Good
    BY <1>3 DEF EnqueueStat, EnqueueClaim, SourceComesOrGoes, index, history, answers
<1>4. ASSUME NEW j \in Versions, Run(j) PROVE Good
    BY <1>4 DEF Run, Strike, RunStop, RunRename, RunTrack, RunFinish, RunCount, Appears, index,
       history, answers
<1>5. ASSUME Expire \/ UNCHANGED vars PROVE Good
    BY <1>5 DEF Expire, vars, index, history, answers
<1> HIDE DEF Good
<1>6. Good
    BY <1>1, <1>2, <1>3, <1>4, <1>5 DEF Next
<1>7. QED
    BY <1>6 DEF Good

\* What a walk that ends has made.
LEMMA StoredRight ==
    ASSUME Typed, HoldsAll, SaidTrue, Walks, NEW r \in Requests, PageStore(r)
    PROVE  /\ playable'.gen = gen[r] /\ playable'.rows = Rows(was[r])
           /\ was[r] \in SUBSET Outputs /\ src \subseteq Titles
           /\ gen[r] \in Nat /\ gen[r] <= finished
           /\ Covers(playable'.rows, was[r])
           /\ \A o \in discarded : \A row \in playable'.rows : ~IsOf(row, o)
           /\ \A t \in explained : Row(t, "guessed") \notin playable'.rows
           /\ RowsClean(playable'.rows)
<1>1. playable'.gen = gen[r] /\ playable'.rows = Rows(was[r]) /\ pc[r] = "walk"
    BY DEF PageStore, GenRead
<1>2. was[r] \in SUBSET Outputs /\ src \subseteq Titles /\ gen[r] \in Nat
    BY <1>1 DEF HoldsAll, Holds, Typed
<1>3. gen[r] <= finished /\ discarded \cap was[r] = {}
    BY <1>1 DEF Walks, WalkSees, Waits
<1>4. Covers(Rows(was[r]), was[r]) /\ RowsClean(Rows(was[r]))
    BY <1>2, RowsCover, RowsAreClean
<1>5. \A o \in discarded : \A row \in Rows(was[r]) : ~IsOf(row, o)
    BY <1>2, <1>3, RowsOnly
<1>6. ASSUME NEW t \in explained PROVE Row(t, "guessed") \notin Rows(was[r])
  <2>1. t \in probed
    BY DEF SaidTrue
  <2>2. Row(t, "guessed").film = t /\ Row(t, "guessed").kind = "guessed"
    BY DEF Row
  <2>3. QED
    BY <1>2, <2>1, <2>2, RowsOf
<1>7. QED
    BY <1>1, <1>2, <1>3, <1>4, <1>5, <1>6

LEMMA IndexRightStep ==
    ASSUME Typed, Entered, HoldsAll, SaidTrue, Walks, IndexRight, [Next]_vars
    PROVE  IndexRight'
<1>1. Steady
    BY SteadyStep
<1>2. finished \in Nat /\ finished' \in Nat /\ \A q \in Requests : gen[q] \in Nat
    BY <1>1 DEF Typed, Steady
<1>3. CASE playable' = None
    BY <1>3 DEF IndexRight
<1>4. CASE playable' = playable /\ discarded' \subseteq discarded /\ explained' = explained
           /\ playable # None
  <2>1. playable.gen \in Nat /\ playable.gen <= finished
    BY <1>4 DEF IndexRight
  <2>2. playable.gen <= finished'
    BY <1>1, <1>2, <2>1 DEF Steady
  <2>3. ASSUME playable.gen = finished' PROVE Covers(playable.rows, counted')
    BY <1>1, <1>2, <1>4, <2>1, <2>3 DEF Steady, IndexRight, Covers
  <2>4. ASSUME NEW q \in Requests, Waits(q)', gen'[q] = playable.gen
        PROVE  Covers(playable.rows, promised'[q].there)
    <3>1. CASE Waits(q) /\ gen'[q] = gen[q] /\ promised'[q].there \subseteq promised[q].there
      BY <1>4, <2>4, <3>1 DEF IndexRight, Covers
    <3>2. CASE gen'[q] = finished /\ promised'[q].there \subseteq counted
      BY <1>4, <2>4, <3>2 DEF IndexRight, Covers
    <3>3. QED
      BY <1>1, <2>4, <3>1, <3>2 DEF Steady
  <2>5. /\ \A o \in discarded' : \A row \in playable.rows : ~IsOf(row, o)
        /\ \A t \in explained' : Row(t, "guessed") \notin playable.rows
        /\ RowsClean(playable.rows)
    BY <1>4 DEF IndexRight
  <2>6. QED
    BY <1>4, <2>1, <2>2, <2>3, <2>4, <2>5 DEF IndexRight
<1>5. ASSUME NEW r \in Requests, PageStore(r) PROVE IndexRight'
  <2>1. /\ playable'.gen = gen[r] /\ gen[r] \in Nat /\ gen[r] <= finished
        /\ Covers(playable'.rows, was[r])
        /\ \A o \in discarded : \A row \in playable'.rows : ~IsOf(row, o)
        /\ \A t \in explained : Row(t, "guessed") \notin playable'.rows
        /\ RowsClean(playable'.rows)
    BY <1>5, StoredRight
  <2>2. UNCHANGED <<finished, counted, discarded, explained>>
    BY <1>5 DEF PageStore, PageEnd, queue
  <2>3. /\ gen[r] = finished => counted \subseteq was[r]
        /\ \A q \in Requests : Waits(q) /\ gen[q] = gen[r] => promised[q].there \subseteq was[r]
    BY <1>5 DEF PageStore, Walks, WalkSees
  <2>4. gen[r] = finished => Covers(playable'.rows, counted)
    BY <2>1, <2>3 DEF Covers
  <2>5. ASSUME NEW q \in Requests, Waits(q)', gen'[q] = gen[r]
        PROVE  Covers(playable'.rows, promised'[q].there)
    <3>1. q # r /\ gen'[q] = gen[q] /\ promised'[q] = promised[q] /\ Waits(q)
      BY <1>5, <2>5 DEF PageStore, PageEnd, Go, Typed, Waits
    <3>2. QED
      BY <2>1, <2>3, <2>5, <3>1 DEF Covers
  <2>6. QED
    BY <2>1, <2>2, <2>4, <2>5 DEF IndexRight
<1>6. QED
    BY <1>3, <1>4, <1>5, IndexSteps DEF IndexRight

-----------------------------------------------------------------------------
(* The invariant, and what follows from it *)

IInv ==
    /\ Typed /\ Entered /\ CountIs /\ HoldsAll
    /\ Beside /\ Untracked /\ Looked /\ wrong = {}
    /\ SaidTrue /\ Walks /\ IndexRight

LEMMA InitIInv ==
    ASSUME Init
    PROVE  IInv
<1>1. counted \subseteq Outputs /\ \A t \in Earlier : t \in Titles
    BY ConstantsOK, TitleNames DEF Init
<1>2. out \in [Outputs -> (0 .. made) \cup {Old}] /\ track \in [Outputs -> 0 .. made]
    BY DEF Init
<1>3. jobs \in [Versions -> Conversions]
    BY DEF Init, Conversions, Ats
<1>4. Typed
  <2>1. src \subseteq Titles /\ probed \subseteq Titles /\ made \in 0 .. MaxJobs /\ finished \in Nat
    BY <1>1, ConstantsOK DEF Init
  <2>2. promised \in [Requests -> Promises] /\ discarded = {} /\ explained = {}
    BY DEF Init, Promises, NoPromise
  <2>3. /\ indexMu = None /\ pc \in [Requests -> Stages] /\ gen \in [Requests -> Nat]
        /\ about \in [Requests -> Titles \cup Outputs \cup {None}]
        /\ was = [r \in Requests |-> was[r]]
    BY DEF Init, Stages
  <2>4. asking = None /\ ~Locked
    BY DEF Init, Locked
  <2>5. QED
    BY <1>1, <1>2, <1>3, <2>1, <2>2, <2>3, <2>4 DEF Typed
<1>5. Entered
    BY ConstantsOK DEF Init, Entered, Versions
<1>6. CountIs
  <2>1. CountedJobs = {}
    BY DEF Init, CountedJobs
  <2>2. QED
    BY <2>1, FS_EmptySet DEF Init, CountIs
<1>7. HoldsAll
    BY ConstantsOK DEF Init, HoldsAll, Holds
<1>8. Beside /\ Untracked /\ Looked /\ wrong = {}
    BY DEF Init, Beside, Untracked, Looked, LookedAt
<1>9. SaidTrue
    BY <1>1, ConstantsOK DEF Init, SaidTrue, NoPromise, Old
<1>10. Walks /\ IndexRight
    BY DEF Init, Walks, WalkSees, Waits, IndexRight
<1>11. QED
    BY <1>4, <1>5, <1>6, <1>7, <1>8, <1>9, <1>10 DEF IInv

LEMMA Inductive ==
    ASSUME IInv, [Next]_vars
    PROVE  IInv'
    BY TypedStep, EnteredStep, CountStep, HoldsStep, BesideStep, UntrackedStep, LookedStep,
       SparesStep, SaidTrueStep, WalksStep, IndexRightStep DEF IInv

\* Trees, conversions, requests and index agree throughout (playable.go, handlers.go:629-690).
THEOREM Invariance == Spec => []IInv
    BY InitIInv, Inductive, PTL DEF Spec

\* Every file, conversion, request and row of the catalogue is of its kind.
THEOREM TypeCorrect == Spec => []TypeOK
<1>1. ASSUME IInv PROVE TypeOK
  <2>1. finished \in 0 .. made
    <3>1. CountedJobs \subseteq 1 .. made
      BY <1>1 DEF IInv, Typed, Entered, CountedJobs, Versions
    <3>2. made \in Nat
      BY <1>1 DEF IInv, Typed
    <3>3. IsFiniteSet(1 .. made) /\ Cardinality(1 .. made) = made
      BY <3>2, FS_Interval
    <3>4. IsFiniteSet(CountedJobs) /\ Cardinality(CountedJobs) <= made
      BY <3>1, <3>3, FS_Subset
    <3>5. Cardinality(CountedJobs) \in Nat
      BY <3>4, FS_CardinalityType
    <3>6. QED
      BY <1>1, <3>2, <3>4, <3>5 DEF IInv, CountIs
  <2>2. \A j \in Versions : (j <= made) = (jobs[j].of \in Titles)
    BY <1>1 DEF IInv, Entered
  <2>3. \A r \in Requests : (indexMu = r) = (pc[r] = "walk")
    BY <1>1 DEF IInv, HoldsAll, Holds
  <2>4. QED
    BY <1>1, <2>1, <2>2, <2>3 DEF IInv, Typed, Stages, TypeOK, Locked
<1>2. QED
    BY <1>1, Invariance, PTL

\* A .vtt beside an output is of the conversion that made it, unless a discard has left one, could
\* not remove it or was overtaken by it, or the output was converted anew while it was there.
THEOREM TracksBelong == Spec => []TrackBelongs
<1>1. ASSUME IInv PROVE TrackBelongs
    BY <1>1 DEF IInv, Beside, TrackBelongs, There
<1>2. QED
    BY <1>1, Invariance, PTL

\* A discard by source never removes the work of a conversion that was under way when it looked,
\* unless a Cancel had released the output of that conversion after its dispatch.
THEOREM Spared == Spec => []DiscardSpares
<1>1. ASSUME IInv PROVE DiscardSpares
    BY <1>1 DEF IInv, DiscardSpares
<1>2. QED
    BY <1>1, Invariance, PTL

\* The index has nothing but the films and their outputs, and no output beside its film unless
\* unicode.IsSpace takes the byte before the dot for white space.
THEOREM ListedOnce == Spec => []RowsOnce
<1>1. ASSUME IInv PROVE RowsOnce
    BY <1>1 DEF IInv, IndexRight, RowsClean, RowsOnce
<1>2. QED
    BY <1>1, Invariance, PTL

\* A request that is answered: from the index, or by its own walk.
LEMMA Answers ==
    ASSUME Typed, [Next]_vars, NEW r \in Requests, Answered(r)
    PROVE  PageCached(r) \/ PageStore(r)
<1> DEFINE Good == PageCached(r) \/ PageStore(r)
<1>1. ASSUME NEW q \in Requests,
             Page(q) \/ Discard(q) \/ WatchProbe(q) \/ WatchEnd(q)
      PROVE  Good
    BY <1>1 DEF Page, PageBegin, PageCached, PageWalk, PageStore, PageEnd, Refresh, Forget,
       Discard, DiscardTrack, DiscardFile, DiscardFail, DiscardEnd, WatchProbe, WatchEnd,
       StopGuessing, Go, Typed, Answered
<1>2. ASSUME NEW q \in Requests, NEW t, Watch(q, t) \/ DiscardRel(q, t) \/ DiscardOut(q, t)
      PROVE  Good
    BY <1>2 DEF Watch, DiscardRel, DiscardOut, Go, Typed, Answered
<1>3. ASSUME NEW t, EnqueueStat(t) \/ EnqueueClaim \/ SourceComesOrGoes(t) PROVE Good
    BY <1>3 DEF EnqueueStat, EnqueueClaim, SourceComesOrGoes, request, Answered
<1>4. ASSUME NEW j \in Versions, Run(j) PROVE Good
    BY <1>4 DEF Run, Strike, RunStop, RunRename, RunTrack, RunFinish, RunCount, request, Answered
<1>5. ASSUME Expire \/ UNCHANGED vars PROVE Good
    BY <1>5 DEF Expire, vars, request, Answered
<1> HIDE DEF Good
<1>6. Good
    BY <1>1, <1>2, <1>3, <1>4, <1>5 DEF Next
<1>7. QED
    BY <1>6 DEF Good

\* What a page is answered with.
LEMMA AnsweredRight ==
    ASSUME IInv, [Next]_vars, NEW r \in Requests, Answered(r)
    PROVE  /\ Covers(playable'.rows, promised[r].there)
           /\ \A o \in promised[r].gone : \A row \in playable'.rows : ~IsOf(row, o)
           /\ \A t \in promised[r].told : Row(t, "guessed") \notin playable'.rows
<1>1. promised[r].gone \subseteq discarded /\ promised[r].told \subseteq explained
    BY DEF IInv, SaidTrue
<1>2. CASE PageCached(r)
  <2>1. playable' = playable /\ playable # None /\ gen[r] = playable.gen /\ Waits(r)
    BY <1>2 DEF PageCached, Usable, index, Waits
  <2>2. QED
    BY <1>1, <2>1 DEF IInv, IndexRight
<1>3. CASE PageStore(r)
  <2>1. promised[r].there \subseteq was[r]
    BY <1>3 DEF PageStore, IInv, Walks, WalkSees, Waits
  <2>2. Covers(playable'.rows, was[r])
        /\ (\A o \in discarded : \A row \in playable'.rows : ~IsOf(row, o))
        /\ \A t \in explained : Row(t, "guessed") \notin playable'.rows
    BY <1>3, StoredRight DEF IInv
  <2>3. QED
    BY <1>1, <2>1, <2>2 DEF Covers
<1>4. QED
    BY <1>2, <1>3, Answers DEF IInv

\* A page asked for after a conversion was counted lists what it made.
THEOREM CountedIsListed == Spec => ConvertedListed
<1> DEFINE Lists == \A r \in Requests : Answered(r) =>
                        \A o \in promised[r].there : \E row \in playable'.rows : IsOf(row, o)
<1>1. ASSUME IInv, [Next]_vars PROVE Lists
    BY <1>1, AnsweredRight DEF Covers
<1>2. ASSUME IInv, [Next]_vars PROVE [Lists]_vars
    BY <1>1, <1>2
<1> HIDE DEF Lists
<1>3. Spec => [][Lists]_vars
    BY <1>2, Invariance, PTL DEF Spec
<1>4. QED
    BY <1>3 DEF Lists, ConvertedListed

\* A page asked for after a discard was answered does not list what was discarded.
THEOREM DiscardedIsGone == Spec => DiscardedNotListed
<1> DEFINE Leaves == \A r \in Requests : Answered(r) =>
                         \A o \in promised[r].gone : \A row \in playable'.rows : ~IsOf(row, o)
<1>1. ASSUME IInv, [Next]_vars PROVE Leaves
    BY <1>1, AnsweredRight
<1>2. ASSUME IInv, [Next]_vars PROVE [Leaves]_vars
    BY <1>1, <1>2
<1> HIDE DEF Leaves
<1>3. Spec => [][Leaves]_vars
    BY <1>2, Invariance, PTL DEF Spec
<1>4. QED
    BY <1>3 DEF Leaves, DiscardedNotListed

\* A page asked for after a film was looked into does not guess whether it plays.
THEOREM ToldIsKnown == Spec => NotGuessed
<1> DEFINE Knowing == \A r \in Requests : Answered(r) =>
                          \A t \in promised[r].told : Row(t, "guessed") \notin playable'.rows
<1>1. ASSUME IInv, [Next]_vars PROVE Knowing
    BY <1>1, AnsweredRight
<1>2. ASSUME IInv, [Next]_vars PROVE [Knowing]_vars
    BY <1>1, <1>2
<1> HIDE DEF Knowing
<1>3. Spec => [][Knowing]_vars
    BY <1>2, Invariance, PTL DEF Spec
<1>4. QED
    BY <1>3 DEF Knowing, NotGuessed

=============================================================================
