-------------------------------- MODULE Film --------------------------------
(***************************************************************************)
(* Which subtitle ends up in which film of a batch in ver2: the page of a  *)
(* film lists its tracks and the viewer picks one (web/handlers.go), the   *)
(* queue gives the rest of the directory the picked language (jobs.go),    *)
(* and each conversion looks its own tracks up again when it starts        *)
(* (subs/subs.go), from a probe cache that a restart may have emptied      *)
(* (mediainfo).  The queue is as JobQueue has it with one worker and       *)
(* nobody who cancels; queue.json follows it at once.                      *)
(***************************************************************************)
EXTENDS Naturals, Sequences, SequencesExt, FiniteSets, Sift

CONSTANTS
    films,       \* the directory in viewing order: a sequence
    Folders,     \* what may lie in it, see FoldersOK
    MaxBatches,  \* bound: batches
    MaxRestarts, \* bound: restarts
    NoTrack, NoPage, NoJob, NotMade

Films == {films[i] : i \in DOMAIN films}

(* A folder: streams are the subtitle tracks in each film, in order; sidecars  *)
(* the files beside them, in order of name; copyable the films whose picture   *)
(* and sound need no conversion.  A sidecar is in the directory, in Subs/, or  *)
(* in Subs/<film>/ (place is "dir", "Subs" or the film); named holds the films *)
(* whose name it begins with; tag is what is left of its name, per film; hint  *)
(* says that the name has a word for Korean in it, hangul that the text does.  *)
Streams  == [lang : STRING, hint : BOOLEAN, bitmap : BOOLEAN, text : STRING]
Sidecars == [name : STRING, place : {"dir", "Subs"} \cup Films, named : SUBSET Films,
             tag : [Films -> STRING], hint : BOOLEAN, hangul : BOOLEAN, bitmap : BOOLEAN,
             text : STRING]

\* What a form calls a track: its number in the film, or its file, which name stands for with its
\* directory.
Ids   == ({"embedded"} \X Nat) \cup ({"sidecar"} \X STRING)

Track == [id : Ids, lang : STRING \cup {"kor"}, hint : BOOLEAN, bitmap : BOOLEAN, text : STRING]

ASSUME FoldersOK ==
    /\ Folders \subseteq [streams : [Films -> Seq(Streams)], sidecars : Seq(Sidecars),
                          copyable : SUBSET Films]
    /\ \A d \in Folders : \A i, k \in DOMAIN d.sidecars :
           d.sidecars[i].name = d.sidecars[k].name => i = k

ASSUME FilmConstantsOK ==
    /\ films \in Seq(Films) /\ IsInjective(films)
    /\ MaxBatches \in Nat /\ MaxRestarts \in Nat
    /\ NoTrack \notin Ids \cup Track

VARIABLES
    folder,   \* the directory
    probed,   \* films in the cache of the prober
    saved,    \* those of them in its file
    page,     \* the page somebody has open: its film and the tracks it offers
    batches,  \* batch -> its options
    pending,  \* the queue: a sequence of jobs
    running,  \* the job that converts, with the subtitle chosen for it, or NoJob
    todo,     \* what Restore has still to enqueue: batch -> its films
    made,     \* film -> how it was converted, or NotMade
    restarts

filmVars == <<folder, probed, saved, page, batches, pending, running, todo, made, restarts>>

-----------------------------------------------------------------------------
(* Tracks: subs.go *)

koreanTags == {"ko", "kor", "kore"}

\* The tag of a track, or a word in its title or file name.
Korean(t) == t.lang \in koreanTags \/ t.hint

Burnable(t) == ~t.bitmap

Language(t) == IF Korean(t) THEN "kor" ELSE t.lang

\* The elements that are wanted, in their order.
Kept(s, wanted) == Without(s, ToSet(s) \ wanted)

\* The tracks ffprobe has found inside the film, when it has been asked.
embedded(f, cache) ==
    LET s == folder.streams[f]
    IN  IF f \notin cache THEN <<>>
        ELSE [i \in DOMAIN s |-> [id |-> <<"embedded", i>>, lang |-> s[i].lang, hint |-> s[i].hint,
                                  bitmap |-> s[i].bitmap, text |-> s[i].text]]

\* A sidecar nothing in whose name says its language is opened and read.
Lang(s, f) == IF s.tag[f] = "" /\ ~s.bitmap /\ s.hangul THEN "kor" ELSE s.tag[f]

\* A sidecar as a track of the film.
Beside(s, f) == [id |-> <<"sidecar", s.name>>, lang |-> Lang(s, f), hint |-> s.hint,
                 bitmap |-> s.bitmap, text |-> s.text]

collect(f, place) ==
    LET in == Kept(folder.sidecars, {s \in ToSet(folder.sidecars) :
                                        s.place = place /\ (place = "dir" => f \in s.named)})
    IN  [i \in DOMAIN in |-> Beside(in[i], f)]

sidecars(f) == collect(f, "dir") \o collect(f, "Subs") \o collect(f, f)

Find(f, cache) == embedded(f, cache) \o sidecars(f)

\* What Find sorts by: Korean first, pictures last, otherwise as they come.
Rank(t) == (IF Korean(t) THEN 0 ELSE 2) + (IF t.bitmap THEN 1 ELSE 0)

\* The first of the tracks, once they are sorted, that is one of these, or none.
First(tracks, these) ==
    LET found == {i \in DOMAIN tracks : tracks[i] \in these}
        Before(i, k) == \/ Rank(tracks[i]) < Rank(tracks[k])
                        \/ Rank(tracks[i]) = Rank(tracks[k]) /\ i <= k
    IN  IF found = {} THEN NoTrack
        ELSE tracks[CHOOSE i \in found : \A k \in found : Before(i, k)]

FindByID(tracks, id) == First(tracks, {t \in ToSet(tracks) : t.id = id})

PickLang(tracks, lang) ==
    First(tracks, {t \in ToSet(tracks) :
        Burnable(t) /\ IF lang \in {"kor", "ko"} THEN Korean(t) ELSE t.lang = lang})

Pick(tracks) ==
    LET burnable == {t \in ToSet(tracks) : Burnable(t)}
        korean == First(tracks, {t \in burnable : Korean(t)})
    IN  IF korean # NoTrack THEN korean ELSE First(tracks, burnable)

\* What Resolve chooses for a job, out of the film's own tracks.
Chosen(j) ==
    LET tracks == Find(j.film, probed')
        lang == batches[j.batch].lang
    IN  CASE j.preferred # NoTrack -> FindByID(tracks, j.preferred)
          [] j.preferred = NoTrack /\ lang # "" -> PickLang(tracks, lang)
          [] j.preferred = NoTrack /\ lang = "" -> Pick(tracks)

-----------------------------------------------------------------------------
(* The page: web/handlers.go *)

Converted(f) == made[f] # NotMade

\* The page of a film.  One that has been converted is not probed for it; a probe may fail.
handleWatch(f) ==
    /\ probed' \in {probed} \cup IF Converted(f) THEN {} ELSE {probed \cup {f}}
    /\ page' = [film |-> f, tracks |-> Find(f, probed')]
    /\ UNCHANGED <<folder, saved, batches, pending, running, todo, made, restarts>>

At(f) == CHOOSE i \in DOMAIN films : films[i] = f

\* library.Order: the chosen film first.
Order(f, scope) ==
    CASE scope = "file" -> <<f>>
      [] scope = "onwards" -> SubSeq(films, At(f), Len(films))
      [] scope = "folder" -> SubSeq(films, At(f), Len(films)) \o SubSeq(films, 1, At(f) - 1)

\* The films that are on their way, with this conversion running.
Busy(run) == {pending[i].film : i \in DOMAIN pending} \cup (IF run = NoJob THEN {} ELSE {run.film})

\* The conversion renames its output into place and is over.
Ends == /\ running # NoJob
        /\ made' = [made EXCEPT ![running.film] = running]
        /\ running' = NoJob

\* enqueue looks for the output of a film first and at the job that claims it next: a conversion
\* that ends between the two is missed by both, and its film queued again.
Overlooks == Ends \/ UNCHANGED <<running, made>>

\* Mutant: every film of the batch is given the track that was picked.
ForAll(i) == TRUE

\* The jobs of a batch that are given the very track that was picked.
Handed(i) == i = 1

\* The jobs enqueue makes of these films, but for those that are on their way or done already.
\* first is history: the job was the first to be made.
Created(b, fs, busy, picked) ==
    LET new == Kept(fs, {f \in Films \ busy : ~Converted(f)})
    IN  [i \in DOMAIN new |->
            [film |-> new[i], batch |-> b, first |-> i = 1,
             preferred |-> IF Handed(i) THEN picked ELSE NoTrack]]

\* What the form may carry: a track that is not a picture, or none.
Offers ==
    {NoTrack} \cup {t.id : t \in {u \in {page.tracks[i] : i \in DOMAIN page.tracks} : Burnable(u)}}

LanguageOf(tracks, id) ==
    LET t == FindByID(tracks, id) IN IF t = NoTrack THEN "" ELSE Language(t)

\* The form is sent, from a page that may have been open across a restart.  seen is history: the
\* language the page showed for the track that was picked.
handleConvert(picked, scope, burn) ==
    LET b == Len(batches) + 1
        new == Created(b, Order(page.film, scope), Busy(running'), picked)
    IN  /\ page # NoPage /\ b <= MaxBatches
        /\ Overlooks
        /\ picked \in Offers /\ new # <<>>
        \* Bound: nobody asks for no subtitle drawn in: it would only keep the jobs from overtaking.
        /\ picked = NoTrack => ~burn
        /\ batches' = Append(batches,
             [picked |-> picked, burn |-> burn, film |-> page.film,
              lang |-> LanguageOf(Find(page.film, probed), picked),
              seen |-> LanguageOf(page.tracks, picked)])
        /\ pending' = pending \o new
        /\ page' = IF b = MaxBatches THEN NoPage ELSE page   \* Bound: no form can come any more
        /\ UNCHANGED <<folder, probed, saved, todo, restarts>>

-----------------------------------------------------------------------------
(* A conversion: jobs.go, and Prepare of subs.go *)

\* A job that is known to need no encoder: its film has been probed, and nothing is to be drawn in.
copyOnly(j) == ~batches[j.batch].burn /\ j.film \in probed \cap folder.copyable

\* The next job is the first of those, or else the first.
pickLocked ==
    LET copies == {i \in DOMAIN pending : copyOnly(pending[i])}
    IN  IF copies = {} THEN 1 ELSE CHOOSE i \in copies : \A k \in copies : i <= k

Picked == pending[pickLocked]

Asked(j) == batches[j.batch].picked # NoTrack

\* Prepare: a track whose text cannot be read, or holds no line, fails the conversion.
Prepared(t) == t # NoTrack => (Burnable(t) /\ t.text = "lines")

\* What soft subtitles are tagged with.
subtitleLang(j) == IF batches[j.batch].lang = "" THEN "kor" ELSE batches[j.batch].lang

\* The film is probed before its tracks are looked up; the copy is taken when nothing is drawn.
plan(j) ==
    LET sub == IF Asked(j) THEN Chosen(j) ELSE NoTrack
        burn == batches[j.batch].burn /\ sub # NoTrack
    IN  /\ Prepared(sub)
        /\ running' = [film |-> j.film, batch |-> j.batch, first |-> j.first, sub |-> sub,
                       burnt |-> burn, tag |-> subtitleLang(j),
                       copied |-> j.film \in folder.copyable /\ ~burn]

RunStart ==
    /\ running = NoJob /\ pending # <<>>
    /\ probed' = probed \cup {Picked.film}
    /\ pending' = RemoveAt(pending, pickLocked)
    /\ plan(Picked)
    /\ UNCHANGED <<folder, saved, page, batches, todo, made, restarts>>

\* The probe fails, or the subtitle that was chosen cannot be prepared.
RunPlanFail ==
    /\ running = NoJob /\ pending # <<>>
    /\ probed' \in {probed, probed \cup {Picked.film}}
    /\ pending' = RemoveAt(pending, pickLocked)
    /\ UNCHANGED <<folder, saved, page, batches, running, todo, made, restarts>>

RunDone ==
    /\ Ends
    /\ UNCHANGED <<folder, probed, saved, page, batches, pending, todo, restarts>>

RunFail ==
    /\ running # NoJob
    /\ running' = NoJob
    /\ UNCHANGED <<folder, probed, saved, page, batches, pending, todo, made, restarts>>

-----------------------------------------------------------------------------
(* Restarts: persist.go, Prober.Flush *)

FlushProbes ==
    /\ saved # probed /\ saved' = probed
    /\ UNCHANGED <<folder, probed, page, batches, pending, running, todo, made, restarts>>

\* What persist writes of a batch: what runs, then what waits.
Outstanding(b) ==
    LET waiting == Kept(pending, {j \in ToSet(pending) : j.batch = b})
        first == IF running # NoJob /\ running.batch = b THEN <<running.film>> ELSE <<>>
    IN  first \o [i \in DOMAIN waiting |-> waiting[i].film]

\* The process goes and comes back; the browser keeps its page.
Restart ==
    /\ restarts < MaxRestarts /\ restarts' = restarts + 1
    /\ todo' = [b \in {c \in DOMAIN batches : Outstanding(c) # <<>>} |-> Outstanding(b)]
    /\ pending' = <<>> /\ running' = NoJob
    /\ probed' = saved
    /\ UNCHANGED <<folder, saved, page, batches, made>>

\* Restore makes the jobs of a batch anew; the batches come in the order of a map, and
\* the dispatcher is at work already.
RestoreBatch(b) ==
    /\ Overlooks
    /\ pending' = pending \o Created(b, todo[b], Busy(running'), batches[b].picked)
    /\ todo' = [c \in DOMAIN todo \ {b} |-> todo[c]]
    /\ UNCHANGED <<folder, probed, saved, page, batches, restarts>>

\* Main restores before it serves pages and before it starts the timer that flushes.
Serving == DOMAIN todo = {}

\* Bound: no page is opened that no form can come from any more.
MoreForms == Len(batches) < MaxBatches

FilmInit ==
    /\ folder \in Folders
    /\ probed = {} /\ saved = {} /\ page = NoPage
    /\ batches = <<>> /\ pending = <<>> /\ running = NoJob
    /\ made = [f \in Films |-> NotMade]
    /\ todo = [b \in {} |-> <<>>] /\ restarts = 0

FilmNext ==
    \/ \E f \in Films : Serving /\ MoreForms /\ handleWatch(f)
    \/ \E scope \in {"file", "onwards", "folder"}, burn \in BOOLEAN :
        Serving /\ page # NoPage /\ \E picked \in Offers : handleConvert(picked, scope, burn)
    \/ RunStart \/ RunPlanFail \/ RunDone \/ RunFail
    \/ Serving /\ FlushProbes
    \/ Restart \/ \E b \in DOMAIN todo : RestoreBatch(b)

FilmSpec == FilmInit /\ [][FilmNext]_filmVars

-----------------------------------------------------------------------------
(* Properties *)

\* No film is on its way twice: it waits or converts, once (jobs.go:314-319).
FilmTyped ==
    LET jobs == pending \o (IF running = NoJob THEN <<>> ELSE <<running>>)
    IN  /\ probed \cup saved \subseteq Films /\ restarts \in 0 .. MaxRestarts
        /\ DOMAIN todo \subseteq DOMAIN batches
        /\ page # NoPage => page.film \in Films
        /\ DOMAIN made = Films /\ Len(batches) <= MaxBatches
        /\ \A i \in DOMAIN jobs :
            /\ jobs[i].film \in Films /\ jobs[i].batch \in DOMAIN batches
            /\ \A k \in DOMAIN jobs : jobs[k].film = jobs[i].film => k = i

\* The batch knows the language its viewer saw, and the job is not one that stepped into the place
\* of the film whose track was picked.
Straight(m) ==
    LET b == batches[m.batch]
    IN  /\ b.lang = b.seen /\ b.seen # ""
        /\ ~m.first \/ m.film = b.film

\* A track is in a language when it is tagged or shown as that: the two may differ, and PickLang
\* goes by the tag (subs.go:371-378).
In(t, lang) == t.lang = lang \/ Language(t) = lang

\* A film converted from a batch without subtitles has none.  One converted from a batch whose
\* viewer picked a track has a subtitle in that language exactly when it has a track to make one
\* from, drawn in or named as the viewer asked, and never a copied picture with text drawn in;
\* unless the language was lost, or the film came first because the one whose track was picked was
\* done, busy or restored before (handlers.go:476-483, jobs.go:338-340, subs.go:360-381, 723-727).
AsAsked(m) ==
    LET b == batches[m.batch]
    IN  /\ ~Asked(m) => m.sub = NoTrack
        /\ Asked(m) /\ Straight(m) =>
            IF PickLang(Find(m.film, Films), b.seen) = NoTrack THEN m.sub = NoTrack
            ELSE /\ m.sub # NoTrack /\ In(m.sub, b.seen)
                 /\ m.burnt = b.burn /\ (~m.burnt => m.tag = b.seen)
        /\ ~(m.burnt /\ m.copied)

\* The film that is there was converted as its viewer asked.
SubtitleAsAsked == \A f \in Films : Converted(f) => made[f].film = f /\ AsAsked(made[f])
=============================================================================
