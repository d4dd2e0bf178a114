------------------------------ MODULE Catalog ------------------------------
(***************************************************************************)
(* What the pages of ver2 say is there to watch: the two trees of files    *)
(* (library, outpath), the index of what can be played (web/playable.go),  *)
(* the page of one film and the button that discards a conversion          *)
(* (web/handlers.go), beside the queue that makes conversions.             *)
(*                                                                         *)
(* A file is a record of its directory and its name.  A walk reads one     *)
(* directory after the other; what the properties say is about one film at *)
(* a time, so each tree is read in one step.                               *)
(***************************************************************************)
EXTENDS Naturals, FiniteSets, Sequences

CONSTANTS
    Titles,     \* the films: files that may be in the library
    Fixed,      \* the films that stay, and that nobody converts or discards
    Earlier,    \* those of them that have been converted before
    Junk,       \* other files of the library, always there
    OutDir,     \* where the output tree is in the library (outRel), a directory
    Ready,      \* the films a browser plays as they are
    Soft,       \* the conversions that write a subtitle beside the video
    Requests,   \* requests that are handled at the same time
    MaxJobs,    \* bound: conversions
    None

ASSUME ConstantsOK ==
    /\ Titles \cup Junk \subseteq [dir : Seq(STRING), base : STRING, ext : STRING, blank : BOOLEAN]
    /\ OutDir \in Seq(STRING) /\ Ready \cup Fixed \subseteq Titles /\ Earlier \subseteq Fixed
    /\ MaxJobs \in Nat /\ None \notin Requests \cup Titles

Versions == 1 .. MaxJobs
Old      == MaxJobs + 1   \* made before the start

-----------------------------------------------------------------------------
(* Names: outpath and library *)

\* The output of a source: the extension is replaced.
Output(f) == [f EXCEPT !.ext = "mp4"]

Outputs == {Output(t) : t \in Titles}

NoPromise == [there |-> {}, gone |-> {}, told |-> {}]

\* TrimExt keeps the extension of a name when the byte before the dot is white space to
\* unicode.IsSpace: a space, or the last byte (16#85, 16#A0) of a letter in UTF-8.
TrimExt(f) == IF f.blank THEN f ELSE [f EXCEPT !.ext = "none"]

IsVideo(f) == f.ext \in {"mkv", "mov", "mp4"}

systemDirs == {"@eaDir", "#recycle"}
airplayDir == "_airplay"

Elements(dir) == {dir[i] : i \in DOMAIN dir}

IsUnder(dir, top) == Len(top) <= Len(dir) /\ SubSeq(dir, 1, Len(top)) = top

\* Mutant: the output tree is walked as a part of the library.
NothingExcluded(f) == FALSE

\* A path ParseRel refuses: the output tree, which List meets inside the library.
Excluded(f) == IsUnder(f.dir, OutDir)

\* What WalkVideos finds among the files of the library.
WalkVideos(files) ==
    {f \in files : IsVideo(f) /\ Elements(f.dir) \cap systemDirs = {} /\ ~Excluded(f)}

\* What WalkOutput finds: a .part is no video to it, and the test clips are left out.
WalkOutput(files) == {f \in WalkVideos(files) : ~IsUnder(f.dir, <<airplayDir>>)}

\* The films are those a walk finds, in either tree.
ASSUME FilmsFound ==
    WalkOutput(Titles \cup Outputs) = Titles \cup Outputs /\ WalkVideos(Junk) = {}

-----------------------------------------------------------------------------

VARIABLES
    src,       \* films whose source is there
    out,       \* output -> the conversion that made it, 0 when it is not there
    track,     \* output -> the conversion that wrote the .vtt beside it, 0 for none
    probed,    \* films in the cache of the prober
    made,      \* conversions asked for
    jobs,      \* conversion -> its film, how far it is, and whether it is struck: a Cancel has
               \* released the output it converts to
    asking,    \* the film enqueue, which holds the queue, has found no output of, or None
    finished,  \* finishedCount
    playable,  \* the index: its generation and its rows, or None
    indexMu,   \* the request that holds it, or None
    pc,        \* where a request is
    about,     \* the film or output a request is about
    gen,       \* the count a page has read, or the conversions a discard has looked at
    was,       \* the output tree a page has read, or the output a discard has looked at
    stray,     \* history: outputs whose .vtt may be another conversion's, see TrackBelongs
    wrong,     \* history: conversions a discard removed that had not ended when it looked
    counted,   \* history: outputs whose conversion has been counted
    discarded, \* history: outputs that are gone, and whose discard has been answered
    explained, \* history: films whose page has been answered after a probe
    promised   \* history: what the last three were when a page was asked for

files   == <<src, out, track>>
queue   == <<made, jobs, asking, finished>>
index   == <<playable, indexMu>>
request == <<pc, about, gen, was>>
answers == <<counted, discarded, explained, promised>>
history == <<stray, wrong, answers>>
vars    == <<files, probed, queue, index, request, history>>

Go(r, to) == pc' = [pc EXCEPT ![r] = to]

\* An output appears: that it is gone is no longer so.
Appears(o) ==
    /\ discarded' = discarded \ {o}
    /\ promised' = [r \in Requests |-> [promised[r] EXCEPT !.gone = @ \ {o}]]
    /\ UNCHANGED <<counted, explained>>

\* An output is removed: that it is there is no longer so.
Vanishes(o) ==
    /\ counted' = counted \ {o}
    /\ promised' = [r \in Requests |-> [promised[r] EXCEPT !.there = @ \ {o}]]
    /\ UNCHANGED <<discarded, explained>>

-----------------------------------------------------------------------------
(* The library from outside, and the queue as far as files go *)

SourceComesOrGoes(t) ==
    /\ src' = IF t \in src THEN src \ {t} ELSE src \cup {t}
    /\ UNCHANGED <<out, track, probed, queue, index, request, history>>

Move(j, from, to) == jobs[j].at = from /\ jobs' = [jobs EXCEPT ![j].at = to]

\* The conversions that have not ended.
Active == {"queued", "renamed", "written"}

\* byOutput, and not Terminal: two films may have one output.
Busy(t) == \E j \in Versions :
    jobs[j].at \in Active /\ ~jobs[j].struck /\ Output(jobs[j].of) = Output(t)

\* The queue is locked: enqueue is between the disk and the claim.
Locked == asking # None

Claim(t) ==
    /\ made' = made + 1
    /\ jobs' = [jobs EXCEPT ![made'] = [of |-> t, at |-> "queued", struck |-> FALSE]]

\* enqueue looks at the disk, and then at who has the output.  When nobody has, nothing it reads
\* can change in between ...
EnqueueStat(t) ==
    /\ ~Locked /\ made < MaxJobs /\ t \in src /\ out[Output(t)] = 0
    /\ \/ ~Busy(t) /\ Claim(t) /\ UNCHANGED asking
       \/ Busy(t) /\ asking' = t /\ UNCHANGED <<made, jobs>>
    /\ UNCHANGED <<files, probed, finished, index, request, history>>

\* ... but who has it may rename and end.
EnqueueClaim ==
    /\ Locked /\ asking' = None
    /\ \/ ~Busy(asking) /\ Claim(asking)
       \/ Busy(asking) /\ UNCHANGED <<made, jobs>>
    /\ UNCHANGED <<files, probed, finished, index, request, history>>

\* Cancel finds a job that has been dispatched still queued: its output is released, and it
\* converts all the same.
Strike(j) ==
    /\ ~Locked /\ jobs[j].at = "queued" /\ ~jobs[j].struck
    /\ jobs' = [jobs EXCEPT ![j].struck = TRUE]
    /\ UNCHANGED <<files, probed, made, asking, finished, index, request, history>>

\* Cancelled in time, or failed.
RunStop(j) ==
    /\ Move(j, "queued", "over")
    /\ UNCHANGED <<files, probed, made, asking, finished, index, request, history>>

\* Probed, encoded and renamed into place, over an output that is there ...
RunRename(j) ==
    LET o == Output(jobs[j].of)
    IN  /\ Move(j, "queued", "renamed")
        /\ probed' = probed \cup {jobs[j].of}
        /\ out' = [out EXCEPT ![o] = j]
        /\ stray' = IF out[o] = 0 THEN stray ELSE stray \cup {o}
        /\ Appears(o)
        /\ UNCHANGED <<src, track, made, asking, finished, index, request, wrong>>

\* ... the subtitle, if there is one that can be written, once more beside the video ...
RunTrack(j) ==
    LET o == Output(jobs[j].of)
        removing == \E r \in Requests : pc[r] = "remove" /\ about[r] = o
    IN  /\ Move(j, "renamed", "written")
        /\ track' = IF j \in Soft THEN [track EXCEPT ![o] = j] ELSE track
        /\ stray' = CASE j \notin Soft -> stray
                     [] j \in Soft /\ (out[o] # j \/ removing) -> stray \cup {o}
                     [] j \in Soft /\ out[o] = j /\ ~removing -> stray \ {o}
        /\ UNCHANGED <<src, out, probed, made, asking, finished, index, request, wrong, answers>>

RunFinish(j) ==
    /\ Move(j, "written", "done")
    /\ UNCHANGED <<files, probed, made, asking, finished, index, request, history>>

\* Mutant: counted whenever it is looked at.
CountAgain(j) == jobs[j].at \in {"done", "counted"}

MayCount(j) == jobs[j].at = "done"

\* ... and, after it has ended, counted.
RunCount(j) ==
    /\ MayCount(j)
    /\ jobs' = [jobs EXCEPT ![j].at = "counted"]
    /\ finished' = finished + 1
    /\ counted' = counted \cup {o \in Outputs : out[o] = j}
    /\ UNCHANGED <<files, probed, made, asking, index, request, stray, wrong, discarded, explained,
                   promised>>

-----------------------------------------------------------------------------
(* The index *)

\* The output tree as the library sees it, when it is inside.
Inside(o) == [o EXCEPT !.dir = OutDir \o @]

There == {o \in Outputs : out[o] # 0}

playableEntry(f) == IF f \in probed THEN f \in Ready ELSE f.ext = "mp4"

Row(f, kind) == [film |-> f, kind |-> kind]

\* buildIndex, with the output tree read before.
Rows(outs) ==
    LET stems  == {TrimExt(o) : o \in outs}
        converted(f) == TrimExt(f) \in stems
        listed == {f \in WalkVideos(src \cup Junk \cup {Inside(o) : o \in There}) :
                     converted(f) \/ playableEntry(f)}
        seen   == {TrimExt(f) : f \in listed}
    IN  {Row(f, IF converted(f) THEN "converted" ELSE IF f \in probed THEN "asis" ELSE "guessed") :
            f \in listed}
        \cup {Row(o, "orphan") : o \in {x \in outs : TrimExt(x) \notin seen}}

\* index: the count is read before the lock is taken.
PageBegin(r) ==
    /\ pc[r] = "idle" /\ Go(r, "index")
    /\ gen' = [gen EXCEPT ![r] = finished]
    /\ promised' = [promised EXCEPT ![r] =
                       [there |-> counted, gone |-> discarded, told |-> explained]]
    /\ UNCHANGED <<files, probed, queue, index, about, was, stray, wrong, counted, discarded,
                   explained>>

\* The page is made of the rows there are now; nothing it does afterwards reads the index.
PageEnd(r) ==
    /\ Go(r, "idle")
    /\ gen' = [gen EXCEPT ![r] = 0] /\ was' = [was EXCEPT ![r] = {}]
    /\ promised' = [promised EXCEPT ![r] = NoPromise]
    /\ UNCHANGED <<files, probed, queue, about, stray, wrong, counted, discarded, explained>>

Usable(r) == playable # None /\ playable.gen = gen[r]

PageCached(r) ==
    /\ pc[r] = "index" /\ indexMu = None /\ Usable(r)
    /\ PageEnd(r)
    /\ UNCHANGED index

PageWalk(r) ==
    /\ pc[r] = "index" /\ indexMu = None /\ ~Usable(r)
    /\ Go(r, "walk") /\ indexMu' = r
    /\ was' = [was EXCEPT ![r] = WalkOutput(There)]
    /\ UNCHANGED <<files, probed, queue, playable, about, gen, history>>

\* Mutant: the generation is the one at the end of the walk.
GenNow(r) == finished

GenRead(r) == gen[r]

PageStore(r) ==
    /\ pc[r] = "walk"
    /\ PageEnd(r) /\ indexMu' = None
    /\ playable' = [gen |-> GenRead(r), rows |-> Rows(was[r])]

\* playableTTL: an index that is too old is as good as none.
Expire ==
    /\ playable # None /\ playable' = None
    /\ UNCHANGED <<files, probed, queue, indexMu, request, history>>

\* Mutant: forgetIndex does not wait for a walk that is under way.
ForgetAtOnce == TRUE

MayForget == indexMu = None

\* forgetIndex: the last step of what knows that the index is stale.
Forget(r) ==
    /\ MayForget /\ playable' = None
    /\ Go(r, "idle")
    /\ about' = [about EXCEPT ![r] = None]
    /\ gen' = [gen EXCEPT ![r] = 0] /\ was' = [was EXCEPT ![r] = {}]
    /\ UNCHANGED <<files, probed, queue, indexMu, stray, wrong, counted, promised>>

\* handlePlayable with ?refresh.
Refresh(r) == pc[r] = "idle" /\ Forget(r) /\ UNCHANGED <<discarded, explained>>

-----------------------------------------------------------------------------
(* handleDiscard *)

\* Mutant: the queue is not asked.
NotAsked(t) == FALSE

ByRel(t) == Busy(t)

\* By its source: refused while it is being converted.
DiscardRel(r, t) ==
    /\ pc[r] = "idle" /\ ~Locked /\ ~ByRel(t)
    /\ Go(r, "untrack")
    /\ about' = [about EXCEPT ![r] = Output(t)]
    /\ gen' = [gen EXCEPT ![r] = made] /\ was' = [was EXCEPT ![r] = {out[Output(t)]}]
    /\ UNCHANGED <<files, probed, queue, index, history>>

\* By where it is, as the listing offers when the source is gone: whatever the queue is doing,
\* and without its .vtt.
DiscardOut(r, o) ==
    /\ pc[r] = "idle" /\ Go(r, "remove")
    /\ about' = [about EXCEPT ![r] = o]
    /\ UNCHANGED <<files, probed, queue, index, gen, was, history>>

\* Mutant: the .vtt stays.
KeepTrack(o) == track

WithoutTrack(o) == [track EXCEPT ![o] = 0]

\* Whether the .vtt could be removed is not looked at.
DiscardTrack(r) ==
    LET o == about[r]
    IN  /\ pc[r] = "untrack" /\ Go(r, "remove")
        /\ \/ track' = WithoutTrack(o) /\ stray' = stray \ {o}
           \/ track[o] # 0 /\ track' = track /\ stray' = stray \cup {o}
        /\ UNCHANGED <<src, out, probed, queue, index, about, gen, was, wrong, answers>>

DiscardFile(r) ==
    LET o == about[r]
    IN  /\ pc[r] = "remove" /\ Go(r, "discarded")
        /\ out' = [out EXCEPT ![o] = 0]
        /\ stray' = IF was[r] = {} /\ track[o] # 0 THEN stray \cup {o} ELSE stray
        /\ wrong' = wrong \cup {j \in {out[o]} \ was[r] : 0 < j /\ j <= gen[r] /\ ~jobs[j].struck}
        /\ Vanishes(o)
        /\ UNCHANGED <<src, track, probed, queue, index, about, gen, was>>

\* The file cannot be removed: the answer is an error, and the index stays.
DiscardFail(r) ==
    /\ pc[r] = "remove" /\ out[about[r]] # 0 /\ Go(r, "idle")
    /\ about' = [about EXCEPT ![r] = None]
    /\ gen' = [gen EXCEPT ![r] = 0] /\ was' = [was EXCEPT ![r] = {}]
    /\ UNCHANGED <<files, probed, queue, index, history>>

DiscardEnd(r) ==
    /\ pc[r] = "discarded" /\ Forget(r)
    /\ discarded' = discarded \cup ({about[r]} \ There)
    /\ explained' = explained

-----------------------------------------------------------------------------
(* handleWatch: a film nobody has looked into, and that is not converted, is probed *)

Watch(r, t) ==
    /\ pc[r] = "idle" /\ t \in src \ probed /\ out[Output(t)] = 0
    /\ Go(r, "probe")
    /\ about' = [about EXCEPT ![r] = t]
    /\ UNCHANGED <<files, probed, queue, index, gen, was, history>>

WatchProbe(r) ==
    /\ pc[r] = "probe"
    /\ \/ /\ about[r] \in src
          /\ probed' = probed \cup {about[r]} /\ Go(r, "probed")
          /\ about' = about
       \/ /\ Go(r, "idle") /\ about' = [about EXCEPT ![r] = None]
          /\ probed' = probed
    /\ UNCHANGED <<files, queue, index, gen, was, history>>

\* Mutant: the index keeps guessing.
KeepGuessing(r) ==
    /\ Go(r, "idle") /\ about' = [about EXCEPT ![r] = None]
    /\ UNCHANGED <<files, probed, queue, index, gen, was, stray, wrong, counted, promised>>

StopGuessing(r) == Forget(r)

WatchEnd(r) ==
    /\ pc[r] = "probed" /\ StopGuessing(r)
    /\ explained' = explained \cup {about[r]}
    /\ discarded' = discarded

-----------------------------------------------------------------------------

Init ==
    /\ src \in {s \in SUBSET Titles : Fixed \subseteq s}
    /\ counted = {Output(t) : t \in Earlier}
    /\ out = [o \in Outputs |-> IF o \in counted THEN Old ELSE 0]
    /\ track = [o \in Outputs |-> 0]
    /\ probed = Earlier /\ made = 0 /\ finished = 0
    /\ jobs = [j \in Versions |-> [of |-> None, at |-> "none", struck |-> FALSE]]
    /\ asking = None
    /\ playable = None /\ indexMu = None
    /\ pc = [r \in Requests |-> "idle"] /\ about = [r \in Requests |-> None]
    /\ gen = [r \in Requests |-> 0] /\ was = [r \in Requests |-> {}]
    /\ stray = {} /\ wrong = {} /\ discarded = {} /\ explained = {}
    /\ promised = [r \in Requests |-> NoPromise]

Page(r)    == PageBegin(r) \/ PageCached(r) \/ PageWalk(r) \/ PageStore(r) \/ Refresh(r)
Discard(r) == DiscardTrack(r) \/ DiscardFile(r) \/ DiscardFail(r) \/ DiscardEnd(r)
Run(j)     == Strike(j) \/ RunStop(j) \/ RunRename(j) \/ RunTrack(j) \/ RunFinish(j) \/ RunCount(j)

Next ==
    \/ \E r \in Requests : Page(r) \/ Discard(r) \/ WatchProbe(r) \/ WatchEnd(r)
    \/ \E r \in Requests, t \in Titles : Watch(r, t)
    \/ \E r \in Requests, t \in Titles \ Fixed : DiscardRel(r, t) \/ DiscardOut(r, Output(t))
    \/ \E t \in Titles \ Fixed : EnqueueStat(t)
    \/ EnqueueClaim
    \/ \E t \in Titles \ Fixed : SourceComesOrGoes(t)
    \/ \E j \in Versions : Run(j)
    \/ Expire

Spec == Init /\ [][Next]_vars

-----------------------------------------------------------------------------
(* Properties *)

TypeOK ==
    /\ src \subseteq Titles /\ probed \subseteq Titles
    /\ out \in [Outputs -> 0 .. made \cup {Old}] /\ track \in [Outputs -> 0 .. made]
    /\ made \in 0 .. MaxJobs /\ finished \in 0 .. made
    /\ \A j \in Versions : (j <= made) = (jobs[j].of \in Titles)
    /\ asking \in Titles \cup {None}
    /\ indexMu \in Requests \cup {None} /\ \A r \in Requests : (indexMu = r) = (pc[r] = "walk")
    /\ pc \in [Requests -> {"idle", "index", "walk", "untrack", "remove", "discarded",
                            "probe", "probed"}]
    /\ about \in [Requests -> Titles \cup Outputs \cup {None}]

IsOf(row, o) ==
    \/ row.kind = "converted" /\ Output(row.film) = o
    \/ row.kind = "orphan" /\ row.film = o

\* A page is answered: with the rows of the index it has found or made.
Answered(r) == pc[r] \in {"index", "walk"} /\ pc'[r] = "idle"

\* "It is thrown away when a conversion finishes, because that is the one event that changes
\* the answer" (playable.go 24): a page asked for after a conversion was counted lists it,
\* whoever built the index, and however the walk overlapped with conversions and discards.
ConvertedListed ==
    [][\A r \in Requests : Answered(r) =>
          \A o \in promised[r].there : \E row \in playable'.rows : IsOf(row, o)]_vars

\* "one fewer thing to watch, and the listing knows it" (handlers.go 678): a page asked for
\* after a discard was answered does not list what was discarded, even if an index from
\* before was being built while it was.
DiscardedNotListed ==
    [][\A r \in Requests : Answered(r) =>
          \A o \in promised[r].gone : \A row \in playable'.rows : ~IsOf(row, o)]_vars

\* "guessing is exactly what it should stop doing once there is an answer" (handlers.go 178):
\* a page asked for after the page of a film was answered with a probe does not guess.
NotGuessed ==
    [][\A r \in Requests : Answered(r) =>
          \A t \in promised[r].told : Row(t, "guessed") \notin playable'.rows]_vars

\* "The subtitle written beside it is part of the same result" (handlers.go 665): a .vtt beside
\* an output is of the conversion that made it, unless
\*   - a discard has left one behind: it named the output, could not remove the .vtt, or a
\*     conversion has written it after that, be it one whose own output was gone by then;
\*   - the output was converted anew while it was there (jobs.go:311-319, 374-382).
TrackBelongs == \A o \in There : track[o] \in {0, out[o]} \/ o \in stray

\* "Deleting the output from under a running ffmpeg ..." (handlers.go 654): a discard by source
\* does not remove the output of a conversion that had been asked for and had not renamed when
\* it looked, unless a Cancel had taken it for queued after its dispatch (jobs.go:374-382).
DiscardSpares == wrong = {}

\* "so a file that was converted does not also appear as its unconverted self" (playable.go 96):
\* nothing but the films and their outputs is listed, and no film twice, unless TrimExt keeps its
\* extension: the byte before the dot is one that unicode.IsSpace takes for white space, which
\* it may be inside a letter (library.go:340-341).
RowsOnce ==
    playable # None => \A row \in playable.rows :
        /\ row.film \in Titles \cup Outputs
        /\ row.kind = "orphan" => row.film.blank
               \/ ~\E other \in playable.rows \ {row} : Output(other.film) = row.film
=============================================================================
