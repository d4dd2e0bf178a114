------------------------------ MODULE V1Cache ------------------------------
(***************************************************************************)
(* v1: the conversion manager (ver1/internal/transcode), the cache of its  *)
(* output (ver1/internal/cache) and the part of the WebDAV file system     *)
(* (ver1/internal/vfs) that asks for conversions and reads them.           *)
(*                                                                         *)
(* A step is a critical section of m.mu or j.mu, one file operation, or    *)
(* one decision between them.  A viewer is a GET request; the guesser      *)
(* stands for the goroutines of prefetch and queueNext.                    *)
(***************************************************************************)
EXTENDS Naturals, FiniteSets, SequencesExt, Sift

CONSTANTS
    Keys,         \* cache keys: one converted file each
    Dirs,         \* virtual directories
    DirOf,        \* the directory a key is listed in
    Viewers,      \* requests for content
    Guesser,      \* the goroutine of prefetch or queueNext
    Slots,        \* conversions at once (TranscodeJobs)
    CacheMax,     \* files the cache may hold (CacheMaxBytes)
    Patient,      \* WaitForComplete
    MaxJobs,      \* bound: jobs created between two starts of the process
    None

Actors == Viewers \cup {Guesser}
Jobs   == 1 .. MaxJobs

ASSUME ConstantsOK ==
    /\ IsFiniteSet(Keys) /\ DirOf \in [Keys -> Dirs] /\ Guesser \notin Viewers
    /\ Slots \in Nat \ {0} /\ CacheMax \in Nat /\ Patient \in BOOLEAN /\ MaxJobs \in Nat
    /\ None \notin Jobs \cup Keys \cup Dirs

VARIABLES
    mkv,       \* the output at Path(key): "none", "partial" or "full"
    marker,    \* keys with a .done beside
    used,      \* marked keys by the time of their last use
    made,      \* jobs created
    jobs,      \* m.jobs
    pending,   \* m.pending
    running,   \* m.running
    wake,      \* a token is in m.wake
    keyOf,     \* Job.Key
    prio,      \* Job.priority
    verdict,   \* Job.done and err: "open" until done is closed
    stopped,   \* jobs preempted while they convert: preempted is set and the context canceled
    run,       \* where the run goroutine of a job is
    evict,     \* Evict under c.mu: whose, its entries left, how many are to go
    pc,        \* where each actor is
    want,      \* the file an actor is about, or the directory it lists
    job,       \* the job it has been given
    fd,        \* what a viewer reads: None, "growing", "whole" (and still at its path), "kept"
               \* (whole, and no longer at its path) or "cut"
    result,    \* how a viewer's request has ended
    unmarked,  \* history: keys whose output was begun beside an old marker
    bare,      \* history: keys whose finished output is in place and has lost its marker
    again,     \* history: jobs whose output a viewer lost while reading it, or never read
    late       \* history: jobs dropped after a viewer had found them

cache   == <<mkv, marker, used>>
maps    == <<made, jobs, pending>>
fields  == <<keyOf, prio, verdict, stopped>>
asking  == <<pc, want, job>>
reading == <<fd, result>>
history == <<unmarked, bare, again, late>>
vars    == <<cache, maps, running, wake, fields, run, evict, asking, reading, history>>

Prefetch == 0
Playback == 1

-----------------------------------------------------------------------------
(* cache *)

\* Mutant: an output counts as complete without its marker.
CompleteByFile(k) == mkv[k] # "none"

Complete(k) == k \in marker /\ mkv[k] # "none"

\* What the readers of an output have when it is something else from now on.
Becomes(k, was, is) == [v \in Viewers |-> IF want[v] = k /\ fd[v] = was THEN is ELSE fd[v]]

\* ffmpeg -y opens the output in place: it is emptied under whoever has it open.
Truncated(k) ==
    [v \in Viewers |-> IF want[v] = k /\ fd[v] \in {"growing", "whole"} THEN "cut" ELSE fd[v]]

\* Who has the whole file open keeps it when its name is removed ...
Kept(k) == Becomes(k, "whole", "kept")

\* ... and who reads half a file nobody will go on with has no more than that.
Abandoned(k) ==
    [v \in Viewers |-> IF want[v] = k /\ fd[v] = "growing" THEN "cut" ELSE Kept(k)[v]]

RemoveFile(k) ==
    mkv' = [mkv EXCEPT ![k] = "none"] /\ unmarked' = unmarked \ {k} /\ bare' = bare \ {k}

Unused(k) == Without(used, {k})
Unmark(k) == marker' = marker \ {k} /\ used' = Unused(k)

MarkComplete(k) == marker' = marker \cup {k} /\ used' = Append(Unused(k), k)

Touch(k) == used' = IF k \in marker THEN Append(Unused(k), k) ELSE used

-----------------------------------------------------------------------------
(* Start and DropPendingOutside, called by actor a *)

Go(a, to) == pc' = [pc EXCEPT ![a] = to]

\* Start returns j: a viewer goes on with it, the guesser has no more to do.
Return(a, j, to) ==
    LET mine(x, y) == IF a = Guesser THEN x ELSE y
    IN  /\ Go(a, mine("idle", to))
        /\ want' = [want EXCEPT ![a] = mine(None, @)]
        /\ job'  = [job  EXCEPT ![a] = mine(None, j)]

\* A finished output needs no job.
StartCheck(a) ==
    /\ pc[a] = "start"
    /\ IF Complete(want[a]) THEN Return(a, None, "cached")
                            ELSE Go(a, "lookup") /\ UNCHANGED <<want, job>>
    /\ UNCHANGED <<cache, maps, running, wake, fields, run, evict, reading, history>>

\* Mutant: a job that is no longer queued is not found.
QueuedFor(k) == IF jobs[k] \in ToSet(pending) THEN jobs[k] ELSE None

JobFor(k) == jobs[k]

\* Under m.mu: the job that has this key.
StartFind(a) ==
    /\ pc[a] = "lookup" /\ JobFor(want[a]) # None
    /\ Return(a, JobFor(want[a]), "raise")
    /\ UNCHANGED <<cache, maps, running, wake, fields, run, evict, reading, history>>

\* ... or a new one at the end of the queue.
StartCreate(a) ==
    LET j == made + 1
    IN  /\ pc[a] = "lookup" /\ JobFor(want[a]) = None /\ j \in Jobs
        /\ made' = j
        /\ keyOf' = [keyOf EXCEPT ![j] = want[a]]
        /\ prio' = [prio EXCEPT ![j] = IF a = Guesser THEN Prefetch ELSE Playback]
        /\ jobs' = [jobs EXCEPT ![want[a]] = j]
        /\ pending' = Append(pending, j)
        /\ wake' = TRUE
        /\ Return(a, j, "wait")
        /\ UNCHANGED <<cache, running, verdict, stopped, run, evict, reading, history>>

\* Mutant: the dispatcher is not told.
NudgeNever(raised) == wake' = wake

NudgeIf(raised) == wake' = (wake \/ raised)

\* j.raise, after m.mu has been let go: the job may have been dropped meanwhile.
StartRaise(a) ==
    /\ pc[a] = "raise"
    /\ prio' = [prio EXCEPT ![job[a]] = Playback]
    /\ NudgeIf(prio[job[a]] = Prefetch)
    /\ Go(a, "wait")
    /\ UNCHANGED <<cache, maps, running, keyOf, verdict, stopped, run, evict, want, job,
                   reading, history>>

\* Mutant: whatever waits for another directory is dropped, viewers' files too.
StaleAny(j, dir) == DirOf[keyOf[j]] # dir

DirFor(x) == IF x \in Dirs THEN x ELSE DirOf[x]

Stale(j, dir) == prio[j] = Prefetch /\ DirOf[keyOf[j]] # dir

\* The guesses for other directories leave the queue under m.mu, and are closed afterwards
\* with ErrDropped.  Only who waits for one of them sees the second, so it is no step of its own.
DropPendingOutside(a) ==
    LET gone == {j \in ToSet(pending) : Stale(j, DirFor(want[a]))}
    IN  /\ pc[a] = "drop"
        /\ pending' = Without(pending, gone)
        /\ jobs' = [k \in Keys |-> IF jobs[k] \in gone THEN None ELSE jobs[k]]
        /\ verdict' = [j \in Jobs |-> IF j \in gone THEN "dropped" ELSE verdict[j]]
        /\ late' = late \cup (gone \cap {job[v] : v \in {w \in Viewers : pc[w] = "raise"}})
        /\ Go(a, IF a = Guesser THEN "listed" ELSE "check")
        /\ UNCHANGED <<cache, made, running, wake, keyOf, prio, stopped, run, evict, want, job,
                       reading, unmarked, bare, again>>

-----------------------------------------------------------------------------
(* dispatch *)

\* The order in which popBestLocked takes them: by priority, oldest first.
ByPriority ==
    LET guesses == {j \in Jobs : prio[j] = Prefetch}
    IN  Without(pending, guesses) \o Without(pending, Jobs \ guesses)

WantsIn(s)  == \E i \in DOMAIN s : prio[s[i]] = Playback
Converting(j) == run[j] \in {"begin", "convert", "retry"}

\* Mutant: one job too many.
FreeOneMore == Slots + 1 - Cardinality(running)

Free == Slots - Cardinality(running)

\* Under m.mu: the free slots are filled; when all are taken and a viewer still waits,
\* one guess is stopped.  A job past its conversion has no cancel function left.
dispatch ==
    LET n     == IF Len(pending) < Free THEN Len(pending) ELSE Free
        start == ToSet(SubSeq(ByPriority, 1, n))
        left  == Without(pending, start)
        guesses == {j \in running \cup start : prio[j] = Prefetch}
    IN  /\ wake
        /\ wake' = FALSE
        /\ pending' = left
        /\ running' = running \cup start
        /\ run' = [j \in Jobs |-> IF j \in start THEN "begin" ELSE run[j]]
        /\ \/ /\ Cardinality(running') < Slots \/ ~WantsIn(left) \/ guesses = {}
              /\ stopped' = stopped
           \/ /\ Cardinality(running') >= Slots /\ WantsIn(left)
              /\ \E j \in guesses :
                     stopped' = IF Converting(j) \/ j \in start THEN stopped \cup {j} ELSE stopped
        /\ UNCHANGED <<cache, made, jobs, keyOf, prio, verdict, evict, asking, reading, history>>

-----------------------------------------------------------------------------
(* run *)

Step(j, from, to) == run[j] = from /\ run' = [run EXCEPT ![j] = to]

\* finish: the job leaves the maps, its done is closed, the dispatcher is nudged.
finish(j, v) ==
    /\ running' = running \ {j}
    /\ jobs' = [jobs EXCEPT ![keyOf[j]] = None]
    /\ verdict' = [verdict EXCEPT ![j] = v]
    /\ wake' = TRUE
    /\ stopped' = stopped \ {j}
    /\ UNCHANGED <<made, pending, keyOf, prio>>

RunReady(j) ==
    /\ Step(j, "begin", "over") /\ Complete(keyOf[j])
    /\ finish(j, "ok")
    /\ UNCHANGED <<cache, evict, asking, reading, history>>

\* ffmpeg -y opens the output.
Begin(j) ==
    LET k == keyOf[j]
    IN  /\ mkv' = [mkv EXCEPT ![k] = "partial"]
        /\ fd' = Truncated(k)
        /\ unmarked' = IF k \in marker THEN unmarked \cup {k} ELSE unmarked
        /\ bare' = bare \ {k}
        /\ UNCHANGED <<marker, used, maps, running, wake, fields, evict, asking, result, late>>

\* Those who read along lose what they read.
Interrupt(j) ==
    again' = IF \E v \in Viewers : job[v] = j /\ fd[v] = "growing" THEN again \cup {j} ELSE again

\* The viewers whose film is in place without its marker, and is about to be made anew there.
Overwritten(k) ==
    {job[v] : v \in {w \in Viewers : want[w] = k /\ fd[w] = "whole" /\ k \in bare}}

RunConvert(j) ==
    Step(j, "begin", "convert") /\ ~Complete(keyOf[j]) /\ j \notin stopped /\ Begin(j)
    /\ again' = again \cup Overwritten(keyOf[j])

\* Stopped before it began: with its context canceled ffmpeg is not started.
RunUnstarted(j) ==
    /\ Step(j, "begin", "discard") /\ ~Complete(keyOf[j]) /\ j \in stopped
    /\ stopped' = stopped \ {j}
    /\ UNCHANGED <<cache, maps, running, wake, keyOf, prio, verdict, evict, asking, reading,
                   history>>

\* A failure that is not the interrupt's is tried again, without subtitles.
RunRetry(j) ==
    Step(j, "convert", "retry") /\ j \notin stopped /\ Begin(j) /\ Interrupt(j)

\* ffmpeg ends well.  A job that has been preempted is thrown away all the same.
RunSucceed(j) ==
    LET k == keyOf[j]
    IN  /\ run[j] \in {"convert", "retry"}
        /\ run' = [run EXCEPT ![j] = IF j \in stopped THEN "discard" ELSE "mark"]
        /\ mkv' = [mkv EXCEPT ![k] = IF @ = "partial" THEN "full" ELSE @]
        /\ fd' = Becomes(k, "growing", IF mkv[k] = "partial" THEN "whole" ELSE "kept")
        /\ unmarked' = unmarked \ {k} /\ stopped' = stopped \ {j}
        /\ UNCHANGED <<marker, used, maps, running, wake, keyOf, prio, verdict, evict, asking,
                       result, bare, again, late>>

\* It is interrupted, or fails for good.
RunFail(j) ==
    /\ run[j] = "retry" \/ (run[j] = "convert" /\ j \in stopped)
    /\ run' = [run EXCEPT ![j] = IF j \in stopped THEN "discard" ELSE "failed"]
    /\ stopped' = stopped \ {j}
    /\ UNCHANGED <<cache, maps, running, wake, keyOf, prio, verdict, evict, asking, reading,
                   history>>

\* Discard: the file first, the marker afterwards.
RunDiscard(j) ==
    /\ run[j] \in {"discard", "failed"}
    /\ run' = [run EXCEPT ![j] = IF @ = "discard" THEN "requeue" ELSE "finish"]
    /\ RemoveFile(keyOf[j])
    /\ fd' = Abandoned(keyOf[j])
    /\ Interrupt(j)
    /\ UNCHANGED <<marker, used, maps, running, wake, fields, evict, asking, result, late>>

\* Under m.mu: the slot is freed and the job goes to the end of the queue.
RunRequeue(j) ==
    /\ Step(j, "requeue", "over")
    /\ Unmark(keyOf[j])
    /\ running' = running \ {j}
    /\ pending' = Append(pending, j)
    /\ wake' = TRUE
    /\ UNCHANGED <<mkv, made, jobs, fields, evict, asking, reading, history>>

RunError(j) ==
    /\ Step(j, "finish", "over")
    /\ Unmark(keyOf[j])
    /\ finish(j, "error")
    /\ UNCHANGED <<mkv, evict, asking, reading, history>>

RunMark(j) ==
    /\ Step(j, "mark", "done")
    /\ MarkComplete(keyOf[j])
    /\ bare' = bare \ {keyOf[j]}
    /\ UNCHANGED <<mkv, maps, running, wake, fields, evict, asking, reading, unmarked, again, late>>

\* A finished output that stays where it is, without a marker.
Bared(k) == bare' = IF mkv[k] = "full" THEN bare \cup {k} ELSE bare

\* The marker cannot be opened, or not be written once it is there: the job has failed, and what it
\* has made is left.
RunMarkFail(j) ==
    LET k == keyOf[j]
    IN  /\ Step(j, "mark", "over")
        /\ finish(j, "error")
        /\ \/ MarkComplete(k) /\ bare' = bare \ {k}
           \/ UNCHANGED <<marker, used>> /\ IF k \in marker THEN bare' = bare ELSE Bared(k)
        /\ UNCHANGED <<mkv, evict, asking, reading, unmarked, again, late>>

RunDone(j) ==
    /\ Step(j, "done", "evict")
    /\ finish(j, "ok")
    /\ UNCHANGED <<cache, evict, asking, reading, history>>

-----------------------------------------------------------------------------
(* Evict, called by run after finish *)

Held == Cardinality({k \in Keys : mkv[k] # "none"})

NoEvict == [by |-> None, left |-> <<>>, over |-> 0, half |-> FALSE]

\* Under c.mu: the complete entries by last use, and how many have to go.
EvictScan(j) ==
    /\ Step(j, "evict", "evicting") /\ evict.by = None
    /\ evict' = [by |-> j, left |-> Without(used, {k \in Keys : ~Complete(k)}), half |-> FALSE,
                 over |-> IF Held > CacheMax THEN Held - CacheMax ELSE 0]
    /\ UNCHANGED <<cache, maps, running, wake, fields, asking, reading, history>>

Evicting(j) == evict.by = j /\ evict.over > 0 /\ evict.left # <<>>

EvictFile(j) ==
    /\ Evicting(j) /\ ~evict.half
    /\ RemoveFile(Head(evict.left))
    /\ fd' = Kept(Head(evict.left))
    /\ evict' = [evict EXCEPT !.half = TRUE]
    /\ UNCHANGED <<marker, used, maps, running, wake, fields, run, asking, result, again, late>>

EvictMarker(j) ==
    /\ Evicting(j) /\ evict.half
    /\ Unmark(Head(evict.left))
    /\ Bared(Head(evict.left))
    /\ evict' = [evict EXCEPT !.half = FALSE, !.left = Tail(@), !.over = @ - 1]
    /\ UNCHANGED <<mkv, maps, running, wake, fields, run, asking, reading, unmarked, again, late>>

EvictEnd(j) ==
    /\ Step(j, "evicting", "over") /\ ~Evicting(j)
    /\ evict' = NoEvict
    /\ UNCHANGED <<cache, maps, running, wake, fields, asking, reading, history>>

-----------------------------------------------------------------------------
(* A GET: OpenFile, openConverted, openCached, openGrowing and Read *)

Answer(v, r) ==
    /\ result' = [result EXCEPT ![v] = r]
    /\ fd' = [fd EXCEPT ![v] = None]
    /\ Go(v, "answered")

\* A request that looks like part of a sweep gets the source, unless the output is there.
\* Whether it does (scanDetector.Touch) depends on what else was asked for lately.
OpenFile(v, k) ==
    /\ pc[v] = "idle"
    /\ want' = [want EXCEPT ![v] = k]
    /\ \/ ~Complete(k) /\ Answer(v, "source")
       \/ Go(v, "drop") /\ UNCHANGED reading
    /\ UNCHANGED <<cache, maps, running, wake, fields, run, evict, job, history>>

OpenCheck(v) ==
    /\ pc[v] = "check"
    /\ Go(v, IF Complete(want[v]) THEN "cached" ELSE "start")
    /\ UNCHANGED <<cache, maps, running, wake, fields, run, evict, want, job, reading, history>>

\* Touch, and what is at the path by now is served with the size it has.
openCached(v) ==
    /\ pc[v] = "cached"
    /\ Touch(want[v])
    /\ Answer(v, CASE mkv[want[v]] = "none" -> "gone"
                   [] mkv[want[v]] = "full" -> "whole"
                   [] OTHER -> "short")
    /\ UNCHANGED <<mkv, marker, maps, running, wake, fields, run, evict, want, job, history>>

Over(v) == verdict[job[v]] # "open"

\* WaitForComplete: done is closed ...
OpenWait(v) ==
    /\ pc[v] = "wait" /\ Patient /\ Over(v)
    /\ IF verdict[job[v]] = "ok" THEN Go(v, "cached") /\ UNCHANGED reading
                                ELSE Answer(v, verdict[job[v]])
    /\ UNCHANGED <<cache, maps, running, wake, fields, run, evict, want, job, history>>

\* ... or the timer has run out.
OpenTimeout(v) ==
    /\ pc[v] = "wait"
    /\ Go(v, "grow")
    /\ UNCHANGED <<cache, maps, running, wake, fields, run, evict, want, job, reading, history>>

\* openGrowing: the output, as soon as there is one, or an error when the job is over or 30 s have
\* passed without.  The one a job has made may be gone by now, and another's be there.
openGrowing(v) ==
    LET k == want[v]
    IN  /\ pc[v] = "grow"
        /\ \/ /\ mkv[k] # "none"
              /\ fd' = [fd EXCEPT ![v] = IF mkv[k] = "full" THEN "whole" ELSE "growing"]
              /\ again' = IF mkv[k] # "full" /\ Over(v) THEN again \cup {job[v]} ELSE again
              /\ Go(v, "read") /\ result' = result
           \/ /\ mkv[k] = "none"
              /\ Answer(v, IF verdict[job[v]] \in {"ok", "open"} THEN "gone" ELSE verdict[job[v]])
              /\ again' = again
        /\ UNCHANGED <<cache, maps, running, wake, fields, run, evict, want, job, unmarked, bare,
                       late>>

\* Mutant: the end of the file read so far counts as the end.
ReadsOn(v) == TRUE

\* growingFile.Read: there is no end of file before the job has ended.
MayEnd(v) == Over(v)

ReadEnd(v) ==
    /\ pc[v] = "read" /\ MayEnd(v)
    /\ Answer(v, IF verdict[job[v]] \in {"ok", "open"} THEN fd[v] ELSE verdict[job[v]])
    /\ UNCHANGED <<cache, maps, running, wake, fields, run, evict, want, job, history>>

Others(v) == {job[w] : w \in Viewers \ {v}}

\* The client goes away, before an answer or after it.  Its conversion goes on.
Close(v) ==
    /\ pc[v] \in {"wait", "grow", "read", "answered"}
    /\ Go(v, "idle")
    /\ want' = [want EXCEPT ![v] = None] /\ job' = [job EXCEPT ![v] = None]
    /\ fd' = [fd EXCEPT ![v] = None] /\ result' = [result EXCEPT ![v] = "none"]
    /\ again' = again \cap Others(v) /\ late' = late \cap Others(v)
    /\ UNCHANGED <<cache, maps, running, wake, fields, run, evict, unmarked, bare>>

-----------------------------------------------------------------------------
(* Guesses *)

Guess(x, at) ==
    /\ want' = [want EXCEPT ![Guesser] = x]
    /\ Go(Guesser, at)
    /\ UNCHANGED <<cache, maps, running, wake, fields, run, evict, job, reading, history>>

\* prefetch of a directory somebody lists: older guesses go first ...
prefetch(d) == pc[Guesser] = "idle" /\ Guess(d, "drop")

\* ... then come its files that need work, if any.
prefetchFile(k) ==
    pc[Guesser] = "listed" /\ DirOf[k] = want[Guesser] /\ ~Complete(k) /\ Guess(k, "start")

prefetchEnd == pc[Guesser] = "listed" /\ Guess(None, "idle")

\* queueNext, started by openConverted: another file of the directory.
queueNext(v, k) ==
    /\ pc[v] = "check" /\ k # want[v] /\ DirOf[k] = DirOf[want[v]] /\ ~Complete(k)
    /\ pc[Guesser] = "idle" /\ Guess(k, "start")

-----------------------------------------------------------------------------
(* Crash and restart *)

Memory ==
    /\ made = 0 /\ jobs = [k \in Keys |-> None] /\ pending = <<>> /\ running = {} /\ wake = FALSE
    /\ keyOf = [j \in Jobs |-> None] /\ prio = [j \in Jobs |-> Prefetch]
    /\ verdict = [j \in Jobs |-> "open"] /\ stopped = {} /\ run = [j \in Jobs |-> "over"]
    /\ evict = NoEvict
    /\ pc = [a \in Actors |-> "idle"]
    /\ want = [a \in Actors |-> None] /\ job = [a \in Actors |-> None]
    /\ fd = [v \in Viewers |-> None] /\ result = [v \in Viewers |-> "none"]
    /\ bare = {} /\ again = {} /\ late = {}

\* The process dies; the next one begins with sweepIncomplete: outputs without a marker go,
\* markers without an output stay.
Restart ==
    /\ mkv' = [k \in Keys |-> IF Complete(k) THEN mkv[k] ELSE "none"]
    /\ unmarked' = {k \in unmarked : Complete(k)}
    /\ made' = 0 /\ jobs' = [k \in Keys |-> None] /\ pending' = <<>> /\ running' = {}
    /\ wake' = FALSE /\ keyOf' = [j \in Jobs |-> None]
    /\ prio' = [j \in Jobs |-> Prefetch] /\ verdict' = [j \in Jobs |-> "open"]
    /\ stopped' = {} /\ run' = [j \in Jobs |-> "over"]
    /\ evict' = NoEvict
    /\ pc' = [a \in Actors |-> "idle"]
    /\ want' = [a \in Actors |-> None] /\ job' = [a \in Actors |-> None]
    /\ fd' = [v \in Viewers |-> None] /\ result' = [v \in Viewers |-> "none"]
    /\ bare' = {} /\ again' = {} /\ late' = {}
    /\ UNCHANGED <<marker, used>>

-----------------------------------------------------------------------------
(* The specification *)

Init ==
    /\ \E full \in SUBSET Keys :
          /\ mkv = [k \in Keys |-> IF k \in full THEN "full" ELSE "none"]
          /\ marker = full /\ used \in SetToSeqs(full)
    /\ Memory
    /\ unmarked = {}

Start(a) == StartCheck(a) \/ StartFind(a) \/ StartCreate(a) \/ StartRaise(a)
Run(j)   == RunReady(j) \/ RunConvert(j) \/ RunUnstarted(j) \/ RunRetry(j) \/ RunSucceed(j)
            \/ RunFail(j) \/ RunDiscard(j) \/ RunRequeue(j) \/ RunError(j) \/ RunMark(j)
            \/ RunMarkFail(j) \/ RunDone(j)
Evict(j) == EvictScan(j) \/ EvictFile(j) \/ EvictMarker(j) \/ EvictEnd(j)
Open(v)  == OpenCheck(v) \/ openCached(v) \/ OpenWait(v) \/ OpenTimeout(v)
            \/ openGrowing(v) \/ ReadEnd(v)

Next ==
    \/ \E a \in Actors : Start(a) \/ DropPendingOutside(a)
    \/ dispatch
    \/ \E j \in Jobs : Run(j) \/ Evict(j)
    \/ \E v \in Viewers : Open(v) \/ Close(v)
    \/ \E v \in Viewers, k \in Keys : OpenFile(v, k) \/ queueNext(v, k)
    \/ \E d \in Dirs : prefetch(d)
    \/ \E k \in Keys : prefetchFile(k)
    \/ prefetchEnd
    \/ Restart

Spec == Init /\ [][Next]_vars

-----------------------------------------------------------------------------
(* Properties *)

TypeOK ==
    /\ mkv \in [Keys -> {"none", "partial", "full"}] /\ marker \subseteq Keys /\ used \in Seq(Keys)
    /\ made \in 0 .. MaxJobs /\ jobs \in [Keys -> Jobs \cup {None}]
    /\ pending \in Seq(Jobs) /\ running \subseteq Jobs /\ wake \in BOOLEAN
    /\ keyOf \in [Jobs -> Keys \cup {None}] /\ prio \in [Jobs -> {Prefetch, Playback}]
    /\ verdict \in [Jobs -> {"open", "ok", "error", "dropped"}] /\ stopped \subseteq Jobs
    /\ run \in [Jobs -> {"begin", "convert", "retry", "discard", "requeue", "failed", "finish",
                          "mark", "done", "evict", "evicting", "over"}]
    /\ pc \in [Actors -> {"idle", "drop", "listed", "check", "start", "lookup", "raise",
                           "wait", "cached", "grow", "read", "answered"}]
    /\ want \in [Actors -> Keys \cup Dirs \cup {None}] /\ job \in [Actors -> Jobs \cup {None}]
    /\ fd \in [Viewers -> {None, "growing", "whole", "kept", "cut"}]
    /\ Cardinality(running) <= Slots

Active == {j \in Jobs : run[j] \notin {"over", "evict", "evicting"}}

\* Preempting, putting back, dropping and starting again never leave two jobs at work on one
\* file: whatever is queued or at work is what its key is registered for, and a job that is
\* queued again has let go of its output and of its slot.
OneWriter ==
    /\ \A j \in Active \cup ToSet(pending) : jobs[keyOf[j]] = j
    /\ Active \cap ToSet(pending) = {} /\ IsInjective(pending)
    /\ Cardinality(Active) <= Slots

\* "A finished, fully written output exists" (cache.go 49): what is complete is whole, unless
\* its conversion began beside the marker of an earlier output, left by half a Discard.
CompleteIsFull == \A k \in Keys : Complete(k) => mkv[k] = "full" \/ k \in unmarked

\* No wake-up is lost: when there is nothing left to wake the dispatcher for, a viewer's job
\* that waits has every slot taken, by viewers' jobs or with a guess on its way out.
NoGuessInTheWay ==
    ~wake /\ WantsIn(pending)
    => /\ Cardinality(running) = Slots
       /\ \/ \A j \in running : prio[j] = Playback
          \/ \E j \in running : j \in stopped \/ ~Converting(j)

\* "The viewer moved on" (transcode.go 27): a viewer's own file is dropped only if it was
\* still a guess when the viewer found it, and was dropped before the viewer had raised it.
ViewerNotDropped == \A v \in Viewers : result[v] = "dropped" => job[v] \in late

\* A viewer who reads along gets the whole film, unless the job it was given is interrupted
\* or tried again, which takes the file away from under its readers, or had ended before the
\* viewer opened the file, and another was making the film anew, or the finished film it read had
\* lost its marker, to an eviction that came late or to a disk that took no marker, and was made
\* anew in the same place.
ReaderWhole == \A v \in Viewers : result[v] \in {"cut", "growing"} => job[v] \in again
=============================================================================
