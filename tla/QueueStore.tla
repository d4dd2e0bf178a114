----------------------------- MODULE QueueStore -----------------------------
(***************************************************************************)
(* What survives a restart: ver2/internal/jobs/persist.go keeps the files  *)
(* still to do in queue.json, rewritten after every change of the queue by *)
(* whichever goroutine made the change, with no lock held while it writes. *)
(*                                                                         *)
(* The queue is reduced to what persist reads of it, pending and running;  *)
(* JobQueue has the rest.  Every file belongs to one batch and is started  *)
(* in order of arrival.  A batch's options and checkpoint flag travel with *)
(* it.  Sources stay where they are.  A process may die at any step.       *)
(***************************************************************************)
EXTENDS Naturals, FiniteSets, SequencesExt, Sift

CONSTANTS
    Batches,
    Lists,     \* the files of each batch, in order
    Savers,    \* bound: goroutines that may be saving at once
    Main,      \* the main goroutine: Restore and Shutdown save from there
    MaxBoots,  \* bound: times the process is started
    Absent,    \* no such file
    Empty,     \* a file opened for writing, nothing written yet
    Torn       \* a file in which two writes are mixed

Files == UNION {ToSet(Lists[b]) : b \in Batches}
NoList == {Absent, Empty, Torn}   \* what Restore takes no batches from
BatchOf(f) == CHOOSE b \in Batches : f \in ToSet(Lists[b])

ASSUME StoreConstants ==
    /\ \A b \in Batches : Lists[b] \in Seq(Files) /\ Lists[b] # <<>>
    /\ \A b, c \in Batches : b # c => ToSet(Lists[b]) \cap ToSet(Lists[c]) = {}
    /\ Main \notin Savers
    /\ MaxBoots \in Nat \ {0}
    /\ Absent \notin {Empty, Torn} /\ \A file \in NoList : file \notin Seq(Seq(Files))

VARIABLES
    life,       \* "down", "restoring", "up", "closed" to new starts, "drained" once recorded
    boots,      \* times the process was started
    pending,    \* files of q.pending
    running,    \* files of q.running
    converted,  \* files whose output exists
    todo,       \* batches Restore has still to enqueue
    store,      \* queue.json: one of NoList, or the list of batches with their files
    tmp,        \* queue.json.tmp
    pc,         \* where each goroutine is in save
    blob,       \* what it is to write
    fd,         \* where the file it has open is linked
    adds,       \* history: files whose Enqueue the save belongs to
    kept,       \* history: files whose Enqueue has been written down
    settled,    \* history: files canceled, or failed by themselves
    cut,        \* history: files a shutdown interrupted that have not started again
    harmed      \* history: writes overlapped, or Restore did not get to its end

memory  == <<pending, running, todo>>
disk    == <<converted, store, tmp>>
saving  == <<pc, blob, fd, adds>>
history == <<kept, settled, cut, harmed>>
vars    == <<life, boots, memory, disk, saving, history>>

Goroutines == Savers \cup {Main}
stopping   == life \in {"closed", "drained"}
Outstanding == running \cup ToSet(pending)

-----------------------------------------------------------------------------
(* save and persist *)

\* The goroutine goes on to save; adds are the files it has just enqueued.
Saves(s, files) ==
    /\ pc' = [pc EXCEPT ![s] = "check"]
    /\ adds' = [adds EXCEPT ![s] = files]
    /\ UNCHANGED <<blob, fd>>

\* save asks about stopping under the lock, and lets it go.
SaveCheck(s) ==
    /\ pc[s] = "check"
    /\ pc' = [pc EXCEPT ![s] = IF stopping THEN "idle" ELSE "snap"]
    /\ UNCHANGED <<life, boots, memory, disk, blob, fd, adds, history>>

\* Mutant: what is being converted is not written down.
PendingOnly == {[i \in DOMAIN bs |-> Without(pending, Files \ ToSet(Lists[bs[i]]))] :
                    bs \in SetToSeqs({BatchOf(f) : f \in ToSet(pending)})}

\* The queue as persist writes it down: running first within each batch, but the
\* running files and the batches in whatever order their maps yield them.
Snapshots ==
    {[i \in DOMAIN bs |-> Without(rs \o pending, Files \ ToSet(Lists[bs[i]]))] :
        bs \in SetToSeqs({BatchOf(f) : f \in Outstanding}), rs \in SetToSeqs(running)}

\* Another goroutine is between its snapshot and the end of its write, or this
\* one writes although Shutdown has.
Overlaps(s) ==
    \/ \E t \in Goroutines \ {s} : pc[t] \in {"clear", "open", "write", "rename"}
    \/ s # Main /\ stopping

Snapshot(s) ==
    /\ pc[s] = "snap"
    /\ \E snapshot \in Snapshots : blob' = [blob EXCEPT ![s] = snapshot]
    /\ pc' = [pc EXCEPT ![s] = IF Outstanding = {} THEN "clear" ELSE "open"]
    /\ harmed' = (harmed \/ Overlaps(s))
    /\ UNCHANGED <<life, boots, memory, disk, fd, adds, kept, settled, cut>>

\* What the others have open follows the file it is linked to.
Relink(s, moves) ==
    fd' = [t \in Goroutines |-> IF t = s THEN "none" ELSE moves[fd[t]]]

Stay == [l \in {"none", "tmp", "store", "gone"} |-> l]

Saved(s) ==
    /\ pc' = [pc EXCEPT ![s] = "idle"]
    /\ blob' = [blob EXCEPT ![s] = <<>>]
    /\ adds' = [adds EXCEPT ![s] = {}]

\* Nothing is left to do: the file is removed.
SaveClear(s) ==
    /\ pc[s] = "clear"
    /\ store' = Absent
    /\ kept' = kept \cup adds[s]
    /\ Relink(s, [Stay EXCEPT !["store"] = "gone"])
    /\ Saved(s)
    /\ UNCHANGED <<life, boots, memory, converted, tmp, settled, cut, harmed>>

\* Mutant: the file is overwritten in place.
SaveOpenInPlace(s) ==
    /\ pc[s] = "open"
    /\ store' = Empty
    /\ fd' = [fd EXCEPT ![s] = "store"]
    /\ pc' = [pc EXCEPT ![s] = "write"]
    /\ UNCHANGED <<life, boots, memory, converted, tmp, blob, adds, history>>

\* WriteFile opens the temporary file, the same for all, and empties it ...
SaveOpen(s) ==
    /\ pc[s] = "open"
    /\ tmp' = Empty
    /\ fd' = [fd EXCEPT ![s] = "tmp"]
    /\ pc' = [pc EXCEPT ![s] = "write"]
    /\ UNCHANGED <<life, boots, memory, converted, store, blob, adds, history>>

\* ... and writes from its start: over another's text, the longer one shows.
Written(s, old) == IF old = Empty THEN {blob[s]} ELSE {blob[s], Torn}

SaveWrite(s) ==
    /\ pc[s] = "write"
    /\ \/ fd[s] = "tmp" /\ tmp' \in Written(s, tmp) /\ store' = store
       \/ fd[s] = "store" /\ store' \in Written(s, store) /\ tmp' = tmp
       \/ fd[s] = "gone" /\ UNCHANGED <<tmp, store>>
    /\ pc' = [pc EXCEPT ![s] = "rename"]
    /\ Relink(s, Stay)
    /\ UNCHANGED <<life, boots, memory, converted, blob, adds, history>>

\* The rename fails, and the save is given up, when another has renamed the file.
SaveRename(s) ==
    /\ pc[s] = "rename"
    /\ IF tmp = Absent
       THEN UNCHANGED <<store, tmp, kept, fd>>
       ELSE /\ store' = tmp /\ tmp' = Absent
            /\ kept' = kept \cup adds[s]
            /\ Relink(s, [Stay EXCEPT !["tmp"] = "store", !["store"] = "gone"])
    /\ Saved(s)
    /\ UNCHANGED <<life, boots, memory, converted, settled, cut, harmed>>

-----------------------------------------------------------------------------
(* The queue at work *)

\* Files converted, or on their way, are left out; if none remains nothing is saved.
New(list) == Without(list, converted \cup Outstanding)

Enqueue(b, s) ==
    /\ life = "up" /\ pc[s] = "idle"
    /\ \A f \in ToSet(Lists[b]) : f \notin kept \cup settled   \* bound: each batch once
    /\ New(Lists[b]) # <<>>
    /\ pending' = pending \o New(Lists[b])
    /\ Saves(s, ToSet(New(Lists[b])))
    /\ UNCHANGED <<life, boots, running, todo, disk, history>>

\* Mutant: the limit on conversions is not asked about.
StartMore ==
    /\ life \in {"restoring", "up"}
    /\ pending # <<>>
    /\ running' = running \cup {Head(pending)}
    /\ pending' = Tail(pending)
    /\ cut' = {}
    /\ UNCHANGED <<life, boots, todo, disk, saving, kept, settled, harmed>>

\* One worker; the window between dispatch and start is JobQueue's.
Start ==
    /\ life \in {"restoring", "up"}
    /\ running = {} /\ pending # <<>>
    /\ running' = {Head(pending)}
    /\ pending' = Tail(pending)
    /\ cut' = {}
    /\ UNCHANGED <<life, boots, todo, disk, saving, kept, settled, harmed>>

Convert(f) ==
    /\ f \in running \ converted
    /\ converted' = converted \cup {f}
    /\ UNCHANGED <<life, boots, memory, store, tmp, saving, history>>

\* The job ends, converted or not.  One that Shutdown interrupts has no verdict.
End(f, s) ==
    /\ f \in running /\ pc[s] = "idle"
    /\ running' = running \ {f}
    /\ settled' = IF f \in converted \/ life = "drained" THEN settled ELSE settled \cup {f}
    /\ Saves(s, {})
    /\ UNCHANGED <<life, boots, pending, todo, disk, kept, cut, harmed>>

\* Cancel of a file that waits; of one that runs, it leads to End.
Cancel(f, s) ==
    /\ life = "up" /\ pc[s] = "idle"
    /\ f \in ToSet(pending)
    /\ pending' = Without(pending, {f})
    /\ settled' = settled \cup {f}
    /\ Saves(s, {})
    /\ UNCHANGED <<life, boots, running, todo, disk, kept, cut, harmed>>

-----------------------------------------------------------------------------
(* Restart *)

\* Restore reads the file once; one it cannot read leaves the queue empty.
Boot ==
    /\ life = "down" /\ boots < MaxBoots
    /\ boots' = boots + 1
    /\ life' = "restoring"
    /\ todo' = IF store \in NoList THEN <<>> ELSE store
    /\ UNCHANGED <<pending, running, disk, saving, history>>

\* Mutant: Restore ends at a batch with nothing left to do.
RestoreStops ==
    /\ life = "restoring" /\ pc[Main] = "idle" /\ todo # <<>>
    /\ IF New(Head(todo)) = <<>>
       THEN todo' = <<>> /\ UNCHANGED <<pending, saving>>
       ELSE /\ todo' = Tail(todo)
            /\ pending' = pending \o New(Head(todo)) /\ Saves(Main, {})
    /\ UNCHANGED <<life, boots, running, disk, history>>

\* Each batch is enqueued again, and saved, before the next.
RestoreBatch ==
    /\ life = "restoring" /\ pc[Main] = "idle" /\ todo # <<>>
    /\ todo' = Tail(todo)
    /\ IF New(Head(todo)) = <<>>
       THEN UNCHANGED <<pending, saving>>
       ELSE pending' = pending \o New(Head(todo)) /\ Saves(Main, {})
    /\ UNCHANGED <<life, boots, running, disk, history>>

RestoreDone ==
    /\ life = "restoring" /\ pc[Main] = "idle" /\ todo = <<>>
    /\ life' = "up"
    /\ UNCHANGED <<boots, memory, disk, saving, history>>

\* Shutdown closes the queue and writes it down whatever save would do ...
ShutdownClose ==
    /\ life = "up" /\ boots < MaxBoots
    /\ life' = "closed"
    /\ pc' = [pc EXCEPT ![Main] = "snap"]
    /\ UNCHANGED <<boots, memory, disk, blob, fd, adds, history>>

\* ... and only then interrupts what is running.
ShutdownDrain ==
    /\ life = "closed" /\ pc[Main] = "idle"
    /\ life' = "drained"
    /\ cut' = running
    /\ UNCHANGED <<boots, memory, disk, saving, kept, settled, harmed>>

Dies ==
    /\ life' = "down"
    /\ pending' = <<>> /\ running' = {} /\ todo' = <<>>
    /\ pc' = [s \in Goroutines |-> "idle"] /\ fd' = [s \in Goroutines |-> "none"]
    /\ blob' = [s \in Goroutines |-> <<>>] /\ adds' = [s \in Goroutines |-> {}]
    /\ UNCHANGED <<boots, disk, kept, settled>>

\* Shutdown's wait has ended, or its time is up.
Exit ==
    /\ life = "drained"
    /\ Dies /\ UNCHANGED <<cut, harmed>>

\* A kill, a power cut.
Crash ==
    /\ life # "down" /\ boots < MaxBoots
    /\ Dies
    /\ cut' = {}
    /\ harmed' = (harmed \/ life = "restoring")

-----------------------------------------------------------------------------

Init ==
    /\ life = "down" /\ boots = 0
    /\ pending = <<>> /\ running = {} /\ todo = <<>>
    /\ converted = {} /\ store = Absent /\ tmp = Absent
    /\ pc = [s \in Goroutines |-> "idle"] /\ fd = [s \in Goroutines |-> "none"]
    /\ blob = [s \in Goroutines |-> <<>>] /\ adds = [s \in Goroutines |-> {}]
    /\ kept = {} /\ settled = {} /\ cut = {} /\ harmed = FALSE

SaveStep(s) ==
    SaveCheck(s) \/ Snapshot(s) \/ SaveClear(s) \/ SaveOpen(s) \/ SaveWrite(s) \/ SaveRename(s)

Ends == \E f \in Files, s \in Savers : End(f, s)

Restore == RestoreBatch \/ RestoreDone

Next ==
    \/ \E s \in Goroutines : SaveStep(s)
    \/ \E s \in Savers, b \in Batches : Enqueue(b, s)
    \/ \E s \in Savers, f \in Files : Cancel(f, s)
    \/ Start \/ (\E f \in Files : Convert(f)) \/ Ends
    \/ Boot \/ Restore \/ ShutdownClose \/ ShutdownDrain \/ Exit \/ Crash

Spec == Init /\ [][Next]_vars

(***************************************************************************)
(* Goroutines of a living process go on; ffmpeg ends by itself; a process  *)
(* that is down is started again (restart: unless-stopped in compose).     *)
(***************************************************************************)
Fairness ==
    /\ \A s \in Goroutines : WF_vars(SaveStep(s))
    /\ WF_vars(Start) /\ WF_vars(Ends)
    /\ WF_vars(Boot) /\ WF_vars(Restore) /\ WF_vars(ShutdownDrain) /\ WF_vars(Exit)

FairSpec == Spec /\ Fairness

-----------------------------------------------------------------------------
(* What is claimed *)

Contents == NoList \cup Seq(Seq(Files))
FilesOf(list) == IF list \in NoList THEN {} ELSE UNION {ToSet(list[i]) : i \in DOMAIN list}
Listed == FilesOf(store)

TypeOK ==
    /\ life \in {"down", "restoring", "up", "closed", "drained"}
    /\ boots \in 0 .. MaxBoots
    /\ pending \in Seq(Files) /\ running \subseteq Files /\ Cardinality(running) <= 1
    /\ converted \subseteq Files /\ todo \in Seq(Seq(Files))
    /\ store \in Contents /\ tmp \in Contents
    /\ pc \in [Goroutines -> {"idle", "check", "snap", "clear", "open", "write", "rename"}]
    /\ blob \in [Goroutines -> Seq(Seq(Files))]
    /\ fd \in [Goroutines -> {"none", "tmp", "store", "gone"}]
    /\ adds \in [Goroutines -> SUBSET Files]
    /\ kept \subseteq Files /\ settled \subseteq Files /\ cut \subseteq Files
    /\ harmed \in BOOLEAN

(* A crash at any step of a save leaves a file that can be read, unless two
   writes overlapped (persist: temporary file and rename). *)
StoreReadable == ~harmed => store \notin {Empty, Torn}

(* Once nobody is saving, the file lists what is still to do: all that wait or
   run, and besides them only converted files (Enqueue, Cancel, run, save). *)
StoreCurrent ==
    ~harmed /\ life = "up" /\ (\A s \in Goroutines : pc[s] = "idle")
        => Listed \ converted = Outstanding \ converted

(* A file once written down is not lost by crashes, shutdowns and restarts: until
   it is settled or converted it waits, runs, is being restored, or is listed,
   unless writes overlapped or a crash cut Restore short (persist, Restore). *)
KeptUntilSettled ==
    ~harmed => \A f \in kept \ (settled \cup converted) :
        IF life = "down" THEN f \in Listed
        ELSE \/ f \in Outstanding \cup FilesOf(todo)
             \/ life = "drained" /\ f \in Listed

(* A file once written down is converted in the end, or gets another verdict,
   however often the process stops in between (Restore, dispatchLoop). *)
FileSettles ==
    \A f \in Files : f \in kept ~> f \in converted \cup settled \/ harmed

-----------------------------------------------------------------------------
(* What the comments say, and the code does not do *)

(* "nothing rewrites the state file after shutdown has recorded it"
   (jobs.go:217-218). *)
RecordStands == [][life = "drained" => store' = store]_vars

(* "That file starts again, and because it was at the front of the queue it
   starts again first" (persist.go:20-22): after an orderly stop. *)
InterruptedFirst ==
    [][running' \ running # {} /\ cut \ converted # {} /\ ~harmed => running' \subseteq cut]_vars

=============================================================================
