------------------------------ MODULE JobQueue ------------------------------
(***************************************************************************)
(* The conversion queue of ver2/internal/jobs: clients enqueue and cancel, *)
(* one dispatcher goroutine starts jobs, and one goroutine per started job *)
(* plans, runs ffmpeg and renames the result into place.                   *)
(*                                                                         *)
(* A step is what one goroutine does between two points at which another   *)
(* can interfere: a critical section of q.mu, a write of a job's own       *)
(* fields under j.mu, or one file operation.  q.mu is held across several  *)
(* steps only by Enqueue, which looks at the disk while holding it.        *)
(*                                                                         *)
(* What a goroutine does that nobody else can tell apart is one step: the  *)
(* release of a claim goes with the deferred exit that follows it, and the *)
(* removal of a job's own .part with the verdict before it.                *)
(*                                                                         *)
(* Job ids are the order of creation.  The code draws them at random and   *)
(* only compares them for equality.  Persistence (save, persist, Restore)  *)
(* and events (emit) change nothing modelled here.                         *)
(***************************************************************************)
EXTENDS Naturals, FiniteSets, SequencesExt

CONSTANTS
    Rels,          \* source files, by their path relative to the library
    Outputs,       \* paths of converted files
    OutputOf,      \* the output a source is converted to (outpath.Mapper.Output)
    RemuxRels,     \* sources whose streams can be copied, in jobs that do not burn subtitles
    Requests,      \* the ordered lists of sources clients ask to convert
    Callers,       \* goroutines serving a client: HTTP handlers, the Telegram poller
    Converted,     \* outputs that exist when the process starts
    MayStop,       \* bound: whether the process is asked to shut down
    MaxJobs,       \* bound: jobs created in one behaviour
    Workers,       \* conversions that may run at once
    HistoryLimit,  \* finished jobs remembered (historyLimit, 200 in the code)
    None           \* no job

Jobs == 1 .. MaxJobs

ASSUME ConstantsOK ==
    /\ OutputOf \in [Rels -> Outputs]
    /\ RemuxRels \subseteq Rels
    /\ Requests \subseteq Seq(Rels)
    /\ Converted \subseteq Outputs
    /\ MayStop \in BOOLEAN
    /\ MaxJobs \in Nat
    /\ Workers \in Nat \ {0}
    /\ HistoryLimit \in Nat \ {0}
    /\ None \notin Jobs \cup Rels

VARIABLES
    made,      \* number of jobs created
    rel,       \* Job.Rel
    batch,     \* Job.BatchID, as the first job of the batch
    state,     \* Job.state; "absent" before the job is created
    armed,     \* jobs whose Job.cancel is set
    ctx,       \* jobs whose context has been canceled
    known,     \* keys of q.jobs
    pending,   \* q.pending
    running,   \* keys of q.running
    byOutput,  \* q.byOutput
    finished,  \* q.finished
    wake,      \* a token is in q.wake
    disp,      \* dispatchLoop: "waiting" on q.wake or "looping"
    run,       \* where each job's run goroutine is
    pc,        \* where each caller is
    todo,      \* what the caller's loop has left: sources of Enqueue, jobs of CancelBatch
    cur,       \* the job a caller cancels, or the first job Enqueue created
    probed,    \* sources to be copied whose probe result is cached
    dst,       \* outputs that exist
    part,      \* outputs whose .part exists
    fd,        \* where the file a job's ffmpeg writes is linked
    down,      \* progress of Shutdown
    toStop,    \* jobs Shutdown has still to interrupt
    struck     \* history: jobs that a Cancel took for queued

jobVars  == <<rel, batch, state, armed, ctx>>
queue    == <<made, known, pending, running, byOutput, finished>>
files    == <<dst, part, fd>>
callers  == <<pc, todo, cur>>
vars     == <<jobVars, queue, files, callers, wake, disp, run, probed, down, toStop, struck>>

-----------------------------------------------------------------------------
(* Helpers *)

\* Mutant: everything that is not waiting counts as settled.
TerminalUnlessQueued(s) == s # "queued"

Terminal(s) == s \in {"done", "failed", "canceled"}

\* The path j converts to, for a job that exists.
Out(j) == OutputOf[rel[j]]

\* No Enqueue is between its two halves, so q.mu can be taken.
MuFree == \A c \in Callers : pc[c] \notin {"stat", "claim"}

stopping == down # "up"

\* Two sources of one request that would be written to the same file.
Clashes(list) ==
    \E i, k \in DOMAIN list : i # k /\ OutputOf[list[i]] = OutputOf[list[k]]

\* Mutants: only jobs that convert, or only jobs that wait, keep others off their output.
BusyIfRunning(o) == byOutput[o] \in running
BusyIfQueued(o)  == byOutput[o] \in known /\ state[byOutput[o]] = "queued"

\* The output belongs to a job that is still on its way.
Busy(o) ==
    /\ byOutput[o] \in known
    /\ ~Terminal(state[byOutput[o]])

\* Mutant: the test for a copy is the wrong way round.
copyUnlessProbed(j) == rel[j] \notin probed

copyOnly(j) == rel[j] \in probed

Copies == {i \in DOMAIN pending : pending[i] \in known /\ copyOnly(pending[i])}

\* The first copy-only job, or else the head of the queue.
pickLocked == IF Copies = {} THEN 1 ELSE CHOOSE i \in Copies : \A k \in Copies : i <= k

\* Mutant: whatever is canceled, the head of the queue goes.
removePendingHead(j) == IF pending = <<>> THEN pending ELSE Tail(pending)

removePendingLocked(j) ==
    IF \E i \in DOMAIN pending : pending[i] = j
    THEN RemoveAt(pending, CHOOSE i \in DOMAIN pending : pending[i] = j)
    ELSE pending

\* Bounded history: the oldest job beyond the limit is forgotten altogether.
finishedLocked(j) ==
    LET all == Append(finished, j)
        over == Len(all) > HistoryLimit
    IN  /\ finished' = IF over THEN Tail(all) ELSE all
        /\ known' = IF over THEN known \ {Head(all)} ELSE known

finish(j, s) ==
    /\ state' = [state EXCEPT ![j] = s]
    /\ armed' = armed \ {j}

\* Mutants: the claim is dropped whoever holds it, or emptied and not removed.
releaseAny(j)   == byOutput' = [byOutput EXCEPT ![Out(j)] = None]
releaseEmpty(j) == byOutput' = [byOutput EXCEPT ![Out(j)] = IF @ = j THEN 0 ELSE @]

\* A job gives up its own claim on its output, never another's.
release(j) ==
    byOutput' = [byOutput EXCEPT ![Out(j)] = IF @ = j THEN None ELSE @]

\* os.Remove(j.part): an ffmpeg still writing it keeps an unlinked file.
removePart(o) ==
    /\ part' = part \ {o}
    /\ fd' = [k \in Jobs |-> IF fd[k] = "part" /\ Out(k) = o THEN "gone" ELSE fd[k]]

\* Mutant: one conversion too many.
SlotFreeLoose == Cardinality(running) <= Workers

SlotFree == Cardinality(running) < Workers

-----------------------------------------------------------------------------
(* Enqueue *)

\* The request is refused when two of its files clash; otherwise q.mu is taken.
Enqueue(c, list) ==
    /\ pc[c] = "idle" /\ MuFree
    /\ made + Len(list) <= MaxJobs
    /\ ~Clashes(list)
    /\ pc' = [pc EXCEPT ![c] = "stat"]
    /\ todo' = [todo EXCEPT ![c] = list]
    /\ UNCHANGED <<jobVars, queue, files, cur, wake, disp, run, probed, down, toStop, struck>>

\* os.Stat of the next output: a file already converted is skipped.
EnqueueStat(c) ==
    /\ pc[c] = "stat" /\ todo[c] # <<>>
    /\ IF OutputOf[Head(todo[c])] \in dst
       THEN todo' = [todo EXCEPT ![c] = Tail(@)] /\ pc' = pc
       ELSE pc' = [pc EXCEPT ![c] = "claim"] /\ todo' = todo
    /\ UNCHANGED <<jobVars, queue, files, cur, wake, disp, run, probed, down, toStop, struck>>

\* A file on its way is skipped too; any other gets a job, which claims the output.
EnqueueClaim(c) ==
    LET r == Head(todo[c])
        j == made + 1
        first == IF cur[c] = None THEN j ELSE cur[c]
    IN  /\ pc[c] = "claim"
        /\ pc' = [pc EXCEPT ![c] = "stat"]
        /\ todo' = [todo EXCEPT ![c] = Tail(@)]
        /\ \/ Busy(OutputOf[r]) /\ UNCHANGED <<cur, queue, jobVars>>
           \/ /\ ~Busy(OutputOf[r])
              /\ made' = j
              /\ known' = known \cup {j}
              /\ rel' = [rel EXCEPT ![j] = r]
              /\ batch' = [batch EXCEPT ![j] = first]
              /\ state' = [state EXCEPT ![j] = "queued"]
              /\ byOutput' = [byOutput EXCEPT ![OutputOf[r]] = j]
              /\ pending' = Append(pending, j)
              /\ cur' = [cur EXCEPT ![c] = first]
              /\ UNCHANGED <<armed, ctx, running, finished>>
        /\ UNCHANGED <<files, wake, disp, run, probed, down, toStop, struck>>

\* q.mu is let go, and the dispatcher nudged unless there was nothing to do.
EnqueueReturn(c) ==
    /\ pc[c] = "stat" /\ todo[c] = <<>>
    /\ pc' = [pc EXCEPT ![c] = "idle"]
    /\ cur' = [cur EXCEPT ![c] = None]
    /\ wake' = (wake \/ cur[c] # None)
    /\ UNCHANGED <<jobVars, queue, files, todo, disp, run, probed, down, toStop, struck>>

-----------------------------------------------------------------------------
(* Cancel and CancelBatch *)

After(rest) == IF rest = <<>> THEN "idle" ELSE "next"

\* The critical section of Cancel.  A queued job is settled by the caller, once
\* it has let q.mu go; any other has its context canceled.
CancelTake(c, j, rest) ==
    /\ MuFree /\ j \in known
    /\ todo' = [todo EXCEPT ![c] = rest]
    /\ \/ /\ state[j] = "queued"
          /\ pending' = removePendingLocked(j)
          /\ finishedLocked(j)
          /\ struck' = struck \cup {j}
          /\ cur' = [cur EXCEPT ![c] = j]
          /\ pc' = [pc EXCEPT ![c] = "finish"]
          /\ ctx' = ctx
       \/ /\ state[j] # "queued" /\ j \in armed
          /\ ctx' = ctx \cup {j}
          /\ pc' = [pc EXCEPT ![c] = After(rest)]
          /\ UNCHANGED <<pending, finished, known, struck, cur>>
    /\ UNCHANGED <<rel, batch, state, armed, made, running, byOutput, files, wake, disp, run,
                   probed, down, toStop>>

Cancel(c, j) == pc[c] = "idle" /\ CancelTake(c, j, <<>>)

\* The jobs of a batch were created under one hold of q.mu: their ids are consecutive.
BatchJobs(b) == [i \in 1 .. Cardinality({j \in Jobs : batch[j] = b}) |-> b + i - 1]

CancelBatch(c, b) ==
    /\ pc[c] = "idle" /\ MuFree
    /\ b \in Jobs /\ batch[b] = b
    /\ pc' = [pc EXCEPT ![c] = "next"]
    /\ todo' = [todo EXCEPT ![c] = BatchJobs(b)]
    /\ UNCHANGED <<jobVars, queue, files, cur, wake, disp, run, probed, down, toStop, struck>>

\* The loop of CancelBatch over a job that can still be stopped.
CancelNext(c) ==
    pc[c] = "next" /\ todo[c] # <<>> /\ CancelTake(c, Head(todo[c]), Tail(todo[c]))

\* ... and over one that is over, forgotten, or cannot be interrupted.
CancelSkip(c) ==
    /\ pc[c] = "next" /\ todo[c] # <<>> /\ MuFree
    /\ LET j == Head(todo[c]) IN j \notin known \/ (state[j] # "queued" /\ j \notin armed)
    /\ todo' = [todo EXCEPT ![c] = Tail(@)]
    /\ pc' = [pc EXCEPT ![c] = After(Tail(todo[c]))]
    /\ UNCHANGED <<jobVars, queue, files, cur, wake, disp, run, probed, down, toStop, struck>>

CancelFinish(c) ==
    /\ pc[c] = "finish"
    /\ finish(cur[c], "canceled")
    /\ pc' = [pc EXCEPT ![c] = "settle"]
    /\ UNCHANGED <<rel, batch, ctx, queue, files, todo, cur, wake, disp, run, probed, down,
                   toStop, struck>>

\* The .part is removed by its path, whoever writes there by now.
CancelSettle(c) ==
    /\ pc[c] = "settle" /\ MuFree
    /\ removePart(Out(cur[c]))
    /\ release(cur[c])
    /\ wake' = TRUE
    /\ cur' = [cur EXCEPT ![c] = None]
    /\ pc' = [pc EXCEPT ![c] = After(todo[c])]
    /\ UNCHANGED <<jobVars, made, known, pending, running, finished, dst, todo, disp, run,
                   probed, down, toStop, struck>>

-----------------------------------------------------------------------------
(* dispatchLoop *)

DispatchWake ==
    /\ disp = "waiting" /\ wake
    /\ disp' = "looping" /\ wake' = FALSE
    /\ UNCHANGED <<jobVars, queue, files, callers, run, probed, down, toStop, struck>>

\* Mutants: the slots, or the shutdown, are not looked at again before each start.
CanStartAnyway == ~stopping /\ pending # <<>>
CanStartClosed == SlotFree /\ pending # <<>>

CanStart == ~stopping /\ SlotFree /\ pending # <<>>

\* A job forgotten by the history is dropped; any other takes a slot.  Its
\* state stays "queued" until its own goroutine gets to run.
DispatchStart ==
    LET j == pending[pickLocked]
    IN  /\ disp = "looping" /\ MuFree /\ CanStart
        /\ pending' = RemoveAt(pending, pickLocked)
        /\ running' = running \cup ({j} \cap known)
        /\ run' = [run EXCEPT ![j] = IF j \in known THEN "spawned" ELSE @]
        /\ UNCHANGED <<jobVars, made, known, byOutput, finished, files, callers, wake, disp,
                       probed, down, toStop, struck>>

DispatchPark ==
    /\ disp = "looping" /\ MuFree /\ ~CanStart
    /\ disp' = "waiting"
    /\ UNCHANGED <<jobVars, queue, files, callers, wake, run, probed, down, toStop, struck>>

-----------------------------------------------------------------------------
(* run *)

At(j, from, to) == run[j] = from /\ run' = [run EXCEPT ![j] = to]

RunStart(j) ==
    /\ At(j, "spawned", "plan")
    /\ state' = [state EXCEPT ![j] = "running"]
    /\ armed' = armed \cup {j}
    /\ UNCHANGED <<rel, batch, ctx, queue, files, callers, wake, disp, probed, down, toStop, struck>>

\* plan or MkdirAll failed, or plan noticed the canceled context.
RunPlanFail(j) ==
    /\ At(j, "plan", "release")
    /\ finish(j, "failed")
    /\ UNCHANGED <<rel, batch, ctx, queue, files, callers, wake, disp, probed, down, toStop, struck>>

\* ffmpeg -y opens the .part, truncating one that is there.
RunEncode(j) ==
    /\ At(j, "plan", "encode")
    /\ probed' = probed \cup ({rel[j]} \cap RemuxRels)
    /\ part' = part \cup {Out(j)}
    /\ fd' = [fd EXCEPT ![j] = "part"]
    /\ UNCHANGED <<jobVars, queue, dst, callers, wake, disp, down, toStop, struck>>

\* ffmpeg ends well.  An exit after the interrupt counts as an error whatever its status.
RunnerOk(j) ==
    /\ At(j, "encode", "rename") /\ j \notin ctx
    /\ fd' = [fd EXCEPT ![j] = "none"]
    /\ UNCHANGED <<jobVars, queue, dst, part, callers, wake, disp, probed, down, toStop, struck>>

\* ffmpeg fails, with or without having opened its output.  The partial output
\* goes, and the verdict depends on the context.
RunnerFail(j) ==
    /\ At(j, "plan", "release") \/ At(j, "encode", "release")
    /\ probed' = probed \cup ({rel[j]} \cap RemuxRels)
    /\ part' = part \ {Out(j)}
    /\ fd' = [k \in Jobs |-> IF k = j THEN "none"
                             ELSE IF fd[k] = "part" /\ Out(k) = Out(j) THEN "gone" ELSE fd[k]]
    /\ finish(j, IF j \in ctx THEN "canceled" ELSE "failed")
    /\ UNCHANGED <<rel, batch, ctx, queue, dst, callers, wake, disp, down, toStop, struck>>

\* The .part becomes the output; whoever still writes it now writes the output.
RunRename(j) ==
    /\ At(j, "rename", "done")
    /\ Out(j) \in part
    /\ part' = part \ {Out(j)}
    /\ dst' = dst \cup {Out(j)}
    /\ fd' = [k \in Jobs |-> IF fd[k] \notin {"part", "dst"} \/ Out(k) # Out(j) THEN fd[k]
                             ELSE IF fd[k] = "part" THEN "dst" ELSE "gone"]
    /\ UNCHANGED <<jobVars, queue, callers, wake, disp, probed, down, toStop, struck>>

\* Mutant: the return after a failed rename is missing.
RunRenameFailOn(j) ==
    /\ At(j, "rename", "done")
    /\ removePart(Out(j))
    /\ finish(j, "failed")
    /\ UNCHANGED <<rel, batch, ctx, queue, dst, callers, wake, disp, probed, down, toStop, struck>>

RunRenameFail(j) ==
    /\ At(j, "rename", "release")
    /\ removePart(Out(j))
    /\ finish(j, "failed")
    /\ UNCHANGED <<rel, batch, ctx, queue, dst, callers, wake, disp, probed, down, toStop, struck>>

RunDone(j) ==
    /\ At(j, "done", "exit")
    /\ finish(j, "done")
    /\ UNCHANGED <<rel, batch, ctx, queue, files, callers, wake, disp, probed, down, toStop, struck>>

\* Mutants: the deferred nudge, or the return of the slot, is missing.
RunExitSilent(j) ==
    /\ MuFree
    /\ \/ At(j, "release", "over") /\ release(j)
       \/ At(j, "exit", "over") /\ byOutput' = byOutput
    /\ ctx' = ctx \cup {j}
    /\ running' = running \ {j}
    /\ finishedLocked(j)
    /\ UNCHANGED <<rel, batch, state, armed, made, pending, files, callers, wake, disp, probed,
                   down, toStop, struck>>

RunExitLeaking(j) ==
    /\ MuFree
    /\ \/ At(j, "release", "over") /\ release(j)
       \/ At(j, "exit", "over") /\ byOutput' = byOutput
    /\ ctx' = ctx \cup {j}
    /\ finishedLocked(j)
    /\ wake' = TRUE
    /\ UNCHANGED <<rel, batch, state, armed, made, pending, running, files, callers, disp, probed,
                   down, toStop, struck>>

\* A job without a result gives up its claim.  Then the deferred calls: the context
\* is canceled, the slot freed, the job recorded and the dispatcher nudged.
RunExit(j) ==
    /\ MuFree
    /\ \/ At(j, "release", "over") /\ release(j)
       \/ At(j, "exit", "over") /\ byOutput' = byOutput
    /\ ctx' = ctx \cup {j}
    /\ running' = running \ {j}
    /\ finishedLocked(j)
    /\ wake' = TRUE
    /\ UNCHANGED <<rel, batch, state, armed, made, pending, files, callers, disp, probed, down,
                   toStop, struck>>

-----------------------------------------------------------------------------
(* Shutdown, and the page that probes a source it shows *)

ShutdownClose ==
    /\ MayStop /\ down = "up" /\ MuFree
    /\ down' = "closing"
    /\ UNCHANGED <<jobVars, queue, files, callers, wake, disp, run, probed, toStop, struck>>

ShutdownList ==
    /\ down = "closing" /\ MuFree
    /\ down' = "draining" /\ toStop' = running
    /\ UNCHANGED <<jobVars, queue, files, callers, wake, disp, run, probed, struck>>

ShutdownInterrupt(j) ==
    /\ j \in toStop
    /\ toStop' = toStop \ {j}
    /\ ctx' = ctx \cup ({j} \cap armed)
    /\ UNCHANGED <<rel, batch, state, armed, queue, files, callers, wake, disp, run, probed, down,
                   struck>>

PageProbe(r) ==
    /\ r \in RemuxRels \ probed
    /\ probed' = probed \cup {r}
    /\ UNCHANGED <<jobVars, queue, files, callers, wake, disp, run, down, toStop, struck>>

-----------------------------------------------------------------------------

Init ==
    /\ made = 0 /\ known = {} /\ running = {}
    /\ pending = <<>> /\ finished = <<>>
    /\ rel = [j \in Jobs |-> None] /\ batch = [j \in Jobs |-> None]
    /\ state = [j \in Jobs |-> "absent"]
    /\ armed = {} /\ ctx = {} /\ struck = {} /\ toStop = {}
    /\ byOutput = [o \in Outputs |-> None]
    /\ wake = FALSE /\ disp = "waiting" /\ down = "up"
    /\ run = [j \in Jobs |-> "none"] /\ fd = [j \in Jobs |-> "none"]
    /\ pc = [c \in Callers |-> "idle"] /\ todo = [c \in Callers |-> <<>>]
    /\ cur = [c \in Callers |-> None]
    /\ probed = {} /\ part = {}
    /\ dst = Converted

EnqueueStep(c) == EnqueueStat(c) \/ EnqueueClaim(c) \/ EnqueueReturn(c)

CancelStep(c) ==
    \/ CancelNext(c) \/ CancelSkip(c) \/ CancelFinish(c)
    \/ CancelSettle(c)

RunStep(j) ==
    \/ RunStart(j) \/ RunPlanFail(j) \/ RunEncode(j) \/ RunnerOk(j) \/ RunnerFail(j)
    \/ RunRename(j) \/ RunRenameFail(j) \/ RunDone(j) \/ RunExit(j)

Dispatch == DispatchWake \/ DispatchStart \/ DispatchPark

Next ==
    \/ \E c \in Callers :
        \/ \E list \in Requests : Enqueue(c, list)
        \/ \E j \in Jobs : Cancel(c, j) \/ CancelBatch(c, j)
        \/ EnqueueStep(c) \/ CancelStep(c)
    \/ Dispatch
    \/ \E j \in Jobs : RunStep(j) \/ ShutdownInterrupt(j)
    \/ ShutdownClose \/ ShutdownList
    \/ \E r \in Rels : PageProbe(r)

Spec == Init /\ [][Next]_vars

(***************************************************************************)
(* Every goroutine that can move does.  It is strong fairness because      *)
(* sync.Mutex hands the lock to a goroutine that has waited too long, so   *)
(* none waits for q.mu for ever.  That a run moves on includes that ffmpeg *)
(* ends by itself.  Clients need not call, and nobody need shut down.      *)
(***************************************************************************)
Fairness ==
    /\ SF_vars(Dispatch)
    /\ \A j \in Jobs : SF_vars(RunStep(j))
    /\ \A c \in Callers : SF_vars(EnqueueStep(c)) /\ SF_vars(CancelStep(c))

FairSpec == Spec /\ Fairness

-----------------------------------------------------------------------------
(* What is claimed of the queue *)

States   == {"absent", "queued", "running", "done", "failed", "canceled"}
RunSteps == {"none", "spawned", "plan", "encode", "rename", "done", "release", "exit", "over"}
Steps    == {"idle", "stat", "claim", "next", "finish", "settle"}

TypeOK ==
    /\ made \in 0 .. MaxJobs
    /\ rel \in [Jobs -> Rels \cup {None}]
    /\ batch \in [Jobs -> Jobs \cup {None}]
    /\ state \in [Jobs -> States]
    /\ armed \subseteq Jobs /\ ctx \subseteq Jobs /\ known \subseteq Jobs
    /\ running \subseteq Jobs /\ toStop \subseteq Jobs /\ struck \subseteq Jobs
    /\ pending \in Seq(Jobs) /\ finished \in Seq(Jobs)
    /\ byOutput \in [Outputs -> Jobs \cup {None}]
    /\ wake \in BOOLEAN /\ disp \in {"waiting", "looping"}
    /\ run \in [Jobs -> RunSteps]
    /\ pc \in [Callers -> Steps]
    /\ todo \in [Callers -> Seq(Rels) \cup Seq(Nat)]
    /\ cur \in [Callers -> Jobs \cup {None}]
    /\ probed \subseteq RemuxRels
    /\ dst \subseteq Outputs /\ part \subseteq Outputs
    /\ fd \in [Jobs -> {"none", "part", "dst", "gone"}]
    /\ down \in {"up", "closing", "draining"}

Created == 1 .. made

\* Jobs a Cancel took for queued although they had been dispatched: the window
\* between running[id] = j and j.start.
Late == {j \in struck : run[j] # "none"}

Twins(j, k) == j # k /\ rel[j] # None /\ rel[k] # None /\ Out(j) = Out(k)

\* Jobs whose run goroutine may touch the .part and the output.
Converting == {j \in Jobs : run[j] \in {"plan", "encode", "rename", "done"}}

(* No more than Workers conversions run at once, and every slot in use belongs
   to exactly one run goroutine that has not ended (dispatchLoop, run). *)
SlotsBounded ==
    /\ Cardinality(running) <= Workers
    /\ running = {j \in Jobs : run[j] \notin {"none", "over"}}

(* No job is lost: one that is neither waiting nor running was struck by a
   Cancel or has ended, and one that waits is queued, remembered, and waits
   once (Enqueue, Cancel, dispatchLoop, finishedLocked). *)
NoJobLost ==
    /\ \A j \in Created : \/ j \in ToSet(pending) \cup running \cup struck
                          \/ run[j] = "over"
    /\ \A j \in ToSet(pending) : state[j] = "queued" /\ j \in known \ struck /\ run[j] = "none"
    /\ \A i, k \in DOMAIN pending : i # k => pending[i] # pending[k]

(* A job on its way holds the claim on its output until it is over, whatever
   other jobs come and go on that output (Enqueue, release). *)
ClaimHeld ==
    \A j \in Created \ struck : ~Terminal(state[j]) => byOutput[Out(j)] = j

(* Two jobs never convert to the same file at once, unless one of them was
   struck in the dispatch window (Enqueue, Cancel, run). *)
OneConverter ==
    \A j, k \in Converting : Twins(j, k) => j \in Late \/ k \in Late

(* The .part of a conversion stays where it is until the conversion renames
   or removes it, unless a Cancel struck another job for the same file. *)
PartIntact ==
    \A j \in Jobs : run[j] \in {"encode", "rename"} /\ Out(j) \notin part
        => \E k \in struck : k = j \/ Twins(j, k)

(* A finished file is not being written to, unless a job for that file was
   struck in the dispatch window. *)
OutputSettled ==
    \A j \in Jobs : fd[j] = "dst" => \E k \in Late : k = j \/ Twins(j, k)

(* Jobs that must be encoded start in order of arrival, across batches: only
   copies overtake (pickLocked). *)
EncodesInOrder ==
    \A k \in Created : run[k] # "none" /\ rel[k] \notin RemuxRels
        => \A i \in ToSet(pending) : i > k

(* The verdict on a job is final, unless a Cancel took it for queued. *)
VerdictFinal ==
    [][\A j \in Jobs \ struck : Terminal(state[j]) => state'[j] = state[j]]_vars

\* A job's place in the pool.
Phase == [j \in Jobs |-> IF j \in ToSet(pending) THEN "waiting"
                         ELSE IF j \in running THEN "active"
                         ELSE IF j <= made THEN "over" ELSE "absent"]

(* The promise of the pool: every job waits, converts in one of the slots, and
   is over, in this order and once (Enqueue, Cancel, dispatchLoop, run). *)
Pool == INSTANCE WorkPool WITH open <- ~stopping, phase <- Phase
PoolSafe == Pool!Safe
PoolLive == Pool!Live

(* Every job is settled in the end, unless the queue is shut down: no wakeup of
   the dispatcher is lost and no slot leaks (nudge, dispatchLoop, run). *)
EveryJobSettles ==
    \A j \in Jobs : j <= made ~> stopping \/ (Terminal(state[j]) /\ run[j] \in {"none", "over"})

(* Shutdown's wait ends: every conversion in progress comes to an end and the
   closed queue starts no other (Shutdown, run). *)
ShutdownDrains == (down = "draining") ~> [](running = {})

-----------------------------------------------------------------------------
(* What the comments say, and the code does not do *)

(* Mapper.Partial: the rename makes "the output exists" mean "the output is
   complete", with "no window where a half-written file looks finished"
   (outpath.go:176-178). *)
OutputComplete == \A j \in Jobs : fd[j] # "dst"

(* Enqueue: "Files whose output already exists are skipped rather than redone"
   (jobs.go:282). *)
ConvertedSkipped ==
    [][\A j \in Jobs : state[j] = "absent" /\ state'[j] = "queued" => Out(j)' \notin dst]_vars

=============================================================================
