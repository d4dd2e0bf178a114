--------------------------- MODULE JobQueueProofs ---------------------------
(***************************************************************************)
(* Proofs about JobQueue, for every library, every number of callers,      *)
(* workers and jobs, and every length of the history.                      *)
(***************************************************************************)
EXTENDS JobQueue, SeqFacts

-----------------------------------------------------------------------------
(* Types *)

(* BatchJobs numbers the jobs of a batch: a finite sequence of numbers. *)
LEMMA BatchJobsType ==
    ASSUME NEW b \in Jobs
    PROVE  BatchJobs(b) \in Seq(Nat)
<1>1. IsFiniteSet({j \in Jobs : batch[j] = b})
  BY ConstantsOK, FS_Interval, FS_Subset DEF Jobs
<1>2. Cardinality({j \in Jobs : batch[j] = b}) \in Nat
  BY <1>1, FS_CardinalityType
<1>. QED  BY <1>2, ConstantsOK DEF BatchJobs, Jobs

(* The bounded history stays a sequence of jobs. *)
LEMMA FinishedType ==
    ASSUME TypeOK, NEW j \in Jobs, finishedLocked(j)
    PROVE  finished' \in Seq(Jobs) /\ known' \subseteq Jobs
<1> DEFINE all == Append(finished, j)
<1>1. all \in Seq(Jobs) /\ all # <<>>
  BY AppendProperties DEF TypeOK
<1>2. Tail(all) \in Seq(Jobs)
  BY <1>1, TailElements
<1>. QED  BY <1>1, <1>2 DEF finishedLocked, TypeOK

(* The picked place is one of the queue, and holds a copy if any place does. *)
LEMMA PickProps ==
    ASSUME TypeOK, pending # <<>>
    PROVE  /\ pickLocked \in 1 .. Len(pending)
           /\ pending[pickLocked] \in Jobs
           /\ Copies # {} => pickLocked \in Copies
           /\ Copies = {} => pickLocked = 1
<1>1. Copies \subseteq 1 .. Len(pending) /\ Len(pending) \in Nat \ {0}
  BY DEF TypeOK, Copies
<1>2. CASE Copies = {}
  BY <1>1, <1>2 DEF pickLocked, TypeOK
<1>3. CASE Copies # {}
  <2>1. Copies \subseteq Nat
    BY <1>1
  <2>2. \E i \in Copies : \A k \in Copies : i <= k
    BY <2>1, <1>3, LeastNumber
  <2>3. pickLocked \in Copies
    BY <2>2, <1>3 DEF pickLocked
  <2>. QED  BY <2>3, <1>1, <1>3 DEF TypeOK
<1>. QED  BY <1>2, <1>3

LEMMA RemovePendingType ==
    ASSUME TypeOK, NEW j
    PROVE  removePendingLocked(j) \in Seq(Jobs)
BY RemoveAtShifts DEF removePendingLocked, TypeOK

\* The Enqueue that holds q.mu is alone, has only sources to go through, a next one when
\* it claims, and room in the model for a job for each.
TodoOK ==
    /\ \A c \in Callers : pc[c] \in {"stat", "claim"} =>
        todo[c] \in Seq(Rels) /\ made + Len(todo[c]) <= MaxJobs
    /\ \A c \in Callers : pc[c] = "claim" => todo[c] # <<>>
    /\ \A c, d \in Callers :
        pc[c] \in {"stat", "claim"} /\ pc[d] \in {"stat", "claim"} => c = d

Typed == TypeOK /\ TodoOK

LEMMA TailOfTodo ==
    ASSUME Typed, NEW c \in Callers, todo[c] # <<>>
    PROVE  /\ Tail(todo[c]) \in Seq(Rels) \cup Seq(Nat)
           /\ pc[c] \in {"stat", "claim"} =>
                /\ Tail(todo[c]) \in Seq(Rels) /\ Head(todo[c]) \in Rels
                /\ made + 1 \in Jobs
                /\ made + Len(Tail(todo[c])) < MaxJobs
<1>1. Tail(todo[c]) \in Seq(Rels) \cup Seq(Nat)
  BY DEF Typed, TypeOK
<1>2. ASSUME pc[c] \in {"stat", "claim"}
      PROVE  /\ Tail(todo[c]) \in Seq(Rels) /\ Head(todo[c]) \in Rels
             /\ made + 1 \in Jobs
             /\ made + Len(Tail(todo[c])) < MaxJobs
  <2>1. todo[c] \in Seq(Rels) /\ made + Len(todo[c]) <= MaxJobs /\ made \in 0 .. MaxJobs
    BY <1>2 DEF Typed, TypeOK, TodoOK
  <2>2. Len(todo[c]) \in Nat \ {0} /\ Len(Tail(todo[c])) = Len(todo[c]) - 1
    BY <2>1
  <2>. QED  BY <2>1, <2>2, ConstantsOK DEF Jobs
<1>. QED  BY <1>1, <1>2

(* Clients at work: Enqueue and its two halves. *)
LEMMA TypedEnqueue ==
    ASSUME Typed, NEW c \in Callers
    PROVE  /\ \A list \in Requests : Enqueue(c, list) => Typed'
           /\ EnqueueStep(c) => Typed'
<1>1. ASSUME NEW list \in Requests, Enqueue(c, list)
      PROVE  Typed'
  BY <1>1, ConstantsOK DEF Typed, TypeOK, TodoOK, Steps, MuFree, Enqueue, jobVars, queue, files
<1>2. ASSUME EnqueueStat(c)
      PROVE  Typed'
  <2>1. todo[c] # <<>> /\ pc[c] = "stat"
    BY <1>2 DEF EnqueueStat
  <2>2. /\ Tail(todo[c]) \in Seq(Rels)
        /\ made + Len(Tail(todo[c])) < MaxJobs /\ made' = made
    BY <2>1, <1>2, TailOfTodo DEF EnqueueStat, queue
  <2>3. TypeOK'
    BY <1>2, <2>2 DEF Typed, TypeOK, Steps, EnqueueStat, jobVars, queue, files
  <2>4. Len(Tail(todo[c])) \in Nat /\ made \in Nat /\ MaxJobs \in Nat
    BY <2>2, ConstantsOK DEF Typed, TypeOK
  <2>5. pc \in [Callers -> Steps] /\ todo \in [Callers -> Seq(Rels) \cup Seq(Nat)] /\ TodoOK
    BY DEF Typed, TypeOK
  <2>6. CASE todo' = [todo EXCEPT ![c] = Tail(@)] /\ pc' = pc
    BY <2>1, <2>2, <2>3, <2>4, <2>5, <2>6 DEF TodoOK, Typed
  <2>7. CASE pc' = [pc EXCEPT ![c] = "claim"] /\ todo' = todo
    BY <2>1, <2>2, <2>3, <2>5, <2>7 DEF TodoOK, Typed
  <2>. QED  BY <1>2, <2>6, <2>7 DEF EnqueueStat
<1>3. ASSUME EnqueueClaim(c)
      PROVE  Typed'
  <2> DEFINE r == Head(todo[c])
             j == made + 1
             first == IF cur[c] = None THEN j ELSE cur[c]
  <2>1. pc[c] = "claim" /\ todo[c] # <<>>
    BY <1>3 DEF EnqueueClaim, Typed, TodoOK
  <2>2. /\ r \in Rels /\ Tail(todo[c]) \in Seq(Rels) /\ j \in Jobs
        /\ made + Len(Tail(todo[c])) < MaxJobs
    BY <2>1, TailOfTodo
  <2>3. OutputOf[r] \in Outputs /\ first \in Jobs
    BY <2>1, <2>2, ConstantsOK DEF Typed, TypeOK
  <2>4. made' \in {made, j} /\ made \in Nat /\ Len(Tail(todo[c])) \in Nat /\ MaxJobs \in Nat
    BY <1>3, <2>2, ConstantsOK DEF EnqueueClaim, queue, Typed, TypeOK
  <2>5. pc' = [pc EXCEPT ![c] = "stat"] /\ todo' = [todo EXCEPT ![c] = Tail(@)]
    BY <1>3 DEF EnqueueClaim
  <2>6. TodoOK'
    BY <2>1, <2>2, <2>4, <2>5 DEF Typed, TypeOK, TodoOK
  <2>7. CASE UNCHANGED <<cur, queue, jobVars>>
    BY <1>3, <2>2, <2>6, <2>7 DEF EnqueueClaim, Typed, TypeOK, Steps, jobVars, queue, files
  <2>8. CASE ~ UNCHANGED <<cur, queue, jobVars>>
    <3>1. /\ made' = j
          /\ known' = known \cup {j}
          /\ rel' = [rel EXCEPT ![j] = r]
          /\ batch' = [batch EXCEPT ![j] = first]
          /\ state' = [state EXCEPT ![j] = "queued"]
          /\ byOutput' = [byOutput EXCEPT ![OutputOf[r]] = j]
          /\ pending' = Append(pending, j)
          /\ cur' = [cur EXCEPT ![c] = first]
          /\ UNCHANGED <<armed, ctx, running, finished>>
          /\ UNCHANGED <<files, wake, disp, run, probed, down, toStop, struck>>
      BY <1>3, <2>8 DEF EnqueueClaim
    <3>2. made' \in 0 .. MaxJobs /\ pending' \in Seq(Jobs)
      BY <3>1, <2>2, ConstantsOK, AppendProperties DEF Jobs, Typed, TypeOK
    <3>. HIDE DEF r, j, first
    <3>3. TypeOK'
      BY <3>1, <3>2, <2>2, <2>3, <2>5 DEF Typed, TypeOK, Steps, States, files
    <3>. QED  BY <3>3, <2>6 DEF Typed
  <2>. QED  BY <2>7, <2>8
<1>4. ASSUME EnqueueReturn(c)
      PROVE  Typed'
  <2>1. wake' \in BOOLEAN
    BY <1>4, Zenon DEF EnqueueReturn
  <2>. QED  BY <1>4, <2>1
       DEF Typed, TypeOK, TodoOK, Steps, EnqueueReturn, jobVars, queue, files
<1>. QED  BY <1>1, <1>2, <1>3, <1>4 DEF EnqueueStep

(* Clients at work: Cancel and CancelBatch. *)
LEMMA TypedTake ==
    ASSUME Typed, NEW c \in Callers, NEW j, NEW rest \in Seq(Rels) \cup Seq(Nat),
           pc[c] \notin {"stat", "claim"}, CancelTake(c, j, rest)
    PROVE  Typed'
<1>1. j \in Jobs
  BY DEF CancelTake, Typed, TypeOK
<1>2. After(rest) \in {"idle", "next"}
  BY DEF After
<1>3. removePendingLocked(j) \in Seq(Jobs) /\ (finishedLocked(j) =>
        finished' \in Seq(Jobs) /\ known' \subseteq Jobs)
  BY <1>1, RemovePendingType, FinishedType DEF Typed
<1>4. TypeOK'
  BY <1>1, <1>2, <1>3, ZenonT(40) DEF CancelTake, Typed, TypeOK, Steps, files
<1>5. TodoOK'
  BY <1>2 DEF CancelTake, Typed, TypeOK, TodoOK
<1>. QED  BY <1>4, <1>5 DEF Typed

LEMMA TypedCancel ==
    ASSUME Typed, NEW c \in Callers
    PROVE  /\ \A j \in Jobs : Cancel(c, j) \/ CancelBatch(c, j) => Typed'
           /\ CancelStep(c) => Typed'
<1>1. ASSUME NEW j \in Jobs, Cancel(c, j)
      PROVE  Typed'
  <2>1. <<>> \in Seq(Rels) \cup Seq(Nat)
    OBVIOUS
  <2>. QED  BY <1>1, <2>1, TypedTake DEF Cancel
<1>2. ASSUME NEW j \in Jobs, CancelBatch(c, j)
      PROVE  Typed'
  BY <1>2, BatchJobsType DEF CancelBatch, Typed, TypeOK, TodoOK, Steps, jobVars, queue, files
<1>3. ASSUME CancelNext(c)
      PROVE  Typed'
  <2>1. Tail(todo[c]) \in Seq(Rels) \cup Seq(Nat)
    BY <1>3, TailOfTodo DEF CancelNext
  <2>. QED  BY <1>3, <2>1, TypedTake DEF CancelNext
<1>4. ASSUME CancelSkip(c)
      PROVE  Typed'
  <2>1. Tail(todo[c]) \in Seq(Rels) \cup Seq(Nat)
    BY <1>4, TailOfTodo DEF CancelSkip
  <2>2. After(Tail(todo[c])) \in {"idle", "next"}
    BY DEF After
  <2>. QED  BY <1>4, <2>1, <2>2
       DEF CancelSkip, Typed, TypeOK, TodoOK, Steps, jobVars, queue, files
<1>5. ASSUME CancelFinish(c)
      PROVE  Typed'
  BY <1>5 DEF CancelFinish, finish, Typed, TypeOK, TodoOK, Steps, States, queue, files
<1>6. ASSUME CancelSettle(c)
      PROVE  Typed'
  <2>1. After(todo[c]) \in {"idle", "next"}
    BY DEF After
  <2>. QED  BY <1>6, <2>1
       DEF CancelSettle, removePart, release, Typed, TypeOK, TodoOK, Steps, jobVars
<1>. QED  BY <1>1, <1>2, <1>3, <1>4, <1>5, <1>6 DEF CancelStep

(* The dispatcher. *)
LEMMA TypedDispatch ==
    ASSUME Typed, Dispatch
    PROVE  Typed'
<1>1. CASE DispatchWake
  BY <1>1 DEF DispatchWake, Typed, TypeOK, TodoOK, jobVars, queue, files, callers
<1>2. CASE DispatchStart
  <2>1. pickLocked \in 1 .. Len(pending) /\ pending[pickLocked] \in Jobs
    BY <1>2, PickProps DEF DispatchStart, CanStart, Typed
  <2>2. RemoveAt(pending, pickLocked) \in Seq(Jobs)
    BY <2>1, RemoveAtShifts DEF Typed, TypeOK
  <2>. QED  BY <1>2, <2>1, <2>2
       DEF DispatchStart, Typed, TypeOK, TodoOK, RunSteps, jobVars, files, callers
<1>3. CASE DispatchPark
  BY <1>3 DEF DispatchPark, Typed, TypeOK, TodoOK, jobVars, queue, files, callers
<1>. QED  BY <1>1, <1>2, <1>3 DEF Dispatch

-----------------------------------------------------------------------------
(* How the queue, the states and the goroutines of the jobs agree *)

\* Only jobs that were created are known to anyone.
ExistOK ==
    \A j \in Jobs :
        IF j <= made THEN rel[j] \in Rels
        ELSE /\ rel[j] = None /\ state[j] = "absent" /\ run[j] = "none"
             /\ j \notin known \cup struck \cup ToSet(pending) \cup ToSet(finished)

RunningOK == running = {j \in Jobs : run[j] \notin {"none", "over"}}

\* The jobs that wait stand in order of creation.
PendingOK ==
    /\ Increasing(pending)
    /\ \A j \in ToSet(pending) : state[j] = "queued" /\ run[j] = "none" /\ j \in known \ struck

\* What a job's goroutine is at tells its state, as long as no Cancel struck it.
ProgressOK ==
    \A j \in Created \ struck :
        /\ run[j] = "none" => j \in ToSet(pending)
        /\ run[j] = "spawned" => state[j] = "queued"
        /\ run[j] \in {"plan", "encode", "rename", "done"} => state[j] = "running"
        /\ run[j] = "release" => state[j] \in {"failed", "canceled"}
        /\ run[j] = "exit" => state[j] = "done"
        /\ run[j] = "over" => Terminal(state[j])
        /\ run[j] # "over" => j \in known /\ j \notin ToSet(finished)

WritingOK == \A j \in Jobs : fd[j] # "none" => run[j] = "encode"

StrikingOK == \A c \in Callers : pc[c] \in {"finish", "settle"} => cur[c] \in struck

Consistent == ExistOK /\ RunningOK /\ PendingOK /\ ProgressOK /\ WritingOK /\ StrikingOK

(* A job's own goroutine. *)
LEMMA TypedRun ==
    ASSUME Typed, Consistent, NEW j \in Jobs, RunStep(j)
    PROVE  Typed'
<1>1. CASE RunStart(j)
  BY <1>1 DEF RunStart, At, Typed, TypeOK, TodoOK, RunSteps, States, queue, files, callers
<1>2. CASE RunPlanFail(j)
  BY <1>2 DEF RunPlanFail, At, finish, Typed, TypeOK, TodoOK, RunSteps, States, queue, files, callers
<1>3. CASE RunEncode(j)
  <2>1. j <= made
    BY <1>3 DEF RunEncode, At, Consistent, ExistOK
  <2>2. Out(j) \in Outputs
    BY <2>1, ConstantsOK DEF Out, Consistent, ExistOK
  <2>. QED  BY <1>3, <2>2
       DEF RunEncode, At, Typed, TypeOK, TodoOK, RunSteps, jobVars, queue, callers
<1>4. CASE RunnerOk(j)
  BY <1>4 DEF RunnerOk, At, Typed, TypeOK, TodoOK, RunSteps, jobVars, queue, callers
<1>5. CASE RunnerFail(j)
  BY <1>5 DEF RunnerFail, At, finish, Typed, TypeOK, TodoOK, RunSteps, States, queue, callers
<1>6. CASE RunRename(j)
  BY <1>6 DEF RunRename, At, Typed, TypeOK, TodoOK, RunSteps, jobVars, queue, callers
<1>7. CASE RunRenameFail(j)
  BY <1>7 DEF RunRenameFail, At, removePart, finish, Typed, TypeOK, TodoOK, RunSteps, States,
              queue, callers
<1>8. CASE RunDone(j)
  BY <1>8 DEF RunDone, At, finish, Typed, TypeOK, TodoOK, RunSteps, States, queue, files, callers
<1>9. CASE RunExit(j)
  <2>1. finished' \in Seq(Jobs) /\ known' \subseteq Jobs
    BY <1>9, FinishedType DEF RunExit, Typed
  <2>. QED  BY <1>9, <2>1
       DEF RunExit, At, release, Typed, TypeOK, TodoOK, RunSteps, files, callers
<1>. QED  BY <1>1, <1>2, <1>3, <1>4, <1>5, <1>6, <1>7, <1>8, <1>9 DEF RunStep

(* Every step keeps the types. *)
LEMMA TypedStep ==
    ASSUME Typed, Consistent, [Next]_vars
    PROVE  Typed'
<1>1. ASSUME NEW c \in Callers,
             \/ \E list \in Requests : Enqueue(c, list)
             \/ \E j \in Jobs : Cancel(c, j) \/ CancelBatch(c, j)
             \/ EnqueueStep(c) \/ CancelStep(c)
      PROVE  Typed'
  BY <1>1, TypedEnqueue, TypedCancel
<1>2. CASE Dispatch
  BY <1>2, TypedDispatch
<1>3. ASSUME NEW j \in Jobs, RunStep(j) \/ ShutdownInterrupt(j)
      PROVE  Typed'
  <2>1. CASE ShutdownInterrupt(j)
    BY <2>1 DEF ShutdownInterrupt, Typed, TypeOK, TodoOK, queue, files, callers
  <2>. QED  BY <1>3, <2>1, TypedRun
<1>4. CASE ShutdownClose
  BY <1>4 DEF ShutdownClose, Typed, TypeOK, TodoOK, jobVars, queue, files, callers
<1>5. CASE ShutdownList
  BY <1>5 DEF ShutdownList, Typed, TypeOK, TodoOK, jobVars, queue, files, callers
<1>6. ASSUME NEW r \in Rels, PageProbe(r)
      PROVE  Typed'
  BY <1>6 DEF PageProbe, Typed, TypeOK, TodoOK, jobVars, queue, files, callers
<1>7. CASE UNCHANGED vars
  BY <1>7 DEF vars, Typed, TypeOK, TodoOK, jobVars, queue, files, callers
<1>. QED  BY <1>1, <1>2, <1>3, <1>4, <1>5, <1>6, <1>7 DEF Next

(* The history grows by the job recorded, and forgets only what it held. *)
LEMMA FinishedElements ==
    ASSUME TypeOK, NEW j \in Jobs, finishedLocked(j)
    PROVE  /\ ToSet(finished') \subseteq ToSet(finished) \cup {j}
           /\ known' \subseteq known
           /\ known \subseteq known' \cup ToSet(finished) \cup {j}
<1> DEFINE all == Append(finished, j)
<1>1. all \in Seq(Jobs) /\ all # <<>> /\ ToSet(all) = ToSet(finished) \cup {j}
  BY AppendElements, AppendProperties DEF TypeOK
<1>2. ToSet(Tail(all)) \subseteq ToSet(all) /\ Head(all) \in ToSet(all)
  BY <1>1, TailElements
<1>. HIDE DEF all
<1>3. /\ finished' \in {all, Tail(all)}
      /\ known' \in {known, known \ {Head(all)}}
  BY DEF finishedLocked, all
<1>. QED  BY <1>1, <1>2, <1>3

(* Steps that touch neither the queue nor the jobs. *)
LEMMA QuietStep ==
    ASSUME Consistent,
           UNCHANGED <<made, rel, state, known, pending, running, finished, fd, run, struck>>,
           \A c \in Callers : pc'[c] \in {"finish", "settle"} => pc'[c] = pc[c] /\ cur'[c] = cur[c]
    PROVE  Consistent'
BY DEF Consistent, ExistOK, RunningOK, PendingOK, ProgressOK, WritingOK, StrikingOK, Created

(* A new job is created, waiting, behind all others. *)
LEMMA ConsistentClaim ==
    ASSUME Typed, Consistent, NEW c \in Callers, EnqueueClaim(c)
    PROVE  Consistent'
<1> DEFINE r == Head(todo[c])
           j == made + 1
           first == IF cur[c] = None THEN j ELSE cur[c]
<1>1. pc[c] = "claim" /\ todo[c] # <<>> /\ r \in Rels /\ j \in Jobs /\ made \in Nat
  BY TailOfTodo DEF EnqueueClaim, Typed, TodoOK, TypeOK
<1>2. pc' = [pc EXCEPT ![c] = "stat"] /\ pc \in [Callers -> Steps] /\ cur \in [Callers -> Jobs \cup {None}]
  BY DEF EnqueueClaim, Typed, TypeOK
<1>3. CASE UNCHANGED <<cur, queue, jobVars>>
  <2>1. UNCHANGED <<made, rel, state, known, pending, running, finished, fd, run, struck>>
    BY <1>3 DEF EnqueueClaim, queue, jobVars, files
  <2>. QED  BY <1>2, <1>3, <2>1, QuietStep
<1>4. CASE ~ UNCHANGED <<cur, queue, jobVars>>
  <2>1. /\ made' = j
        /\ known' = known \cup {j}
        /\ rel' = [rel EXCEPT ![j] = r]
        /\ state' = [state EXCEPT ![j] = "queued"]
        /\ pending' = Append(pending, j)
        /\ cur' = [cur EXCEPT ![c] = first]
        /\ UNCHANGED <<running, finished, fd, run, struck>>
    BY <1>4 DEF EnqueueClaim, files
  <2>. HIDE DEF r, first
  <2>2. pending \in Seq(Jobs) /\ ToSet(pending') = ToSet(pending) \cup {j}
    BY <1>1, <2>1, AppendElements DEF Typed, TypeOK
  <2>3. /\ rel[j] = None /\ state[j] = "absent" /\ run[j] = "none"
        /\ j \notin known \cup struck \cup ToSet(pending) \cup ToSet(finished)
    BY <1>1 DEF Consistent, ExistOK
  <2>4. rel \in [Jobs -> Rels \cup {None}] /\ state \in [Jobs -> States] /\ Jobs \subseteq Nat
    BY ConstantsOK DEF Typed, TypeOK, Jobs
  <2>5. ExistOK'
    BY <1>1, <2>1, <2>2, <2>4 DEF Consistent, ExistOK
  <2>6. PendingOK'
    <3>1. pending \in Seq(Nat) /\ Increasing(pending)
      BY <2>2, ConstantsOK DEF Consistent, PendingOK, Jobs
    <3>2. ASSUME NEW x \in ToSet(pending)
          PROVE  x < j
      <4>1. x \in Jobs /\ x \in Nat
        BY <2>2, <2>4 DEF ToSet
      <4>2. x <= made
        BY <4>1 DEF Consistent, ExistOK
      <4>. QED  BY <4>1, <4>2, <1>1
    <3>3. Increasing(pending')
      BY <3>1, <3>2, <1>1, <2>1, AppendIncreasing
    <3>. QED  BY <1>1, <2>1, <2>2, <2>3, <2>4, <3>3 DEF Consistent, PendingOK
  <2>7. ProgressOK'
    BY <1>1, <2>1, <2>2, <2>3, <2>4 DEF Consistent, ProgressOK, Created
  <2>8. RunningOK' /\ WritingOK' /\ StrikingOK'
    BY <1>1, <1>2, <2>1 DEF Consistent, RunningOK, WritingOK, StrikingOK
  <2>. QED  BY <2>5, <2>6, <2>7, <2>8 DEF Consistent
<1>. QED  BY <1>3, <1>4

(* Cancel strikes a queued job, which leaves the queue if it is still there. *)
LEMMA RemovePendingElements ==
    ASSUME Typed, Consistent, NEW j
    PROVE  /\ ToSet(removePendingLocked(j)) = ToSet(pending) \ {j}
           /\ Increasing(removePendingLocked(j))
<1>1. pending \in Seq(Nat) /\ Increasing(pending)
  BY ConstantsOK DEF Typed, TypeOK, Jobs, Consistent, PendingOK
<1>2. CASE \E i \in DOMAIN pending : pending[i] = j
  <2> DEFINE at == CHOOSE i \in DOMAIN pending : pending[i] = j
  <2>1. at \in 1 .. Len(pending) /\ pending[at] = j
    BY <1>1, <1>2
  <2>. HIDE DEF at
  <2>2. removePendingLocked(j) = RemoveAt(pending, at)
    BY <1>2 DEF removePendingLocked, at
  <2>. QED  BY <1>1, <2>1, <2>2, RemoveAtElements
<1>3. CASE ~ \E i \in DOMAIN pending : pending[i] = j
  BY <1>1, <1>3 DEF removePendingLocked, ToSet
<1>. QED  BY <1>2, <1>3

LEMMA ConsistentTake ==
    ASSUME Typed, Consistent, NEW c \in Callers, NEW j \in Jobs, NEW rest, CancelTake(c, j, rest)
    PROVE  Consistent'
<1>1. After(rest) \in {"idle", "next"} /\ pc \in [Callers -> Steps] /\ cur \in [Callers -> Jobs \cup {None}]
  BY DEF After, Typed, TypeOK
<1>2. UNCHANGED <<made, rel, state, running, fd, run>>
  BY DEF CancelTake, files
<1>3. CASE state[j] # "queued"
  <2>1. pc' = [pc EXCEPT ![c] = After(rest)] /\ UNCHANGED <<pending, finished, known, struck, cur>>
    BY <1>3 DEF CancelTake
  <2>. QED  BY <1>1, <1>2, <2>1, QuietStep
<1>4. CASE state[j] = "queued"
  <2>1. /\ finishedLocked(j)
        /\ pending' = removePendingLocked(j)
        /\ struck' = struck \cup {j}
        /\ cur' = [cur EXCEPT ![c] = j]
        /\ pc' = [pc EXCEPT ![c] = "finish"]
    BY <1>4 DEF CancelTake
  <2>2. /\ ToSet(finished') \subseteq ToSet(finished) \cup {j}
        /\ known' \subseteq known
        /\ known \subseteq known' \cup ToSet(finished) \cup {j}
    BY <2>1, FinishedElements DEF Typed
  <2>3. ToSet(pending') = ToSet(pending) \ {j} /\ Increasing(pending')
    BY <2>1, RemovePendingElements
  <2>4. j <= made
    BY <1>4 DEF Consistent, ExistOK
  <2>5. ExistOK'
    BY <1>2, <2>1, <2>2, <2>3, <2>4 DEF Consistent, ExistOK
  <2>6. PendingOK'
    <3>1. ASSUME NEW k \in ToSet(pending')
          PROVE  state'[k] = "queued" /\ run'[k] = "none" /\ k \in known' \ struck'
      <4>0. k \in ToSet(pending) /\ k # j
        BY <3>1, <2>3
      <4>1. k \in ToSet(pending) /\ k # j /\ k \in Jobs
        BY <4>0 DEF Typed, TypeOK, ToSet
      <4>2. state[k] = "queued" /\ run[k] = "none" /\ k \in known \ struck /\ k <= made
        BY <4>1 DEF Consistent, PendingOK, ExistOK
      <4>3. k \notin ToSet(finished)
        BY <4>1, <4>2 DEF Consistent, ProgressOK, Created, Typed, TypeOK, Jobs
      <4>. QED  BY <4>1, <4>2, <4>3, <1>2, <2>1, <2>2
    <3>. QED  BY <2>3, <3>1 DEF PendingOK
  <2>7. ProgressOK'
    BY <1>2, <2>1, <2>2, <2>3 DEF Consistent, ProgressOK, Created
  <2>8. RunningOK' /\ WritingOK' /\ StrikingOK'
    BY <1>1, <1>2, <2>1 DEF Consistent, RunningOK, WritingOK, StrikingOK
  <2>. QED  BY <2>5, <2>6, <2>7, <2>8 DEF Consistent
<1>. QED  BY <1>3, <1>4

(* The caller of Cancel settles the job it struck. *)
LEMMA ConsistentSettle ==
    ASSUME Typed, Consistent, NEW c \in Callers, CancelFinish(c) \/ CancelSettle(c)
    PROVE  Consistent'
<1>1. pc \in [Callers -> Steps] /\ cur \in [Callers -> Jobs \cup {None}] /\ state \in [Jobs -> States]
  BY DEF Typed, TypeOK
<1>2. cur[c] \in struck
  BY DEF CancelFinish, CancelSettle, Consistent, StrikingOK
<1>3. cur[c] \in Jobs /\ cur[c] <= made
  BY <1>2 DEF Consistent, ExistOK, Typed, TypeOK
<1>4. CASE CancelFinish(c)
  <2>1. /\ state' = [state EXCEPT ![cur[c]] = "canceled"]
        /\ pc' = [pc EXCEPT ![c] = "settle"]
        /\ UNCHANGED <<rel, queue, files, cur, run, struck>>
    BY <1>4 DEF CancelFinish, finish
  <2>2. ExistOK' /\ RunningOK' /\ WritingOK'
    BY <1>1, <1>3, <2>1 DEF Consistent, ExistOK, RunningOK, WritingOK, queue, files
  <2>3. PendingOK' /\ ProgressOK'
    BY <1>1, <1>2, <2>1 DEF Consistent, PendingOK, ProgressOK, Created, queue
  <2>4. StrikingOK'
    BY <1>1, <1>4, <2>1 DEF Consistent, StrikingOK, CancelFinish, queue
  <2>. QED  BY <2>2, <2>3, <2>4 DEF Consistent
<1>5. CASE CancelSettle(c)
  <2>1. After(todo[c]) \in {"idle", "next"}
    BY DEF After
  <2>2. /\ UNCHANGED <<made, rel, state, known, pending, running, finished, run, struck>>
        /\ pc' = [pc EXCEPT ![c] = After(todo[c])]
        /\ cur' = [cur EXCEPT ![c] = None]
        /\ \A k \in Jobs : fd'[k] # "none" => fd[k] # "none"
    BY <1>5 DEF CancelSettle, removePart, jobVars
  <2>. QED  BY <1>1, <2>1, <2>2
       DEF Consistent, ExistOK, RunningOK, PendingOK, ProgressOK, WritingOK, StrikingOK, Created
<1>. QED  BY <1>4, <1>5

(* The dispatcher gives a waiting job a slot and a goroutine. *)
LEMMA ConsistentStart ==
    ASSUME Typed, Consistent, DispatchStart
    PROVE  Consistent'
<1> DEFINE j == pending[pickLocked]
<1>1. pickLocked \in 1 .. Len(pending) /\ j \in Jobs /\ j \in ToSet(pending)
  <2>1. pickLocked \in 1 .. Len(pending) /\ j \in Jobs
    BY PickProps DEF DispatchStart, CanStart, Typed
  <2>. QED  BY <2>1 DEF ToSet, Typed, TypeOK
<1>2. state[j] = "queued" /\ run[j] = "none" /\ j \in known \ struck /\ j <= made
  BY <1>1 DEF Consistent, PendingOK, ExistOK
<1>3. ToSet(pending') = ToSet(pending) \ {j} /\ Increasing(pending')
  <2>1. pending \in Seq(Nat) /\ Increasing(pending)
    BY ConstantsOK DEF Typed, TypeOK, Jobs, Consistent, PendingOK
  <2>. QED  BY <1>1, <2>1, RemoveAtElements DEF DispatchStart
<1>4. /\ running' = running \cup {j}
      /\ run' = [run EXCEPT ![j] = "spawned"]
      /\ UNCHANGED <<made, rel, state, known, finished, fd, struck, pc, cur>>
  BY <1>2 DEF DispatchStart, jobVars, files, callers
<1>. HIDE DEF j
<1>5. run \in [Jobs -> RunSteps]
  BY DEF Typed, TypeOK
<1>6. ExistOK' /\ RunningOK'
  BY <1>1, <1>2, <1>3, <1>4, <1>5 DEF Consistent, ExistOK, RunningOK
<1>7. PendingOK'
  BY <1>3, <1>4, <1>5 DEF Consistent, PendingOK
<1>8. ProgressOK'
  BY <1>1, <1>2, <1>3, <1>4, <1>5 DEF Consistent, ProgressOK, Created
<1>9. WritingOK' /\ StrikingOK'
  BY <1>2, <1>4, <1>5 DEF Consistent, WritingOK, StrikingOK
<1>. QED  BY <1>6, <1>7, <1>8, <1>9 DEF Consistent

(* A job's goroutine moves on; no other job is concerned. *)
LEMMA GoroutineStep ==
    ASSUME Typed, Consistent, NEW j \in Jobs, NEW s, NEW step \in RunSteps,
           run[j] \notin {"none", "over"}, run' = [run EXCEPT ![j] = step],
           step \notin {"none", "spawned", "over"},
           state' = [state EXCEPT ![j] = s],
           j \notin struck =>
              /\ step \in {"plan", "encode", "rename", "done"} => s = "running"
              /\ step = "release" => s \in {"failed", "canceled"}
              /\ step = "exit" => s = "done",
           step # "encode" => fd'[j] = "none",
           \A k \in Jobs \ {j} : fd'[k] # "none" => fd[k] # "none",
           UNCHANGED <<rel, queue, struck, pc, cur>>
    PROVE  Consistent'
<1>1. run \in [Jobs -> RunSteps] /\ state \in [Jobs -> States] /\ made \in Nat
  BY DEF Typed, TypeOK
<1>2. j <= made /\ j \notin ToSet(pending)
  BY DEF Consistent, ExistOK, PendingOK
<1>3. ExistOK' /\ RunningOK' /\ StrikingOK'
  BY <1>1, <1>2 DEF Consistent, ExistOK, RunningOK, StrikingOK, queue
<1>4. PendingOK'
  BY <1>1, <1>2 DEF Consistent, PendingOK, queue
<1>5. ProgressOK'
  BY <1>1, <1>2 DEF Consistent, ProgressOK, Created, queue
<1>6. WritingOK'
  BY <1>1 DEF Consistent, WritingOK
<1>. QED  BY <1>3, <1>4, <1>5, <1>6 DEF Consistent

LEMMA ConsistentRun ==
    ASSUME Typed, Consistent, NEW j \in Jobs, RunStep(j)
    PROVE  Consistent'
<1>1. /\ run \in [Jobs -> RunSteps] /\ state \in [Jobs -> States]
      /\ fd \in [Jobs -> {"none", "part", "dst", "gone"}]
      /\ state = [state EXCEPT ![j] = state[j]]
  BY DEF Typed, TypeOK
<1>2. run[j] # "none" => j <= made
  BY DEF Consistent, ExistOK
<1>3. run[j] # "encode" => fd[j] = "none"
  BY DEF Consistent, WritingOK
<1>4. run[j] \in {"plan", "encode", "rename", "done"} /\ j \notin struck => state[j] = "running"
  BY <1>2 DEF Consistent, ProgressOK, Created, Typed, TypeOK, Jobs
<1>5. CASE RunStart(j)
  BY <1>1, <1>3, <1>5, GoroutineStep DEF RunStart, At, RunSteps, queue, files, callers
<1>6. CASE RunPlanFail(j)
  BY <1>1, <1>3, <1>6, GoroutineStep DEF RunPlanFail, At, finish, RunSteps, queue, files, callers
<1>7. CASE RunEncode(j)
  BY <1>1, <1>3, <1>4, <1>7, GoroutineStep DEF RunEncode, At, RunSteps, jobVars, callers
<1>8. CASE RunnerOk(j)
  BY <1>1, <1>4, <1>8, GoroutineStep DEF RunnerOk, At, RunSteps, jobVars, callers
<1>9. CASE RunnerFail(j)
  <2>1. \A k \in Jobs \ {j} : fd'[k] # "none" => fd[k] # "none"
    BY <1>9 DEF RunnerFail
  <2>2. fd'[j] = "none" /\ run[j] \in {"plan", "encode"} /\ run' = [run EXCEPT ![j] = "release"]
    BY <1>9 DEF RunnerFail, At
  <2>. QED  BY <1>1, <1>9, <2>1, <2>2, GoroutineStep DEF RunnerFail, finish, RunSteps, callers
<1>10. CASE RunRename(j)
  <2>1. \A k \in Jobs : fd'[k] # "none" => fd[k] # "none"
    BY <1>10 DEF RunRename
  <2>2. fd'[j] = "none" /\ run[j] = "rename" /\ run' = [run EXCEPT ![j] = "done"]
    BY <1>3, <1>10 DEF RunRename, At
  <2>. QED  BY <1>1, <1>4, <1>10, <2>1, <2>2, GoroutineStep DEF RunRename, RunSteps, jobVars, callers
<1>11. CASE RunRenameFail(j)
  <2>1. \A k \in Jobs : fd'[k] # "none" => fd[k] # "none"
    BY <1>11 DEF RunRenameFail, removePart
  <2>2. fd'[j] = "none" /\ run[j] = "rename" /\ run' = [run EXCEPT ![j] = "release"]
    BY <1>3, <1>11 DEF RunRenameFail, removePart, At
  <2>. QED  BY <1>1, <1>11, <2>1, <2>2, GoroutineStep DEF RunRenameFail, finish, RunSteps, callers
<1>12. CASE RunDone(j)
  BY <1>1, <1>3, <1>12, GoroutineStep DEF RunDone, At, finish, RunSteps, queue, files, callers
<1>13. CASE RunExit(j)
  <2>1. /\ ToSet(finished') \subseteq ToSet(finished) \cup {j}
        /\ known' \subseteq known
        /\ known \subseteq known' \cup ToSet(finished) \cup {j}
    BY <1>13, FinishedElements DEF RunExit, Typed
  <2>2. /\ run[j] \in {"release", "exit"} /\ run' = [run EXCEPT ![j] = "over"]
        /\ running' = running \ {j}
        /\ UNCHANGED <<rel, state, made, pending, fd, struck, pc, cur>>
    BY <1>13 DEF RunExit, At, files, callers
  <2>3. j <= made /\ j \notin ToSet(pending)
    BY <1>2, <2>2 DEF Consistent, PendingOK
  <2>4. ExistOK' /\ RunningOK' /\ StrikingOK' /\ WritingOK'
    BY <1>1, <2>1, <2>2, <2>3 DEF Consistent, ExistOK, RunningOK, StrikingOK, WritingOK
  <2>5. PendingOK'
    <3>1. ASSUME NEW k \in ToSet(pending)
          PROVE  k \notin ToSet(finished) /\ k # j /\ k \in Jobs
      <4>1. k \in Jobs
        BY <3>1 DEF Typed, TypeOK, ToSet
      <4>. QED  BY <4>1, <2>3, <3>1
           DEF Consistent, PendingOK, ExistOK, ProgressOK, Created, Typed, TypeOK, Jobs
    <3>. QED  BY <1>1, <2>1, <2>2, <3>1 DEF Consistent, PendingOK
  <2>6. ProgressOK'
    BY <1>1, <2>1, <2>2 DEF Consistent, ProgressOK, Created, Terminal
  <2>. QED  BY <2>4, <2>5, <2>6 DEF Consistent
<1>. QED  BY <1>5, <1>6, <1>7, <1>8, <1>9, <1>10, <1>11, <1>12, <1>13 DEF RunStep

(* Every step keeps queue, states and goroutines in agreement. *)
LEMMA ConsistentStep ==
    ASSUME Typed, Consistent, [Next]_vars
    PROVE  Consistent'
<1>1. ASSUME NEW c \in Callers, NEW list \in Requests, Enqueue(c, list)
      PROVE  Consistent'
  BY <1>1, QuietStep DEF Enqueue, jobVars, queue, files, Typed, TypeOK
<1>2. ASSUME NEW c \in Callers, EnqueueStep(c)
      PROVE  Consistent'
  <2>1. CASE EnqueueStat(c)
    BY <2>1, QuietStep DEF EnqueueStat, jobVars, queue, files, Typed, TypeOK
  <2>2. CASE EnqueueReturn(c)
    BY <2>2, QuietStep DEF EnqueueReturn, jobVars, queue, files, Typed, TypeOK
  <2>. QED  BY <1>2, <2>1, <2>2, ConsistentClaim DEF EnqueueStep
<1>3. ASSUME NEW c \in Callers, NEW j \in Jobs, Cancel(c, j) \/ CancelBatch(c, j)
      PROVE  Consistent'
  <2>1. CASE CancelBatch(c, j)
    BY <2>1, QuietStep DEF CancelBatch, jobVars, queue, files, Typed, TypeOK
  <2>. QED  BY <1>3, <2>1, ConsistentTake DEF Cancel
<1>4. ASSUME NEW c \in Callers, CancelStep(c)
      PROVE  Consistent'
  <2>1. CASE CancelNext(c)
    <3>1. Head(todo[c]) \in Jobs
      BY <2>1 DEF CancelNext, CancelTake, Typed, TypeOK
    <3>. QED  BY <2>1, <3>1, ConsistentTake DEF CancelNext
  <2>2. CASE CancelSkip(c)
    <3>1. After(Tail(todo[c])) \in {"idle", "next"}
      BY DEF After
    <3>. QED  BY <2>2, <3>1, QuietStep DEF CancelSkip, jobVars, queue, files, Typed, TypeOK
  <2>. QED  BY <1>4, <2>1, <2>2, ConsistentSettle DEF CancelStep
<1>5. CASE Dispatch
  <2>1. CASE DispatchWake
    BY <2>1, QuietStep DEF DispatchWake, jobVars, queue, files, callers
  <2>2. CASE DispatchPark
    BY <2>2, QuietStep DEF DispatchPark, jobVars, queue, files, callers
  <2>. QED  BY <1>5, <2>1, <2>2, ConsistentStart DEF Dispatch
<1>6. ASSUME NEW j \in Jobs, ShutdownInterrupt(j)
      PROVE  Consistent'
  BY <1>6, QuietStep DEF ShutdownInterrupt, queue, files, callers
<1>7. CASE ShutdownClose
  BY <1>7, QuietStep DEF ShutdownClose, jobVars, queue, files, callers
<1>8. CASE ShutdownList
  BY <1>8, QuietStep DEF ShutdownList, jobVars, queue, files, callers
<1>9. ASSUME NEW r \in Rels, PageProbe(r)
      PROVE  Consistent'
  BY <1>9, QuietStep DEF PageProbe, jobVars, queue, files, callers
<1>10. CASE UNCHANGED vars
  BY <1>10, QuietStep DEF vars, jobVars, queue, files, callers
<1>. QED  BY <1>1, <1>2, <1>3, <1>4, <1>5, <1>6, <1>7, <1>8, <1>9, <1>10, ConsistentRun DEF Next

(* The types and the agreement together are inductive. *)
THEOREM Invariance == Spec => [](Typed /\ Consistent)
<1>1. Init => Typed /\ Consistent
  <2>1. ASSUME Init
        PROVE  TypeOK /\ TodoOK
    <3>1. \A c \in Callers : pc[c] = "idle"
      BY <2>1 DEF Init
    <3>2. TodoOK
      BY <3>1 DEF TodoOK
    <3>3. wake \in BOOLEAN
      BY <2>1, Zenon DEF Init
    <3>4. made \in 0 .. MaxJobs
      BY <2>1, ConstantsOK DEF Init
    <3>. QED  BY <2>1, <3>2, <3>3, <3>4, ConstantsOK DEF Init, TypeOK, States, RunSteps, Steps
  <2>2. ASSUME Init
        PROVE  Consistent
    <3>1. ToSet(pending) = {} /\ ToSet(finished) = {} /\ Increasing(pending)
      BY <2>2 DEF Init, ToSet, Increasing
    <3>2. Created = {} /\ \A j \in Jobs : ~ (j <= made)
      BY <2>2, ConstantsOK DEF Init, Created, Jobs
    <3>. QED  BY <2>2, <3>1, <3>2
         DEF Init, Consistent, ExistOK, RunningOK, PendingOK, ProgressOK, WritingOK, StrikingOK
  <2>. QED  BY <2>1, <2>2 DEF Typed
<1>2. Typed /\ Consistent /\ [Next]_vars => (Typed /\ Consistent)'
  BY TypedStep, ConsistentStep
<1>. QED  BY <1>1, <1>2, PTL DEF Spec

(* Every variable keeps its type. *)
THEOREM TypeCorrect == Spec => []TypeOK
<1>1. Typed => TypeOK
  BY DEF Typed
<1>. QED  BY <1>1, Invariance, PTL

-----------------------------------------------------------------------------
(* No job is lost, and none takes another's slot *)

(* A job that is neither waiting nor running was struck by a Cancel or has
   ended, and one that waits is queued, remembered, and waits once. *)
THEOREM NoJobIsLost == Spec => []NoJobLost
<1>1. ASSUME Typed, Consistent
      PROVE  NoJobLost
  <2>1. ASSUME NEW j \in Created
        PROVE  j \in ToSet(pending) \cup running \cup struck \/ run[j] = "over"
    BY <1>1, <2>1, ConstantsOK DEF Consistent, RunningOK, ProgressOK, Created, Jobs, Typed, TypeOK
  <2>2. ASSUME NEW i \in DOMAIN pending, NEW k \in DOMAIN pending, i # k
        PROVE  pending[i] # pending[k]
    <3>1. i \in Nat /\ k \in Nat /\ pending[i] \in Nat /\ pending[k] \in Nat
      BY <1>1, ConstantsOK DEF Typed, TypeOK, Jobs
    <3>2. i < k \/ k < i
      BY <2>2, <3>1
    <3>. QED  BY <1>1, <3>1, <3>2 DEF Consistent, PendingOK, Increasing
  <2>. QED  BY <1>1, <2>1, <2>2 DEF NoJobLost, Consistent, PendingOK
<1>. QED  BY <1>1, Invariance, PTL

(* No more than Workers conversions run at once, and every slot in use belongs
   to exactly one goroutine that has not ended. *)
THEOREM SlotsAreBounded == Spec => []SlotsBounded
<1> DEFINE Bound == Cardinality(running) <= Workers
<1>1. Init => Bound
  BY ConstantsOK, FS_EmptySet DEF Init
<1>2. ASSUME Typed, Consistent, Bound, [Next]_vars
      PROVE  Bound'
  <2>1. IsFiniteSet(running) /\ Cardinality(running) \in Nat
    <3>1. IsFiniteSet(Jobs) /\ running \subseteq Jobs
      BY <1>2, ConstantsOK, FS_Interval DEF Jobs, Typed, TypeOK
    <3>. QED  BY <3>1, FS_Subset, FS_CardinalityType
  <2>2. CASE DispatchStart
    <3>1. PICK j : running' = running \cup {j} \/ running' = running
      BY <2>2 DEF DispatchStart
    <3>2. Cardinality(running \cup {j}) = Cardinality(running)
          \/ Cardinality(running \cup {j}) = Cardinality(running) + 1
      BY <2>1, FS_AddElement, Zenon
    <3>3. Cardinality(running) < Workers
      BY <2>2 DEF DispatchStart, CanStart, SlotFree
    <3>4. Cardinality(running') = Cardinality(running)
          \/ Cardinality(running') = Cardinality(running) + 1
      BY <3>1, <3>2, Zenon
    <3>. QED  BY <2>1, <3>3, <3>4, ConstantsOK
  <2>3. ASSUME NEW j \in Jobs, RunExit(j)
        PROVE  Bound'
    <3>1. running' \subseteq running
      BY <2>3 DEF RunExit
    <3>2. Cardinality(running') <= Cardinality(running) /\ Cardinality(running') \in Nat
      BY <2>1, <3>1, FS_Subset, FS_CardinalityType
    <3>. QED  BY <1>2, <2>1, <3>2, ConstantsOK
  <2>4. ASSUME ~ DispatchStart, \A j \in Jobs : ~ RunExit(j)
        PROVE  running' = running
    BY <1>2, <2>4, ZenonT(40)
    DEF Next, Enqueue, EnqueueStep, EnqueueStat, EnqueueClaim, EnqueueReturn, Cancel, CancelBatch,
        CancelStep, CancelNext, CancelTake, CancelSkip, CancelFinish, CancelSettle,
        Dispatch, DispatchWake, DispatchPark, RunStep, RunStart, RunPlanFail, RunEncode, RunnerOk,
        RunnerFail, RunRename, RunRenameFail, RunDone, ShutdownInterrupt, ShutdownClose,
        ShutdownList, PageProbe, queue, vars
  <2>. QED  BY <1>2, <2>2, <2>3, <2>4
<1>3. Spec => []Bound
  BY <1>1, <1>2, Invariance, PTL DEF Spec
<1>4. Bound /\ Consistent => SlotsBounded
  BY DEF SlotsBounded, Consistent, RunningOK
<1>. QED  BY <1>3, <1>4, Invariance, PTL

-----------------------------------------------------------------------------
(* JobQueue implements WorkPool: every step moves one job on, or none. *)


\* The pool the queue implements takes steps of its own, or none.
PoolStep == [Pool!Next]_<<~stopping, Phase>>

(* A step that leaves the queue alone, and does not close it. *)
LEMMA PoolStutter ==
    ASSUME UNCHANGED <<made, pending, running>>, stopping' <=> stopping
    PROVE  PoolStep
<1>1. Phase' = Phase
  BY Zenon DEF Phase, ToSet
<1>2. (~stopping)' = ~stopping
  BY Zenon
<1>. QED  BY <1>1, <1>2, Zenon DEF PoolStep

(* A step that moves one job from one phase to the next. *)
LEMMA PhaseMove ==
    ASSUME Typed, NEW j \in Jobs, NEW from, NEW to, Phase[j] = from,
           down' = down, \A k \in Jobs : Phase'[k] = IF k = j THEN to ELSE Phase[k]
    PROVE  Pool!Move(j, from, to)
<1>1. Phase' = [Phase EXCEPT ![j] = to]
  BY DEF Phase
<1>2. (~stopping)' = ~stopping
  BY Zenon DEF stopping
<1>. QED  BY <1>1, <1>2, Zenon DEF Pool!Move

(* Enqueue accepts a job. *)
LEMMA ClaimAccepts ==
    ASSUME Typed, Consistent, NEW c \in Callers, EnqueueClaim(c)
    PROVE  PoolStep
<1> DEFINE j == made + 1
<1>1. j \in Jobs /\ made \in Nat /\ Jobs \subseteq Nat /\ pending \in Seq(Jobs)
  BY TailOfTodo, ConstantsOK DEF EnqueueClaim, Typed, TypeOK, TodoOK, Jobs
<1>2. CASE UNCHANGED <<cur, queue, jobVars>>
  BY <1>2, PoolStutter DEF EnqueueClaim, queue, stopping
<1>3. CASE ~ UNCHANGED <<cur, queue, jobVars>>
  <2>1. made' = j /\ pending' = Append(pending, j) /\ running' = running /\ down' = down
    BY <1>3 DEF EnqueueClaim
  <2>2. ToSet(pending') = ToSet(pending) \cup {j}
    BY <1>1, <2>1, AppendElements
  <2>3. j \notin ToSet(pending) \cup running
    BY <1>1 DEF Consistent, ExistOK, RunningOK
  <2>4. Phase[j] = "absent"
    BY <1>1, <2>3 DEF Phase
  <2>5. ASSUME NEW k \in Jobs
        PROVE  Phase'[k] = IF k = j THEN "waiting" ELSE Phase[k]
    <3>1. k # j => (k <= made' <=> k <= made)
      BY <1>1, <2>1
    <3>. QED  BY <2>1, <2>2, <3>1 DEF Phase
  <2>6. Pool!Accept(j)
    BY <1>1, <2>1, <2>4, <2>5, PhaseMove DEF Pool!Accept
  <2>. QED  BY <1>1, <2>6 DEF PoolStep, Pool!Next
<1>. QED  BY <1>2, <1>3

(* Cancel withdraws a job that waits. *)
LEMMA TakeWithdraws ==
    ASSUME Typed, Consistent, NEW c \in Callers, NEW j \in Jobs, NEW rest, CancelTake(c, j, rest)
    PROVE  PoolStep
<1>1. made' = made /\ running' = running /\ down' = down
  BY DEF CancelTake
<1>2. CASE pending' = pending
  BY <1>1, <1>2, PoolStutter DEF stopping
<1>3. CASE pending' # pending
  <2>1. pending' = removePendingLocked(j)
    BY <1>3 DEF CancelTake
  <2>2. ToSet(pending') = ToSet(pending) \ {j} /\ j \in ToSet(pending)
    <3>1. ToSet(pending') = ToSet(pending) \ {j}
      BY <2>1, RemovePendingElements
    <3>2. \E i \in DOMAIN pending : pending[i] = j
      BY <1>3, <2>1 DEF removePendingLocked
    <3>. QED  BY <3>1, <3>2 DEF ToSet
  <2>3. j <= made /\ j \notin running /\ Phase[j] = "waiting"
    BY <2>2 DEF Consistent, ExistOK, PendingOK, RunningOK, Phase
  <2>4. \A k \in Jobs : Phase'[k] = IF k = j THEN "over" ELSE Phase[k]
    BY <1>1, <2>2, <2>3 DEF Phase
  <2>5. Pool!Withdraw(j)
    BY <1>1, <2>3, <2>4, PhaseMove DEF Pool!Withdraw
  <2>. QED  BY <2>5 DEF PoolStep, Pool!Next
<1>. QED  BY <1>2, <1>3

(* The dispatcher begins a job that waits, in a free slot of an open pool. *)
LEMMA StartBegins ==
    ASSUME Typed, Consistent, DispatchStart
    PROVE  PoolStep
<1> DEFINE j == pending[pickLocked]
<1>1. pickLocked \in 1 .. Len(pending) /\ j \in Jobs /\ j \in ToSet(pending)
  <2>1. pickLocked \in 1 .. Len(pending) /\ j \in Jobs
    BY PickProps DEF DispatchStart, CanStart, Typed
  <2>. QED  BY <2>1 DEF ToSet, Typed, TypeOK
<1>2. j \in known /\ j \notin running /\ j <= made
  BY <1>1 DEF Consistent, PendingOK, RunningOK, ExistOK
<1>3. ToSet(pending') = ToSet(pending) \ {j}
  <2>1. pending \in Seq(Nat) /\ Increasing(pending)
    BY ConstantsOK DEF Typed, TypeOK, Jobs, Consistent, PendingOK
  <2>. QED  BY <1>1, <2>1, RemoveAtElements DEF DispatchStart
<1>4. running' = running \cup {j} /\ made' = made /\ down' = down
  BY <1>2 DEF DispatchStart
<1>5. Cardinality(running) < Workers /\ ~stopping
  BY DEF DispatchStart, CanStart, SlotFree
<1>. HIDE DEF j
<1>6. Pool!Active = running
  <2>1. running \subseteq Jobs /\ \A k \in running : k \notin ToSet(pending)
    BY DEF Consistent, RunningOK, PendingOK, Typed, TypeOK
  <2>. QED  BY <2>1 DEF Pool!Active, Phase
<1>7. Phase[j] = "waiting" /\ \A k \in Jobs : Phase'[k] = IF k = j THEN "active" ELSE Phase[k]
  BY <1>1, <1>2, <1>3, <1>4 DEF Phase
<1>8. Pool!Move(j, "waiting", "active")
  BY <1>1, <1>4, <1>7, PhaseMove
<1>9. Pool!Begin(j)
  <2>1. Pool!Cardinality(running) = Cardinality(running)
    BY Zenon DEF Pool!Cardinality, Cardinality
  <2>. QED  BY <1>5, <1>6, <1>8, <2>1, Zenon DEF Pool!Begin
<1>. QED  BY <1>1, <1>9 DEF PoolStep, Pool!Next

(* The goroutine of a job that began ends it. *)
LEMMA ExitEnds ==
    ASSUME Typed, Consistent, NEW j \in Jobs, RunExit(j)
    PROVE  PoolStep
<1>1. running' = running \ {j} /\ pending' = pending /\ made' = made /\ down' = down
  BY DEF RunExit
<1>2. j \in running /\ j \notin ToSet(pending) /\ j <= made
  BY DEF RunExit, At, Consistent, RunningOK, PendingOK, ExistOK
<1>3. Phase[j] = "active" /\ \A k \in Jobs : Phase'[k] = IF k = j THEN "over" ELSE Phase[k]
  BY <1>1, <1>2 DEF Phase
<1>4. Pool!End(j)
  BY <1>1, <1>3, PhaseMove DEF Pool!End
<1>. QED  BY <1>4 DEF PoolStep, Pool!Next

(* Shutdown closes the pool. *)
LEMMA ShutdownCloses ==
    ASSUME Typed, Consistent, ShutdownClose
    PROVE  PoolStep
<1>1. Phase' = Phase
  <2>1. UNCHANGED <<made, pending, running>>
    BY DEF ShutdownClose, queue
  <2>. QED  BY <2>1, Zenon DEF Phase, ToSet
<1>2. down = "up" /\ down' # "up"
  BY DEF ShutdownClose
<1>3. ~stopping /\ (~stopping)' = FALSE
  BY <1>2, Zenon DEF stopping
<1>4. Pool!Close
  BY <1>1, <1>3, Zenon DEF Pool!Close
<1>. QED  BY <1>4 DEF PoolStep, Pool!Next

LEMMA EveryPoolStep ==
    ASSUME Typed, Consistent, [Next]_vars
    PROVE  PoolStep
<1>1. ASSUME NEW c \in Callers, NEW j \in Jobs, Cancel(c, j)
      PROVE  PoolStep
  BY <1>1, TakeWithdraws DEF Cancel
<1>2. ASSUME NEW c \in Callers, CancelNext(c)
      PROVE  PoolStep
  <2>1. Head(todo[c]) \in Jobs
    BY <1>2 DEF CancelNext, CancelTake, Typed, TypeOK
  <2>. QED  BY <1>2, <2>1, TakeWithdraws DEF CancelNext
<1>3. CASE ShutdownList
  BY <1>3, PoolStutter DEF ShutdownList, queue, stopping
<1>4. ASSUME \A c \in Callers : ~ EnqueueClaim(c) /\ ~ CancelNext(c),
             \A c \in Callers, j \in Jobs : ~ Cancel(c, j),
             ~ DispatchStart, \A j \in Jobs : ~ RunExit(j), ~ ShutdownClose, ~ ShutdownList
      PROVE  UNCHANGED <<made, pending, running, down>>
  BY <1>4, Zenon
  DEF Next, Enqueue, EnqueueStep, EnqueueStat, EnqueueReturn, CancelBatch,
      CancelStep, CancelSkip, CancelFinish, CancelSettle,
      Dispatch, DispatchWake, DispatchPark, RunStep, RunStart, RunPlanFail, RunEncode, RunnerOk,
      RunnerFail, RunRename, RunRenameFail, RunDone, ShutdownInterrupt, PageProbe, queue, vars
<1>5. CASE UNCHANGED <<made, pending, running, down>>
  BY <1>5, PoolStutter DEF stopping
<1>. QED  BY <1>1, <1>2, <1>3, <1>4, <1>5, ClaimAccepts, StartBegins, ExitEnds, ShutdownCloses

(* The queue implements the pool: every job waits, converts in one of the
   slots, and is over, in this order and once, and none begins after the close. *)
THEOREM ImplementsPool == Spec => PoolSafe
<1>1. Init => Pool!Init
  <2>1. ASSUME Init
        PROVE  Phase = [j \in Jobs |-> "absent"]
    <3>1. ToSet(pending) = {} /\ running = {} /\ \A j \in Jobs : ~ (j <= made)
      BY <2>1, ConstantsOK DEF Init, ToSet, Jobs
    <3>. QED  BY <3>1 DEF Phase
  <2>2. ASSUME Init
        PROVE  (~stopping) = TRUE
    BY <2>2, Zenon DEF Init, stopping
  <2>. QED  BY <2>1, <2>2, Zenon DEF Pool!Init
<1>2. Typed /\ Consistent /\ [Next]_vars => [Pool!Next]_<<~stopping, Phase>>
  BY EveryPoolStep DEF PoolStep
<1>. QED  BY <1>1, <1>2, Invariance, PTL DEF Spec, PoolSafe, Pool!Safe

=============================================================================
