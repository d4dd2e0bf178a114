---------------------------- MODULE ClaimProofs ----------------------------
(***************************************************************************)
(* Proofs about what the jobs of JobQueue do to each other's verdict,      *)
(* claim and files.                                                        *)
(***************************************************************************)
EXTENDS JobQueueProofs

-----------------------------------------------------------------------------
(* Verdicts *)

(* A job that no Cancel struck and that is over does not change its state. *)
LEMMA VerdictStep ==
    ASSUME Typed, Consistent, [Next]_vars, NEW k \in Jobs \ struck, Terminal(state[k])
    PROVE  state'[k] = state[k]
<1>1. state \in [Jobs -> States] /\ made \in Nat /\ k <= made /\ run[k] \in {"release", "exit", "over"}
  <2>1. state \in [Jobs -> States] /\ made \in Nat /\ run[k] \in RunSteps /\ k \in 1 .. MaxJobs
    BY DEF Typed, TypeOK, Jobs
  <2>2. k <= made
    BY DEF Consistent, ExistOK, Terminal
  <2>3. k \in Created \ struck
    BY <2>1, <2>2, ConstantsOK DEF Created
  <2>4. run[k] # "none"
    BY <2>3 DEF Consistent, PendingOK, ProgressOK, Terminal
  <2>. QED  BY <2>1, <2>2, <2>3, <2>4 DEF Consistent, ProgressOK, Terminal, RunSteps
<1>2. ASSUME NEW c \in Callers, EnqueueClaim(c)
      PROVE  state'[k] = state[k]
  BY <1>1, <1>2 DEF EnqueueClaim, jobVars
<1>3. ASSUME NEW c \in Callers, CancelFinish(c)
      PROVE  state'[k] = state[k]
  <2>1. cur[c] \in struck
    BY <1>3 DEF CancelFinish, Consistent, StrikingOK
  <2>. QED  BY <1>1, <1>3, <2>1 DEF CancelFinish, finish
<1>4. ASSUME NEW j \in Jobs,
             RunStart(j) \/ RunPlanFail(j) \/ RunnerFail(j) \/ RunRenameFail(j) \/ RunDone(j)
      PROVE  state'[k] = state[k]
  <2>1. run[j] \in {"spawned", "plan", "encode", "rename", "done"}
    BY <1>4 DEF RunStart, RunPlanFail, RunnerFail, RunRenameFail, RunDone, At
  <2>2. \E s : state' = [state EXCEPT ![j] = s]
    BY <1>4 DEF RunStart, RunPlanFail, RunnerFail, RunRenameFail, RunDone, finish
  <2>. QED  BY <1>1, <2>1, <2>2
<1>5. ASSUME \A c \in Callers : ~ EnqueueClaim(c) /\ ~ CancelFinish(c),
             \A j \in Jobs : ~ (RunStart(j) \/ RunPlanFail(j) \/ RunnerFail(j)
                                \/ RunRenameFail(j) \/ RunDone(j))
      PROVE  state' = state
  BY <1>5, ZenonT(40)
  DEF Next, Enqueue, EnqueueStep, EnqueueStat, EnqueueReturn, Cancel, CancelBatch,
      CancelStep, CancelNext, CancelTake, CancelSkip, CancelSettle,
      Dispatch, DispatchWake, DispatchStart, DispatchPark, RunStep, RunEncode, RunnerOk,
      RunRename, RunExit, ShutdownInterrupt, ShutdownClose, ShutdownList, PageProbe, jobVars, vars
<1>. QED  BY <1>2, <1>3, <1>4, <1>5

(* The verdict on a job is final, unless a Cancel took it for queued. *)
THEOREM VerdictIsFinal == Spec => VerdictFinal
<1>1. Typed /\ Consistent /\ [Next]_vars =>
        [\A j \in Jobs \ struck : Terminal(state[j]) => state'[j] = state[j]]_vars
  BY VerdictStep
<1>. QED  BY <1>1, Invariance, PTL DEF Spec, VerdictFinal

-----------------------------------------------------------------------------
(* Claims *)

(* A job on its way keeps its claim. *)
LEMMA ClaimStep ==
    ASSUME Typed, Consistent, ClaimHeld, [Next]_vars
    PROVE  ClaimHeld'
<1>. SUFFICES ASSUME NEW k \in (Created \ struck)', ~ Terminal(state'[k])
              PROVE  byOutput'[Out(k)'] = k
  BY DEF ClaimHeld
<1>1. /\ state \in [Jobs -> States] /\ made \in Nat /\ Jobs \subseteq Nat
      /\ rel \in [Jobs -> Rels \cup {None}] /\ byOutput \in [Outputs -> Jobs \cup {None}]
      /\ Created \subseteq Jobs
  BY ConstantsOK DEF Typed, TypeOK, Jobs, Created
<1>2. ASSUME k \in Created, struck \subseteq struck'
      PROVE  /\ byOutput[Out(k)] = k /\ k \in Jobs \ struck
             /\ rel[k] \in Rels /\ Out(k) \in Outputs
  <2>1. k \in Jobs \ struck
    BY <1>1, <1>2
  <2>2. ~ Terminal(state[k])
    BY <2>1, VerdictStep
  <2>3. rel[k] \in Rels
    BY <1>1, <1>2, <2>1 DEF Consistent, ExistOK, Created
  <2>. QED  BY <1>2, <2>1, <2>2, <2>3, ConstantsOK DEF ClaimHeld, Out
<1>3. ASSUME NEW c \in Callers, EnqueueClaim(c)
      PROVE  byOutput'[Out(k)'] = k
  <2> DEFINE r == Head(todo[c])
             j == made + 1
  <2>1. r \in Rels /\ j \in Jobs /\ OutputOf[r] \in Outputs
    BY <1>3, TailOfTodo, ConstantsOK DEF EnqueueClaim, Typed, TodoOK
  <2>. HIDE DEF r
  <2>2. CASE UNCHANGED <<cur, queue, jobVars>>
    BY <1>2, <1>3, <2>2 DEF EnqueueClaim, queue, jobVars, Out, Created
  <2>3. CASE ~ UNCHANGED <<cur, queue, jobVars>>
    <3>1. /\ made' = j /\ ~ Busy(OutputOf[r])
          /\ rel' = [rel EXCEPT ![j] = r]
          /\ byOutput' = [byOutput EXCEPT ![OutputOf[r]] = j]
          /\ struck' = struck
      BY <1>3, <2>3 DEF EnqueueClaim, r
    <3>2. CASE k = j
      BY <1>1, <2>1, <3>1, <3>2 DEF Out
    <3>3. CASE k # j
      <4>1. k \in Created
        BY <1>1, <3>1, <3>3 DEF Created
      <4>2. byOutput[Out(k)] = k /\ k \in Jobs \ struck /\ ~ Terminal(state[k]) /\ Out(k) \in Outputs
        BY <1>2, <3>1, <4>1, VerdictStep
      <4>3. run[k] # "over" /\ k \in known
        BY <4>1, <4>2 DEF Consistent, ProgressOK
      <4>4. Out(k) # OutputOf[r]
        BY <3>1, <4>2, <4>3 DEF Busy
      <4>5. Out(k)' = Out(k)
        BY <1>1, <3>1, <3>3, <4>2 DEF Out
      <4>. QED  BY <1>1, <3>1, <4>2, <4>4, <4>5
    <3>. QED  BY <3>2, <3>3
  <2>. QED  BY <2>2, <2>3
<1>4. ASSUME NEW j \in Jobs, release(j), UNCHANGED <<rel, made, struck>>,
             j \in struck \/ Terminal(state[j])
      PROVE  byOutput'[Out(k)'] = k
  <2>1. k \in Created
    BY <1>4 DEF Created
  <2>2. byOutput[Out(k)] = k /\ k \in Jobs \ struck /\ ~ Terminal(state[k]) /\ Out(k) \in Outputs
    BY <1>2, <1>4, <2>1, VerdictStep
  <2>3. Out(k)' = Out(k) /\ k # j
    BY <1>4, <2>2 DEF Out
  <2>. QED  BY <1>1, <1>4, <2>2, <2>3 DEF release
<1>5. ASSUME NEW c \in Callers, CancelSettle(c)
      PROVE  byOutput'[Out(k)'] = k
  <2>1. cur[c] \in struck /\ cur[c] \in Jobs
    BY <1>5 DEF CancelSettle, Consistent, StrikingOK, Typed, TypeOK
  <2>. QED  BY <1>4, <1>5, <2>1 DEF CancelSettle, jobVars
<1>6. ASSUME NEW j \in Jobs, RunExit(j)
      PROVE  byOutput'[Out(k)'] = k
  <2>1. CASE release(j) /\ run[j] = "release"
    <3>1. j \in struck \/ Terminal(state[j])
      BY <2>1 DEF Consistent, ExistOK, ProgressOK, Terminal, Created, Typed, TypeOK, Jobs
    <3>. QED  BY <1>4, <1>6, <2>1, <3>1 DEF RunExit
  <2>2. CASE byOutput' = byOutput
    BY <1>2, <1>6, <2>2 DEF RunExit, Out, Created
  <2>. QED  BY <1>6, <2>1, <2>2 DEF RunExit, At
<1>7. ASSUME \A c \in Callers : ~ EnqueueClaim(c) /\ ~ CancelSettle(c),
             \A j \in Jobs : ~ RunExit(j)
      PROVE  UNCHANGED <<made, rel, byOutput>> /\ struck \subseteq struck'
  <2>1. UNCHANGED <<made, rel, byOutput>>
    BY <1>7, ZenonT(40)
    DEF Next, Enqueue, EnqueueStep, EnqueueStat, EnqueueReturn, Cancel, CancelBatch,
        CancelStep, CancelNext, CancelTake, CancelSkip, CancelFinish,
        Dispatch, DispatchWake, DispatchStart, DispatchPark, RunStep, RunStart, RunPlanFail,
        RunEncode, RunnerOk, RunnerFail, RunRename, RunRenameFail, RunDone,
        ShutdownInterrupt, ShutdownClose, ShutdownList, PageProbe, queue, jobVars, vars
  <2>2. struck \subseteq struck'
    BY <1>7, ZenonT(40)
    DEF Next, Enqueue, EnqueueStep, EnqueueStat, EnqueueReturn, Cancel, CancelBatch,
        CancelStep, CancelNext, CancelTake, CancelSkip, CancelFinish,
        Dispatch, DispatchWake, DispatchStart, DispatchPark, RunStep, RunStart, RunPlanFail,
        RunEncode, RunnerOk, RunnerFail, RunRename, RunRenameFail, RunDone,
        ShutdownInterrupt, ShutdownClose, ShutdownList, PageProbe, vars
  <2>. QED  BY <2>1, <2>2
<1>8. CASE UNCHANGED <<made, rel, byOutput>> /\ struck \subseteq struck'
  BY <1>2, <1>8 DEF Created, Out
<1>. QED  BY <1>3, <1>5, <1>6, <1>7, <1>8

(* A job on its way holds the claim on its output until it is over. *)
THEOREM ClaimsAreHeld == Spec => []ClaimHeld
<1>1. Init => ClaimHeld
  BY ConstantsOK DEF Init, ClaimHeld, Created
<1>2. Typed /\ Consistent /\ ClaimHeld /\ [Next]_vars => ClaimHeld'
  BY ClaimStep
<1>. QED  BY <1>1, <1>2, Invariance, PTL DEF Spec

-----------------------------------------------------------------------------
(* Files *)

LEMMA ConvertersDiffer ==
    ASSUME Typed, Consistent, ClaimHeld, NEW j \in Converting, NEW k \in Converting, Twins(j, k)
    PROVE  j \in Late \/ k \in Late
<1>1. ASSUME NEW i \in Converting, i \notin Late
      PROVE  i \in Created \ struck /\ ~ Terminal(state[i])
  <2>1. i \in Jobs /\ run[i] \in {"plan", "encode", "rename", "done"}
    BY DEF Converting
  <2>2. i \in Created \ struck
    BY <1>1, <2>1, ConstantsOK DEF Late, Consistent, ExistOK, Created, Typed, TypeOK, Jobs
  <2>. QED  BY <2>1, <2>2 DEF Consistent, ProgressOK, Terminal
<1>2. ASSUME j \notin Late, k \notin Late
      PROVE  FALSE
  <2>1. byOutput[Out(j)] = j /\ byOutput[Out(k)] = k
    BY <1>1, <1>2 DEF ClaimHeld
  <2>. QED  BY <2>1 DEF Twins
<1>. QED  BY <1>2

(* Two jobs never convert to the same file at once, unless one of them was
   struck in the dispatch window. *)
THEOREM ConvertersAreAlone == Spec => []OneConverter
<1>1. Typed /\ Consistent /\ ClaimHeld => OneConverter
  BY ConvertersDiffer DEF OneConverter
<1>. QED  BY <1>1, Invariance, ClaimsAreHeld, PTL

\* A Cancel struck the job, or another one for the same file ...
Struck(j) == \E k \in struck : k = j \/ Twins(j, k)

\* ... in the dispatch window.
StruckLate(j) == \E k \in Late : k = j \/ Twins(j, k)

(* What a step never takes back: a source, a strike, a start. *)
LEMMA NothingUndone ==
    ASSUME Typed, Consistent, [Next]_vars
    PROVE  /\ \A k \in Jobs : k <= made => rel'[k] = rel[k]
           /\ struck \subseteq struck'
           /\ \A k \in Jobs : run[k] # "none" => run'[k] # "none"
<1>1. run \in [Jobs -> RunSteps] /\ rel \in [Jobs -> Rels \cup {None}] /\ made \in Nat
  BY DEF Typed, TypeOK
<1>2. ASSUME NEW j \in Jobs, RunStep(j)
      PROVE  /\ UNCHANGED <<rel, struck>>
             /\ \E s \in RunSteps \ {"none"} : run' = [run EXCEPT ![j] = s]
  BY <1>2
  DEF RunStep, RunStart, RunPlanFail, RunEncode, RunnerOk, RunnerFail, RunRename, RunRenameFail,
      RunDone, RunExit, At, RunSteps, jobVars
<1>3. CASE DispatchStart
  <2>1. UNCHANGED <<rel, struck>>
    BY <1>3 DEF DispatchStart, jobVars
  <2>2. \E j : run' = [run EXCEPT ![j] = "spawned"] \/ run' = [run EXCEPT ![j] = @]
    BY <1>3 DEF DispatchStart
  <2>. QED  BY <1>1, <2>1, <2>2
<1>4. ASSUME NEW c \in Callers, EnqueueClaim(c)
      PROVE  /\ UNCHANGED <<struck, run>>
             /\ \A k \in Jobs : k <= made => rel'[k] = rel[k]
  <2>1. \A k \in Jobs : k <= made => k # made + 1
    BY <1>1, ConstantsOK DEF Jobs
  <2>. QED  BY <1>1, <1>4, <2>1 DEF EnqueueClaim, jobVars
<1>5. ASSUME \A c \in Callers : ~ EnqueueClaim(c), \A j \in Jobs : ~ RunStep(j), ~ DispatchStart
      PROVE  UNCHANGED <<rel, run>> /\ struck \subseteq struck'
  <2>1. UNCHANGED <<rel, run>>
    BY <1>5, ZenonT(40)
    DEF Next, Enqueue, EnqueueStep, EnqueueStat, EnqueueReturn, Cancel, CancelBatch,
        CancelStep, CancelNext, CancelTake, CancelSkip, CancelFinish, CancelSettle,
        Dispatch, DispatchWake, DispatchPark,
        ShutdownInterrupt, ShutdownClose, ShutdownList, PageProbe, jobVars, vars
  <2>2. struck \subseteq struck'
    BY <1>5, ZenonT(40)
    DEF Next, Enqueue, EnqueueStep, EnqueueStat, EnqueueReturn, Cancel, CancelBatch,
        CancelStep, CancelNext, CancelTake, CancelSkip, CancelFinish, CancelSettle,
        Dispatch, DispatchWake, DispatchPark,
        ShutdownInterrupt, ShutdownClose, ShutdownList, PageProbe, vars
  <2>. QED  BY <2>1, <2>2
<1>6. CASE \E j \in Jobs : RunStep(j)
  BY <1>1, <1>2, <1>6
<1>7. CASE \E c \in Callers : EnqueueClaim(c)
  BY <1>4, <1>7
<1>. QED  BY <1>3, <1>5, <1>6, <1>7

(* A job stays struck, or late, or a twin of one that is. *)
LEMMA StruckForGood ==
    ASSUME Typed, Consistent, [Next]_vars, NEW j \in Jobs
    PROVE  /\ Struck(j) => Struck(j)'
           /\ StruckLate(j) => StruckLate(j)'
<1>1. ASSUME NEW k \in struck, k = j \/ Twins(j, k)
      PROVE  /\ k \in Jobs /\ k \in struck' /\ (k = j \/ Twins(j, k)')
             /\ k \in Late => k \in Late'
  <2>1. k \in Jobs
    BY DEF Typed, TypeOK
  <2>2. \A i \in Jobs : rel[i] # None => rel'[i] = rel[i]
    BY NothingUndone DEF Consistent, ExistOK
  <2>. QED  BY <1>1, <2>1, <2>2, NothingUndone DEF Twins, Out, Late
<1>. QED  BY <1>1 DEF Struck, StruckLate, Late

(* A step that removes a .part is one of a job that converts to it, or settles
   a struck job; no other conversion to that file is under way. *)
LEMMA PartStep ==
    ASSUME Typed, Consistent, ClaimHeld, PartIntact, [Next]_vars
    PROVE  PartIntact'
<1>. SUFFICES ASSUME NEW k \in Jobs, run'[k] \in {"encode", "rename"}, ~ Struck(k)'
              PROVE  Out(k)' \in part'
  BY DEF PartIntact, Struck
<1>1. ~ Struck(k)
  BY StruckForGood
<1>2. run \in [Jobs -> RunSteps]
  BY DEF Typed, TypeOK
<1>3. ASSUME run[k] # "none"
      PROVE  /\ Out(k)' = Out(k) /\ rel[k] # None
             /\ run[k] \in {"encode", "rename"} => Out(k) \in part
  <2>1. k <= made
    BY <1>3 DEF Consistent, ExistOK
  <2>2. rel[k] # None /\ rel'[k] = rel[k]
    BY <2>1, NothingUndone, ConstantsOK DEF Consistent, ExistOK
  <2>. QED  BY <1>1, <2>2 DEF PartIntact, Struck, Out
<1>4. ASSUME NEW j \in Jobs, RunEncode(j)
      PROVE  Out(k)' \in part'
  <2>1. run' = [run EXCEPT ![j] = "encode"] /\ rel' = rel /\ part' = part \cup {Out(j)}
    BY <1>4 DEF RunEncode, At, jobVars
  <2>2. CASE k = j
    BY <2>1, <2>2 DEF Out
  <2>3. CASE k # j
    BY <1>2, <1>3, <2>1, <2>3
  <2>. QED  BY <2>2, <2>3
<1>5. ASSUME NEW j \in Jobs, RunnerFail(j) \/ RunRename(j) \/ RunRenameFail(j)
      PROVE  Out(k)' \in part'
  <2>1. /\ j \in Converting /\ rel' = rel /\ part' = part \ {Out(j)}
        /\ \E s \in {"release", "done"} : run' = [run EXCEPT ![j] = s]
    BY <1>5 DEF RunnerFail, RunRename, RunRenameFail, removePart, At, Converting, jobVars
  <2>2. k # j /\ run[k] \in {"encode", "rename"} /\ k \in Converting
    BY <1>2, <2>1 DEF Converting
  <2>3. Out(k) # Out(j)
    <3>1. j <= made /\ rel[j] # None
      BY <2>1, ConstantsOK DEF Converting, Consistent, ExistOK
    <3>2. ASSUME Out(k) = Out(j)
          PROVE  FALSE
      <4>1. Twins(k, j)
        BY <1>3, <2>2, <3>1, <3>2 DEF Twins
      <4>2. k \in struck \/ j \in struck
        BY <2>1, <2>2, <4>1, ConvertersDiffer DEF Late
      <4>. QED  BY <1>1, <4>1, <4>2 DEF Struck
    <3>. QED  BY <3>2
  <2>. QED  BY <1>3, <2>1, <2>2, <2>3
<1>6. ASSUME NEW c \in Callers, CancelSettle(c)
      PROVE  Out(k)' \in part'
  <2>1. /\ cur[c] \in struck /\ cur[c] \in Jobs
        /\ part' = part \ {Out(cur[c])} /\ run' = run
    BY <1>6 DEF CancelSettle, removePart, Consistent, StrikingOK, Typed, TypeOK
  <2>2. rel[cur[c]] # None
    BY <2>1, ConstantsOK DEF Consistent, ExistOK
  <2>3. Out(k) # Out(cur[c])
    BY <1>1, <1>3, <2>1, <2>2 DEF Struck, Twins
  <2>. QED  BY <1>3, <2>1, <2>3
<1>7. ASSUME NEW j \in Jobs, RunStart(j) \/ RunPlanFail(j) \/ RunnerOk(j) \/ RunDone(j) \/ RunExit(j)
      PROVE  Out(k)' \in part'
  <2>1. /\ part' = part
        /\ run[k] \in {"encode", "rename"}
    BY <1>2, <1>7 DEF RunStart, RunPlanFail, RunnerOk, RunDone, RunExit, At, files
  <2>. QED  BY <1>3, <2>1
<1>8. CASE DispatchStart
  <2>1. part' = part /\ run[k] \in {"encode", "rename"}
    BY <1>2, <1>8 DEF DispatchStart, files
  <2>. QED  BY <1>3, <2>1
<1>9. ASSUME \A c \in Callers : ~ CancelSettle(c), \A j \in Jobs : ~ RunStep(j), ~ DispatchStart
      PROVE  UNCHANGED <<part, run>>
  BY <1>9, ZenonT(40)
  DEF Next, Enqueue, EnqueueStep, EnqueueStat, EnqueueClaim, EnqueueReturn, Cancel, CancelBatch,
      CancelStep, CancelNext, CancelTake, CancelSkip, CancelFinish,
      Dispatch, DispatchWake, DispatchPark,
      ShutdownInterrupt, ShutdownClose, ShutdownList, PageProbe, files, vars
<1>10. CASE UNCHANGED <<part, run>>
  BY <1>3, <1>10
<1>. QED  BY <1>4, <1>5, <1>6, <1>7, <1>8, <1>9, <1>10 DEF RunStep

(* The .part of a conversion stays where it is until the conversion renames or
   removes it, unless a Cancel struck a job for the same file. *)
THEOREM PartsStay == Spec => []PartIntact
<1>1. Init => PartIntact
  BY DEF Init, PartIntact
<1>2. Typed /\ Consistent /\ ClaimHeld /\ PartIntact /\ [Next]_vars => PartIntact'
  BY PartStep
<1>. QED  BY <1>1, <1>2, Invariance, ClaimsAreHeld, PTL DEF Spec

(* A file that is being written becomes the output only by the rename of
   another conversion to the same file. *)
LEMMA SettledStep ==
    ASSUME Typed, Consistent, ClaimHeld, OutputSettled, [Next]_vars
    PROVE  OutputSettled'
<1>. SUFFICES ASSUME NEW j \in Jobs, fd'[j] = "dst"
              PROVE  StruckLate(j)'
  BY DEF OutputSettled, StruckLate
<1>1. fd \in [Jobs -> {"none", "part", "dst", "gone"}]
  BY DEF Typed, TypeOK
<1>2. CASE fd[j] = "dst"
  BY <1>2, StruckForGood DEF OutputSettled, StruckLate
<1>3. CASE fd[j] # "dst"
  <2>1. ASSUME NEW i \in Jobs, RunRename(i)
        PROVE  StruckLate(j)
    <3>1. fd[j] = "part" /\ Out(j) = Out(i) /\ run[i] = "rename"
      BY <1>3, <2>1 DEF RunRename, At
    <3>2. run[j] = "encode"
      BY <3>1 DEF Consistent, WritingOK
    <3>3. Twins(j, i) /\ j \in Converting /\ i \in Converting
      BY <3>1, <3>2, ConstantsOK DEF Twins, Converting, Consistent, ExistOK
    <3>4. j \in Late \/ i \in Late
      BY <3>3, ConvertersDiffer
    <3>. QED  BY <3>3, <3>4 DEF StruckLate
  <2>2. ASSUME NEW i \in Jobs, RunStep(i), ~ RunRename(i)
        PROVE  FALSE
    BY <1>1, <1>3, <2>2
    DEF RunStep, RunStart, RunPlanFail, RunEncode, RunnerOk, RunnerFail, RunRenameFail,
        RunDone, RunExit, removePart, files
  <2>3. ASSUME NEW c \in Callers, CancelSettle(c)
        PROVE  FALSE
    BY <1>3, <2>3 DEF CancelSettle, removePart
  <2>4. ASSUME \A c \in Callers : ~ CancelSettle(c), \A i \in Jobs : ~ RunStep(i)
        PROVE  fd' = fd
    BY <2>4, ZenonT(40)
    DEF Next, Enqueue, EnqueueStep, EnqueueStat, EnqueueClaim, EnqueueReturn, Cancel, CancelBatch,
        CancelStep, CancelNext, CancelTake, CancelSkip, CancelFinish,
        Dispatch, DispatchWake, DispatchStart, DispatchPark,
        ShutdownInterrupt, ShutdownClose, ShutdownList, PageProbe, files, vars
  <2>. QED  BY <1>3, <2>1, <2>2, <2>3, <2>4, StruckForGood
<1>. QED  BY <1>2, <1>3

(* A finished file is not being written to, unless a job for it was struck in
   the dispatch window. *)
THEOREM OutputsSettle == Spec => []OutputSettled
<1>1. Init => OutputSettled
  BY DEF Init, OutputSettled
<1>2. Typed /\ Consistent /\ ClaimHeld /\ OutputSettled /\ [Next]_vars => OutputSettled'
  BY SettledStep
<1>. QED  BY <1>1, <1>2, Invariance, ClaimsAreHeld, PTL DEF Spec

-----------------------------------------------------------------------------
(* Order *)

(* Only a new job joins the queue, behind all that exist. *)
LEMMA QueueStep ==
    ASSUME Typed, Consistent, [Next]_vars, NEW i \in ToSet(pending')
    PROVE  i \in ToSet(pending) \/ i = made + 1
<1>1. ASSUME NEW c \in Callers, EnqueueClaim(c)
      PROVE  i \in ToSet(pending) \/ i = made + 1
  <2>1. made + 1 \in Jobs /\ pending \in Seq(Jobs)
    BY <1>1, TailOfTodo DEF EnqueueClaim, Typed, TypeOK, TodoOK
  <2>2. pending' = pending \/ pending' = Append(pending, made + 1)
    BY <1>1 DEF EnqueueClaim, queue
  <2>3. ToSet(Append(pending, made + 1)) = ToSet(pending) \cup {made + 1}
    BY <2>1, AppendElements
  <2>4. ToSet(pending') \in {ToSet(pending), ToSet(pending) \cup {made + 1}}
    BY <2>2, <2>3, ZenonT(40)
  <2>. QED  BY <2>4
<1>2. ASSUME NEW c \in Callers, NEW j, NEW rest, CancelTake(c, j, rest)
      PROVE  i \in ToSet(pending)
  BY <1>2, RemovePendingElements DEF CancelTake
<1>3. CASE DispatchStart
  <2>1. pickLocked \in 1 .. Len(pending) /\ pending \in Seq(Nat) /\ Increasing(pending)
    BY <1>3, PickProps, ConstantsOK
    DEF DispatchStart, CanStart, Typed, TypeOK, Jobs, Consistent, PendingOK
  <2>. QED  BY <1>3, <2>1, RemoveAtElements DEF DispatchStart
<1>4. ASSUME \A c \in Callers : ~ EnqueueClaim(c), ~ DispatchStart,
             \A c \in Callers : \A j, rest : ~ CancelTake(c, j, rest)
      PROVE  pending' = pending
  BY <1>4, ZenonT(40)
  DEF Next, Enqueue, EnqueueStep, EnqueueStat, EnqueueReturn, Cancel, CancelBatch,
      CancelStep, CancelNext, CancelSkip, CancelFinish, CancelSettle,
      Dispatch, DispatchWake, DispatchPark, RunStep, RunStart, RunPlanFail, RunEncode, RunnerOk,
      RunnerFail, RunRename, RunRenameFail, RunDone, RunExit,
      ShutdownInterrupt, ShutdownClose, ShutdownList, PageProbe, queue, vars
<1>. QED  BY <1>1, <1>2, <1>3, <1>4

(* Only the dispatcher starts a job, and takes one to be encoded only from the
   head of the queue. *)
LEMMA StartFromHead ==
    ASSUME Typed, Consistent, [Next]_vars, NEW k \in Jobs, run[k] = "none", run'[k] # "none",
           rel[k] \notin RemuxRels, NEW i \in ToSet(pending')
    PROVE  i > k
<1> DEFINE j == pending[pickLocked]
<1>1. run \in [Jobs -> RunSteps]
  BY DEF Typed, TypeOK
<1>2. DispatchStart
  <2>1. ASSUME NEW x \in Jobs, RunStep(x)
        PROVE  FALSE
    <3>1. run[x] # "none" /\ \E s : run' = [run EXCEPT ![x] = s]
      BY <2>1
      DEF RunStep, RunStart, RunPlanFail, RunEncode, RunnerOk, RunnerFail, RunRename,
          RunRenameFail, RunDone, RunExit, At
    <3>. QED  BY <1>1, <3>1
  <2>2. ASSUME \A x \in Jobs : ~ RunStep(x), ~ DispatchStart
        PROVE  run' = run
    <3>1. ASSUME NEW c \in Callers, EnqueueStep(c) \/ CancelStep(c)
          PROVE  run' = run
      <4>1. CASE EnqueueStat(c) \/ EnqueueClaim(c) \/ EnqueueReturn(c)
        BY <4>1, Zenon DEF EnqueueStat, EnqueueClaim, EnqueueReturn
      <4>2. CASE CancelNext(c) \/ CancelSkip(c)
        BY <4>2, Zenon DEF CancelNext, CancelTake, CancelSkip
      <4>3. CASE CancelFinish(c) \/ CancelSettle(c)
        BY <4>3, Zenon DEF CancelFinish, CancelSettle
      <4>. QED  BY <3>1, <4>1, <4>2, <4>3 DEF EnqueueStep, CancelStep
    <3>2. ASSUME NEW c \in Callers, NEW x \in Jobs, Cancel(c, x) \/ CancelBatch(c, x)
          PROVE  run' = run
      BY <3>2, Zenon DEF Cancel, CancelBatch, CancelTake
    <3>3. ASSUME NEW c \in Callers, NEW list \in Requests, Enqueue(c, list)
          PROVE  run' = run
      BY <3>3, Zenon DEF Enqueue
    <3>4. CASE Dispatch
      BY <2>2, <3>4, Zenon DEF Dispatch, DispatchWake, DispatchPark
    <3>5. ASSUME NEW x \in Jobs, ShutdownInterrupt(x)
          PROVE  run' = run
      BY <3>5, Zenon DEF ShutdownInterrupt
    <3>6. CASE ShutdownClose \/ ShutdownList \/ (\E r \in Rels : PageProbe(r)) \/ UNCHANGED vars
      BY <3>6, Zenon DEF ShutdownClose, ShutdownList, PageProbe, vars
    <3>. QED  BY <2>2, <3>1, <3>2, <3>3, <3>4, <3>5, <3>6, Zenon DEF Next
  <2>. QED  BY <2>1, <2>2
<1>3. /\ pickLocked \in 1 .. Len(pending) /\ pending \in Seq(Nat) /\ Increasing(pending)
      /\ Copies # {} => pickLocked \in Copies
      /\ Copies = {} => pickLocked = 1
  <2>1. pending # <<>>
    BY <1>2 DEF DispatchStart, CanStart
  <2>2. pending \in Seq(Nat) /\ Increasing(pending)
    BY ConstantsOK DEF Typed, TypeOK, Jobs, Consistent, PendingOK
  <2>. QED  BY <2>1, <2>2, PickProps DEF Typed
<1>4. k = j /\ pending' = RemoveAt(pending, pickLocked)
  BY <1>1, <1>2 DEF DispatchStart
<1>5. rel[j] \notin probed
  BY <1>4 DEF Typed, TypeOK
<1>6. pickLocked \notin Copies
  BY <1>5 DEF Copies, copyOnly
<1>7. pickLocked = 1 /\ k = pending[1]
  BY <1>3, <1>4, <1>6
<1>8. i \in ToSet(pending) /\ i # k
  BY <1>3, <1>4, RemoveAtElements
<1>9. PICK x \in 1 .. Len(pending) : pending[x] = i
  BY <1>3, <1>8 DEF ToSet
<1>10. x > 1 /\ pending[1] \in Nat /\ pending[x] \in Nat
  BY <1>3, <1>7, <1>8, <1>9
<1>. QED  BY <1>3, <1>7, <1>9, <1>10 DEF Increasing

LEMMA OrderStep ==
    ASSUME Typed, Consistent, EncodesInOrder, [Next]_vars
    PROVE  EncodesInOrder'
<1>. SUFFICES ASSUME NEW k \in Created', run'[k] # "none", rel'[k] \notin RemuxRels,
                     NEW i \in ToSet(pending')
              PROVE  i > k
  BY DEF EncodesInOrder
<1>1. k \in Jobs /\ made \in Nat
  <2>1. TypeOK'
    BY TypedStep DEF Typed
  <2>. QED  BY <2>1, ConstantsOK DEF TypeOK, Created, Jobs, Typed
<1>2. CASE run[k] # "none"
  <2>1. k \in Created /\ rel'[k] = rel[k]
    BY <1>1, <1>2, NothingUndone, ConstantsOK DEF Consistent, ExistOK, Created, Jobs
  <2>2. CASE i \in ToSet(pending)
    BY <1>2, <2>1, <2>2 DEF EncodesInOrder
  <2>3. CASE i = made + 1
    BY <1>1, <2>1, <2>3 DEF Created
  <2>. QED  BY <2>2, <2>3, QueueStep
<1>3. CASE run[k] = "none"
  <2>1. rel[k] \notin RemuxRels
    BY <1>1, NothingUndone, ConstantsOK DEF Consistent, ExistOK
  <2>. QED  BY <1>1, <1>3, <2>1, StartFromHead
<1>. QED  BY <1>2, <1>3

(* Jobs that must be encoded start in order of arrival. *)
THEOREM EncodesStartInOrder == Spec => []EncodesInOrder
<1>1. Init => EncodesInOrder
  BY ConstantsOK DEF Init, EncodesInOrder, Created
<1>2. Typed /\ Consistent /\ EncodesInOrder /\ [Next]_vars => EncodesInOrder'
  BY OrderStep
<1>. QED  BY <1>1, <1>2, Invariance, PTL DEF Spec

=============================================================================
