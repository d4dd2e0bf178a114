---------------------------- MODULE NotifyProofs ----------------------------
(***************************************************************************)
(* Proofs about Notify, for any batches, subscribers, buffers and number   *)
(* of restarts.                                                            *)
(***************************************************************************)
EXTENDS Notify, SeqFacts

-----------------------------------------------------------------------------
(* Types, group by group of the variables that change together *)

Events  == [kind : {"state", "progress", "checkpoint"}, job : Jobs, st : JobStates]
Prompts == [batch : Batches, live : BOOLEAN, late : BOOLEAN, boot : Nat]

Places  == {"none", "dispatched", "started", "encode", "reached", "prompt", "ended"}

\* What run has made is an event of its job, of the kind it sends where it is.
SaysRight(j) ==
    says[j] \in Events /\ says[j].job = j /\ run[j] \in DOMAIN Telling /\ says[j].kind = Telling[run[j]]

QueueTyped ==
    /\ st \in [Jobs -> JobStates]
    /\ run \in [Jobs -> Places] /\ says \in [Jobs -> Events \cup {None}]
    /\ \A j \in Jobs : says[j] # None => SaysRight(j)
    /\ flag \subseteq Batches /\ telling \in Seq(Jobs)
    /\ \/ hand = None
       \/ /\ hand \in Events /\ hand.kind = "state"
          /\ telling # <<>> /\ hand.job = Head(telling)

ProcessTyped ==
    /\ file \in [todo : SUBSET Jobs, flags : SUBSET Batches]
    /\ phase \in {"restore", "up", "down"} /\ mark \in Batches \cup {None} /\ boots \in Nat
    /\ restoring \in [jobs : [Batches -> SUBSET Jobs], flags : SUBSET Batches]
    /\ \A b \in Batches : restoring.jobs[b] \subseteq ToSet(JobsOf[b])

StreamTyped ==
    /\ subs \subseteq Subscribers /\ chan \in [Subscribers -> Seq(Events)]
    /\ \A s \in Subscribers : Len(chan[s]) <= Buffer

PagesTyped ==
    page \in [Pages -> {"off", "subscribed", "open"}] /\ shown \in [Pages -> [Jobs -> JobStates]]

\* A message the watcher or the poller has at hand is one Telegram holds.
WatchTyped ==
    /\ watcher \in [at : {"off", "idle", "send", "store", "summary", "edit"},
                    b : Batches \cup {None}, id : 1 .. MaxChat \cup {None}]
    /\ watcher.at \in {"send", "store", "summary", "edit"} => watcher.b \in Batches
    /\ watcher.at \in {"store", "edit"} => watcher.id # None
    /\ watcher.id # None => watcher.id <= Len(chat)
    /\ messages \in [Batches -> 1 .. MaxChat \cup {None}]
    /\ \A b \in Batches : messages[b] # None => messages[b] <= Len(chat)
    /\ poller.at = "edit" => poller.id \in 1 .. Len(chat)
    /\ reported \subseteq Batches /\ chat \in Seq(Prompts)

Pollers == [at : {"poll", "take", "cancel", "settle", "view", "tell", "edit"}, got : Seq(Nat),
            left : Seq(Jobs), id : 1 .. MaxChat \cup {None}, ev : Events \cup {None}]

\* The poller holds presses of those Telegram has, and jobs of the queue.
PollerTyped ==
    /\ poller \in Pollers
    /\ ToSet(poller.got) \subseteq 1 .. Len(presses)
    /\ poller.at = "poll" <=> poller.got = <<>>
    /\ poller.at \in {"settle", "view", "tell"} => poller.left # <<>>
    /\ poller.at = "tell" =>
         poller.ev \in Events /\ poller.ev.kind = "state" /\ poller.ev.job = Head(poller.left)
    /\ presses \in Seq(Batches) /\ offset \in 0 .. Len(presses) + 1 /\ acked \in 0 .. Len(presses)

-----------------------------------------------------------------------------
(* Where the goroutines may be *)

\* Nobody listens to a process that is not up, and nothing is left of one that is down.
Quiet ==
    /\ phase # "up" => /\ subs = {} /\ watcher.at = "off" /\ poller.at = "poll"
                       /\ telling = <<>> /\ hand = None
    /\ phase = "down" => flag = {} /\ reported = {} /\ \A j \in Jobs : st[j] = "absent"
    /\ mark # None => phase = "restore"
    /\ phase # "restore" => \A b \in Batches : restoring.jobs[b] = {}
    /\ watcher.at = "off" => Notifier \notin subs /\ chan[Notifier] = <<>>

\* How far the goroutine of a job is says how far the job is, but for a Cancel that settles
\* it meanwhile.
Stage(j) ==
    /\ run[j] = "dispatched" => st[j] \in {"queued", "failed"}
    /\ run[j] \in {"started", "encode", "reached", "prompt"} => st[j] \in {"running", "failed"}
    /\ run[j] = "ended" => Terminal(st[j]) /\ (says[j] # None => Terminal(says[j].st))

Cancelling == poller.at \in {"settle", "view", "tell"}

Stages ==
    /\ \A j \in Jobs : Stage(j)
    /\ \A b \in Batches : \A j \in restoring.jobs[b] : st[j] = "absent"
    /\ Cancelling => st[Head(poller.left)] # "absent"

\* Of a job that Cancel did not take for queued after its dispatch, one goroutine speaks.
Apart(j) ==
    j \notin struck =>
        /\ says[j] = None
        /\ Cancelling /\ Head(poller.left) = j =>
             /\ run[j] = "none"
             /\ st[j] = IF poller.at = "settle" THEN "queued" ELSE "failed"
             /\ poller.at = "tell" => poller.ev.st = "failed"

-----------------------------------------------------------------------------
(* One prompt: where the prompt of a batch may be, and what remembers it *)

Of(b, i)   == chat[i].batch = b
Asks(b, j) == run[j] = "prompt" /\ BatchOf(j) = b
Asking(b)  == \E j \in Jobs : Asks(b, j)
IsTold(b, k) == chan[Notifier][k].kind = "checkpoint" /\ BatchOf(chan[Notifier][k].job) = b
Told(b)    == \E k \in DOMAIN chan[Notifier] : IsTold(b, k)
Sending(b) == watcher.at = "send" /\ watcher.b = b
IsSent(b, i) == Of(b, i) /\ chat[i].boot = boots
Sent(b)    == \E i \in DOMAIN chat : IsSent(b, i)
Past(b)    == \E i \in DOMAIN chat : Of(b, i) /\ chat[i].boot # boots

OneAsked(b) == \A j, k \in Jobs : Asks(b, j) /\ Asks(b, k) => j = k
OneTold(b)  == \A i, k \in DOMAIN chan[Notifier] : IsTold(b, i) /\ IsTold(b, k) => i = k
OneSent(b)  == \A i, k \in DOMAIN chat : IsSent(b, i) /\ IsSent(b, k) => i = k

\* In one life of the process a prompt is in one place at most, with the batch flagged in
\* memory and in the file.
InOnePlace(b) ==
    /\ OneAsked(b) /\ OneTold(b) /\ OneSent(b)
    /\ Asking(b) => ~Told(b) /\ ~Sending(b) /\ ~Sent(b)
    /\ Told(b) => ~Sending(b) /\ ~Sent(b)
    /\ Sending(b) => ~Sent(b)
    /\ phase # "down" /\ (Asking(b) \/ Told(b) \/ Sending(b) \/ Sent(b))
         => b \in flag /\ b \in file.flags

\* Over several lives: a batch prompted for in an earlier one is flagged before it is known
\* again, or about to be; the file says so for as long as there is something of it to restore.
Marked(b) ==
    /\ \A i, k \in DOMAIN chat : Of(b, i) /\ Of(b, k) => i = k
    /\ Past(b) => ~Asking(b) /\ ~Told(b) /\ ~Sending(b)
    /\ Past(b) /\ phase # "down" /\ Known(b) => b \in flag \/ b = mark
    /\ Past(b) /\ restoring.jobs[b] # {} => b \in restoring.flags
    /\ (\E i \in DOMAIN chat : Of(b, i)) /\ file.todo \cap ToSet(JobsOf[b]) # {}
         => b \in file.flags \/ (phase # "down" /\ Known(b))

BootsInOrder == \A i \in DOMAIN chat : chat[i].boot <= boots
PromptInv == /\ BootsInOrder /\ \A b \in Batches : InOnePlace(b)
             /\ \A b \in Batches \ unmarked : Marked(b)

-----------------------------------------------------------------------------
(* The end of a batch *)

\* An event that says a job of b has ended waits for the notifier.
Awaited(b) ==
    \E k \in DOMAIN chan[Notifier] :
        /\ chan[Notifier][k].kind = "state" /\ Terminal(chan[Notifier][k].st)
        /\ BatchOf(chan[Notifier][k].job) = b

\* Something of b is still going on, or to be said, or heard, or b was summarised, or its
\* end was missed.
Followed(b) ==
    \/ Active(b) \/ b \in reported \cup missed \/ Awaited(b)
    \/ \E k \in Jobs : run[k] = "ended" /\ BatchOf(k) = b
    \/ poller.at = "view" /\ BatchOf(Head(poller.left)) = b
    \/ poller.at = "tell" /\ Terminal(poller.ev.st) /\ BatchOf(Head(poller.left)) = b

\* A batch that has ended jobs is followed.
EndHeard == \A j \in Jobs : Terminal(st[j]) => Followed(BatchOf(j))

\* A live button of this life belongs to somebody who will take it away.
Owned(i) ==
    LET b == chat[i].batch
    IN  \/ messages[b] = i /\ b \notin reported
        \/ watcher.at = "store" /\ watcher.id = i /\ b \notin reported
        \/ watcher.at \in {"summary", "edit"} /\ watcher.id = i
        \/ poller.at = "edit" /\ poller.id = i

ButtonsOwned ==
    /\ watcher.at = "store" =>
         /\ chat[watcher.id].batch = watcher.b /\ chat[watcher.id].boot = boots
    /\ phase # "down" =>
         \A i \in DOMAIN chat :
            chat[i].live /\ ~chat[i].late /\ chat[i].boot = boots /\ chat[i].batch \notin failed
                => Owned(i)

-----------------------------------------------------------------------------
(* The picture a page has *)

Fits(j, s) == s = st[j] \/ \E ev \in overtaken : ev.job = j /\ ev.st = s

\* Of the events in c, the k-th repaints j; it is the last to do so; none does.
Paints(c, j, k)   == c[k].kind # "checkpoint" /\ c[k].job = j
LastWord(c, j, k) == Paints(c, j, k) /\ \A m \in DOMAIN c : m > k => ~Paints(c, j, m)
Silent(c, j)      == \A k \in DOMAIN c : ~Paints(c, j, k)

\* What p will show of j once it has read all there is for it.
WillShow(p, j) ==
    \/ \E k \in DOMAIN chan[p] : LastWord(chan[p], j, k) /\ Fits(j, chan[p][k].st)
    \/ Silent(chan[p], j) /\ (page[p] = "subscribed" \/ Fits(j, shown[p][j]))

PictureInv == \A p \in Pages \cap subs, j \in Jobs : ToTell(j) \/ WillShow(p, j)

Typed == QueueTyped /\ ProcessTyped /\ StreamTyped /\ PagesTyped /\ WatchTyped /\ PollerTyped

-----------------------------------------------------------------------------
(* Facts about jobs, events and channels *)

(* Every job is of one batch. *)
LEMMA OneBatch ==
    ASSUME NEW j \in Jobs
    PROVE  /\ BatchOf(j) \in Batches /\ j \in ToSet(JobsOf[BatchOf(j)])
           /\ \A b \in Batches : j \in ToSet(JobsOf[b]) => b = BatchOf(j)
<1>1. \E b \in Batches : j \in ToSet(JobsOf[b])
  BY ConstantsOK
<1>2. BatchOf(j) \in Batches /\ j \in ToSet(JobsOf[BatchOf(j)])
  BY <1>1 DEF BatchOf
<1>. QED  BY <1>2, ConstantsOK

LEMMA JobsOfBatch ==
    ASSUME NEW b \in Batches
    PROVE  /\ JobsOf[b] \in Seq(Jobs) /\ ToSet(JobsOf[b]) \subseteq Jobs
           /\ Members(b) \in Seq(Jobs)
           /\ ToSet(Members(b)) = {j \in ToSet(JobsOf[b]) : st[j] # "absent"}
<1>1. JobsOf[b] \in Seq(Jobs)
  BY ConstantsOK
<1>2. ToSet(JobsOf[b]) \subseteq Jobs
  BY <1>1 DEF ToSet
<1> DEFINE absent == {j \in Jobs : st[j] = "absent"}
<1>3. Members(b) \in Seq(Jobs) /\ ToSet(Members(b)) = ToSet(JobsOf[b]) \ absent
  BY <1>1, WithoutElements DEF Members
<1>. QED  BY <1>1, <1>2, <1>3

(* A batch is known when one of its jobs is. *)
LEMMA KnownBatch ==
    ASSUME NEW b \in Batches
    PROVE  Known(b) <=> \E j \in ToSet(JobsOf[b]) : st[j] # "absent"
<1>1. /\ Members(b) \in Seq(Jobs)
      /\ ToSet(Members(b)) = {j \in ToSet(JobsOf[b]) : st[j] # "absent"}
  BY JobsOfBatch
<1>2. Members(b) = <<>> => ToSet(Members(b)) = {}
  BY DEF ToSet
<1>3. Members(b) # <<>> => Head(Members(b)) \in ToSet(Members(b))
  BY <1>1, TailElements
<1>. QED  BY <1>1, <1>2, <1>3 DEF Known

(* emit puts the event at the end of the channels of those who have room, and no more. *)
LEMMA Emits ==
    ASSUME StreamTyped, NEW ev \in Events, emit(ev)
    PROVE  /\ StreamTyped' /\ subs' \subseteq subs
           /\ \A s \in Subscribers \ (subs \cap subs') : chan'[s] = chan[s]
           /\ \A s \in Subscribers :
                \/ chan'[s] = chan[s] /\ (s \in subs' => ev.kind = "progress")
                \/ s \in subs' /\ chan'[s] = Append(chan[s], ev)
<1> DEFINE full == {s \in subs : Full(s)}
<1>1. /\ subs' = subs \ Cut(full, ev)
      /\ chan' = [s \in Subscribers |->
                    IF s \in subs \ full THEN Append(chan[s], ev) ELSE chan[s]]
  BY DEF emit
<1>2. ASSUME NEW s \in Subscribers
      PROVE  /\ chan'[s] \in Seq(Events) /\ Len(chan'[s]) <= Buffer
             /\ s \notin subs => chan'[s] = chan[s]
             /\ \/ chan'[s] = chan[s] /\ (s \in subs' => ev.kind = "progress" \/ s \notin subs)
                \/ s \in subs' /\ chan'[s] = Append(chan[s], ev)
  <2>1. chan[s] \in Seq(Events) /\ Len(chan[s]) <= Buffer /\ Buffer \in Nat
    BY ConstantsOK DEF StreamTyped
  <2>2. CASE s \in subs \ full
    <3>1. /\ chan'[s] = Append(chan[s], ev) /\ s \in subs' /\ Len(chan[s]) # Buffer
      BY <1>1, <2>2 DEF Cut, Full
    <3>. QED  BY <2>1, <2>2, <3>1, AppendProperties
  <2>3. CASE s \notin subs \ full
    BY <1>1, <2>1, <2>3 DEF Cut
  <2>. QED  BY <2>2, <2>3
<1>3. StreamTyped' /\ subs' \subseteq subs
  BY <1>1, <1>2 DEF StreamTyped, Cut
<1>. QED  BY <1>2, <1>3

-----------------------------------------------------------------------------
(* Types *)

LEMMA InitTyped == Init => Typed
<1>1. SUFFICES ASSUME Init PROVE Typed
  OBVIOUS
<1>2. /\ <<>> \in Seq(Jobs) /\ <<>> \in Seq(Nat) /\ <<>> \in Seq(Events) /\ <<>> \in Seq(Batches)
      /\ Len(<<>>) = 0 /\ ToSet(<<>>) = {}
  BY DEF ToSet
<1>3. QueueTyped
  BY <1>1, <1>2 DEF Init, QueueTyped, JobStates, Places
<1>4. ProcessTyped
  <2>1. /\ phase \in {"restore", "up", "down"} /\ mark \in Batches \cup {None} /\ boots \in Nat
        /\ file \in [todo : SUBSET Jobs, flags : SUBSET Batches]
    <3>1. \A b \in Batches : ToSet(JobsOf[b]) \subseteq Jobs
      BY JobsOfBatch
    <3>. QED  BY <1>1, <3>1, ConstantsOK DEF Init, Fresh
  <2>. QED  BY <1>1, <2>1 DEF Init, ProcessTyped, Nothing
<1>5. StreamTyped
  BY <1>1, <1>2, ConstantsOK DEF Init, StreamTyped, NoOne
<1>6. PagesTyped
  BY <1>1 DEF Init, PagesTyped, Blank, JobStates
<1>7. WatchTyped
  <2>1. chat \in Seq(Prompts)
    <3>1. CASE chat = <<>>
      BY <3>1
    <3>2. ASSUME NEW b \in Batches,
                 chat = <<[batch |-> b, live |-> TRUE, late |-> FALSE, boot |-> 0]>>
          PROVE  chat \in Seq(Prompts)
      <4>1. [batch |-> b, live |-> TRUE, late |-> FALSE, boot |-> 0] \in Prompts
        BY DEF Prompts
      <4>. QED  BY <3>2, <4>1
    <3>. QED  BY <1>1, <3>1, <3>2 DEF Init
  <2>. QED  BY <1>1, <2>1 DEF Init, WatchTyped, Asleep, Polling
<1>8. PollerTyped
  BY <1>1, <1>2 DEF Init, PollerTyped, Polling, Pollers
<1>. QED  BY <1>3, <1>4, <1>5, <1>6, <1>7, <1>8 DEF Typed

LEMMA QueueTypes ==
    ASSUME Typed, [Next]_vars
    PROVE  QueueTyped'
<1> USE DEF Typed, QueueTyped, SaysRight, queue, JobStates, Places
<1>1. ASSUME NEW b \in Batches, Enqueue(b)
      PROVE  QueueTyped'
  <2>1. JobsOf[b] \in Seq(Jobs) /\ telling' = JobsOf[b]
    BY <1>1, JobsOfBatch DEF Enqueue
  <2>. QED  BY <1>1, <2>1 DEF Enqueue, Create
<1>2. CASE EnqueueView
  <2>1. Head(telling) \in Jobs /\ telling # <<>>
    BY <1>2, HeadAndRest DEF EnqueueView
  <2>2. hand' = Event("state", Head(telling), st[Head(telling)]) /\ st[Head(telling)] \in JobStates
    BY <1>2, <2>1 DEF EnqueueView
  <2>3. hand' \in Events /\ hand'.kind = "state" /\ hand'.job = Head(telling)
    BY <2>1, <2>2 DEF Events, Event
  <2>. QED  BY <1>2, <2>1, <2>3 DEF EnqueueView
<1>3. CASE EnqueueEmit
  <2>1. telling \in Seq(Jobs) /\ telling # <<>>
    BY <1>3 DEF EnqueueEmit
  <2>2. telling' \in Seq(Jobs)
    BY <1>3, <2>1, HeadAndRest DEF EnqueueEmit
  <2>. QED  BY <1>3, <2>2 DEF EnqueueEmit
<1>4. ASSUME NEW j \in Jobs, RunStep(j)
      PROVE  QueueTyped'
  <2>0. /\ BatchOf(j) \in Batches /\ telling \in Seq(Jobs)
        /\ DOMAIN Telling = {"started", "encode", "prompt", "ended"}
        /\ \A w \in DOMAIN Telling : Telling[w] \in {"state", "progress", "checkpoint"}
    BY OneBatch DEF Telling
  <2>1. CASE RunDispatch(j) \/ RunStart(j)
    BY <1>4, <2>0, <2>1 DEF RunDispatch, RunStart, Pending
  <2>2. CASE RunView(j)
    <3>1. View(j) \in Events /\ View(j).job = j /\ View(j).kind = Telling[run[j]]
      BY <2>0, <2>2 DEF RunView, View, Event, Events
    <3>. QED  BY <2>0, <2>2, <3>1 DEF RunView
  <2>3. ASSUME NEW from \in Places, NEW to \in Places, RunEmit(j, from, to)
        PROVE  QueueTyped'
    BY <2>0, <2>3 DEF RunEmit
  <2>4. CASE maybeCheckpoint(j)
    BY <2>0, <2>4 DEF maybeCheckpoint
  <2>5. CASE RunFinish(j)
    BY <2>0, <2>5 DEF RunFinish
  <2>. QED  BY <1>4, <2>1, <2>2, <2>3, <2>4, <2>5
            DEF RunStep, StartEmit, onProgress, CheckpointEmit, RunExit
<1>5. ASSUME NEW b \in Batches, RestoreEnqueue(b)
      PROVE  QueueTyped'
  BY <1>5 DEF RestoreEnqueue
<1>6. CASE RestoreMark
  BY <1>6 DEF RestoreMark, ProcessTyped
<1>7. CASE Crash
  BY <1>7 DEF Crash
<1>8. CASE CancelFinish
  <2>1. UNCHANGED <<run, says, flag, telling, hand>>
    BY <1>8 DEF CancelFinish
  <2>2. st' = [st EXCEPT ![Head(poller.left)] = "failed"]
    BY <1>8 DEF CancelFinish
  <2>. QED  BY <2>1, <2>2
<1>9. ASSUME UNCHANGED queue
      PROVE  QueueTyped'
  BY <1>9
<1>10. CASE RestoreEnd \/ Boot
  BY <1>9, <1>10 DEF RestoreEnd, Boot
<1>11. CASE Watch
  BY <1>9, <1>11 DEF Watch, WatcherSubscribe, WatcherCut, ReadProgress, onCheckpoint, onState,
              WatcherTake, Send, StoreMessage, SendSummary, EditAtEnd
<1>12. CASE getUpdates \/ CancelBatch \/ CancelNext \/ CancelView \/ CancelTell \/ onCallback \/ EditStopped
  BY <1>9, <1>12 DEF getUpdates, CancelBatch, CancelNext, CancelView, CancelTell, onCallback, EditStopped
<1>13. ASSUME NEW p \in Pages, PageStep(p)
       PROVE  QueueTyped'
  BY <1>9, <1>13 DEF PageStep, PageConnect, PageSnapshot, PageRead, PageEnd
<1>14. ASSUME NEW b \in Batches, Press(b)
       PROVE  QueueTyped'
  BY <1>9, <1>14 DEF Press
<1>15. CASE UNCHANGED vars
  BY <1>9, <1>15 DEF vars
<1>. QED  BY <1>1, <1>2, <1>3, <1>4, <1>5, <1>6, <1>7, <1>8, <1>10, <1>11, <1>12, <1>13, <1>14,
              <1>15 DEF Next, Announce, Restore, Poll

LEMMA ProcessTypes ==
    ASSUME Typed, [Next]_vars
    PROVE  ProcessTyped'
<1> USE DEF Typed, ProcessTyped, process, save
<1>1. ASSUME NEW j \in Jobs, RunStep(j)
      PROVE  ProcessTyped'
  <2>1. BatchOf(j) \in Batches
    BY OneBatch
  <2>2. CASE maybeCheckpoint(j)
    <3>1. UNCHANGED <<phase, restoring, mark, boots>>
      BY <2>2 DEF maybeCheckpoint
    <3>2. file' = file \/ file' = [todo |-> {k \in Jobs : st[k] \in {"queued", "running"}},
                                 flags |-> flag \cup {BatchOf(j)}]
      BY <2>2 DEF maybeCheckpoint
    <3>. QED  BY <2>1, <3>1, <3>2 DEF QueueTyped
  <2>3. CASE RunExit(j)
    BY <2>3 DEF RunExit, RunEmit, QueueTyped
  <2>4. CASE RunDispatch(j) \/ RunStart(j) \/ RunView(j) \/ StartEmit(j) \/ onProgress(j)
             \/ CheckpointEmit(j) \/ RunFinish(j)
    BY <2>4 DEF RunDispatch, RunStart, RunView, StartEmit, onProgress, CheckpointEmit, RunEmit, RunFinish
  <2>. QED  BY <1>1, <2>2, <2>3, <2>4 DEF RunStep
<1>2. CASE EnqueueEmit
  BY <1>2 DEF EnqueueEmit, QueueTyped
<1>3. ASSUME NEW b \in Batches, RestoreEnqueue(b)
      PROVE  ProcessTyped'
  BY <1>3 DEF RestoreEnqueue, QueueTyped, MarkIf
<1>4. CASE RestoreMark
  BY <1>4 DEF RestoreMark
<1>5. CASE RestoreEnd
  BY <1>5 DEF RestoreEnd, Nothing
<1>6. CASE Crash
  BY <1>6 DEF Crash, Nothing
<1>7. CASE Boot
  BY <1>7 DEF Boot
<1>8. CASE CancelTell
  BY <1>8 DEF CancelTell, QueueTyped
<1>9. CASE Watch
  BY <1>9 DEF Watch, WatcherSubscribe, WatcherCut, ReadProgress, onCheckpoint, onState,
              WatcherTake, Send, StoreMessage, SendSummary, EditAtEnd
<1>10. CASE getUpdates \/ CancelBatch \/ CancelNext \/ CancelFinish \/ CancelView \/ onCallback \/ EditStopped \/ EnqueueView
  BY <1>10 DEF getUpdates, CancelBatch, CancelNext, CancelFinish, CancelView, onCallback, EditStopped, EnqueueView
<1>11. ASSUME NEW p \in Pages, PageStep(p)
       PROVE  ProcessTyped'
  BY <1>11 DEF PageStep, PageConnect, PageSnapshot, PageRead, PageEnd
<1>12. ASSUME NEW b \in Batches, Press(b) \/ Enqueue(b)
       PROVE  ProcessTyped'
  BY <1>12 DEF Press, Enqueue
<1>13. CASE UNCHANGED vars
  BY <1>13 DEF vars
<1>. QED  BY <1>1, <1>2, <1>3, <1>4, <1>5, <1>6, <1>7, <1>8, <1>9, <1>10, <1>11, <1>12, <1>13
          DEF Next, Announce, Restore, Poll

(* The events there are. *)
LEMMA EventTyped ==
    ASSUME NEW kind \in {"state", "progress", "checkpoint"}, NEW j \in Jobs, NEW s \in JobStates
    PROVE  /\ Event(kind, j, s) \in Events /\ Event(kind, j, s).kind = kind
           /\ Event(kind, j, s).job = j /\ Event(kind, j, s).st = s
BY DEF Event, Events

\* The steps in which run sends what it has to say.
Emitting(j) == StartEmit(j) \/ onProgress(j) \/ CheckpointEmit(j) \/ RunExit(j)

(* What run sends is an event of its job, of the kind of the place where run is. *)
LEMMA Words ==
    ASSUME Typed, NEW j \in Jobs, run[j] \in DOMAIN Telling
    PROVE  /\ Word(j) \in Events /\ Word(j).job = j /\ Word(j).kind = Telling[run[j]]
           /\ Word(j).st = IF says[j] = None THEN st[j] ELSE says[j].st
<1>1. st[j] \in JobStates /\ Telling[run[j]] \in {"state", "progress", "checkpoint"}
  BY DEF Typed, QueueTyped, Telling
<1>2. View(j) \in Events /\ View(j).job = j /\ View(j).kind = Telling[run[j]] /\ View(j).st = st[j]
  BY <1>1, EventTyped DEF View
<1>. QED  BY <1>2 DEF Word, Typed, QueueTyped, SaysRight

(* A step of run that sends sends its word, and changes nothing else of the queue. *)
LEMMA RunSends ==
    ASSUME Typed, NEW j \in Jobs, Emitting(j)
    PROVE  /\ emit(Word(j)) /\ OvertakeStruck(Word(j)) /\ run[j] \in DOMAIN Telling
           /\ Word(j) \in Events /\ Word(j).job = j /\ Word(j).kind = Telling[run[j]]
           /\ Word(j).st = IF says[j] = None THEN st[j] ELSE says[j].st
           /\ says' = [says EXCEPT ![j] = None]
           /\ run' = [run EXCEPT ![j] = run'[j]] /\ run'[j] \in {"none", "encode", "reached"}
           /\ run[j] = "ended" <=> RunExit(j)
           /\ run[j] = "prompt" <=> CheckpointEmit(j)
           /\ run'[j] = "none" <=> run[j] = "ended"
           /\ UNCHANGED <<st, flag, telling, hand, phase, restoring, mark, boots, pages, notify, polling,
                          service, audience, unmarked>>
           /\ file' = file \/ (RunExit(j) /\ save(st, flag))
<1>0. DOMAIN Telling = {"started", "encode", "prompt", "ended"}
  BY DEF Telling
<1>1. ASSUME NEW from \in DOMAIN Telling, NEW to \in {"none", "encode", "reached"}, RunEmit(j, from, to)
      PROVE  /\ emit(Word(j)) /\ OvertakeStruck(Word(j)) /\ run[j] = from
             /\ says' = [says EXCEPT ![j] = None] /\ run' = [run EXCEPT ![j] = run'[j]]
             /\ run'[j] = to
             /\ UNCHANGED <<st, flag, telling, hand, phase, restoring, mark, boots, pages, notify,
                            polling, service, audience, unmarked>>
  BY <1>1 DEF RunEmit, Typed, QueueTyped
<1>2. CASE StartEmit(j)
  BY <1>0, <1>1, <1>2, Words DEF StartEmit, CheckpointEmit, RunExit, RunEmit
<1>3. CASE onProgress(j)
  BY <1>0, <1>1, <1>3, Words DEF onProgress, CheckpointEmit, RunExit, RunEmit
<1>4. CASE CheckpointEmit(j)
  BY <1>0, <1>1, <1>4, Words DEF CheckpointEmit, RunExit, RunEmit
<1>5. CASE RunExit(j)
  BY <1>0, <1>1, <1>5, Words DEF CheckpointEmit, RunExit, RunEmit
<1>. QED  BY <1>2, <1>3, <1>4, <1>5 DEF Emitting

(* Who else emits what. *)
LEMMA Emitted ==
    ASSUME Typed
    PROVE  /\ EnqueueEmit => hand \in Events /\ hand # None /\ emit(hand)
           /\ CancelTell =>
                /\ Head(poller.left) \in Jobs /\ poller.ev \in Events /\ emit(poller.ev)
                /\ poller.ev.kind = "state" /\ poller.ev.job = Head(poller.left)
<1>1. EnqueueEmit => hand \in Events /\ hand # None /\ emit(hand)
  BY DEF EnqueueEmit, Typed, QueueTyped
<1>2. ASSUME CancelTell
      PROVE  /\ Head(poller.left) \in Jobs /\ poller.ev \in Events /\ emit(poller.ev)
             /\ poller.ev.kind = "state" /\ poller.ev.job = Head(poller.left)
  <2>1. poller.left \in Seq(Jobs) /\ poller.left # <<>>
    BY <1>2 DEF CancelTell, Typed, PollerTyped, Pollers
  <2>2. Head(poller.left) \in Jobs
    BY <2>1, HeadAndRest
  <2>. QED  BY <1>2, <2>2 DEF CancelTell, Typed, PollerTyped
<1>. QED  BY <1>1, <1>2

LEMMA StreamTypes ==
    ASSUME Typed, [Next]_vars
    PROVE  StreamTyped'
<1> USE DEF Typed, stream
<1>1. CASE EnqueueEmit \/ CancelTell
  BY <1>1, Emitted, Emits
<1>2. ASSUME NEW j \in Jobs, RunStep(j)
      PROVE  StreamTyped'
  <2>1. CASE Emitting(j)
    BY <2>1, RunSends, Emits
  <2>2. CASE RunDispatch(j) \/ RunStart(j) \/ RunView(j) \/ maybeCheckpoint(j) \/ RunFinish(j)
    BY <2>2 DEF RunDispatch, RunStart, RunView, maybeCheckpoint, RunFinish, StreamTyped
  <2>. QED  BY <1>2, <2>1, <2>2 DEF RunStep, Emitting
<1>3. CASE Crash
  BY <1>3, ConstantsOK DEF Crash, StreamTyped, NoOne
<1>4. ASSUME NEW p \in Pages, PageStep(p)
      PROVE  StreamTyped'
  <2>1. p \in Subscribers /\ <<>> \in Seq(Events) /\ Len(<<>>) = 0 /\ Buffer \in Nat
    BY ConstantsOK DEF Subscribers
  <2>2. CASE PageConnect(p) \/ PageEnd(p)
    <3>1. (subs' = subs \cup {p} \/ subs' = subs \ {p}) /\ chan' = [chan EXCEPT ![p] = <<>>]
      BY <2>2 DEF PageConnect, PageEnd, Subscribe
    <3>. QED  BY <2>1, <3>1 DEF StreamTyped
  <2>4. CASE PageSnapshot(p)
    BY <2>4 DEF PageSnapshot, StreamTyped
  <2>3. CASE PageRead(p)
    <3>1. subs' = subs /\ chan' = [chan EXCEPT ![p] = Tail(chan[p])] /\ chan[p] # <<>>
      BY <2>3 DEF PageRead
    <3>2. Tail(chan[p]) \in Seq(Events) /\ Len(Tail(chan[p])) <= Buffer
      BY <2>1, <3>1 DEF StreamTyped
    <3>. QED  BY <3>1, <3>2 DEF StreamTyped
  <2>. QED  BY <1>4, <2>2, <2>3, <2>4 DEF PageStep
<1>5. CASE WatcherSubscribe
  <2>1. Notifier \in Subscribers /\ <<>> \in Seq(Events) /\ Len(<<>>) = 0 /\ Buffer \in Nat
    BY ConstantsOK DEF Subscribers
  <2>. QED  BY <1>5, <2>1 DEF WatcherSubscribe, Subscribe, StreamTyped
<1>6. CASE ReadProgress \/ onCheckpoint \/ onState
  <2>1. /\ subs' = subs /\ chan' = [chan EXCEPT ![Notifier] = Tail(chan[Notifier])]
        /\ chan[Notifier] # <<>> /\ Notifier \in Subscribers
    BY <1>6 DEF ReadProgress, onCheckpoint, onState, WatcherTake, Subscribers
  <2>2. Tail(chan[Notifier]) \in Seq(Events) /\ Len(Tail(chan[Notifier])) <= Buffer
    BY <2>1, ConstantsOK DEF StreamTyped
  <2>. QED  BY <2>1, <2>2 DEF StreamTyped
<1>7. CASE UNCHANGED <<subs, chan>>
  BY <1>7 DEF StreamTyped
<1>8. ASSUME NEW b \in Batches, Press(b) \/ Enqueue(b) \/ RestoreEnqueue(b)
      PROVE  UNCHANGED <<subs, chan>>
  BY <1>8 DEF Press, Enqueue, RestoreEnqueue
<1>9. ASSUME \/ EnqueueView \/ RestoreMark \/ RestoreEnd \/ Boot \/ WatcherCut \/ Send \/ StoreMessage
             \/ SendSummary \/ EditAtEnd \/ getUpdates \/ CancelBatch \/ CancelNext \/ CancelFinish \/ CancelView \/ onCallback
             \/ EditStopped \/ UNCHANGED vars
      PROVE  UNCHANGED <<subs, chan>>
  BY <1>9 DEF EnqueueView, RestoreMark, RestoreEnd, Boot, WatcherCut, Send, StoreMessage,
              SendSummary, EditAtEnd, getUpdates, CancelBatch, CancelNext, CancelFinish, CancelView, onCallback, EditStopped, vars
<1>. QED  BY <1>1, <1>2, <1>3, <1>4, <1>5, <1>6, <1>7, <1>8, <1>9
          DEF Next, Announce, Restore, Watch, Poll

LEMMA PagesTypes ==
    ASSUME Typed, [Next]_vars
    PROVE  PagesTyped'
<1> USE DEF Typed, PagesTyped, pages
<1>1. ASSUME NEW p \in Pages, PageStep(p)
      PROVE  PagesTyped'
  <2>1. CASE PageConnect(p)
    BY <2>1 DEF PageConnect
  <2>4. CASE PageEnd(p)
    <3>1. Blank[p] \in [Jobs -> JobStates]
      BY DEF Blank, JobStates
    <3>. QED  BY <2>4, <3>1 DEF PageEnd
  <2>2. CASE PageSnapshot(p)
    BY <2>2 DEF PageSnapshot, QueueTyped
  <2>3. CASE PageRead(p)
    <3>1. chan[p] \in Seq(Events) /\ chan[p] # <<>>
      BY <2>3 DEF PageRead, StreamTyped, Subscribers
    <3>2. Head(chan[p]) \in Events
      BY <3>1, HeadAndRest
    <3>3. Head(chan[p]).job \in Jobs /\ Head(chan[p]).st \in JobStates
      BY <3>2 DEF Events
    <3>. QED  BY <2>3, <3>3 DEF PageRead
  <2>. QED  BY <1>1, <2>1, <2>2, <2>3, <2>4 DEF PageStep
<1>2. CASE Crash
  BY <1>2 DEF Crash, Blank, JobStates
<1>3. ASSUME NEW j \in Jobs, RunStep(j)
      PROVE  UNCHANGED pages
  BY <1>3 DEF RunStep, RunDispatch, RunStart, RunView, StartEmit, onProgress,
               maybeCheckpoint, CheckpointEmit, RunFinish, RunExit, RunEmit
<1>4. ASSUME NEW b \in Batches, Press(b) \/ Enqueue(b) \/ RestoreEnqueue(b)
      PROVE  UNCHANGED pages
  BY <1>4 DEF Press, Enqueue, RestoreEnqueue
<1>5. ASSUME Announce \/ RestoreMark \/ RestoreEnd \/ Boot \/ UNCHANGED vars
      PROVE  UNCHANGED pages
  BY <1>5 DEF Announce, EnqueueView, EnqueueEmit, RestoreMark, RestoreEnd, Boot, vars
<1>6. ASSUME Watch \/ Poll
      PROVE  UNCHANGED pages
  BY <1>6 DEF Watch, WatcherSubscribe, WatcherCut, ReadProgress, onCheckpoint, onState,
              WatcherTake, Send, StoreMessage, SendSummary, EditAtEnd,
              Poll, getUpdates, CancelBatch, CancelNext, CancelFinish, CancelView, CancelTell, onCallback, EditStopped
<1>7. CASE UNCHANGED pages
  BY <1>7
<1>. QED  BY <1>1, <1>2, <1>3, <1>4, <1>5, <1>6, <1>7 DEF Next, Restore

(* An edit of a message Telegram holds takes its button away, or fails; there are no more
   messages and no fewer. *)
LEMMA Edits ==
    ASSUME chat \in Seq(Prompts), NEW id \in 1 .. Len(chat), Edit(id)
    PROVE  /\ chat' \in Seq(Prompts) /\ Len(chat') = Len(chat) /\ DOMAIN chat' = DOMAIN chat
           /\ failed \subseteq failed'
           /\ \A i \in DOMAIN chat :
                /\ chat'[i].batch = chat[i].batch /\ chat'[i].late = chat[i].late
                /\ chat'[i].boot = chat[i].boot
                /\ chat'[i].live => chat[i].live /\ (i # id \/ chat[i].batch \in failed')
<1>0. DOMAIN chat = 1 .. Len(chat) /\ Len(chat) \in Nat /\ \A i \in 1 .. Len(chat) : chat[i] \in Prompts
  OBVIOUS
<1>1. CASE chat' = chat /\ failed' = failed \cup {chat[id].batch}
  BY <1>0, <1>1
<1>2. CASE chat' = [chat EXCEPT ![id].live = FALSE] /\ failed' = failed
  <2>1. /\ DOMAIN chat' = 1 .. Len(chat)
        /\ \A i \in 1 .. Len(chat) : chat'[i] = IF i = id THEN [chat[i] EXCEPT !.live = FALSE] ELSE chat[i]
    BY <1>0, <1>2
  <2>2. \A i \in 1 .. Len(chat) :
          /\ chat'[i] \in Prompts /\ chat'[i].batch = chat[i].batch /\ chat'[i].late = chat[i].late
          /\ chat'[i].boot = chat[i].boot /\ (chat'[i].live => chat[i].live /\ i # id)
    BY <1>0, <2>1 DEF Prompts
  <2>3. chat' \in [1 .. Len(chat) -> Prompts]
    BY <1>0, <1>2, <2>2
  <2>4. chat' \in Seq(Prompts) /\ Len(chat') = Len(chat)
    BY <1>0, <2>3
  <2>. QED  BY <1>0, <1>2, <2>1, <2>2, <2>4
<1>. QED  BY <1>1, <1>2 DEF Edit

(* What the notifier takes out of its channel. *)
LEMMA Takes ==
    ASSUME Typed, ReadProgress \/ onCheckpoint \/ onState
    PROVE  /\ watcher.at = "idle" /\ chan[Notifier] \in Seq(Events) /\ chan[Notifier] # <<>>
           /\ Head(chan[Notifier]) \in Events /\ chan' = [chan EXCEPT ![Notifier] = Tail(@)]
           /\ Head(chan[Notifier]).job \in Jobs
           /\ BatchOf(Head(chan[Notifier]).job) \in Batches
           /\ UNCHANGED <<queue, process, subs, missed, pages, polling, service, audience, overtaken,
                          unmarked>>
<1>1. \E kind : WatcherTake(kind)
  BY DEF ReadProgress, onCheckpoint, onState
<1>2. chan[Notifier] \in Seq(Events) /\ chan[Notifier] # <<>>
  BY <1>1 DEF WatcherTake, Typed, StreamTyped, Subscribers
<1>3. Head(chan[Notifier]) \in Events
  BY <1>2, HeadAndRest
<1>4. Head(chan[Notifier]).job \in Jobs
  BY <1>3 DEF Events
<1>. QED  BY <1>1, <1>2, <1>3, <1>4, OneBatch DEF WatcherTake

(* The press the poller has in hand is one of a batch. *)
LEMMA PressInHand ==
    ASSUME Typed, poller.at # "poll"
    PROVE  /\ Head(poller.got) \in 1 .. Len(presses) /\ presses[Head(poller.got)] \in Batches
           /\ Tail(poller.got) \in Seq(Nat)
           /\ ToSet(poller.got) = {Head(poller.got)} \cup ToSet(Tail(poller.got))
<1>1. /\ poller.got \in Seq(Nat) /\ poller.got # <<>> /\ presses \in Seq(Batches)
      /\ ToSet(poller.got) \subseteq 1 .. Len(presses)
  BY DEF Typed, PollerTyped, Pollers
<1>2. /\ Tail(poller.got) \in Seq(Nat)
      /\ ToSet(poller.got) = {Head(poller.got)} \cup ToSet(Tail(poller.got))
  BY <1>1, HeadAndRest
<1>. QED  BY <1>1, <1>2

LEMMA WatchTypes ==
    ASSUME Typed, [Next]_vars
    PROVE  WatchTyped'
<1>0. /\ chat \in Seq(Prompts) /\ Len(chat) \in Nat
  BY DEF Typed, WatchTyped
<1> USE DEF WatchTyped
<1>1. CASE WatcherSubscribe \/ WatcherCut
  BY <1>1 DEF Typed, WatcherSubscribe, WatcherCut, polling, service
<1>2. CASE ReadProgress
  BY <1>2 DEF Typed, ReadProgress, WatcherTake, notify, polling, service
<1>3. CASE onCheckpoint
  BY <1>3, Takes DEF Typed, onCheckpoint, polling, service
<1>4. CASE onState
  <2>1. UNCHANGED <<poller, chat>>
    BY <1>4, Takes DEF polling, service
  <2>2. CASE UNCHANGED notify
    BY <2>1, <2>2 DEF Typed, notify
  <2>3. ASSUME NEW b \in Batches, watcher' = [at |-> "summary", b |-> b, id |-> messages[b]],
               messages' = [messages EXCEPT ![b] = None], reported' = reported \cup {b}
        PROVE  WatchTyped'
    BY <2>1, <2>3 DEF Typed
  <2>4. \/ UNCHANGED notify
        \/ \E b \in Batches :
             /\ watcher' = [at |-> "summary", b |-> b, id |-> messages[b]]
             /\ messages' = [messages EXCEPT ![b] = None] /\ reported' = reported \cup {b}
    BY <1>4, Takes DEF onState, Retire
  <2>. QED  BY <2>2, <2>3, <2>4
<1>5. CASE Send
  <2>1. /\ watcher.b \in Batches /\ UNCHANGED <<poller, messages, reported>>
        /\ watcher.at = "send"
    BY <1>5 DEF Send, Typed, polling
  <2>2. Prompt(watcher.b) \in Prompts
    BY <2>1 DEF Prompt, Prompts, Typed, ProcessTyped
  <2>3. CASE chat' = Append(chat, Prompt(watcher.b)) /\ Len(chat) < MaxChat
    <3>1. chat' \in Seq(Prompts) /\ Len(chat') = Len(chat) + 1
      BY <1>0, <2>2, <2>3, AppendProperties
    <3>2. Len(chat) + 1 \in 1 .. MaxChat
      BY <1>0, <2>3, ConstantsOK
    <3>3. \/ watcher' = [at |-> "store", b |-> watcher.b, id |-> Len(chat) + 1]
          \/ watcher' = [Asleep EXCEPT !.at = "idle"]
      BY <1>5 DEF Send
    <3>4. Len(chat) + 1 # None
      BY <1>0, ConstantsOK
    <3>5. MaxChat \in Nat
      BY ConstantsOK
    <3>. QED  BY <1>0, <2>1, <3>1, <3>2, <3>3, <3>4, <3>5 DEF Typed, Asleep
  <2>4. CASE chat' = chat /\ watcher' = [Asleep EXCEPT !.at = "idle"]
    BY <2>1, <2>4 DEF Typed, Asleep
  <2>. QED  BY <1>5, <2>3, <2>4 DEF Send
<1>6. CASE StoreMessage
  <2>1. /\ messages' = [messages EXCEPT ![watcher.b] = watcher.id] /\ UNCHANGED <<poller, chat, reported>>
        /\ watcher' = [Asleep EXCEPT !.at = "idle"] /\ watcher.at = "store"
    BY <1>6 DEF StoreMessage, polling, service
  <2>2. watcher.b \in Batches /\ watcher.id \in 1 .. MaxChat /\ watcher.id <= Len(chat)
    BY <2>1 DEF Typed
  <2>. QED  BY <2>1, <2>2 DEF Typed, Asleep
<1>7. CASE SendSummary
  BY <1>7 DEF Typed, SendSummary, Asleep, polling, service
<1>8. CASE EditAtEnd
  <2>1. watcher.at = "edit" /\ Edit(watcher.id) /\ watcher' = [Asleep EXCEPT !.at = "idle"]
        /\ UNCHANGED <<messages, reported, poller>>
    BY <1>8 DEF EditAtEnd, polling
  <2>2. watcher.id \in 1 .. Len(chat)
    BY <1>0, <2>1, ConstantsOK DEF Typed
  <2>3. chat' \in Seq(Prompts) /\ Len(chat') = Len(chat)
    BY <1>0, <2>1, <2>2, Edits
  <2>. QED  BY <2>1, <2>3 DEF Typed, Asleep
<1>9. CASE onCallback
  <2> DEFINE b == presses[Head(poller.got)]
  <2>1. /\ messages' = [messages EXCEPT ![b] = None] /\ UNCHANGED <<watcher, reported, chat>>
        /\ \/ poller' = Idle(Tail(poller.got))
           \/ poller' = [poller EXCEPT !.at = "edit", !.id = messages[b]] /\ messages[b] # None
        /\ poller.at = "cancel"
    BY <1>9 DEF onCallback, service
  <2>. HIDE DEF b
  <2>2. CASE poller' = Idle(Tail(poller.got))
    BY <2>1, <2>2 DEF Typed, Idle, Polling
  <2>3. CASE poller' = [poller EXCEPT !.at = "edit", !.id = messages[b]] /\ messages[b] # None
    <3>1. poller'.id = messages[b]
      BY <2>3 DEF Typed, PollerTyped
    <3>2. poller'.id \in 1 .. Len(chat)
      <4>1. b \in Batches
        BY <2>1, PressInHand DEF b
      <4>. QED  BY <1>0, <2>3, <3>1, <4>1, ConstantsOK DEF Typed
    <3>. QED  BY <2>1, <3>2 DEF Typed
  <2>. QED  BY <2>1, <2>2, <2>3
<1>10. CASE EditStopped
  <2>1. poller.at = "edit" /\ Edit(poller.id) /\ UNCHANGED <<watcher, messages, reported>>
        /\ poller' = Idle(Tail(poller.got))
    BY <1>10 DEF EditStopped, notify
  <2>2. chat' \in Seq(Prompts) /\ Len(chat') = Len(chat) /\ poller'.at # "edit"
    BY <1>0, <2>1, Edits DEF Typed, Idle, Polling
  <2>. QED  BY <2>1, <2>2 DEF Typed
<1>11. CASE getUpdates \/ CancelBatch \/ CancelNext \/ CancelFinish \/ CancelView \/ CancelTell
  <2>1. UNCHANGED <<watcher, messages, reported, chat>>
    BY <1>11 DEF getUpdates, CancelBatch, CancelNext, CancelFinish, CancelView, CancelTell, notify, service
  <2>2. poller'.at = "edit" => poller' = poller
    BY <1>11 DEF getUpdates, CancelBatch, CancelNext, CancelFinish, CancelView, CancelTell,
                Typed, PollerTyped, Pollers
  <2>. QED  BY <2>1, <2>2 DEF Typed
<1>12. CASE Crash
  BY <1>12 DEF Typed, Crash, Asleep, Polling, service
<1>13. ASSUME UNCHANGED <<watcher, messages, reported, chat, poller>>
       PROVE  WatchTyped'
  BY <1>13 DEF Typed
<1>14. ASSUME NEW j \in Jobs, RunStep(j)
       PROVE  UNCHANGED <<watcher, messages, reported, chat, poller>>
  BY <1>14 DEF RunStep, RunDispatch, RunStart, RunView, StartEmit, onProgress,
               maybeCheckpoint, CheckpointEmit, RunFinish, RunExit, RunEmit,
               notify, service, polling
<1>15. ASSUME NEW b \in Batches, Press(b) \/ Enqueue(b) \/ RestoreEnqueue(b)
       PROVE  UNCHANGED <<watcher, messages, reported, chat, poller>>
  BY <1>15 DEF Press, Enqueue, RestoreEnqueue, notify, service, polling
<1>16. ASSUME Announce \/ RestoreMark \/ RestoreEnd \/ Boot \/ UNCHANGED vars
       PROVE  UNCHANGED <<watcher, messages, reported, chat, poller>>
  BY <1>16 DEF Announce, EnqueueView, EnqueueEmit, RestoreMark, RestoreEnd, Boot, vars, notify,
               service, polling
<1>17. ASSUME NEW p \in Pages, PageStep(p)
       PROVE  UNCHANGED <<watcher, messages, reported, chat, poller>>
  BY <1>17 DEF PageStep, PageConnect, PageSnapshot, PageRead, PageEnd, notify, service, polling
<1>. QED  BY <1>1, <1>2, <1>3, <1>4, <1>5, <1>6, <1>7, <1>8, <1>9, <1>10, <1>11, <1>12, <1>13,
              <1>14, <1>15, <1>16, <1>17 DEF Next, Restore, Watch, Poll

LEMMA PollerTypes ==
    ASSUME Typed, [Next]_vars
    PROVE  PollerTyped'
<1> USE DEF PollerTyped, Pollers
<1>0. presses \in Seq(Batches) /\ Len(presses) \in Nat
  BY DEF Typed
<1>1. CASE getUpdates
  <2> DEFINE new == [i \in 1 .. Len(presses) - Since |-> Since + i]
  <2>1. /\ poller.at = "poll" /\ acked' = Since /\ presses' = presses
        /\ \/ UNCHANGED <<poller, offset>>
           \/ /\ new # <<>> /\ offset' = Len(presses) + 1
              /\ poller' = [poller EXCEPT !.at = "take", !.got = new]
    BY <1>1 DEF getUpdates, service
  <2>2. Since \in 0 .. Len(presses)
    BY <1>0 DEF Typed, Since, Confirmed
  <2>3. CASE UNCHANGED <<poller, offset>>
    BY <1>0, <2>1, <2>2, <2>3 DEF Typed
  <2>4. CASE /\ new # <<>> /\ offset' = Len(presses) + 1
             /\ poller' = [poller EXCEPT !.at = "take", !.got = new]
    <3>1. new \in Seq(Nat) /\ DOMAIN new = 1 .. Len(presses) - Since
      BY <1>0, <2>2
    <3>2. ToSet(new) \subseteq 1 .. Len(presses)
      BY <1>0, <2>2, <3>1 DEF ToSet
    <3>. HIDE DEF new
    <3>3. /\ poller'.got = new /\ poller'.at = "take"
          /\ poller' \in Pollers
      BY <2>4, <3>1 DEF Typed
    <3>. QED  BY <1>0, <2>1, <2>2, <2>4, <3>2, <3>3 DEF Typed
  <2>. HIDE DEF new
  <2>. QED  BY <2>1, <2>3, <2>4
<1>2. CASE CancelBatch
  <2> DEFINE some == Members(presses[Head(poller.got)])
  <2>1. /\ poller.at = "take" /\ UNCHANGED <<offset, acked, presses>>
        /\ poller' = [poller EXCEPT !.at = "cancel", !.left = some]
    BY <1>2 DEF CancelBatch, service
  <2>2. some \in Seq(Jobs)
    BY <2>1, PressInHand, JobsOfBatch
  <2>. HIDE DEF some
  <2>. QED  BY <2>1, <2>2 DEF Typed
<1>3. CASE CancelNext
  <2>1. /\ poller.at = "cancel" /\ poller.left # <<>> /\ UNCHANGED <<offset, acked, presses>>
        /\ \/ poller' = [poller EXCEPT !.at = "settle"]
           \/ poller' = [poller EXCEPT !.left = Tail(poller.left)]
    BY <1>3 DEF CancelNext, service
  <2>2. Tail(poller.left) \in Seq(Jobs)
    BY <2>1, HeadAndRest DEF Typed
  <2>. QED  BY <2>1, <2>2 DEF Typed
<1>4. CASE CancelTell
  <2>1. /\ poller.at = "tell" /\ UNCHANGED <<offset, acked, presses>>
        /\ poller' = [poller EXCEPT !.at = "cancel", !.left = Tail(poller.left), !.ev = None]
    BY <1>4 DEF CancelTell, service
  <2>2. Tail(poller.left) \in Seq(Jobs)
    BY <2>1, HeadAndRest DEF Typed
  <2>. QED  BY <2>1, <2>2 DEF Typed
<1>16. CASE CancelFinish
  <2>1. /\ poller.at = "settle" /\ UNCHANGED <<offset, acked, presses>>
        /\ poller' = [poller EXCEPT !.at = "view"]
    BY <1>16 DEF CancelFinish, service
  <2>. QED  BY <2>1 DEF Typed
<1>17. CASE CancelView
  <2> DEFINE j == Head(poller.left)
             ev == Event("state", j, st[j])
  <2>1. /\ poller.at = "view" /\ poller.left # <<>> /\ UNCHANGED <<offset, acked, presses>>
        /\ poller' = [poller EXCEPT !.at = "tell", !.ev = ev]
    BY <1>17 DEF CancelView, service, Typed
  <2>2. j \in Jobs
    BY <2>1, HeadAndRest DEF Typed
  <2>3. st[j] \in JobStates
    BY <2>2 DEF Typed, QueueTyped
  <2>4. ev \in Events /\ ev.kind = "state" /\ ev.job = j
    BY <2>2, <2>3, EventTyped
  <2>. HIDE DEF ev
  <2>. QED  BY <2>1, <2>4 DEF Typed
<1>5. ASSUME poller.at # "poll", poller' = Idle(Tail(poller.got)), UNCHANGED <<offset, acked, presses>>
      PROVE  PollerTyped'
  <2>1. /\ Tail(poller.got) \in Seq(Nat)
        /\ ToSet(poller.got) = {Head(poller.got)} \cup ToSet(Tail(poller.got))
    BY <1>5, PressInHand
  <2> DEFINE next == IF Tail(poller.got) = <<>> THEN "poll" ELSE "take"
  <2>2. poller' = [at |-> next, got |-> Tail(poller.got), left |-> <<>>, id |-> None,
                 ev |-> None]
    BY <1>5 DEF Idle, Polling
  <2>3. <<>> \in Seq(Jobs) /\ next \in {"poll", "take"}
        /\ (next = "poll" <=> Tail(poller.got) = <<>>)
    OBVIOUS
  <2>. HIDE DEF next
  <2>4. /\ poller'.got = Tail(poller.got) /\ poller'.at = next
        /\ poller' \in Pollers
    BY <2>1, <2>2, <2>3
  <2>. QED  BY <1>5, <2>1, <2>3, <2>4 DEF Typed
<1>6. CASE onCallback
  <2> DEFINE b == presses[Head(poller.got)]
  <2>1. /\ poller.at = "cancel" /\ UNCHANGED <<offset, acked, presses>>
        /\ \/ poller' = Idle(Tail(poller.got))
           \/ poller' = [poller EXCEPT !.at = "edit", !.id = messages[b]]
    BY <1>6 DEF onCallback, service
  <2>2. messages[b] \in 1 .. MaxChat \cup {None}
    BY <2>1, PressInHand DEF Typed, WatchTyped
  <2>. HIDE DEF b
  <2>. QED  BY <1>5, <2>1, <2>2 DEF Typed
<1>7. CASE EditStopped
  <2>1. /\ poller.at = "edit" /\ poller' = Idle(Tail(poller.got)) /\ UNCHANGED <<offset, acked, presses>>
    BY <1>7 DEF EditStopped
  <2>. QED  BY <1>5, <2>1
<1>8. CASE Crash
  <2>1. poller' = Polling /\ offset' = 0 /\ UNCHANGED <<acked, presses>>
    BY <1>8 DEF Crash, service
  <2>2. ToSet(<<>>) = {} /\ <<>> \in Seq(Nat) /\ <<>> \in Seq(Jobs)
    BY DEF ToSet
  <2>. QED  BY <1>0, <2>1, <2>2 DEF Typed, Polling
<1>9. ASSUME NEW b \in Batches, Press(b)
      PROVE  PollerTyped'
  <2>1. UNCHANGED <<poller, offset, acked>> /\ presses' = Append(presses, b)
    BY <1>9 DEF Press, polling
  <2>2. presses' \in Seq(Batches) /\ Len(presses') = Len(presses) + 1
    BY <1>0, <2>1, AppendProperties
  <2>3. 1 .. Len(presses) \subseteq 1 .. Len(presses')
    BY <1>0, <2>2
  <2>. QED  BY <1>0, <2>1, <2>2, <2>3 DEF Typed
<1>10. ASSUME UNCHANGED <<poller, offset, acked, presses>>
       PROVE  PollerTyped'
  BY <1>10 DEF Typed
<1>11. ASSUME NEW j \in Jobs, RunStep(j)
       PROVE  UNCHANGED <<poller, offset, acked, presses>>
  BY <1>11 DEF RunStep, RunDispatch, RunStart, RunView, StartEmit, onProgress,
               maybeCheckpoint, CheckpointEmit, RunFinish, RunExit, RunEmit,
               service, polling
<1>12. ASSUME NEW b \in Batches, Enqueue(b) \/ RestoreEnqueue(b)
       PROVE  UNCHANGED <<poller, offset, acked, presses>>
  BY <1>12 DEF Enqueue, RestoreEnqueue, service, polling
<1>13. ASSUME Announce \/ RestoreMark \/ RestoreEnd \/ Boot \/ UNCHANGED vars
       PROVE  UNCHANGED <<poller, offset, acked, presses>>
  BY <1>13 DEF Announce, EnqueueView, EnqueueEmit, RestoreMark, RestoreEnd, Boot, vars,
               service, polling
<1>14. ASSUME NEW p \in Pages, PageStep(p)
       PROVE  UNCHANGED <<poller, offset, acked, presses>>
  BY <1>14 DEF PageStep, PageConnect, PageSnapshot, PageRead, PageEnd, service, polling
<1>15. ASSUME Watch
       PROVE  UNCHANGED <<poller, offset, acked, presses>>
  BY <1>15 DEF Watch, WatcherSubscribe, WatcherCut, ReadProgress, onCheckpoint, onState,
               WatcherTake, Send, StoreMessage, SendSummary, EditAtEnd, service, polling
<1>. QED  BY <1>1, <1>2, <1>3, <1>4, <1>6, <1>7, <1>8, <1>9, <1>10, <1>11, <1>12, <1>13, <1>14,
              <1>15, <1>16, <1>17 DEF Next, Restore, Poll

LEMMA TypedStep ==
    ASSUME Typed, [Next]_vars
    PROVE  Typed'
BY QueueTypes, ProcessTypes, StreamTypes, PagesTypes, WatchTypes, PollerTypes DEF Typed

LEMMA TypedAlways == Spec => []Typed
BY InitTyped, TypedStep, PTL DEF Spec

(* The variables of the event stream, the notifier and the process keep their types, and no
   channel holds more than its buffer. *)
THEOREM TypeCorrect == Spec => []TypeOK
<1>1. Init => audience \in Audiences
  BY DEF Init
<1>2. audience \in Audiences /\ [Next]_vars => (audience \in Audiences)'
  <2>1. SUFFICES ASSUME [Next]_vars PROVE audience' = audience
    OBVIOUS
  <2>2. ASSUME NEW b \in Batches, Enqueue(b) \/ Press(b) \/ RestoreEnqueue(b)
        PROVE  audience' = audience
    BY <2>2 DEF Enqueue, Press, RestoreEnqueue
  <2>3. ASSUME NEW j \in Jobs, RunStep(j)
        PROVE  audience' = audience
    BY <2>3 DEF RunStep, RunDispatch, RunStart, RunView, StartEmit, onProgress,
               maybeCheckpoint, CheckpointEmit, RunFinish, RunExit, RunEmit
  <2>4. CASE Announce \/ RestoreMark \/ RestoreEnd \/ Crash \/ Boot \/ UNCHANGED vars
    BY <2>4 DEF Announce, EnqueueView, EnqueueEmit, RestoreMark, RestoreEnd, Crash, Boot, vars
  <2>5. CASE Watch
    BY <2>5 DEF Watch, WatcherSubscribe, WatcherCut, ReadProgress, onCheckpoint, onState,
                WatcherTake, Send, StoreMessage, SendSummary, EditAtEnd
  <2>6. CASE Poll
    BY <2>6 DEF Poll, getUpdates, CancelBatch, CancelNext, CancelFinish, CancelView, CancelTell, onCallback, EditStopped
  <2>7. ASSUME NEW p \in Pages, PageStep(p)
        PROVE  audience' = audience
    BY <2>7 DEF PageStep, PageConnect, PageSnapshot, PageRead, PageEnd
  <2>. QED  BY <2>1, <2>2, <2>3, <2>4, <2>5, <2>6, <2>7 DEF Next, Restore
<1>3. Typed /\ audience \in Audiences => TypeOK
  <2>1. SUFFICES ASSUME Typed, audience \in Audiences PROVE TypeOK
    OBVIOUS
  <2>2. \A s \in Subscribers : chan[s] \in Seq(Events) /\ Len(chan[s]) <= Buffer
    BY <2>1 DEF Typed, StreamTyped
  <2>3. /\ st \in [Jobs -> JobStates] /\ flag \subseteq Batches /\ telling \in Seq(Jobs)
        /\ run \in [Jobs -> {"none", "dispatched", "started", "encode", "reached", "prompt", "ended"}]
    BY <2>1 DEF Typed, QueueTyped, Places
  <2>4. /\ file.todo \subseteq Jobs /\ file.flags \subseteq Batches
        /\ phase \in {"restore", "up", "down"} /\ mark \in Batches \cup {None}
        /\ restoring \in [jobs : [Batches -> SUBSET Jobs], flags : SUBSET Batches] /\ boots \in Nat
    BY <2>1 DEF Typed, ProcessTyped
  <2>5. subs \subseteq Subscribers /\ page \in [Pages -> {"off", "subscribed", "open"}]
    BY <2>1 DEF Typed, StreamTyped, PagesTyped
  <2>6. /\ watcher.at \in {"off", "idle", "send", "store", "summary", "edit"}
        /\ messages \in [Batches -> 1 .. MaxChat \cup {None}] /\ reported \subseteq Batches
    BY <2>1 DEF Typed, WatchTyped
  <2>7. /\ poller.at \in {"poll", "take", "cancel", "settle", "view", "tell", "edit"}
        /\ presses \in Seq(Batches) /\ offset \in Nat /\ acked \in 0 .. Len(presses)
    BY <2>1 DEF Typed, PollerTyped, Pollers
  <2>. QED  BY <2>1, <2>2, <2>3, <2>4, <2>5, <2>6, <2>7 DEF TypeOK, Events
<1>4. Spec => [](audience \in Audiences)
  BY <1>1, <1>2, PTL DEF Spec
<1>. QED  BY <1>3, <1>4, TypedAlways, PTL

-----------------------------------------------------------------------------
(* Presses of the stop button *)

\* A press below the offset is stopped, or still in hand; what the poller edits for is stopped.
PressInv ==
    /\ poller.at = "edit" => Head(poller.got) \in handled
    /\ \A i \in 1 .. offset - 1 : i \in handled \cup ToSet(poller.got)
    /\ PressesKept

LEMMA PressStep ==
    ASSUME Typed, PressInv, [Next]_vars
    PROVE  PressInv'
<1>0. /\ presses \in Seq(Batches) /\ Len(presses) \in Nat /\ offset \in Nat /\ acked \in Nat
      /\ poller \in Pollers
  BY DEF Typed, PollerTyped
<1>1. CASE getUpdates
  <2> DEFINE new == [i \in 1 .. Len(presses) - Since |-> Since + i]
  <2>1. /\ ToSet(poller.got) = {} /\ acked' = Since /\ handled' = handled
        /\ \/ UNCHANGED <<poller, offset>>
           \/ /\ offset' = Len(presses) + 1
              /\ poller' = [poller EXCEPT !.at = "take", !.got = new]
    BY <1>1 DEF getUpdates, service, Typed, PollerTyped, ToSet
  <2>2. Since \in 0 .. Len(presses) /\ 1 .. Since \subseteq handled
    BY <1>0, <2>1 DEF Typed, PollerTyped, Since, Confirmed, PressInv, PressesKept
  <2>3. CASE UNCHANGED <<poller, offset>>
    BY <1>0, <2>1, <2>2, <2>3 DEF PressInv, PressesKept
  <2>4. CASE offset' = Len(presses) + 1 /\ poller' = [poller EXCEPT !.at = "take", !.got = new]
    <3>1. DOMAIN new = 1 .. Len(presses) - Since
      BY <1>0, <2>2
    <3>2. ASSUME NEW i \in 1 .. Len(presses)
          PROVE  i \in handled \cup ToSet(new)
      <4>1. CASE i <= Since
        BY <2>2, <4>1
      <4>2. CASE i > Since
        <5>1. i - Since \in 1 .. Len(presses) - Since /\ new[i - Since] = i
          BY <1>0, <2>2, <4>2
        <5>. QED  BY <3>1, <5>1 DEF ToSet
      <4>. QED  BY <2>2, <4>1, <4>2
    <3>. HIDE DEF new
    <3>3. offset' - 1 = Len(presses) /\ poller'.got = new /\ poller'.at = "take"
      BY <1>0, <2>4
    <3>. QED  BY <2>1, <2>2, <3>2, <3>3 DEF PressInv, PressesKept
  <2>. HIDE DEF new
  <2>. QED  BY <2>1, <2>3, <2>4
\* The steps that keep the press in hand.
<1>2. CASE CancelBatch \/ CancelNext \/ CancelFinish \/ CancelView \/ CancelTell
  <2>1. /\ UNCHANGED <<offset, acked, handled>> /\ poller'.got = poller.got /\ poller'.at # "edit"
    BY <1>0, <1>2 DEF CancelBatch, CancelNext, CancelFinish, CancelView, CancelTell, Pollers
  <2>. QED  BY <2>1 DEF PressInv, PressesKept
\* The press in hand is stopped, and the next one taken.
<1>3. ASSUME poller.at # "poll", poller' = Idle(Tail(poller.got)), UNCHANGED <<offset, acked>>,
             handled' = handled \cup {Head(poller.got)}
      PROVE  PressInv'
  <2>1. ToSet(poller.got) = {Head(poller.got)} \cup ToSet(Tail(poller.got))
    BY <1>3, PressInHand
  <2>2. poller'.got = Tail(poller.got) /\ poller'.at # "edit"
    BY <1>3 DEF Idle, Polling
  <2>. QED  BY <1>3, <2>1, <2>2 DEF PressInv, PressesKept
<1>4. CASE onCallback
  <2> DEFINE b == presses[Head(poller.got)]
  <2>1. /\ poller.at = "cancel" /\ UNCHANGED <<offset, acked>>
        /\ handled' = handled \cup {Head(poller.got)}
        /\ \/ poller' = Idle(Tail(poller.got))
           \/ poller' = [poller EXCEPT !.at = "edit", !.id = messages[b]]
    BY <1>4 DEF onCallback
  <2>. HIDE DEF b
  <2>2. CASE poller' = [poller EXCEPT !.at = "edit", !.id = messages[b]]
    BY <1>0, <2>1, <2>2 DEF PressInv, PressesKept
  <2>. QED  BY <1>3, <2>1, <2>2
<1>5. CASE EditStopped
  <2>1. /\ poller.at = "edit" /\ poller' = Idle(Tail(poller.got)) /\ UNCHANGED <<offset, acked, handled>>
    BY <1>5 DEF EditStopped
  <2>2. handled = handled \cup {Head(poller.got)}
    BY <2>1 DEF PressInv
  <2>. QED  BY <1>3, <2>1, <2>2
\* A restart forgets the offset and what is in hand, never what was acknowledged.
<1>6. CASE Crash
  BY <1>6 DEF Crash, PressInv, PressesKept, Polling
<1>7. ASSUME UNCHANGED polling
      PROVE  PressInv'
  BY <1>7 DEF PressInv, PressesKept, polling
<1>8. ASSUME NEW b \in Batches, Enqueue(b) \/ Press(b) \/ RestoreEnqueue(b)
      PROVE  UNCHANGED polling
  BY <1>8 DEF Enqueue, Press, RestoreEnqueue
<1>9. ASSUME NEW j \in Jobs, RunStep(j)
      PROVE  UNCHANGED polling
  BY <1>9 DEF RunStep, RunDispatch, RunStart, RunView, StartEmit, onProgress,
               maybeCheckpoint, CheckpointEmit, RunFinish, RunExit, RunEmit
<1>10. ASSUME Announce \/ RestoreMark \/ RestoreEnd \/ Boot \/ UNCHANGED vars
       PROVE  UNCHANGED polling
  BY <1>10 DEF Announce, EnqueueView, EnqueueEmit, RestoreMark, RestoreEnd, Boot, vars
<1>11. ASSUME Watch
       PROVE  UNCHANGED polling
  BY <1>11 DEF Watch, WatcherSubscribe, WatcherCut, ReadProgress, onCheckpoint, onState,
               WatcherTake, Send, StoreMessage, SendSummary, EditAtEnd
<1>12. ASSUME NEW p \in Pages, PageStep(p)
       PROVE  UNCHANGED polling
  BY <1>12 DEF PageStep, PageConnect, PageSnapshot, PageRead, PageEnd
<1>. QED  BY <1>1, <1>2, <1>4, <1>5, <1>6, <1>7, <1>8, <1>9, <1>10, <1>11, <1>12
          DEF Next, Restore, Poll

(* Telegram forgets a press only after CancelBatch has gone through its batch, however often the
   process dies between the two: the offset that confirms it is sent after all below it were
   handled. *)
THEOREM PressesStay == Spec => []PressesKept
<1>1. Init => PressInv
  BY DEF Init, PressInv, PressesKept, Polling
<1>2. PressInv => PressesKept
  BY DEF PressInv
<1>. QED  BY <1>1, <1>2, PressStep, TypedAlways, PTL DEF Spec

-----------------------------------------------------------------------------
(* Where the goroutines may be *)

\* The steps that leave the queue, the process and the goroutines where they are.
LEMMA Bystanders ==
    ASSUME NEW b \in Batches, Press(b)
    PROVE  UNCHANGED <<queue, process, stream, pages, notify, polling, chat, failed, overtaken,
                       unmarked>>
BY DEF Press

(* Nobody emits, polls or reads for a process that is not up, but a job that runs. *)
LEMMA UpOnly ==
    ASSUME Typed, Quiet
    PROVE  /\ Announce \/ Watch \/ Poll => phase = "up" /\ phase' = phase
           /\ \A b \in Batches : Enqueue(b) => phase = "up" /\ phase' = phase
           /\ \A j \in Jobs : RunStep(j) /\ Stages => phase # "down" /\ phase' = phase
<1>1. ASSUME Announce
      PROVE  phase = "up" /\ phase' = phase
  <2>1. telling # <<>> \/ hand # None
    BY <1>1 DEF Announce, EnqueueView, EnqueueEmit
  <2>. QED  BY <1>1, <2>1 DEF Quiet, Announce, EnqueueView, EnqueueEmit, process
<1>2. ASSUME Watch
      PROVE  phase = "up" /\ phase' = phase
  <2>1. phase = "up" \/ watcher.at # "off"
    BY <1>2 DEF Watch, WatcherSubscribe, WatcherCut, ReadProgress, onCheckpoint, onState,
                WatcherTake, Send, StoreMessage, SendSummary, EditAtEnd
  <2>2. phase' = phase
    BY <1>2 DEF Watch, WatcherSubscribe, WatcherCut, ReadProgress, onCheckpoint, onState,
                WatcherTake, Send, StoreMessage, SendSummary, EditAtEnd, process
  <2>. QED  BY <2>1, <2>2 DEF Quiet
<1>3. ASSUME Poll
      PROVE  phase = "up" /\ phase' = phase
  <2>1. phase = "up" \/ poller.at # "poll"
    BY <1>3 DEF Poll, getUpdates, CancelBatch, CancelNext, CancelFinish, CancelView, CancelTell, onCallback, EditStopped
  <2>2. phase' = phase
    BY <1>3 DEF Poll, getUpdates, CancelBatch, CancelNext, CancelFinish, CancelView, CancelTell, onCallback, EditStopped, process
  <2>. QED  BY <2>1, <2>2 DEF Quiet
<1>4. ASSUME NEW j \in Jobs, RunStep(j), Stages
      PROVE  phase # "down" /\ phase' = phase
  <2>1. st[j] # "absent"
    BY <1>4 DEF Stages, Stage, Terminal, Telling, Pending, RunStep, RunDispatch, RunStart, RunView,
                StartEmit, onProgress, maybeCheckpoint, CheckpointEmit, RunFinish, RunExit, RunEmit
  <2>2. phase' = phase
    BY <1>4 DEF RunStep, RunDispatch, RunStart, RunView, StartEmit, onProgress,
               maybeCheckpoint, CheckpointEmit, RunFinish, RunExit, RunEmit,
                process
  <2>. QED  BY <2>1, <2>2 DEF Quiet
<1>5. ASSUME NEW b \in Batches, Enqueue(b)
      PROVE  phase = "up" /\ phase' = phase
  BY <1>5 DEF Enqueue, process
<1>. QED  BY <1>1, <1>2, <1>3, <1>4, <1>5

(* Where the notifier stands beside emit: it is told, cut loose, or was not listening. *)
LEMMA NotifierStays ==
    ASSUME Typed, Quiet, NEW ev \in Events, emit(ev)
    PROVE  /\ subs' \subseteq subs
           /\ Notifier \notin subs => Notifier \notin subs' /\ chan'[Notifier] = chan[Notifier]
<1>1. Notifier \in Subscribers
  BY DEF Subscribers
<1>. QED  BY <1>1, Emits DEF Typed

LEMMA QuietStep ==
    ASSUME Typed, Quiet, Stages, [Next]_vars
    PROVE  Quiet'
<1> USE DEF process, queue, stream, notify
<1>0. /\ mark \in Batches \cup {None} /\ restoring.jobs \in [Batches -> SUBSET Jobs]
      /\ Notifier \notin Pages
  BY ConstantsOK DEF Typed, ProcessTyped
<1>1. ASSUME NEW ev \in Events, emit(ev), phase # "down", UNCHANGED <<phase, watcher, mark, restoring>>,
             phase # "up" => UNCHANGED <<poller, telling, hand>>
      PROVE  Quiet'
  BY <1>1, NotifierStays DEF Quiet
<1>2. CASE EnqueueEmit
  <2>1. phase = "up" /\ phase' = phase
    BY <1>2, UpOnly DEF Announce
  <2>. QED  BY <1>1, <1>2, <2>1, Emitted DEF EnqueueEmit
<1>3. CASE CancelTell
  <2>1. phase = "up" /\ phase' = phase
    BY <1>3, UpOnly DEF Poll
  <2>. QED  BY <1>1, <1>3, <2>1, Emitted DEF CancelTell
<1>4. ASSUME NEW j \in Jobs, RunStep(j)
      PROVE  Quiet'
  <2>1. phase # "down" /\ phase' = phase
    BY <1>4, UpOnly
  <2>2. CASE Emitting(j)
    <3>1. UNCHANGED <<watcher, mark, restoring, poller, telling, hand>>
      BY <2>2, RunSends DEF polling
    <3>2. \E ev \in Events : emit(ev)
      BY <2>2, RunSends
    <3>. QED  BY <1>1, <2>1, <3>1, <3>2
  <2>3. CASE RunDispatch(j) \/ RunStart(j) \/ RunView(j) \/ maybeCheckpoint(j) \/ RunFinish(j)
    <3>1. UNCHANGED <<watcher, mark, restoring, poller, telling, hand, subs, chan>>
      BY <2>3 DEF RunDispatch, RunStart, RunView, maybeCheckpoint, RunFinish, polling
    <3>. QED  BY <2>1, <3>1 DEF Quiet
  <2>. QED  BY <1>4, <2>2, <2>3 DEF RunStep, Emitting
<1>5. ASSUME phase = "up", phase' = phase, UNCHANGED <<mark, restoring>>,
             watcher'.at = "off" => Notifier \notin subs' /\ chan'[Notifier] = <<>>
      PROVE  Quiet'
  BY <1>5 DEF Quiet
<1>6. CASE Watch
  <2>1. phase = "up" /\ phase' = phase
    BY <1>6, UpOnly
  <2>2. UNCHANGED <<mark, restoring>>
    BY <1>6 DEF Watch, WatcherSubscribe, WatcherCut, ReadProgress, onCheckpoint, onState,
                WatcherTake, Send, StoreMessage, SendSummary, EditAtEnd
  <2>3. watcher'.at = "off" => WatcherCut
    <3>1. watcher \in [at : {"off", "idle", "send", "store", "summary", "edit"},
                    b : Batches \cup {None}, id : 1 .. MaxChat \cup {None}]
      BY DEF Typed, WatchTyped
    <3>. QED  BY <1>6, <3>1 DEF Watch, WatcherSubscribe, ReadProgress, onCheckpoint, onState,
                WatcherTake, Send, StoreMessage, SendSummary, EditAtEnd, Asleep
  <2>4. WatcherCut => Notifier \notin subs' /\ chan'[Notifier] = <<>>
    BY DEF WatcherCut
  <2>. QED  BY <1>5, <2>1, <2>2, <2>3, <2>4
<1>7. CASE getUpdates \/ CancelBatch \/ CancelNext \/ CancelFinish \/ CancelView \/ onCallback \/ EditStopped
  <2>1. phase = "up" /\ phase' = phase
    BY <1>7, UpOnly DEF Poll
  <2>2. UNCHANGED <<watcher, subs, chan, mark, restoring>>
    BY <1>7 DEF getUpdates, CancelBatch, CancelNext, CancelFinish, CancelView, onCallback, EditStopped
  <2>. QED  BY <1>5, <2>1, <2>2 DEF Quiet
<1>8. ASSUME NEW p \in Pages, PageStep(p)
      PROVE  Quiet'
  <2>1. /\ UNCHANGED <<phase, mark, restoring, watcher, poller, telling, hand, flag, reported, st>>
        /\ phase # "up" => subs' \subseteq subs
        /\ subs' \subseteq subs \cup {p} /\ chan'[Notifier] = chan[Notifier]
    BY <1>0, <1>8 DEF PageStep, PageConnect, PageSnapshot, PageRead, PageEnd, Subscribe, polling,
                      Typed, StreamTyped, Subscribers
  <2>. QED  BY <1>0, <2>1 DEF Quiet
<1>9. ASSUME NEW b \in Batches, RestoreEnqueue(b)
      PROVE  Quiet'
  <2>1. /\ phase = "restore" /\ phase' = phase
        /\ UNCHANGED <<watcher, poller, telling, hand, flag, reported, subs, chan>>
    BY <1>9 DEF RestoreEnqueue, polling
  <2>. QED  BY <2>1 DEF Quiet
<1>10. CASE RestoreMark \/ RestoreEnd
  <2>1. /\ phase = "restore" /\ UNCHANGED <<watcher, poller, telling, hand, reported, subs, chan>>
    BY <1>10 DEF RestoreMark, RestoreEnd, polling, Quiet
  <2>2. phase' = phase \/ (phase' = "up" /\ restoring' = Nothing)
    BY <1>10 DEF RestoreMark, RestoreEnd
  <2>3. mark' = None
    BY <1>10 DEF RestoreMark, RestoreEnd
  <2>. QED  BY <2>1, <2>2, <2>3 DEF Quiet, Nothing
<1>11. CASE Crash
  <2>1. Notifier \in Subscribers
    BY DEF Subscribers
  <2>. QED  BY <1>11, <2>1 DEF Crash, Quiet, Asleep, Polling, Nothing, NoOne
<1>12. CASE Boot
  <2>1. /\ phase = "down" /\ phase' = "restore"
        /\ UNCHANGED <<mark, watcher, poller, telling, hand, subs, chan>>
    BY <1>12 DEF Boot, polling
  <2>. QED  BY <2>1 DEF Quiet
<1>13. ASSUME NEW b \in Batches, Enqueue(b)
       PROVE  Quiet'
  <2>1. phase = "up" /\ phase' = phase /\ UNCHANGED <<watcher, subs, chan, mark, restoring>>
    BY <1>13 DEF Enqueue
  <2>. QED  BY <1>5, <2>1 DEF Quiet
<1>14. CASE EnqueueView
  <2>1. phase = "up" /\ phase' = phase
    BY <1>14, UpOnly DEF Announce
  <2>2. UNCHANGED <<watcher, subs, chan, mark, restoring>>
    BY <1>14 DEF EnqueueView
  <2>. QED  BY <1>5, <2>1, <2>2 DEF Quiet
<1>15. ASSUME UNCHANGED <<queue, process, stream, notify, polling>>
       PROVE  Quiet'
  BY <1>15 DEF Quiet, polling
<1>16. CASE UNCHANGED vars
  BY <1>15, <1>16 DEF vars
<1>17. ASSUME NEW b \in Batches, Press(b)
       PROVE  Quiet'
  BY <1>15, <1>17, Bystanders
<1>. QED  BY <1>2, <1>3, <1>4, <1>6, <1>7, <1>8, <1>9, <1>10, <1>11, <1>12, <1>13, <1>14, <1>16, <1>17
          DEF Next, Announce, Restore, Poll

(* The job a Cancel has in hand is one of the queue, and stays in hand until it is told. *)
LEMMA InHand ==
    ASSUME Typed, [Next]_vars
    PROVE  /\ Cancelling => Head(poller.left) \in Jobs
           /\ Cancelling' =>
                /\ poller'.left = poller.left
                /\ \/ poller' = poller
                   \/ CancelNext /\ poller'.at = "settle" /\ st[Head(poller.left)] = "queued"
                   \/ CancelFinish /\ poller'.at = "view"
                   \/ CancelView /\ poller'.at = "tell"
           /\ CancelNext => poller.left # <<>> /\ Head(poller.left) \in Jobs
<1>1. poller \in Pollers /\ (Cancelling => poller.left # <<>>)
  BY DEF Typed, PollerTyped, Cancelling
<1>2. poller.left # <<>> => Head(poller.left) \in Jobs
  BY <1>1, HeadAndRest DEF Pollers
<1>3. CASE CancelNext \/ CancelFinish \/ CancelView
  BY <1>1, <1>2, <1>3 DEF CancelNext, CancelFinish, CancelView, Cancelling, Pollers
<1>4. CASE getUpdates \/ CancelBatch \/ CancelTell \/ onCallback \/ EditStopped \/ Crash
  <2>0. \A got : Idle(got).at \in {"poll", "take"}
    BY DEF Idle, Polling
  <2>1. getUpdates => poller' = poller \/ poller'.at = "take"
    BY <1>1 DEF getUpdates, Pollers
  <2>2. CancelBatch \/ CancelTell => poller'.at = "cancel"
    BY <1>1 DEF CancelBatch, CancelTell, Pollers
  <2>3. onCallback => poller'.at \in {"poll", "take", "edit"}
    BY <1>1, <2>0 DEF onCallback, Pollers
  <2>4. EditStopped \/ Crash => poller'.at \in {"poll", "take"}
    <3>1. EditStopped => poller'.at \in {"poll", "take"}
      BY <2>0 DEF EditStopped
    <3>2. Crash => poller'.at = "poll"
      BY DEF Crash, Polling
    <3>. QED  BY <3>1, <3>2
  <2>5. ~Cancelling' \/ poller' = poller
    BY <1>4, <2>1, <2>2, <2>3, <2>4 DEF Cancelling
  <2>. QED  BY <1>1, <1>2, <1>4, <2>5 DEF Cancelling, CancelNext
<1>5. ASSUME poller' = poller
      PROVE  /\ Cancelling => Head(poller.left) \in Jobs
             /\ Cancelling' => poller'.left = poller.left /\ poller' = poller
             /\ CancelNext => poller.left # <<>> /\ Head(poller.left) \in Jobs
  BY <1>1, <1>2, <1>5 DEF CancelNext
<1>6. ASSUME NEW b \in Batches, Enqueue(b) \/ Press(b) \/ RestoreEnqueue(b)
      PROVE  poller' = poller
  BY <1>6 DEF Enqueue, Press, RestoreEnqueue, polling
<1>7. ASSUME NEW j \in Jobs, RunStep(j)
      PROVE  poller' = poller
  BY <1>7 DEF RunStep, RunDispatch, RunStart, RunView, StartEmit, onProgress, maybeCheckpoint,
              CheckpointEmit, RunFinish, RunExit, RunEmit, polling
<1>8. CASE Announce \/ RestoreMark \/ RestoreEnd \/ Boot \/ UNCHANGED vars
  <2>1. poller' = poller
    BY <1>8 DEF Announce, EnqueueView, EnqueueEmit, RestoreMark, RestoreEnd, Boot, vars, polling
  <2>. QED  BY <1>5, <2>1
<1>9. CASE Watch
  <2>1. poller' = poller
    BY <1>9 DEF Watch, WatcherSubscribe, WatcherCut, ReadProgress, onCheckpoint, onState,
                WatcherTake, Send, StoreMessage, SendSummary, EditAtEnd, polling
  <2>. QED  BY <1>5, <2>1
<1>10. ASSUME NEW p \in Pages, PageStep(p)
       PROVE  poller' = poller
  BY <1>10 DEF PageStep, PageConnect, PageSnapshot, PageRead, PageEnd, polling
<1>. QED  BY <1>3, <1>4, <1>5, <1>6, <1>7, <1>8, <1>9, <1>10 DEF Next, Restore, Poll

(* What a step of run does to its own job, and to no other. *)
LEMMA OwnJob ==
    ASSUME Typed, NEW j \in Jobs, RunStep(j)
    PROVE  /\ UNCHANGED <<poller, restoring, struck>>
           /\ \A k \in Jobs \ {j} : st'[k] = st[k] /\ run'[k] = run[k] /\ says'[k] = says[k]
           /\ \/ Pending(j) /\ UNCHANGED <<st, says>> /\ run'[j] = "dispatched"
              \/ run[j] = "dispatched" /\ st'[j] = "running" /\ run'[j] = "started" /\ says' = says
              \/ /\ run[j] \in DOMAIN Telling /\ says[j] = None /\ UNCHANGED <<st, run>>
                 /\ says'[j] = View(j) /\ poller.at = "settle" /\ Head(poller.left) = j
              \/ Emitting(j) /\ UNCHANGED st /\ says'[j] = None /\ run[j] \in DOMAIN Telling
                 /\ run'[j] \in {"none", "encode", "reached"} /\ (run'[j] = "none" <=> run[j] = "ended")
              \/ run[j] = "reached" /\ run'[j] \in {"encode", "prompt"} /\ UNCHANGED <<st, says>>
              \/ run[j] = "encode" /\ run'[j] = "ended" /\ Terminal(st'[j]) /\ says' = says /\ says[j] = None
<1> USE DEF process, queue, polling
<1>0. st \in [Jobs -> JobStates] /\ run \in [Jobs -> Places] /\ says \in [Jobs -> Events \cup {None}]
  BY DEF Typed, QueueTyped
<1>1. CASE RunDispatch(j) \/ RunStart(j)
  BY <1>0, <1>1 DEF RunDispatch, RunStart
<1>2. CASE RunView(j)
  BY <1>0, <1>2 DEF RunView
<1>3. CASE Emitting(j)
  BY <1>0, <1>3, RunSends
<1>4. CASE maybeCheckpoint(j)
  BY <1>0, <1>4 DEF maybeCheckpoint
<1>5. CASE RunFinish(j)
  BY <1>0, <1>5 DEF RunFinish, Terminal
<1>. QED  BY <1>1, <1>2, <1>3, <1>4, <1>5 DEF RunStep, Emitting

LEMMA StagesStep ==
    ASSUME Typed, Quiet, Stages, [Next]_vars
    PROVE  Stages'
<1> USE DEF process, queue
<1>0. /\ st \in [Jobs -> JobStates] /\ run \in [Jobs -> Places]
      /\ restoring \in [jobs : [Batches -> SUBSET Jobs], flags : SUBSET Batches]
  BY DEF Typed, QueueTyped, ProcessTyped
\* No job is forgotten, so what Cancel has in hand stays known.
<1>1. ASSUME \A j \in Jobs : st[j] # "absent" => st'[j] # "absent"
      PROVE  Cancelling' => st'[Head(poller'.left)] # "absent"
  <2>1. SUFFICES ASSUME Cancelling' PROVE st'[Head(poller'.left)] # "absent"
    OBVIOUS
  <2>2. poller'.left = poller.left
    BY <2>1, InHand
  <2>3. /\ Head(poller.left) \in Jobs
        /\ st[Head(poller.left)] # "absent"
    BY <2>1, InHand DEF Stages, Cancelling, CancelFinish, CancelView
  <2>. QED  BY <1>1, <2>2, <2>3
<1>2. ASSUME NEW b \in Batches, Enqueue(b)
      PROVE  Stages'
  <2>1. /\ phase = "up" /\ UNCHANGED <<run, says, restoring>>
        /\ \A j \in Jobs : st'[j] = st[j] \/ (st[j] = "absent" /\ st'[j] = "queued")
    BY <1>2, JobsOfBatch DEF Enqueue, Create
  <2>2. \A j \in Jobs : Stage(j)'
    BY <1>0, <2>1 DEF Stages, Stage, Terminal
  <2>3. \A c \in Batches : restoring'.jobs[c] = {}
    BY <2>1 DEF Quiet
  <2>. QED  BY <1>1, <2>1, <2>2, <2>3 DEF Stages
<1>3. ASSUME NEW j \in Jobs, RunStep(j)
      PROVE  Stages'
  <2>1. /\ restoring' = restoring
        /\ \A k \in Jobs \ {j} : st'[k] = st[k] /\ run'[k] = run[k] /\ says'[k] = says[k]
    BY <1>3, OwnJob
  <2>2. DOMAIN Telling = {"started", "encode", "prompt", "ended"}
    BY DEF Telling
  <2>3. Stage(j) /\ (run[j] \in Places)
    BY <1>0 DEF Stages
  <2>4. View(j).st = st[j]
    BY DEF View, Event
  <2>5. Stage(j)' /\ (st[j] # "absent" => st'[j] # "absent") /\ (st'[j] # st[j] => st[j] # "absent")
    BY <1>0, <1>3, <2>2, <2>3, <2>4, OwnJob DEF Stage, Terminal, Pending, Places
  <2>6. \A k \in Jobs \ {j} : Stage(k)'
    BY <2>1 DEF Stages, Stage
  <2>7. \A b \in Batches : \A k \in restoring'.jobs[b] : st'[k] = "absent"
    BY <1>0, <2>1, <2>5 DEF Stages
  <2>8. Cancelling' => st'[Head(poller'.left)] # "absent"
    BY <1>1, <2>1, <2>5
  <2>. QED  BY <2>5, <2>6, <2>7, <2>8 DEF Stages
<1>4. ASSUME NEW b \in Batches, RestoreEnqueue(b)
      PROVE  Stages'
  <2>1. /\ phase = "restore" /\ UNCHANGED <<run, says, poller>>
        /\ \A j \in Jobs : st'[j] = IF j \in restoring.jobs[b] THEN "queued" ELSE st[j]
        /\ restoring'.jobs = [restoring.jobs EXCEPT ![b] = {}]
    BY <1>0, <1>4 DEF RestoreEnqueue, polling
  <2>2. ASSUME NEW c \in Batches, NEW j \in restoring'.jobs[c]
        PROVE  st'[j] = "absent"
    <3>1. c # b /\ j \in restoring.jobs[c]
      BY <1>0, <2>1, <2>2
    <3>2. j \in Jobs /\ j \in ToSet(JobsOf[c])
      BY <1>0, <3>1 DEF Typed, ProcessTyped
    <3>3. j \notin restoring.jobs[b]
      BY <3>1, <3>2, ConstantsOK DEF Typed, ProcessTyped
    <3>. QED  BY <2>1, <3>1, <3>2, <3>3 DEF Stages
  <2>3. ASSUME NEW j \in Jobs
        PROVE  Stage(j)' /\ (st[j] # "absent" => st'[j] # "absent")
    <3>1. j \in restoring.jobs[b] => st[j] = "absent"
      BY DEF Stages
    <3>. QED  BY <2>1, <3>1 DEF Stages, Stage, Terminal
  <2>4. Cancelling' => st'[Head(poller'.left)] # "absent"
    BY <1>1, <2>3
  <2>. QED  BY <2>2, <2>3, <2>4 DEF Stages
<1>5. ASSUME UNCHANGED <<st, run, says, restoring>>
      PROVE  Stages'
  BY <1>1, <1>5 DEF Stages, Stage
<1>6. CASE RestoreMark \/ RestoreEnd
  <2>1. UNCHANGED <<st, run, says>> /\ \A b \in Batches : restoring'.jobs[b] \subseteq restoring.jobs[b]
    BY <1>0, <1>6 DEF RestoreMark, RestoreEnd, Nothing
  <2>. QED  BY <1>1, <2>1 DEF Stages, Stage
<1>7. CASE Boot
  <2>1. UNCHANGED <<st, run, says, poller>> /\ \A j \in Jobs : st[j] = "absent"
    BY <1>7 DEF Boot, polling, Quiet
  <2>2. \A b \in Batches : restoring'.jobs[b] \subseteq Jobs
    BY <1>7, JobsOfBatch DEF Boot
  <2>3. ~Cancelling'
    BY <1>7, <2>1 DEF Boot, Quiet, Cancelling
  <2>. QED  BY <2>1, <2>2, <2>3 DEF Stages, Stage
<1>8. CASE Crash
  BY <1>8 DEF Crash, Stages, Stage, Cancelling, Nothing, Polling
<1>9. CASE CancelFinish
  <2> DEFINE j == Head(poller.left)
  <2>1. /\ UNCHANGED <<run, says, restoring>> /\ j \in Jobs /\ st[j] # "absent"
        /\ st' = [st EXCEPT ![j] = "failed"]
    BY <1>9, InHand DEF CancelFinish, Stages, Cancelling
  <2>. HIDE DEF j
  <2>2. \A k \in Jobs : st'[k] = IF k = j THEN "failed" ELSE st[k]
    BY <1>0, <2>1
  <2>3. \A k \in Jobs : Stage(k)'
    BY <2>1, <2>2 DEF Stages, Stage, Terminal
  <2>4. \A b \in Batches : \A k \in restoring'.jobs[b] : st'[k] = "absent"
    BY <1>0, <2>1, <2>2 DEF Stages
  <2>5. Cancelling' => st'[Head(poller'.left)] # "absent"
    BY <1>1, <2>2
  <2>. QED  BY <2>3, <2>4, <2>5 DEF Stages
<1>10. CASE getUpdates \/ CancelBatch \/ CancelNext \/ CancelView \/ CancelTell \/ onCallback \/ EditStopped
  BY <1>5, <1>10 DEF getUpdates, CancelBatch, CancelNext, CancelView, CancelTell, onCallback, EditStopped
<1>11. CASE Announce \/ UNCHANGED vars
  BY <1>5, <1>11 DEF Announce, EnqueueView, EnqueueEmit, vars
<1>12. CASE Watch
  BY <1>5, <1>12 DEF Watch, WatcherSubscribe, WatcherCut, ReadProgress, onCheckpoint, onState,
                WatcherTake, Send, StoreMessage, SendSummary, EditAtEnd
<1>13. ASSUME NEW p \in Pages, PageStep(p)
       PROVE  Stages'
  BY <1>5, <1>13 DEF PageStep, PageConnect, PageSnapshot, PageRead, PageEnd
<1>14. ASSUME NEW b \in Batches, Press(b)
       PROVE  Stages'
  BY <1>5, <1>14, Bystanders
<1>. QED  BY <1>2, <1>3, <1>4, <1>6, <1>7, <1>8, <1>9, <1>10, <1>11, <1>12, <1>13, <1>14
          DEF Next, Restore, Poll

\* Only one goroutine has a job that Cancel did not take under the hands of its run.
ApartAll == \A j \in Jobs : Apart(j)

LEMMA ApartStep ==
    ASSUME Typed, Quiet, Stages, ApartAll, [Next]_vars
    PROVE  ApartAll'
<1> USE DEF process, queue
<1>0. st \in [Jobs -> JobStates] /\ run \in [Jobs -> Places]
  BY DEF Typed, QueueTyped
<1>1. ASSUME NEW j \in Jobs, UNCHANGED <<poller, struck>>,
             says'[j] = None \/ says'[j] = says[j],
             (Cancelling /\ Head(poller.left) = j) => st'[j] = st[j] /\ run'[j] = run[j]
      PROVE  Apart(j)'
  BY <1>1 DEF ApartAll, Apart, Cancelling
<1>2. ASSUME NEW b \in Batches, Enqueue(b) \/ RestoreEnqueue(b)
      PROVE  ApartAll'
  <2>1. /\ UNCHANGED <<run, says, poller, struck>> /\ phase # "down"
    BY <1>2 DEF Enqueue, RestoreEnqueue, polling
  <2>2. ASSUME NEW j \in Jobs, Cancelling, Head(poller.left) = j
        PROVE  st'[j] = st[j]
    <3>1. Enqueue(b) /\ st[j] # "absent"
      BY <1>2, <2>2 DEF Quiet, Cancelling, RestoreEnqueue, Stages
    <3>. QED  BY <3>1, JobsOfBatch DEF Enqueue, Create
  <2>. QED  BY <1>1, <2>1, <2>2 DEF ApartAll
<1>3. ASSUME NEW j \in Jobs, RunStep(j)
      PROVE  ApartAll'
  <2>1. /\ UNCHANGED <<poller, struck>>
        /\ \A k \in Jobs \ {j} : st'[k] = st[k] /\ run'[k] = run[k] /\ says'[k] = says[k]
    BY <1>3, OwnJob
  <2>2. "none" \notin DOMAIN Telling
    BY DEF Telling
  <2>3. CASE j \in struck
    <3>1. Apart(j)'
      BY <2>1, <2>3 DEF Apart
    <3>2. \A k \in Jobs \ {j} : Apart(k)'
      BY <1>1, <2>1
    <3>. QED  BY <3>1, <3>2 DEF ApartAll
  <2>4. CASE j \notin struck
    <3>1. Apart(j)
      BY DEF ApartAll
    <3>2. CASE Cancelling /\ Head(poller.left) = j
      <4>1. run[j] = "none" /\ st[j] = IF poller.at = "settle" THEN "queued" ELSE "failed"
        BY <2>4, <3>1, <3>2 DEF Apart
      <4>2. ~Pending(j)
        BY <3>2, <4>1 DEF Pending, Cancelling
      <4>. QED  BY <1>3, <2>2, <4>1, <4>2, OwnJob
    <3>3. CASE ~(Cancelling /\ Head(poller.left) = j)
      <4>1. ~(poller.at = "settle" /\ Head(poller.left) = j)
        BY <3>3 DEF Cancelling
      <4>2. says'[j] = None \/ says'[j] = says[j]
        BY <1>3, <4>1, OwnJob
      <4>3. \A k \in Jobs : Apart(k)'
        BY <1>1, <2>1, <3>3, <4>2
      <4>. QED  BY <4>3 DEF ApartAll
    <3>. QED  BY <3>2, <3>3
  <2>. QED  BY <2>3, <2>4
<1>4. CASE Crash
  BY <1>4 DEF Crash, ApartAll, Apart, Cancelling, Polling
<1>5. CASE CancelNext
  <2>1. /\ UNCHANGED <<st, run, says>>
        /\ \/ /\ poller'.at = "settle" /\ poller'.left = poller.left /\ st[Head(poller.left)] = "queued"
              /\ struck' = IF run[Head(poller.left)] # "none" THEN struck \cup {Head(poller.left)} ELSE struck
           \/ poller'.at = "cancel" /\ struck' = struck
    BY <1>5 DEF CancelNext, Typed, PollerTyped, Pollers
  <2>. QED  BY <2>1 DEF ApartAll, Apart, Cancelling
<1>6. CASE CancelFinish
  <2> DEFINE j == Head(poller.left)
  <2>1. /\ UNCHANGED <<run, says, struck>> /\ j \in Jobs /\ st' = [st EXCEPT ![j] = "failed"]
        /\ poller.at = "settle" /\ poller'.at = "view" /\ poller'.left = poller.left
    BY <1>6, InHand DEF CancelFinish, Typed, PollerTyped, Pollers, Cancelling
  <2>2. Head(poller'.left) = j
    BY <2>1
  <2>. HIDE DEF j
  <2>3. j = Head(poller.left)
    BY DEF j
  <2>4. st'[j] = "failed"
    BY <1>0, <2>1
  <2>. QED  BY <2>1, <2>2, <2>3, <2>4 DEF ApartAll, Apart, Cancelling
<1>7. CASE CancelView
  <2>1. /\ UNCHANGED <<st, run, says, struck>> /\ poller.at = "view" /\ poller'.at = "tell"
        /\ poller'.left = poller.left /\ poller'.ev = Event("state", Head(poller.left), st[Head(poller.left)])
    BY <1>7 DEF CancelView, Typed, PollerTyped, Pollers
  <2>. QED  BY <2>1 DEF ApartAll, Apart, Cancelling, Event
<1>8. ASSUME UNCHANGED <<st, run, says, struck>>, poller' = poller \/ ~Cancelling'
      PROVE  ApartAll'
  BY <1>8 DEF ApartAll, Apart, Cancelling
<1>9. CASE getUpdates \/ CancelBatch \/ CancelTell \/ onCallback \/ EditStopped
  <2>1. UNCHANGED <<st, run, says, struck>>
    BY <1>9 DEF getUpdates, CancelBatch, CancelTell, onCallback, EditStopped, polling
  <2>2. poller' = poller \/ ~Cancelling'
    BY <1>9 DEF getUpdates, CancelBatch, CancelTell, onCallback, EditStopped, Idle, Polling,
                Cancelling, Typed, PollerTyped, Pollers
  <2>. QED  BY <1>8, <2>1, <2>2
<1>10. CASE Announce \/ RestoreMark \/ RestoreEnd \/ Boot \/ UNCHANGED vars
  BY <1>8, <1>10 DEF Announce, EnqueueView, EnqueueEmit, RestoreMark, RestoreEnd, Boot, vars, polling
<1>11. CASE Watch
  BY <1>8, <1>11 DEF Watch, WatcherSubscribe, WatcherCut, ReadProgress, onCheckpoint, onState,
                WatcherTake, Send, StoreMessage, SendSummary, EditAtEnd, polling
<1>12. ASSUME NEW p \in Pages, PageStep(p)
       PROVE  ApartAll'
  BY <1>8, <1>12 DEF PageStep, PageConnect, PageSnapshot, PageRead, PageEnd, polling
<1>13. ASSUME NEW b \in Batches, Press(b)
       PROVE  ApartAll'
  BY <1>8, <1>13, Bystanders DEF polling
<1>. QED  BY <1>2, <1>3, <1>4, <1>5, <1>6, <1>7, <1>9, <1>10, <1>11, <1>12, <1>13
          DEF Next, Restore, Poll

\* What is true of where the goroutines are, whatever their messages.
Placed == Typed /\ Quiet /\ Stages /\ ApartAll

LEMMA PlacedAlways == Spec => []Placed
<1>1. Init => Quiet /\ Stages /\ ApartAll
  <2>1. SUFFICES ASSUME Init PROVE Quiet /\ Stages /\ ApartAll
    OBVIOUS
  <2>2. Notifier \in Subscribers
    BY DEF Subscribers
  <2>. QED  BY <2>1, <2>2 DEF Init, Quiet, Stages, Stage, ApartAll, Apart, Cancelling, Asleep, Polling,
                         Nothing, NoOne
<1>2. Placed /\ [Next]_vars => Placed'
  BY TypedStep, QuietStep, StagesStep, ApartStep DEF Placed
<1>. QED  BY <1>1, <1>2, InitTyped, PTL DEF Spec, Placed

-----------------------------------------------------------------------------
(* One prompt *)

(* What is recorded of prompts, in memory and in the file, is not taken back while the
   process lives, and no job is forgotten. *)
LEMMA Records ==
    ASSUME Typed, [Next]_vars, ~Crash
    PROVE  /\ flag \subseteq flag' /\ unmarked \subseteq unmarked'
           /\ phase' = "down" => phase = "down"
           /\ ~Boot => phase' = phase \/ (phase = "restore" /\ phase' = "up")
           /\ \A j \in Jobs : st[j] # "absent" => st'[j] # "absent"
           /\ \/ file' = file
              \/ /\ file'.flags = flag' /\ phase' = phase
                 /\ file'.todo = {j \in Jobs : st'[j] \in {"queued", "running"}}
<1> USE DEF queue, process
<1>0. st \in [Jobs -> JobStates] /\ poller.left \in Seq(Jobs)
  BY DEF Typed, QueueTyped, PollerTyped, Pollers
<1>1. ASSUME NEW b \in Batches, Enqueue(b) \/ RestoreEnqueue(b) \/ Press(b)
      PROVE  /\ flag' = flag /\ unmarked' = unmarked /\ phase' = phase
             /\ \A j \in Jobs : st[j] # "absent" => st'[j] # "absent"
             /\ \/ file' = file
                \/ /\ file'.flags = flag'
                   /\ file'.todo = {j \in Jobs : st'[j] \in {"queued", "running"}}
  <2>1. CASE RestoreEnqueue(b)
    <3>1. /\ flag' = flag /\ unmarked' = unmarked /\ phase' = phase /\ save(st', flag)
          /\ \A j \in Jobs : st'[j] = IF j \in restoring.jobs[b] THEN "queued" ELSE st[j]
      BY <2>1 DEF RestoreEnqueue
    <3>. QED  BY <3>1 DEF save
  <2>. QED  BY <1>0, <1>1, <2>1 DEF Enqueue, Create, Press
<1>2. ASSUME NEW j \in Jobs, RunStep(j)
      PROVE  /\ flag \subseteq flag' /\ unmarked \subseteq unmarked' /\ phase' = phase
             /\ \A k \in Jobs : st[k] # "absent" => st'[k] # "absent"
             /\ \/ file' = file
                \/ /\ file'.flags = flag'
                   /\ file'.todo = {k \in Jobs : st'[k] \in {"queued", "running"}}
  <2>1. CASE RunStart(j)
    BY <1>0, <2>1 DEF RunStart
  <2>2. CASE maybeCheckpoint(j)
    BY <2>2 DEF maybeCheckpoint, save
  <2>3. CASE RunFinish(j)
    BY <1>0, <2>3 DEF RunFinish
  <2>4. CASE Emitting(j)
    BY <2>4, RunSends DEF save
  <2>5. CASE RunDispatch(j) \/ RunView(j)
    BY <2>5 DEF RunDispatch, RunView
  <2>. QED  BY <1>2, <2>1, <2>2, <2>3, <2>4, <2>5 DEF RunStep, Emitting
<1>3. CASE Announce
  BY <1>3 DEF Announce, EnqueueView, EnqueueEmit, save
<1>4. CASE RestoreMark \/ RestoreEnd \/ Boot
  BY <1>4 DEF RestoreMark, RestoreEnd, Boot
<1>5. CASE Watch
  BY <1>5 DEF Watch, WatcherSubscribe, WatcherCut, ReadProgress, onCheckpoint, onState,
              WatcherTake, Send, StoreMessage, SendSummary, EditAtEnd
<1>6. CASE Poll
  <2>1. CASE CancelFinish
    BY <1>0, <2>1 DEF CancelFinish
  <2>2. CASE CancelTell
    BY <2>2 DEF CancelTell, save
  <2>. QED  BY <1>6, <2>1, <2>2 DEF Poll, getUpdates, CancelBatch, CancelNext, CancelView, onCallback,
                                    EditStopped
<1>7. ASSUME NEW p \in Pages, PageStep(p)
      PROVE  UNCHANGED <<flag, unmarked, phase, st, file>>
  BY <1>7 DEF PageStep, PageConnect, PageSnapshot, PageRead, PageEnd
<1>8. CASE UNCHANGED vars
  BY <1>8 DEF vars
<1>. QED  BY <1>1, <1>2, <1>3, <1>4, <1>5, <1>6, <1>7, <1>8 DEF Next, Restore

(* What waits for the notifier of a prompt of b, when an event of another matter is put into
   its channel, or one is taken out. *)
LEMMA ToldKept ==
    ASSUME Typed, NEW b \in Batches,
           \/ chan'[Notifier] = chan[Notifier] \/ chan'[Notifier] = <<>>
           \/ \E ev \in Events : /\ chan'[Notifier] = Append(chan[Notifier], ev)
                                 /\ ev.kind = "checkpoint" => BatchOf(ev.job) # b
           \/ chan[Notifier] # <<>> /\ chan'[Notifier] = Tail(chan[Notifier])
    PROVE  (Told(b)' => Told(b)) /\ (OneTold(b) => OneTold(b)')
<1> DEFINE c == chan[Notifier]
           n == Len(c)
<1>1. c \in Seq(Events) /\ n \in Nat /\ DOMAIN c = 1 .. n
  BY DEF Typed, StreamTyped, Subscribers
<1>2. CASE chan'[Notifier] = c \/ chan'[Notifier] = <<>>
  BY <1>2 DEF Told, OneTold, IsTold
<1>3. CASE \E ev \in Events : /\ chan'[Notifier] = Append(c, ev)
                              /\ ev.kind = "checkpoint" => BatchOf(ev.job) # b
  <2>1. PICK ev \in Events : /\ chan'[Notifier] = Append(c, ev)
                             /\ ev.kind = "checkpoint" => BatchOf(ev.job) # b
    BY <1>3
  <2>2. /\ DOMAIN chan'[Notifier] = 1 .. n + 1
        /\ \A k \in 1 .. n + 1 : chan'[Notifier][k] = IF k = n + 1 THEN ev ELSE c[k]
    BY <1>1, <2>1
  <2>3. \A k \in DOMAIN chan'[Notifier] : IsTold(b, k)' => k \in DOMAIN c /\ IsTold(b, k)
    BY <1>1, <2>1, <2>2 DEF IsTold
  <2>. QED  BY <2>3 DEF Told, OneTold
<1>4. CASE c # <<>> /\ chan'[Notifier] = Tail(c)
  <2>1. /\ DOMAIN chan'[Notifier] = 1 .. n - 1
        /\ \A k \in 1 .. n - 1 : chan'[Notifier][k] = c[k + 1]
    BY <1>1, <1>4
  <2>2. \A k \in DOMAIN chan'[Notifier] :
          k + 1 \in DOMAIN c /\ (IsTold(b, k)' => IsTold(b, k + 1))
    BY <1>1, <2>1 DEF IsTold
  <2>3. Told(b)' => Told(b)
    BY <2>2 DEF Told
  <2>4. ASSUME OneTold(b), NEW i \in DOMAIN chan'[Notifier], NEW k \in DOMAIN chan'[Notifier],
               IsTold(b, i)', IsTold(b, k)'
        PROVE  i = k
    <3>1. i + 1 = k + 1
      BY <2>2, <2>4 DEF OneTold
    <3>. QED  BY <2>1, <3>1
  <2>. QED  BY <2>3, <2>4 DEF OneTold
<1>. QED  BY <1>2, <1>3, <1>4

\* A step after which Telegram holds no other prompt of b.
ChatStill(b) ==
    \A i \in DOMAIN chat' :
        chat'[i].batch = b => i \in DOMAIN chat /\ Of(b, i) /\ chat'[i].boot = chat[i].boot

\* A step that moves no prompt of b.
Still(b) ==
    /\ \A j \in Jobs : run'[j] = "prompt" /\ BatchOf(j) = b => Asks(b, j)
    /\ (Told(b)' => Told(b)) /\ (OneTold(b) => OneTold(b)')
    /\ Sending(b)' => Sending(b)
    /\ ChatStill(b)

\* The steps that move it.
Moves(b) ==
    \/ \E j \in Jobs : /\ BatchOf(j) = b
                       /\ \/ maybeCheckpoint(j) /\ MayPrompt(j)
                          \/ CheckpointEmit(j)
    \/ onCheckpoint /\ BatchOf(Head(chan[Notifier]).job) = b
    \/ Send /\ watcher.b = b

LEMMA StillStep ==
    ASSUME Typed, [Next]_vars, ~Crash, NEW b \in Batches, ~Moves(b)
    PROVE  Still(b)
<1> USE DEF queue, stream, notify, service
<1>0. /\ Notifier \in Subscribers /\ chan \in [Subscribers -> Seq(Events)]
      /\ run \in [Jobs -> Places]
      /\ chat \in Seq(Prompts) /\ Notifier \notin Pages
  BY ConstantsOK DEF Typed, StreamTyped, Subscribers, QueueTyped, WatchTyped
<1>1. ASSUME UNCHANGED <<run, watcher, chat>>, chan'[Notifier] = chan[Notifier]
      PROVE  Still(b)
  <2>1. (Told(b)' => Told(b)) /\ (OneTold(b) => OneTold(b)')
    BY <1>1, ToldKept
  <2>. QED  BY <1>1, <2>1 DEF Still, ChatStill, Asks, Sending, Of
<1>2. ASSUME NEW ev \in Events, emit(ev), ev.kind = "checkpoint" => BatchOf(ev.job) # b
      PROVE  (Told(b)' => Told(b)) /\ (OneTold(b) => OneTold(b)')
  <2>1. chan'[Notifier] = chan[Notifier] \/ chan'[Notifier] = Append(chan[Notifier], ev)
    BY <1>0, <1>2, Emits DEF Typed
  <2>. QED  BY <1>2, <2>1, ToldKept
<1>3. CASE EnqueueEmit \/ CancelTell
  <2>1. UNCHANGED <<run, watcher, chat>>
    BY <1>3 DEF EnqueueEmit, CancelTell
  <2>2. \E ev \in Events : emit(ev) /\ ev.kind = "state"
    BY <1>3, Emitted DEF Event, EnqueueEmit, Typed, QueueTyped
  <2>3. (Told(b)' => Told(b)) /\ (OneTold(b) => OneTold(b)')
    BY <1>2, <2>2
  <2>. QED  BY <2>1, <2>3 DEF Still, ChatStill, Asks, Sending, Of
<1>4. ASSUME NEW j \in Jobs, RunStep(j)
      PROVE  Still(b)
  <2>1. UNCHANGED <<watcher, chat>>
    BY <1>4 DEF RunStep, RunDispatch, RunStart, RunView, StartEmit, onProgress,
               maybeCheckpoint, CheckpointEmit, RunFinish, RunExit, RunEmit
  <2>2. (Told(b)' => Told(b)) /\ (OneTold(b) => OneTold(b)')
    <3>1. CASE ~Emitting(j)
      <4>1. chan' = chan
        BY <1>4, <3>1 DEF RunStep, Emitting, RunDispatch, RunStart, RunView, maybeCheckpoint, RunFinish
      <4>. QED  BY <4>1, ToldKept
    <3>2. CASE Emitting(j)
      <4>1. \E ev \in Events : emit(ev) /\ (ev.kind = "checkpoint" => BatchOf(ev.job) # b)
        BY <3>2, RunSends DEF Moves, Telling
      <4>. QED  BY <1>2, <4>1
    <3>. QED  BY <3>1, <3>2
  <2>3. \A k \in Jobs : run'[k] = "prompt" /\ BatchOf(k) = b => run[k] = "prompt"
    <3>1. CASE maybeCheckpoint(j)
      BY <1>0, <3>1 DEF maybeCheckpoint, Moves
    <3>2. CASE Emitting(j)
      BY <1>0, <3>2, RunSends
    <3>3. CASE RunDispatch(j) \/ RunStart(j) \/ RunView(j) \/ RunFinish(j)
      BY <1>0, <3>3 DEF RunDispatch, RunStart, RunView, RunFinish
    <3>. QED  BY <1>4, <3>1, <3>2, <3>3 DEF RunStep, Emitting
  <2>. QED  BY <2>1, <2>2, <2>3 DEF Still, ChatStill, Asks, Sending, Of
<1>5. CASE ReadProgress \/ onCheckpoint \/ onState
  <2>1. /\ UNCHANGED <<run, chat>> /\ chan[Notifier] # <<>>
        /\ chan'[Notifier] = Tail(chan[Notifier])
    BY <1>0, <1>5, Takes
  <2>2. (Told(b)' => Told(b)) /\ (OneTold(b) => OneTold(b)')
    BY <2>1, ToldKept
  <2>3. Sending(b)' => Sending(b)
    BY <1>5 DEF ReadProgress, onCheckpoint, onState, Sending, Moves
  <2>. QED  BY <2>1, <2>2, <2>3 DEF Still, ChatStill, Asks, Of
<1>6. CASE WatcherSubscribe \/ WatcherCut
  <2>1. /\ UNCHANGED <<run, chat>> /\ chan'[Notifier] \in {<<>>, chan[Notifier]}
        /\ watcher'.at # "send"
    BY <1>0, <1>6 DEF WatcherSubscribe, WatcherCut, Subscribe, Typed, WatchTyped
  <2>2. (Told(b)' => Told(b)) /\ (OneTold(b) => OneTold(b)')
    BY <2>1, ToldKept
  <2>. QED  BY <2>1, <2>2 DEF Still, ChatStill, Asks, Sending, Of
<1>7. CASE StoreMessage \/ SendSummary
  <2>1. UNCHANGED <<run, chat, chan>> /\ watcher'.at # "send"
    BY <1>7 DEF StoreMessage, SendSummary, Asleep, Typed, WatchTyped
  <2>2. (Told(b)' => Told(b)) /\ (OneTold(b) => OneTold(b)')
    BY <2>1, ToldKept
  <2>. QED  BY <2>1, <2>2 DEF Still, ChatStill, Asks, Sending, Of
<1>8. CASE Send
  <2>1. watcher.b # b /\ watcher.b \in Batches
    BY <1>8 DEF Moves, Send, Typed, WatchTyped
  <2>2. UNCHANGED <<run, chan>> /\ watcher'.at # "send"
    BY <1>8 DEF Send, Asleep
  <2>3. chat' = chat \/ chat' = Append(chat, Prompt(watcher.b))
    BY <1>8 DEF Send
  <2>4. \A i \in DOMAIN chat' :
         chat'[i].batch = b => i \in DOMAIN chat /\ Of(b, i) /\ chat'[i].boot = chat[i].boot
    <3>1. CASE chat' = chat
      BY <3>1 DEF Of
    <3>2. CASE chat' = Append(chat, Prompt(watcher.b))
      <4>1. Prompt(watcher.b).batch = watcher.b
        BY DEF Prompt
      <4>2. \A i \in DOMAIN chat' :
              chat'[i] = IF i \in DOMAIN chat THEN chat[i] ELSE Prompt(watcher.b)
        BY <1>0, <3>2
      <4>. QED  BY <2>1, <4>1, <4>2 DEF Of
    <3>. QED  BY <2>3, <3>1, <3>2
  <2>5. (Told(b)' => Told(b)) /\ (OneTold(b) => OneTold(b)')
    BY <2>2, ToldKept
  <2>. QED  BY <2>2, <2>4, <2>5 DEF Still, ChatStill, Asks, Sending
<1>9. CASE EditAtEnd \/ EditStopped
  <2>1. UNCHANGED <<run, chan>> /\ (watcher' = watcher \/ watcher'.at # "send")
    BY <1>9 DEF EditAtEnd, EditStopped, Asleep
  <2>2. \E id \in 1 .. Len(chat) : Edit(id)
    <3>1. watcher.at = "edit" => watcher.id \in 1 .. Len(chat)
      <4>1. /\ watcher \in [at : {"off", "idle", "send", "store", "summary", "edit"},
                            b : Batches \cup {None}, id : 1 .. MaxChat \cup {None}]
            /\ watcher.at = "edit" => watcher.id # None
            /\ watcher.id # None => watcher.id <= Len(chat)
        BY DEF Typed, WatchTyped
      <4>. QED  BY <1>0, <4>1, ConstantsOK
    <3>2. poller.at = "edit" => poller.id \in 1 .. Len(chat)
      BY DEF Typed, WatchTyped
    <3>. QED  BY <1>9, <3>1, <3>2 DEF EditAtEnd, EditStopped
  <2>3. \A i \in DOMAIN chat' :
         chat'[i].batch = b => i \in DOMAIN chat /\ Of(b, i) /\ chat'[i].boot = chat[i].boot
    BY <1>0, <2>2, Edits DEF Of
  <2>4. (Told(b)' => Told(b)) /\ (OneTold(b) => OneTold(b)')
    BY <2>1, ToldKept
  <2>. QED  BY <2>1, <2>3, <2>4 DEF Still, ChatStill, Asks, Sending
<1>10. ASSUME NEW p \in Pages, PageStep(p)
       PROVE  Still(b)
  <2>1. UNCHANGED <<run, watcher, chat>> /\ chan'[Notifier] = chan[Notifier]
    BY <1>0, <1>10 DEF PageStep, PageConnect, PageSnapshot, PageRead, PageEnd, Subscribe
  <2>. QED  BY <1>1, <2>1
<1>11. ASSUME NEW c \in Batches, Enqueue(c) \/ Press(c) \/ RestoreEnqueue(c)
       PROVE  Still(b)
  BY <1>1, <1>11 DEF Enqueue, Press, RestoreEnqueue
<1>12. CASE EnqueueView \/ RestoreMark \/ RestoreEnd \/ Boot \/ UNCHANGED vars
  BY <1>1, <1>12 DEF EnqueueView, RestoreMark, RestoreEnd, Boot, vars
<1>13. CASE getUpdates \/ CancelBatch \/ CancelNext \/ CancelFinish \/ CancelView \/ onCallback
  BY <1>1, <1>13 DEF getUpdates, CancelBatch, CancelNext, CancelFinish, CancelView, onCallback
<1>. QED  BY <1>3, <1>4, <1>5, <1>6, <1>7, <1>8, <1>9, <1>10, <1>11, <1>12, <1>13
          DEF Next, Announce, Restore, Watch, Poll

(* A batch becomes known by Enqueue or by Restore. *)
LEMMA KnownNext ==
    ASSUME NEW b \in Batches
    PROVE  Known(b)' <=> \E j \in ToSet(JobsOf[b]) : st'[j] # "absent"
<1> DEFINE absent == {j \in Jobs : st'[j] = "absent"}
<1>1. JobsOf[b] \in Seq(Jobs) /\ ToSet(JobsOf[b]) \subseteq Jobs
  BY JobsOfBatch
<1>2. Members(b)' = Without(JobsOf[b], absent)
  BY DEF Members
<1>3. Members(b)' \in Seq(Jobs) /\ ToSet(Members(b)') = ToSet(JobsOf[b]) \ absent
  BY <1>1, <1>2, WithoutElements
<1>4. Members(b)' = <<>> => ToSet(Members(b)') = {}
  BY DEF ToSet
<1>5. Members(b)' # <<>> => Head(Members(b)') \in ToSet(Members(b)')
  BY <1>3, TailElements
<1>. QED  BY <1>1, <1>3, <1>4, <1>5 DEF Known

LEMMA BecomesKnown ==
    ASSUME Placed, [Next]_vars, NEW b \in Batches, Known(b)', ~Known(b)
    PROVE  Enqueue(b) \/ RestoreEnqueue(b)
<1> USE DEF queue
<1>0. st \in [Jobs -> JobStates] /\ poller.left \in Seq(Jobs)
  BY DEF Placed, Typed, QueueTyped, PollerTyped, Pollers
<1>1. PICK j \in ToSet(JobsOf[b]) : st'[j] # "absent" /\ st[j] = "absent"
  BY KnownBatch, KnownNext
<1>2. j \in Jobs
  BY <1>1, JobsOfBatch
<1>3. ASSUME NEW c \in Batches, Enqueue(c)
      PROVE  c = b
  <2>1. j \in ToSet(JobsOf[c])
    BY <1>1, <1>2, <1>3 DEF Enqueue, Create
  <2>. QED  BY <1>1, <2>1, ConstantsOK
<1>4. ASSUME NEW c \in Batches, RestoreEnqueue(c)
      PROVE  c = b
  <2>1. j \in restoring.jobs[c]
    BY <1>1, <1>2, <1>4 DEF RestoreEnqueue
  <2>2. j \in ToSet(JobsOf[c])
    BY <2>1 DEF Placed, Typed, ProcessTyped
  <2>. QED  BY <1>1, <2>2, ConstantsOK
<1>5. ASSUME NEW k \in Jobs, RunStep(k)
      PROVE  FALSE
  <2>1. st'[k] = st[k] \/ st[k] # "absent"
    <3>1. Typed /\ Stage(k)
      BY DEF Placed, Stages
    <3>. QED  BY <1>5, <3>1, OwnJob DEF Stage
  <2>. QED  BY <1>1, <1>2, <1>5, <2>1, OwnJob DEF Placed
<1>6. ~Announce /\ ~RestoreMark /\ ~RestoreEnd /\ ~Boot /\ ~(UNCHANGED vars)
  BY <1>1 DEF Announce, EnqueueView, EnqueueEmit, RestoreMark, RestoreEnd, Boot, vars
<1>7. ~Crash
  BY <1>1, <1>2 DEF Crash
<1>8. ~Watch
  BY <1>1 DEF Watch, WatcherSubscribe, WatcherCut, ReadProgress, onCheckpoint, onState,
              WatcherTake, Send, StoreMessage, SendSummary, EditAtEnd
<1>9. ~Poll
  <2>1. ~CancelFinish
    BY <1>0, <1>1, <1>2 DEF CancelFinish, Placed, Stages, Cancelling
  <2>. QED  BY <1>1, <2>1 DEF Poll, getUpdates, CancelBatch, CancelNext, CancelView, CancelTell,
                              onCallback, EditStopped
<1>10. \A p \in Pages : ~PageStep(p)
  BY <1>1 DEF PageStep, PageConnect, PageSnapshot, PageRead, PageEnd
<1>11. \A c \in Batches : ~Press(c)
  BY <1>1 DEF Press
<1>. QED  BY <1>3, <1>4, <1>5, <1>6, <1>7, <1>8, <1>9, <1>10, <1>11 DEF Next, Restore

-----------------------------------------------------------------------------
(* Steps that move no prompt *)

LEMMA SameBoot ==
    ASSUME [Next]_vars, ~Boot
    PROVE  boots' = boots
<1> USE DEF process
<1>1. ASSUME NEW b \in Batches, Enqueue(b) \/ RestoreEnqueue(b) \/ Press(b)
      PROVE  boots' = boots
  BY <1>1 DEF Enqueue, RestoreEnqueue, Press
<1>2. ASSUME NEW j \in Jobs, RunStep(j)
      PROVE  boots' = boots
  BY <1>2 DEF RunStep, RunDispatch, RunStart, RunView, StartEmit, onProgress,
               maybeCheckpoint, CheckpointEmit, RunFinish, RunExit, RunEmit
<1>3. CASE Announce \/ RestoreMark \/ RestoreEnd \/ Crash \/ UNCHANGED vars
  BY <1>3 DEF Announce, EnqueueView, EnqueueEmit, RestoreMark, RestoreEnd, Crash, vars
<1>4. CASE Watch
  BY <1>4 DEF Watch, WatcherSubscribe, WatcherCut, ReadProgress, onCheckpoint, onState,
              WatcherTake, Send, StoreMessage, SendSummary, EditAtEnd
<1>5. CASE Poll
  BY <1>5 DEF Poll, getUpdates, CancelBatch, CancelNext, CancelFinish, CancelView, CancelTell, onCallback, EditStopped
<1>6. ASSUME NEW p \in Pages, PageStep(p)
      PROVE  boots' = boots
  BY <1>6 DEF PageStep, PageConnect, PageSnapshot, PageRead, PageEnd
<1>. QED  BY <1>1, <1>2, <1>3, <1>4, <1>5, <1>6 DEF Next, Restore

LEMMA StillPlace ==
    ASSUME Placed, [Next]_vars, ~Crash, ~Boot, NEW b \in Batches, InOnePlace(b), Still(b)
    PROVE  InOnePlace(b)'
<1>1. boots' = boots
  BY SameBoot
<1>2. /\ \A j \in Jobs : Asks(b, j)' => Asks(b, j)
      /\ OneTold(b)' /\ (Told(b)' => Told(b)) /\ (Sending(b)' => Sending(b))
  BY DEF Still, ChatStill, Asks, InOnePlace
<1>3. \A i \in DOMAIN chat' : IsSent(b, i)' => i \in DOMAIN chat /\ IsSent(b, i)
  BY <1>1 DEF Still, ChatStill, IsSent, Of
<1>4. OneAsked(b)' /\ OneSent(b)'
  BY <1>2, <1>3 DEF OneAsked, OneSent, InOnePlace
<1>5. (Asking(b)' => Asking(b)) /\ (Sent(b)' => Sent(b))
  BY <1>2, <1>3 DEF Asking, Sent
<1>6. /\ phase' # "down" => phase # "down"
      /\ b \in flag /\ b \in file.flags => b \in flag' /\ b \in file'.flags
  BY Records DEF Placed
<1>. QED  BY <1>2, <1>4, <1>5, <1>6 DEF InOnePlace

(* What Restore has read, and the flag it is about to set, go only where they should. *)
LEMMA RestoringKept ==
    ASSUME Typed, [Next]_vars, ~Crash, ~Boot
    PROVE  /\ mark # None => mark' = mark \/ mark \in flag'
           /\ \A b \in Batches : restoring'.jobs[b] # {} =>
                restoring.jobs[b] # {} /\ restoring'.flags = restoring.flags
<1> USE DEF process
<1>0. restoring \in [jobs : [Batches -> SUBSET Jobs], flags : SUBSET Batches]
  BY DEF Typed, ProcessTyped
<1>1. ASSUME NEW b \in Batches, RestoreEnqueue(b)
      PROVE  /\ mark = None
             /\ restoring'.flags = restoring.flags
             /\ \A c \in Batches : restoring'.jobs[c] \in {{}, restoring.jobs[c]}
  BY <1>0, <1>1 DEF RestoreEnqueue
<1>2. CASE RestoreMark
  BY <1>2 DEF RestoreMark
<1>3. CASE RestoreEnd
  BY <1>3 DEF RestoreEnd, Nothing
<1>4. ASSUME UNCHANGED <<mark, restoring>>
      PROVE  /\ mark # None => mark' = mark
             /\ \A b \in Batches : restoring'.jobs[b] # {} =>
                  restoring.jobs[b] # {} /\ restoring'.flags = restoring.flags
  BY <1>4
<1>5. ASSUME NEW j \in Jobs, RunStep(j)
      PROVE  UNCHANGED <<mark, restoring>>
  BY <1>5 DEF RunStep, RunDispatch, RunStart, RunView, StartEmit, onProgress,
               maybeCheckpoint, CheckpointEmit, RunFinish, RunExit, RunEmit
<1>6. CASE Announce \/ UNCHANGED vars
  BY <1>4, <1>6 DEF Announce, EnqueueView, EnqueueEmit, vars
<1>7. Watch => UNCHANGED <<mark, restoring>>
  BY DEF Watch, WatcherSubscribe, WatcherCut, ReadProgress, onCheckpoint, onState,
         WatcherTake, Send, StoreMessage, SendSummary, EditAtEnd
<1>8. Poll => UNCHANGED <<mark, restoring>>
  BY DEF Poll, getUpdates, CancelBatch, CancelNext, CancelFinish, CancelView, CancelTell, onCallback, EditStopped
<1>9. ASSUME NEW p \in Pages, PageStep(p)
      PROVE  UNCHANGED <<mark, restoring>>
  BY <1>9 DEF PageStep, PageConnect, PageSnapshot, PageRead, PageEnd
<1>10. ASSUME NEW b \in Batches, Enqueue(b) \/ Press(b)
       PROVE  UNCHANGED <<mark, restoring>>
  BY <1>10 DEF Enqueue, Press
<1>. QED  BY <1>1, <1>2, <1>3, <1>4, <1>5, <1>6, <1>7, <1>8, <1>9, <1>10 DEF Next, Restore

LEMMA RestMarked ==
    ASSUME Placed, [Next]_vars, ~Crash, ~Boot, NEW b \in Batches, Marked(b), ChatStill(b),
           Past(b)' => ~Asking(b)' /\ ~Told(b)' /\ ~Sending(b)'
    PROVE  Marked(b)'
<1>0. boots' = boots /\ Quiet'
  BY SameBoot, QuietStep DEF Placed
<1>1. \A i \in DOMAIN chat' :
        Of(b, i)' => i \in DOMAIN chat /\ Of(b, i) /\ chat'[i].boot = chat[i].boot
  BY DEF ChatStill, Of
<1>2. Past(b)' => Past(b)
  BY <1>0, <1>1 DEF Past
<1>4. \A i, k \in DOMAIN chat' : Of(b, i)' /\ Of(b, k)' => i = k
  BY <1>1 DEF Marked
<1>6. ASSUME Past(b)', (phase # "down")', Known(b)'
      PROVE  b \in flag' \/ b = mark'
  <2>1. CASE Known(b)
    <3>1. phase # "down" /\ flag \subseteq flag'
      BY <1>6, Records DEF Placed
    <3>2. b \in flag \/ b = mark
      BY <1>2, <1>6, <2>1, <3>1 DEF Marked
    <3>3. b # None
      BY ConstantsOK
    <3>. QED  BY <3>1, <3>2, <3>3, RestoringKept DEF Placed
  <2>2. CASE ~Known(b)
    <3>1. \E i \in DOMAIN chat : chat[i].batch = b
      BY <1>2, <1>6 DEF Past, Of
    <3>2. ~Enqueue(b)
      BY <3>1 DEF Enqueue
    <3>3. RestoreEnqueue(b)
      BY <1>6, <2>2, <3>2, BecomesKnown
    <3>4. restoring.jobs[b] # {} /\ mark' = MarkIf(b)
      BY <3>3 DEF RestoreEnqueue
    <3>5. b \in restoring.flags
      BY <1>2, <1>6, <3>4 DEF Marked
    <3>. QED  BY <3>4, <3>5 DEF MarkIf
  <2>. QED  BY <2>1, <2>2
<1>7. ASSUME Past(b)', restoring'.jobs[b] # {}
      PROVE  b \in restoring'.flags
  <2>1. restoring.jobs[b] # {} /\ restoring'.flags = restoring.flags
    BY <1>7, RestoringKept DEF Placed
  <2>. QED  BY <1>2, <1>7, <2>1 DEF Marked
<1>8. ASSUME \E i \in DOMAIN chat' : Of(b, i)', file'.todo \cap ToSet(JobsOf[b]) # {}
      PROVE  b \in file'.flags \/ (phase' # "down" /\ Known(b)')
  <2>1. CASE file' = file
    <3>1. \E i \in DOMAIN chat : Of(b, i)
      BY <1>1, <1>8
    <3>2. b \in file.flags \/ (phase # "down" /\ Known(b))
      BY <1>8, <2>1, <3>1 DEF Marked
    <3>3. Known(b) => Known(b)'
      <4>1. \A j \in ToSet(JobsOf[b]) : st[j] # "absent" => st'[j] # "absent"
        BY Records, JobsOfBatch DEF Placed
      <4>. QED  BY <4>1, KnownBatch, KnownNext
    <3>4. phase # "down" => phase' # "down"
      BY Records DEF Placed
    <3>. QED  BY <2>1, <3>2, <3>3, <3>4
  <2>2. CASE file' # file
    <3>1. PICK j \in ToSet(JobsOf[b]) : j \in Jobs /\ st'[j] \in {"queued", "running"}
      BY <1>8, <2>2, Records DEF Placed
    <3>2. Known(b)'
      BY <3>1, KnownNext
    <3>3. phase' # "down"
      BY <1>0, <3>1 DEF Quiet
    <3>. QED  BY <3>2, <3>3
  <2>. QED  BY <2>1, <2>2
<1>. QED  BY <1>4, <1>6, <1>7, <1>8 DEF Marked

LEMMA StillMarked ==
    ASSUME Placed, [Next]_vars, ~Crash, ~Boot, NEW b \in Batches, Marked(b), Still(b)
    PROVE  Marked(b)'
<1>1. boots' = boots
  BY SameBoot
<1>2. Past(b)' => Past(b)
  BY <1>1 DEF Past, Of, Still, ChatStill
<1>3. (Asking(b)' => Asking(b)) /\ (Told(b)' => Told(b)) /\ (Sending(b)' => Sending(b))
  BY DEF Still, Asking, Asks
<1>4. Past(b)' => ~Asking(b)' /\ ~Told(b)' /\ ~Sending(b)'
  BY <1>2, <1>3 DEF Marked
<1>. QED  BY <1>4, RestMarked DEF Still

-----------------------------------------------------------------------------
(* Steps that move one *)

(* The only job to find the flag unset takes the prompt in hand, when there is none yet. *)
LEMMA PromptTaken ==
    ASSUME Placed, [Next]_vars, NEW b \in Batches, NEW j \in Jobs, BatchOf(j) = b,
           maybeCheckpoint(j), MayPrompt(j), InOnePlace(b)
    PROVE  InOnePlace(b)' /\ (Marked(b) /\ b \notin unmarked' => Marked(b)')
<1>0. /\ UNCHANGED <<st, chan, chat, watcher, boots, phase, mark>> /\ b \notin flag
      /\ run' = [run EXCEPT ![j] = "prompt"] /\ flag' = flag \cup {b} /\ file'.flags = flag'
      /\ unmarked' = IF mark = b THEN unmarked \cup {mark} ELSE unmarked
      /\ run[j] = "reached"
  BY DEF maybeCheckpoint, MayPrompt, save, stream, notify, service
<1>1. run \in [Jobs -> Places]
  BY DEF Placed, Typed, QueueTyped
<1>2. st[j] # "absent"
  BY <1>0 DEF Placed, Stages, Stage
<1>3. phase # "down"
  BY <1>2 DEF Placed, Quiet
<1>4. ~Asking(b) /\ ~Told(b) /\ ~Sending(b) /\ ~Sent(b)
  BY <1>0, <1>3 DEF InOnePlace
<1>5. \A k \in Jobs : Asks(b, k)' => k = j
  BY <1>0, <1>1, <1>4 DEF Asks, Asking
<1>6. ~Told(b)' /\ ~Sending(b)' /\ ~Sent(b)' /\ OneTold(b)' /\ OneSent(b)'
  BY <1>0, <1>4 DEF Told, IsTold, Sending, Sent, IsSent, Of, OneTold, OneSent
<1>7. InOnePlace(b)'
  BY <1>0, <1>5, <1>6 DEF InOnePlace, OneAsked
<1>8. ASSUME Marked(b), b \notin unmarked'
      PROVE  Marked(b)'
  <2>1. mark # b
    BY <1>0, <1>8
  <2>2. Known(b)
    BY <1>2, OneBatch, KnownBatch
  <2>3. ~Past(b)
    BY <1>0, <1>3, <1>8, <2>1, <2>2 DEF Marked
  <2>4. ~Past(b)' /\ ChatStill(b)
    BY <1>0, <2>3 DEF Past, Of, ChatStill
  <2>5. ~Crash /\ ~Boot
    BY <1>0, <1>2, <1>3 DEF Crash, Boot
  <2>. QED  BY <1>8, <2>4, <2>5, RestMarked
<1>. QED  BY <1>7, <1>8

(* It is put into the notifier's channel, or lost. *)
LEMMA PromptTold ==
    ASSUME Placed, [Next]_vars, NEW b \in Batches, NEW j \in Jobs, BatchOf(j) = b,
           CheckpointEmit(j), InOnePlace(b)
    PROVE  InOnePlace(b)' /\ (Marked(b) => Marked(b)')
<1>0. /\ UNCHANGED <<st, chat, watcher, boots, phase, flag, file>>
      /\ run' = [run EXCEPT ![j] = "encode"] /\ run[j] = "prompt"
  BY DEF CheckpointEmit, RunEmit, notify, service
<1>1. /\ run \in [Jobs -> Places]
      /\ chan[Notifier] \in Seq(Events) /\ Notifier \in Subscribers
  BY DEF Placed, Typed, QueueTyped, StreamTyped, Subscribers
<1>2. Asks(b, j) /\ Asking(b)
  BY <1>0 DEF Asks, Asking
<1>3. /\ ~Told(b) /\ ~Sending(b) /\ ~Sent(b) /\ OneAsked(b)
      /\ phase # "down" => b \in flag /\ b \in file.flags
  BY <1>2 DEF InOnePlace
<1>4. ~Asking(b)' /\ OneAsked(b)'
  BY <1>0, <1>1, <1>2, <1>3 DEF Asking, Asks, OneAsked
<1>5. OneTold(b)'
  <2>1. PICK ev \in Events : emit(ev)
    BY RunSends DEF Placed, Emitting
  <2>2. CASE chan'[Notifier] = chan[Notifier]
    BY <1>3, <2>2 DEF OneTold, Told, IsTold
  <2>3. CASE chan'[Notifier] = Append(chan[Notifier], ev)
    <3>1. \A k \in DOMAIN chan'[Notifier] : IsTold(b, k)' => k = Len(chan[Notifier]) + 1
      BY <1>1, <1>3, <2>3 DEF Told, IsTold
    <3>. QED  BY <3>1 DEF OneTold
  <2>. QED  BY <1>1, <2>1, <2>2, <2>3, Emits DEF Placed, Typed
<1>6. ~Sending(b)' /\ ~Sent(b)' /\ OneSent(b)'
  BY <1>0, <1>3 DEF Sending, Sent, IsSent, Of, OneSent
<1>7. InOnePlace(b)'
  BY <1>0, <1>3, <1>4, <1>5, <1>6 DEF InOnePlace
<1>8. ASSUME Marked(b)
      PROVE  Marked(b)'
  <2>1. ~Past(b)
    BY <1>2, <1>8 DEF Marked
  <2>2. ~Past(b)' /\ ChatStill(b)
    BY <1>0, <2>1 DEF Past, Of, ChatStill
  <2>3. ~Crash /\ ~Boot
    <3>1. st[j] # "absent"
      BY <1>0 DEF Placed, Stages, Stage
    <3>. QED  BY <1>0, <3>1 DEF Crash, Boot, Placed, Quiet
  <2>. QED  BY <1>8, <2>2, <2>3, RestMarked
<1>. QED  BY <1>7, <1>8

(* The watcher reads of it and is about to send it. *)
LEMMA PromptRead ==
    ASSUME Placed, [Next]_vars, NEW b \in Batches, onCheckpoint,
           BatchOf(Head(chan[Notifier]).job) = b, InOnePlace(b)
    PROVE  InOnePlace(b)' /\ (Marked(b) => Marked(b)')
<1>0. /\ UNCHANGED <<st, run, chat, boots, phase, flag, file>>
      /\ watcher.at = "idle" /\ chan[Notifier] # <<>> /\ chan[Notifier] \in Seq(Events)
      /\ chan'[Notifier] = Tail(chan[Notifier]) /\ Head(chan[Notifier]).kind = "checkpoint"
  <2>1. chan \in [Subscribers -> Seq(Events)] /\ Notifier \in Subscribers
    BY DEF Placed, Typed, StreamTyped, Subscribers
  <2>. QED  BY <2>1, Takes DEF Placed, onCheckpoint, WatcherTake, process, service, queue
<1> DEFINE c == chan[Notifier]
<1>1. /\ DOMAIN c = 1 .. Len(c) /\ Len(c) \in Nat \ {0} /\ Head(c) = c[1]
      /\ DOMAIN chan'[Notifier] = 1 .. Len(c) - 1
      /\ \A k \in 1 .. Len(c) - 1 : chan'[Notifier][k] = c[k + 1]
  BY <1>0
<1>2. IsTold(b, 1) /\ Told(b)
  BY <1>0, <1>1 DEF IsTold, Told
<1>3. /\ ~Asking(b) /\ ~Sending(b) /\ ~Sent(b) /\ OneTold(b) /\ OneAsked(b) /\ OneSent(b)
      /\ phase # "down" => b \in flag /\ b \in file.flags
  BY <1>2 DEF InOnePlace
<1>4. ~Told(b)' /\ OneTold(b)'
  <2>1. ASSUME NEW k \in 1 .. Len(c) - 1, IsTold(b, k)'
        PROVE  FALSE
    <3>1. IsTold(b, k + 1) /\ k + 1 \in DOMAIN c /\ 1 \in DOMAIN c /\ k + 1 # 1
      BY <1>1, <2>1 DEF IsTold
    <3>. QED  BY <1>2, <1>3, <3>1 DEF OneTold
  <2>. QED  BY <1>1, <2>1 DEF Told, OneTold
<1>5. ~Asking(b)' /\ ~Sent(b)' /\ OneAsked(b)' /\ OneSent(b)'
  BY <1>0, <1>3 DEF Asking, Asks, Sent, IsSent, Of, OneAsked, OneSent
<1>6. InOnePlace(b)'
  BY <1>0, <1>3, <1>4, <1>5 DEF InOnePlace
<1>7. ASSUME Marked(b)
      PROVE  Marked(b)'
  <2>1. ~Past(b)
    BY <1>2, <1>7 DEF Marked
  <2>2. ~Past(b)' /\ ChatStill(b)
    BY <1>0, <2>1 DEF Past, Of, ChatStill
  <2>3. ~Crash /\ ~Boot
    BY <1>0 DEF Crash, Boot, Placed, Quiet
  <2>. QED  BY <1>7, <2>2, <2>3, RestMarked
<1>. QED  BY <1>6, <1>7

(* Telegram has it, or the call failed. *)
LEMMA PromptSent ==
    ASSUME Placed, [Next]_vars, NEW b \in Batches, Send, watcher.b = b, InOnePlace(b)
    PROVE  InOnePlace(b)' /\ (Marked(b) => Marked(b)')
<1>0. /\ UNCHANGED <<st, run, chan, boots, phase, flag, file, mark, restoring>>
      /\ watcher'.at # "send" /\ Sending(b)
      /\ chat' = chat \/ chat' = Append(chat, Prompt(b))
  BY DEF Send, Asleep, Sending, process, queue, stream
<1>1. /\ ~Asking(b) /\ ~Told(b) /\ ~Sent(b) /\ OneTold(b) /\ OneAsked(b)
      /\ phase # "down" => b \in flag /\ b \in file.flags
  BY <1>0 DEF InOnePlace
<1>2. /\ ~Asking(b)' /\ ~Told(b)' /\ ~Sending(b)' /\ OneAsked(b)' /\ OneTold(b)'
  BY <1>0, <1>1 DEF Asking, Asks, Told, IsTold, Sending, OneAsked, OneTold
<1>3. /\ DOMAIN chat = 1 .. Len(chat) /\ Len(chat) \in Nat
      /\ \A i \in DOMAIN chat' :
           \/ i \in DOMAIN chat /\ chat'[i] = chat[i]
           \/ i = Len(chat) + 1 /\ chat'[i] = Prompt(b)
  <2>1. chat \in Seq(Prompts)
    BY DEF Placed, Typed, WatchTyped
  <2>. QED  BY <1>0, <2>1
<1>4. Prompt(b).boot = boots /\ Prompt(b).batch = b
  BY DEF Prompt
<1>5. \A i \in DOMAIN chat' : IsSent(b, i)' => i = Len(chat) + 1
  BY <1>0, <1>1, <1>3 DEF Sent, IsSent, Of
<1>6. OneSent(b)'
  BY <1>5 DEF OneSent
<1>7. InOnePlace(b)'
  BY <1>0, <1>1, <1>2, <1>6 DEF InOnePlace
<1>8. ASSUME Marked(b)
      PROVE  Marked(b)'
  <2>1. ~Past(b)
    BY <1>0, <1>8 DEF Marked
  <2>2. ~Past(b)'
    BY <1>0, <1>3, <1>4, <2>1 DEF Past, Of
  <2>3. \A i \in DOMAIN chat' : Of(b, i)' => i = Len(chat) + 1
    <3>1. \A i \in DOMAIN chat : ~Of(b, i)
      BY <1>1, <2>1 DEF Past, Sent, IsSent
    <3>. QED  BY <1>3, <3>1 DEF Of
  <2>4. phase # "down"
    BY <1>0 DEF Placed, Quiet, Sending
  <2>. QED  BY <1>0, <1>1, <2>2, <2>3, <2>4 DEF Marked
<1>. QED  BY <1>7, <1>8

-----------------------------------------------------------------------------
(* The process dies, and starts again *)

LEMMA NothingInHand ==
    ASSUME Placed, phase = "down", NEW b \in Batches
    PROVE  /\ ~Asking(b) /\ ~Told(b) /\ ~Sending(b) /\ ~Known(b)
           /\ OneAsked(b) /\ OneTold(b)
<1>1. /\ watcher.at = "off" /\ chan[Notifier] = <<>> /\ \A j \in Jobs : st[j] = "absent"
      /\ \A j \in Jobs : run[j] # "prompt"
  BY DEF Placed, Quiet, Stages, Stage
<1>2. ~Known(b)
  BY <1>1, KnownBatch, JobsOfBatch
<1>. QED  BY <1>1, <1>2 DEF Asking, Asks, Told, IsTold, Sending, OneAsked, OneTold

LEMMA CrashPrompt ==
    ASSUME Placed, PromptInv, [Next]_vars, Crash
    PROVE  PromptInv'
<1>0. Placed' /\ phase' = "down" /\ UNCHANGED <<boots, chat>> /\ phase # "down"
  BY TypedStep, QuietStep, StagesStep, ApartStep DEF Placed, Crash, service
<1>1. BootsInOrder'
  BY <1>0 DEF PromptInv, BootsInOrder
<1>2. ASSUME NEW b \in Batches
      PROVE  /\ ~Asking(b)' /\ ~Told(b)' /\ ~Sending(b)' /\ ~Known(b)'
             /\ OneAsked(b)' /\ OneTold(b)'
  <2>1. /\ watcher'.at = "off" /\ chan'[Notifier] = <<>> /\ \A j \in Jobs : st'[j] = "absent"
        /\ \A j \in Jobs : run'[j] # "prompt"
    BY <1>0 DEF Placed, Quiet, Stages, Stage
  <2>2. ~Known(b)'
    BY <2>1, KnownNext, JobsOfBatch
  <2>. QED  BY <2>1, <2>2 DEF Asking, Asks, Told, IsTold, Sending, OneAsked, OneTold
<1>3. ASSUME NEW b \in Batches
      PROVE  InOnePlace(b)'
  <2>1. OneSent(b)'
    BY <1>0 DEF PromptInv, InOnePlace, OneSent, IsSent, Of
  <2>. QED  BY <1>0, <1>2, <2>1 DEF InOnePlace
<1>4. ASSUME NEW b \in Batches, b \notin unmarked'
      PROVE  Marked(b)'
  <2>1. /\ Marked(b) /\ InOnePlace(b) /\ b \notin unmarked
        /\ b \in file.flags \/ (b # mark /\ b \notin Remembered)
    BY <1>4 DEF Crash, PromptInv
  <2>2. \A i, k \in DOMAIN chat' : Of(b, i)' /\ Of(b, k)' => i = k
    BY <1>0, <2>1 DEF Marked, Of
  <2>3. restoring'.jobs[b] = {} /\ file'.flags = file.flags /\ file'.todo \subseteq file.todo
    BY DEF Crash, Nothing, Placed, Typed, ProcessTyped
  <2>4. ASSUME \E i \in DOMAIN chat' : Of(b, i)', file'.todo \cap ToSet(JobsOf[b]) # {}
        PROVE  b \in file'.flags
    <3>1. /\ \E i \in DOMAIN chat : Of(b, i)
          /\ file.todo \cap ToSet(JobsOf[b]) # {}
      BY <1>0, <2>3, <2>4 DEF Of
    <3>2. CASE Sent(b)
      BY <1>0, <2>1, <2>3, <3>2 DEF InOnePlace
    <3>3. CASE ~Sent(b)
      <4>1. PICK i \in DOMAIN chat : chat[i].batch = b /\ chat[i].boot # boots
        BY <3>1, <3>3 DEF Sent, IsSent, Of
      <4>2. Past(b)
        BY <4>1 DEF Past, Of
      <4>3. b \in file.flags \/ Known(b)
        BY <2>1, <3>1 DEF Marked
      <4>4. Known(b) => b \in flag \/ b = mark
        BY <1>0, <2>1, <4>2 DEF Marked
      <4>5. b \in flag => b \in Remembered
        BY <4>1 DEF Remembered
      <4>. QED  BY <2>1, <2>3, <4>3, <4>4, <4>5
    <3>. QED  BY <3>2, <3>3
  <2>. QED  BY <1>0, <1>2, <2>2, <2>3, <2>4 DEF Marked
<1>. QED  BY <1>1, <1>3, <1>4 DEF PromptInv

LEMMA BootPrompt ==
    ASSUME Placed, PromptInv, [Next]_vars, Boot
    PROVE  PromptInv'
<1>0. /\ phase = "down" /\ boots' = boots + 1 /\ boots \in Nat /\ phase' = "restore"
      /\ UNCHANGED <<run, st, chan, chat, watcher, file, unmarked>>
      /\ restoring' = [jobs |-> [b \in Batches |-> ToSet(JobsOf[b]) \cap file.todo],
                       flags |-> file.flags]
      /\ \A i \in DOMAIN chat : chat[i].boot \in Nat
  <2>1. chat \in Seq(Prompts) /\ boots \in Nat
    BY DEF Placed, Typed, ProcessTyped, WatchTyped
  <2>2. \A i \in DOMAIN chat : chat[i] \in Prompts
    BY <2>1
  <2>3. \A i \in DOMAIN chat : chat[i].boot \in Nat
    BY <2>2 DEF Prompts
  <2>. QED  BY <2>1, <2>3 DEF Boot, queue, stream, notify, service
<1>1. BootsInOrder' /\ \A i \in DOMAIN chat' : chat'[i].boot # boots'
  BY <1>0 DEF PromptInv, BootsInOrder
<1>2. ASSUME NEW b \in Batches
      PROVE  /\ ~Asking(b)' /\ ~Told(b)' /\ ~Sending(b)' /\ ~Known(b)'
             /\ OneAsked(b)' /\ OneTold(b)'
  <2>1. /\ ~Asking(b) /\ ~Told(b) /\ ~Sending(b) /\ ~Known(b) /\ OneAsked(b) /\ OneTold(b)
    BY <1>0, NothingInHand
  <2>2. ~Known(b)'
    BY <1>0, <2>1, KnownBatch, KnownNext
  <2>. QED  BY <1>0, <2>1, <2>2 DEF Asking, Asks, Told, IsTold, Sending, OneAsked, OneTold
<1>3. ASSUME NEW b \in Batches
      PROVE  InOnePlace(b)'
  <2>1. ~Sent(b)' /\ OneSent(b)'
    BY <1>1 DEF Sent, OneSent, IsSent
  <2>. QED  BY <1>2, <2>1 DEF InOnePlace
<1>4. ASSUME NEW b \in Batches, b \notin unmarked'
      PROVE  Marked(b)'
  <2>1. Marked(b) /\ ~Known(b)
    BY <1>0, <1>4, NothingInHand DEF PromptInv
  <2>2. \A i, k \in DOMAIN chat' : Of(b, i)' /\ Of(b, k)' => i = k
    BY <1>0, <2>1 DEF Marked, Of
  <2>3. (\E i \in DOMAIN chat' : Of(b, i)') /\ file.todo \cap ToSet(JobsOf[b]) # {}
          => b \in file.flags
    BY <1>0, <2>1 DEF Marked, Of
  <2>4. Past(b)' /\ restoring'.jobs[b] # {} => b \in restoring'.flags
    BY <1>0, <2>3 DEF Past
  <2>. QED  BY <1>0, <1>2, <2>2, <2>3, <2>4 DEF Marked
<1>. QED  BY <1>1, <1>3, <1>4 DEF PromptInv

(* No step puts the prompt of a batch in two places, or forgets one of an earlier life. *)
LEMMA PromptStep ==
    ASSUME Placed, PromptInv, [Next]_vars
    PROVE  PromptInv'
<1>1. SUFFICES ASSUME ~Crash, ~Boot
               PROVE  PromptInv'
  BY CrashPrompt, BootPrompt
<1>2. ASSUME NEW b \in Batches
      PROVE  /\ InOnePlace(b)'
             /\ b \notin unmarked' => Marked(b)'
  <2>0. InOnePlace(b) /\ (b \notin unmarked' => Marked(b))
    BY <1>1, Records DEF Placed, PromptInv
  <2>1. CASE Moves(b)
    BY <2>0, <2>1, PromptTaken, PromptTold, PromptRead, PromptSent DEF Moves
  <2>2. CASE ~Moves(b)
    <3>1. Still(b)
      BY <1>1, <2>2, StillStep DEF Placed
    <3>. QED  BY <1>1, <2>0, <3>1, StillPlace, StillMarked
  <2>. QED  BY <2>1, <2>2
<1>3. BootsInOrder'
  <2>1. boots' = boots
    BY <1>1, SameBoot
  <2>2. ASSUME NEW i \in DOMAIN chat'
        PROVE  chat'[i].boot <= boots'
    <3>0. chat \in Seq(Prompts) /\ chat' \in Seq(Prompts) /\ boots \in Nat
      BY TypedStep DEF Placed, Typed, WatchTyped, ProcessTyped
    <3>1. PICK b \in Batches : b = chat'[i].batch
      <4>1. chat'[i] \in Prompts
        BY <2>2, <3>0
      <4>. QED  BY <4>1 DEF Prompts
    <3>2. CASE Still(b)
      BY <2>1, <3>0, <3>1, <3>2 DEF Still, ChatStill, PromptInv, BootsInOrder
    <3>3. CASE Send
      <4>1. \/ i \in DOMAIN chat /\ chat'[i] = chat[i]
            \/ chat'[i] = Prompt(watcher.b)
        BY SMTT(30), <2>2, <3>0, <3>3 DEF Send
      <4>. QED  BY <2>1, <3>0, <4>1 DEF Prompt, PromptInv, BootsInOrder
    <3>4. CASE ~Still(b) /\ ~Send
      <4>1. Moves(b)
        BY <1>1, <3>4, StillStep DEF Placed
      <4>2. chat' = chat
        BY <3>4, <4>1 DEF Moves, maybeCheckpoint, CheckpointEmit, RunEmit, onCheckpoint, WatcherTake, service
      <4>. QED  BY <2>1, <2>2, <4>2 DEF PromptInv, BootsInOrder
    <3>. QED  BY <3>2, <3>3, <3>4
  <2>. QED  BY <2>2 DEF BootsInOrder
<1>. QED  BY <1>2, <1>3 DEF PromptInv

LEMMA PromptsAlways == Spec => []PromptInv
<1>1. Init => PromptInv
  <2>1. SUFFICES ASSUME Init PROVE PromptInv
    OBVIOUS
  <2>2. /\ \A j \in Jobs : run[j] = "none" /\ st[j] = "absent"
        /\ chan[Notifier] = <<>> /\ watcher.at = "off" /\ restoring = Nothing
        /\ \/ phase = "up" /\ file = Fresh /\ chat = <<>>
           \/ /\ phase = "down" /\ boots = 0
              /\ \E b \in Batches :
                   /\ file = [todo |-> Left[b], flags |-> {b}]
                   /\ chat = <<[batch |-> b, live |-> TRUE, late |-> FALSE, boot |-> 0]>>
    BY <2>1 DEF Init, NoOne, Asleep, Subscribers
  <2>3. DOMAIN chat \subseteq {1} /\ \A i \in DOMAIN chat : chat[i].boot <= boots
    BY <2>2
  <2>4. ASSUME NEW b \in Batches
        PROVE  /\ ~Asking(b) /\ ~Told(b) /\ ~Sending(b) /\ ~Known(b)
               /\ OneAsked(b) /\ OneTold(b) /\ OneSent(b)
    <3>1. ~Known(b)
      BY <2>2, KnownBatch, JobsOfBatch
    <3>. QED  BY <2>2, <2>3, <3>1 DEF Asking, Asks, Told, IsTold, Sending, OneAsked, OneTold,
                                     OneSent
  <2>5. ASSUME NEW b \in Batches
        PROVE  InOnePlace(b)
    <3>1. phase # "down" => ~Sent(b)
      BY <2>2 DEF Sent
    <3>. QED  BY <2>4, <3>1 DEF InOnePlace
  <2>6. ASSUME NEW b \in Batches
        PROVE  Marked(b)
    <3>1. \A i, k \in DOMAIN chat : Of(b, i) /\ Of(b, k) => i = k
      BY <2>3
    <3>2. restoring.jobs[b] = {}
      BY <2>2 DEF Nothing
    <3>3. (\E i \in DOMAIN chat : Of(b, i)) => b \in file.flags
      BY <2>2 DEF Of
    <3>. QED  BY <2>4, <3>1, <3>2, <3>3 DEF Marked
  <2>. QED  BY <2>3, <2>5, <2>6 DEF PromptInv, BootsInOrder
<1>2. Placed /\ PromptInv /\ [Next]_vars => PromptInv'
  BY PromptStep
<1>3. Spec => []Placed
  BY PlacedAlways
<1>. QED  BY <1>1, <1>2, <1>3, PTL DEF Spec

(* The prompt of a batch goes out once, restarts of the process included, unless the record
   that it went out was lost: the flag is set in memory and saved before the prompt is sent,
   and Restore sets it again before the batch runs. *)
THEOREM PromptedOnce == Spec => []OnePrompt
<1>1. PromptInv => OnePrompt
  <2>1. SUFFICES ASSUME PromptInv, NEW b \in Batches, b \notin unmarked
                 PROVE  ~(Cardinality({i \in DOMAIN chat : chat[i].batch = b}) > 1)
    BY DEF OnePrompt
  <2> DEFINE prompts == {i \in DOMAIN chat : chat[i].batch = b}
  <2>2. \A i, k \in prompts : i = k
    BY <2>1 DEF PromptInv, Marked, Of
  <2>3. prompts = {} \/ \E i \in prompts : prompts = {i}
    BY <2>2
  <2>4. Cardinality(prompts) \in {0, 1}
    BY <2>3, FS_EmptySet, FS_Singleton
  <2>. QED  BY <2>4
<1>. QED  BY <1>1, PromptsAlways, PTL

-----------------------------------------------------------------------------
(* The end of a batch *)

(* An event in the notifier's channel stays there when another is sent, and the end of a
   job is delivered or recorded as missed. *)
LEMMA Delivered ==
    ASSUME Typed, NEW ev \in Events, emit(ev), NEW b \in Batches
    PROVE  /\ Awaited(b) => Awaited(b)'
           /\ b \in missed => b \in missed' \/ Awaited(b)'
           /\ ev.kind = "state" /\ Terminal(ev.st) /\ BatchOf(ev.job) = b
                => b \in missed' \/ Awaited(b)'
<1>0. Notifier \in Subscribers /\ chan[Notifier] \in Seq(Events)
  BY DEF Typed, StreamTyped, Subscribers
<1> DEFINE c == chan[Notifier]
<1>1. /\ DOMAIN c = 1 .. Len(c) /\ Len(c) \in Nat
      /\ \/ chan'[Notifier] = c
         \/ chan'[Notifier] = Append(c, ev)
  BY <1>0, Emits DEF Typed
<1>2. Awaited(b) => Awaited(b)'
  <2>1. \A k \in DOMAIN c : k \in DOMAIN chan'[Notifier] /\ chan'[Notifier][k] = c[k]
    BY <1>0, <1>1
  <2>. QED  BY <2>1 DEF Awaited
<1>3. ASSUME ev.kind = "state", Terminal(ev.st), BatchOf(ev.job) = b
      PROVE  b \in missed' \/ Awaited(b)'
  <2>1. CASE Notifier \in subs /\ ~Full(Notifier)
    <3>1. chan'[Notifier] = Append(c, ev)
      BY <1>0, <2>1 DEF emit
    <3>2. /\ Len(c) + 1 \in DOMAIN chan'[Notifier]
          /\ chan'[Notifier][Len(c) + 1] = ev
      BY <1>0, <3>1
    <3>. QED  BY <1>3, <3>2 DEF Awaited
  <2>2. CASE ~(Notifier \in subs /\ ~Full(Notifier))
    BY <1>3, <2>2 DEF emit
  <2>. QED  BY <2>1, <2>2
<1>4. b \in missed => b \in missed' \/ Awaited(b)'
  BY <1>3 DEF emit
<1>. QED  BY <1>2, <1>3, <1>4

\* A step after which an end that waits to be heard, or was missed, still is.
NoneLost == \A b \in Batches : b \in missed \/ Awaited(b) => b \in missed' \/ Awaited(b)'

LEMMA EmitLosesNone ==
    ASSUME Typed, NEW ev \in Events, emit(ev)
    PROVE  NoneLost
<1>1. ASSUME NEW b \in Batches, b \in missed \/ Awaited(b)
      PROVE  b \in missed' \/ Awaited(b)'
  BY <1>1, Delivered
<1>. QED  BY <1>1 DEF NoneLost

(* No batch is forgotten by those who follow it. *)
LEMMA EndStep ==
    ASSUME Placed, EndHeard, [Next]_vars
    PROVE  EndHeard'
<1> USE DEF queue, stream, notify
<1>0. /\ Typed /\ st \in [Jobs -> JobStates]
      /\ run \in [Jobs -> Places]
      /\ Notifier \in Subscribers /\ Notifier \notin Pages
      /\ chan \in [Subscribers -> Seq(Events)]
  BY ConstantsOK DEF Placed, Typed, QueueTyped, StreamTyped, Subscribers
<1>1. \A j \in Jobs : BatchOf(j) \in Batches /\ j \in ToSet(JobsOf[BatchOf(j)])
  BY OneBatch
<1>2. \A b \in Batches : ToSet(JobsOf[b]) \subseteq Jobs
  BY JobsOfBatch
\* The steps by which no job ends, and nobody learns of one, or keeps it from another.
<1>3. ASSUME \A j \in Jobs : /\ Terminal(st'[j]) => Terminal(st[j])
                             /\ st[j] \in {"queued", "running"} => st'[j] \in {"queued", "running"}
                             /\ run[j] = "ended" => run'[j] = "ended",
             reported \subseteq reported',
             NoneLost,
             poller.at \in {"view", "tell"} => poller' = poller
      PROVE  EndHeard'
  <2>1. ASSUME NEW j \in Jobs, Terminal(st'[j])
        PROVE  Followed(BatchOf(j))'
    <3>1. Followed(BatchOf(j))
      BY <1>3, <2>1 DEF EndHeard, Terminal
    <3>2. Active(BatchOf(j)) => Active(BatchOf(j))'
      BY <1>1, <1>2, <1>3 DEF Active, Terminal
    <3>3. BatchOf(j) \in missed \/ Awaited(BatchOf(j))
          => BatchOf(j) \in missed' \/ Awaited(BatchOf(j))'
      <4>1. ASSUME NEW b \in Batches, b \in missed \/ Awaited(b)
            PROVE  b \in missed' \/ Awaited(b)'
        BY <1>3, <4>1 DEF NoneLost, Awaited, Terminal
      <4>. QED  BY <1>1, <4>1
    <3>. QED  BY <1>3, <3>1, <3>2, <3>3 DEF Followed, Terminal
  <2>. QED  BY <2>1 DEF EndHeard
<1>4. ASSUME UNCHANGED <<run, missed>>, chan'[Notifier] = chan[Notifier], reported \subseteq reported',
             \A j \in Jobs : /\ Terminal(st'[j]) => Terminal(st[j])
                             /\ st[j] \in {"queued", "running"} => st'[j] \in {"queued", "running"},
             poller.at \in {"view", "tell"} => poller' = poller
      PROVE  EndHeard'
  <2>1. NoneLost
    BY <1>4 DEF NoneLost, Awaited
  <2>. QED  BY <1>3, <1>4, <2>1
<1>5. ASSUME NEW b \in Batches, Enqueue(b) \/ RestoreEnqueue(b) \/ Press(b)
      PROVE  EndHeard'
  <2>1. UNCHANGED <<run, missed, chan, reported, poller>>
    BY <1>5 DEF Enqueue, RestoreEnqueue, Press, polling
  <2>2. \A j \in Jobs : st'[j] \in {st[j], "queued"}
    BY <1>5 DEF Enqueue, Create, RestoreEnqueue, Press
  <2>. QED  BY <1>4, <2>1, <2>2 DEF Terminal
<1>6. CASE EnqueueView \/ RestoreMark \/ RestoreEnd \/ Boot \/ UNCHANGED vars
  BY <1>4, <1>6 DEF EnqueueView, RestoreMark, RestoreEnd, Boot, polling, vars
<1>7. CASE EnqueueEmit
  <2>1. UNCHANGED <<st, run, reported, poller>> /\ \E ev \in Events : emit(ev)
    BY <1>0, <1>7, Emitted DEF EnqueueEmit, polling
  <2>. QED  BY <1>0, <1>3, <2>1, EmitLosesNone
<1>8. ASSUME NEW j \in Jobs, RunStep(j)
      PROVE  EndHeard'
  <2>0. UNCHANGED <<reported, poller>>
    BY <1>8 DEF RunStep, RunDispatch, RunStart, RunView, StartEmit, onProgress,
               maybeCheckpoint, CheckpointEmit, RunFinish, RunExit, RunEmit,
                polling
  <2>1. CASE Emitting(j) /\ run[j] # "ended"
    <3>1. UNCHANGED st /\ \E ev \in Events : emit(ev)
      BY <1>0, <2>1, RunSends
    <3>2. \A k \in Jobs : run[k] = "ended" => run'[k] = "ended"
      BY <1>0, <2>1, RunSends
    <3>. QED  BY <1>0, <1>3, <2>0, <3>1, <3>2, EmitLosesNone DEF Terminal
  <2>2. CASE RunDispatch(j) \/ RunStart(j) \/ RunView(j) \/ maybeCheckpoint(j)
    <3>1. UNCHANGED <<chan, missed>> /\ \A k \in Jobs : run[k] = "ended" => run'[k] = "ended"
      BY <1>0, <2>2 DEF RunDispatch, Pending, RunStart, RunView, maybeCheckpoint
    <3>2. \A k \in Jobs : /\ Terminal(st'[k]) => Terminal(st[k])
                          /\ st[k] \in {"queued", "running"} => st'[k] \in {"queued", "running"}
      BY <1>0, <2>2 DEF RunDispatch, RunStart, RunView, maybeCheckpoint, Terminal
    <3>3. NoneLost
      BY <3>1 DEF NoneLost, Awaited
    <3>. QED  BY <1>3, <2>0, <3>1, <3>2, <3>3
  <2>3. CASE RunFinish(j)
    <3>1. UNCHANGED <<chan, missed>> /\ run' = [run EXCEPT ![j] = "ended"]
      BY <2>3 DEF RunFinish
    <3>2. \A k \in Jobs \ {j} : st'[k] = st[k]
      BY <1>0, <2>3 DEF RunFinish
    <3>4. Followed(BatchOf(j))'
      BY <1>0, <3>1 DEF Followed
    <3>5. ASSUME NEW k \in Jobs, Terminal(st'[k]), BatchOf(k) # BatchOf(j)
          PROVE  Followed(BatchOf(k))'
      <4>1. Followed(BatchOf(k))
        BY <3>2, <3>5 DEF EndHeard
      <4>2. Active(BatchOf(k)) => Active(BatchOf(k))'
        <5>1. j \notin ToSet(JobsOf[BatchOf(k)])
          BY <1>1, <3>5, OneBatch
        <5>. QED  BY <1>1, <1>2, <3>2, <5>1 DEF Active
      <4>3. Awaited(BatchOf(k)) => Awaited(BatchOf(k))'
        BY <3>1 DEF Awaited
      <4>. QED  BY <1>0, <1>1, <2>0, <3>1, <4>1, <4>2, <4>3 DEF Followed
    <3>. QED  BY <3>4, <3>5 DEF EndHeard
  <2>4. CASE RunExit(j)
    <3>1. /\ UNCHANGED st /\ \A k \in Jobs \ {j} : run'[k] = run[k]
          /\ Word(j) \in Events /\ emit(Word(j)) /\ Word(j).kind = "state" /\ Word(j).job = j
          /\ Terminal(Word(j).st)
      <4>1. Emitting(j) /\ run[j] = "ended" /\ Stage(j)
        BY <1>0, <2>4, RunSends DEF Emitting, Placed, Stages
      <4>. QED  BY <1>0, <4>1, RunSends DEF Stage, Telling
    <3>2. NoneLost
      BY <1>0, <3>1, EmitLosesNone
    <3>3. BatchOf(j) \in missed' \/ Awaited(BatchOf(j))'
      BY <1>0, <1>1, <3>1, Delivered
    <3>4. ASSUME NEW k \in Jobs, Terminal(st'[k])
          PROVE  Followed(BatchOf(k))'
      <4>1. Followed(BatchOf(k))
        BY <3>1, <3>4 DEF EndHeard
      <4>2. BatchOf(k) \in missed \/ Awaited(BatchOf(k))
              => BatchOf(k) \in missed' \/ Awaited(BatchOf(k))'
        BY <1>1, <3>2 DEF NoneLost, Awaited
      <4>3. Active(BatchOf(k)) => Active(BatchOf(k))'
        BY <3>1 DEF Active
      <4>. QED  BY <1>0, <1>1, <2>0, <3>1, <3>3, <4>1, <4>2, <4>3 DEF Followed
    <3>. QED  BY <3>4 DEF EndHeard
  <2>5. run[j] = "ended" /\ Emitting(j) => RunExit(j)
    BY <1>0, RunSends
  <2>. QED  BY <1>8, <2>1, <2>2, <2>3, <2>4, <2>5 DEF RunStep, Emitting
<1>9. CASE Crash
  <2>1. \A j \in Jobs : ~Terminal(st'[j])
    BY <1>9 DEF Crash, Terminal
  <2>. QED  BY <2>1 DEF EndHeard
<1>10. CASE ReadProgress \/ onCheckpoint \/ onState
  <2> DEFINE ev == Head(chan[Notifier])
             b  == BatchOf(ev.job)
  <2>1. /\ chan[Notifier] # <<>> /\ chan[Notifier] \in Seq(Events)
        /\ chan'[Notifier] = Tail(chan[Notifier]) /\ b \in Batches
        /\ UNCHANGED <<st, run, missed, poller>>
    BY <1>0, <1>10, Takes DEF polling
  <2>2. /\ reported \subseteq reported'
        /\ ev.kind = "state" /\ Terminal(ev.st) /\ Over(b) => b \in reported'
    BY <1>10 DEF ReadProgress, onCheckpoint, onState, WatcherTake
  <2>3. ASSUME NEW c \in Batches, Awaited(c), ~Awaited(c)'
        PROVE  c = b /\ ev.kind = "state" /\ Terminal(ev.st)
    <3>1. PICK k \in DOMAIN chan[Notifier] :
             /\ chan[Notifier][k].kind = "state" /\ Terminal(chan[Notifier][k].st)
             /\ BatchOf(chan[Notifier][k].job) = c
      BY <2>3 DEF Awaited
    <3>2. CASE k = 1
      BY <2>1, <3>1, <3>2
    <3>3. CASE k # 1
      <4>1. /\ k - 1 \in DOMAIN chan'[Notifier]
            /\ chan'[Notifier][k - 1] = chan[Notifier][k]
        BY <2>1, <3>1, <3>3
      <4>. QED  BY <2>3, <3>1, <4>1 DEF Awaited
    <3>. QED  BY <3>2, <3>3
  <2>4. ASSUME NEW j \in Jobs, Terminal(st'[j])
        PROVE  Followed(BatchOf(j))'
    <3>1. Followed(BatchOf(j))
      BY <2>1, <2>4 DEF EndHeard
    <3>2. CASE Awaited(BatchOf(j)) /\ ~Awaited(BatchOf(j))'
      <4>1. BatchOf(j) = b /\ ev.kind = "state" /\ Terminal(ev.st)
        BY <1>1, <2>3, <3>2
      <4>2. Known(b)
        <5>1. j \in ToSet(JobsOf[b]) /\ st[j] # "absent"
          BY <1>1, <2>1, <2>4, <4>1 DEF Terminal
        <5>. QED  BY <2>1, <5>1, KnownBatch
      <4>3. Active(b) \/ b \in reported'
        BY <2>2, <4>1, <4>2 DEF Over
      <4>. QED  BY <2>1, <4>1, <4>3 DEF Followed, Active
    <3>. QED  BY <2>1, <2>2, <3>1, <3>2 DEF Followed, Active
  <2>. QED  BY <2>4 DEF EndHeard
<1>11. CASE WatcherSubscribe
  <2>1. chan[Notifier] = <<>>
    BY <1>11 DEF WatcherSubscribe, Placed, Quiet
  <2>2. UNCHANGED <<st, run, missed, reported, poller>> /\ chan'[Notifier] = chan[Notifier]
    BY <1>0, <1>11, <2>1 DEF WatcherSubscribe, Subscribe, polling
  <2>. QED  BY <1>4, <2>2
<1>12. CASE WatcherCut \/ Send \/ StoreMessage \/ SendSummary \/ EditAtEnd
  BY <1>4, <1>12 DEF WatcherCut, Send, StoreMessage, SendSummary, EditAtEnd, polling
<1>13. ASSUME NEW p \in Pages, PageStep(p)
       PROVE  EndHeard'
  <2>1. UNCHANGED <<st, run, missed, reported, poller>> /\ chan'[Notifier] = chan[Notifier]
    BY <1>0, <1>13 DEF PageStep, PageConnect, PageSnapshot, PageRead, PageEnd, Subscribe, polling
  <2>. QED  BY <1>4, <2>1
<1>14. CASE getUpdates \/ CancelBatch \/ CancelNext \/ onCallback \/ EditStopped
  BY <1>4, <1>14 DEF getUpdates, CancelBatch, CancelNext, onCallback, EditStopped
<1>15. ASSUME NEW j \in Jobs, j = Head(poller.left), CancelFinish
       PROVE  EndHeard'
  <2>1. /\ UNCHANGED <<run, missed, chan, reported>> /\ st' = [st EXCEPT ![j] = "failed"]
        /\ poller'.at = "view" /\ Head(poller'.left) = j /\ poller.at = "settle"
    BY <1>0, <1>15 DEF CancelFinish, Typed, PollerTyped, Pollers
  <2>2. Followed(BatchOf(j))'
    BY <2>1 DEF Followed
  <2>3. ASSUME NEW k \in Jobs, Terminal(st'[k]), BatchOf(k) # BatchOf(j)
        PROVE  Followed(BatchOf(k))'
    <3>1. Followed(BatchOf(k))
      BY <1>0, <2>1, <2>3 DEF EndHeard
    <3>2. Active(BatchOf(k)) => Active(BatchOf(k))'
      <4>1. j \notin ToSet(JobsOf[BatchOf(k)])
        BY <1>1, <1>15, <2>3, OneBatch
      <4>. QED  BY <1>0, <1>1, <1>2, <2>1, <4>1 DEF Active
    <3>3. Awaited(BatchOf(k)) => Awaited(BatchOf(k))'
      BY <2>1 DEF Awaited
    <3>. QED  BY <2>1, <3>1, <3>2, <3>3 DEF Followed
  <2>. QED  BY <2>2, <2>3 DEF EndHeard
<1>18. ASSUME NEW j \in Jobs, j = Head(poller.left), CancelView
       PROVE  EndHeard'
  <2>1. /\ UNCHANGED <<st, run, missed, chan, reported>> /\ poller.at = "view"
        /\ poller'.at = "tell" /\ poller'.left = poller.left /\ poller'.ev.st = st[j]
    BY <1>0, <1>18 DEF CancelView, Typed, PollerTyped, Pollers, Event
  <2>2. st[j] \in {"queued", "running"} \/ Terminal(st[j])
    BY <1>0, <1>18, <2>1 DEF Placed, Stages, Cancelling, JobStates, Terminal
  <2>3. Active(BatchOf(j)) \/ Followed(BatchOf(j))'
    BY <1>1, <1>18, <2>1, <2>2 DEF Followed, Active
  <2>4. ASSUME NEW k \in Jobs, Terminal(st'[k])
        PROVE  Followed(BatchOf(k))'
    <3>1. Followed(BatchOf(k))
      BY <2>1, <2>4 DEF EndHeard
    <3>2. Active(BatchOf(k)) => Followed(BatchOf(k))'
      BY <2>1 DEF Active, Followed
    <3>3. Awaited(BatchOf(k)) => Followed(BatchOf(k))'
      BY <2>1 DEF Awaited, Followed
    <3>. QED  BY <1>18, <2>1, <2>3, <3>1, <3>2, <3>3 DEF Followed
  <2>. QED  BY <2>4 DEF EndHeard
<1>16. ASSUME NEW j \in Jobs, j = Head(poller.left), CancelTell
       PROVE  EndHeard'
  <2>1. UNCHANGED <<st, run, reported>> /\ poller.at = "tell"
    BY <1>16 DEF CancelTell
  <2>2. /\ poller.ev \in Events /\ poller.ev.kind = "state" /\ poller.ev.job = j
        /\ emit(poller.ev)
    BY <1>0, <1>16, Emitted
  <2>3. NoneLost
    BY <1>0, <2>2, EmitLosesNone
  <2>4. Terminal(poller.ev.st) => BatchOf(j) \in missed' \/ Awaited(BatchOf(j))'
    BY <1>0, <1>1, <2>2, Delivered
  <2>5. ASSUME NEW k \in Jobs, Terminal(st'[k])
        PROVE  Followed(BatchOf(k))'
    <3>1. Followed(BatchOf(k))
      BY <2>1, <2>5 DEF EndHeard
    <3>2. Active(BatchOf(k)) => Active(BatchOf(k))'
      BY <2>1 DEF Active
    <3>3. BatchOf(k) \in missed \/ Awaited(BatchOf(k))
            => BatchOf(k) \in missed' \/ Awaited(BatchOf(k))'
      BY <1>1, <2>3 DEF NoneLost, Awaited
    <3>4. poller.at = "tell" /\ Terminal(poller.ev.st) /\ BatchOf(Head(poller.left)) = BatchOf(k)
          => BatchOf(k) \in missed' \/ Awaited(BatchOf(k))'
      BY <1>16, <2>4
    <3>. QED  BY <2>1, <3>1, <3>2, <3>3, <3>4 DEF Followed
  <2>. QED  BY <2>5 DEF EndHeard
<1>17. CancelFinish \/ CancelView \/ CancelTell => Head(poller.left) \in Jobs
  BY <1>0, InHand DEF CancelFinish, CancelView, CancelTell, Cancelling
<1>. QED  BY <1>5, <1>6, <1>7, <1>8, <1>9, <1>10, <1>11, <1>12, <1>13, <1>14, <1>15, <1>16,
              <1>17, <1>18 DEF Next, Announce, Restore, Watch, Poll

(* A batch that is over, and all said and read, has been summarised, unless its end fell in a
   time when the notifier was cut loose or not yet listening. *)
THEOREM Summarised == Spec => []BatchReported
<1>1. Init => EndHeard
  BY DEF Init, EndHeard, Terminal
<1>2. Spec => [](Placed /\ EndHeard)
  <2>1. Placed /\ EndHeard /\ [Next]_vars => EndHeard'
    BY EndStep
  <2>2. Spec => []Placed
    BY PlacedAlways
  <2>. QED  BY <1>1, <2>1, <2>2, PTL DEF Spec
<1>3. Placed /\ EndHeard => BatchReported
  <2>1. SUFFICES ASSUME Placed, EndHeard, NEW b \in Batches, chan[Notifier] = <<>>,
                        Known(b), ~Active(b), \A j \in ToSet(JobsOf[b]) : ~ToTell(j)
                 PROVE  b \in reported \/ b \in missed
    BY DEF BatchReported
  <2>2. PICK j \in ToSet(JobsOf[b]) : st[j] # "absent"
    BY <2>1, KnownBatch
  <2>3. j \in Jobs /\ BatchOf(j) = b /\ st[j] \in JobStates
    <3>1. j \in Jobs
      BY <2>2, JobsOfBatch
    <3>2. BatchOf(j) = b
      BY <2>2, <3>1, OneBatch
    <3>. QED  BY <2>1, <3>1, <3>2 DEF Placed, Typed, QueueTyped
  <2>4. Terminal(st[j])
    BY <2>1, <2>2, <2>3 DEF Active, Terminal, JobStates
  <2>5. Followed(b)
    BY <2>1, <2>3, <2>4 DEF EndHeard
  <2>6. ~Awaited(b)
    BY <2>1 DEF Awaited
  <2>7. \A k \in Jobs : run[k] = "ended" => BatchOf(k) # b
    BY <2>1, OneBatch DEF ToTell
  <2>8. poller.at \in {"view", "tell"} => BatchOf(Head(poller.left)) # b
    <3>1. poller.at \in {"view", "tell"} => Head(poller.left) \in Jobs
      <4>1. poller.left \in Seq(Jobs) /\ (poller.at \in {"view", "tell"} => poller.left # <<>>)
        BY <2>1 DEF Placed, Typed, PollerTyped, Pollers, Cancelling
      <4>. QED  BY <4>1, HeadAndRest
    <3>. QED  BY <2>1, <3>1, OneBatch DEF ToTell
  <2>. QED  BY <2>1, <2>5, <2>6, <2>7, <2>8 DEF Followed
<1>. QED  BY <1>2, <1>3, PTL

-----------------------------------------------------------------------------
(* The stop buttons *)

\* A prompt whose button is somebody's to take away.
Live(i) == chat[i].live /\ ~chat[i].late /\ chat[i].boot = boots /\ chat[i].batch \notin failed

(* A button that somebody is to take away stays his, is handed on, or is gone. *)
LEMMA ButtonsStep ==
    ASSUME Placed, PromptInv, ButtonsOwned, [Next]_vars
    PROVE  ButtonsOwned'
<1> USE DEF notify, service
<1>0. /\ chat \in Seq(Prompts) /\ DOMAIN chat = 1 .. Len(chat) /\ Len(chat) \in Nat
      /\ watcher \in [at : {"off", "idle", "send", "store", "summary", "edit"},
                      b : Batches \cup {None}, id : 1 .. MaxChat \cup {None}]
      /\ watcher.at \in {"store", "edit"} => watcher.id \in DOMAIN chat /\ watcher.b \in Batches
      /\ poller.at = "edit" => poller.id \in DOMAIN chat
      /\ messages \in [Batches -> 1 .. MaxChat \cup {None}]
      /\ poller \in Pollers
  <2>1. chat \in Seq(Prompts)
    BY DEF Placed, Typed, WatchTyped
  <2>2. /\ watcher \in [at : {"off", "idle", "send", "store", "summary", "edit"},
                        b : Batches \cup {None}, id : 1 .. MaxChat \cup {None}]
        /\ watcher.at \in {"store", "edit"} => watcher.id # None /\ watcher.b \in Batches
        /\ watcher.id # None => watcher.id <= Len(chat)
    BY DEF Placed, Typed, WatchTyped
  <2>3. watcher.at \in {"store", "edit"} => watcher.id \in 1 .. Len(chat)
    BY <2>1, <2>2, ConstantsOK
  <2>. QED  BY <2>1, <2>2, <2>3 DEF Placed, Typed, WatchTyped, PollerTyped
<1>1. /\ watcher.at = "store" =>
           chat[watcher.id].batch = watcher.b /\ chat[watcher.id].boot = boots
      /\ phase # "down" => \A i \in DOMAIN chat : Live(i) => Owned(i)
  BY DEF ButtonsOwned, Live
<1>2. \A i \in DOMAIN chat : i \in Nat /\ i # None /\ chat[i].batch \in Batches
  <2>1. \A i \in 1 .. Len(chat) : chat[i] \in Prompts
    BY <1>0
  <2>2. \A i \in 1 .. Len(chat) : chat[i].batch \in Batches
    BY <2>1 DEF Prompts
  <2>. QED  BY <1>0, <2>2, ConstantsOK
\* The prompts are the same, and so are their owners.
<1>3. ASSUME UNCHANGED <<chat, boots, failed, reported>>, phase' # "down" => phase # "down",
             watcher'.at = "store" => watcher' = watcher,
             \A i \in DOMAIN chat : Live(i) /\ Owned(i) => Owned(i)'
      PROVE  ButtonsOwned'
  BY <1>1, <1>3 DEF ButtonsOwned, Live, Owned
<1>4. ASSUME UNCHANGED <<chat, boots, failed, reported, watcher, messages>>,
             phase' # "down" => phase # "down", poller.at = "edit" => poller' = poller
      PROVE  ButtonsOwned'
  BY <1>3, <1>4 DEF Owned
<1>5. ~Boot => boots' = boots /\ (phase' # "down" => phase # "down")
  BY SameBoot, Records DEF Placed, Crash
<1>6. ASSUME NEW b \in Batches, Enqueue(b) \/ RestoreEnqueue(b) \/ Press(b)
      PROVE  ButtonsOwned'
  <2>1. ~Boot
    BY <1>6 DEF Enqueue, RestoreEnqueue, Press, Boot, process
  <2>2. UNCHANGED <<chat, failed, reported, watcher, messages, poller>>
    BY <1>6 DEF Enqueue, RestoreEnqueue, Press, polling
  <2>. QED  BY <1>4, <1>5, <2>1, <2>2
<1>7. ASSUME NEW j \in Jobs, RunStep(j)
      PROVE  ButtonsOwned'
  <2>1. phase # "down"
    BY <1>7, UpOnly DEF Placed
  <2>2. UNCHANGED <<chat, boots, failed, reported, watcher, messages, poller>>
    BY <1>7 DEF RunStep, RunDispatch, RunStart, RunView, StartEmit, onProgress,
               maybeCheckpoint, CheckpointEmit, RunFinish, RunExit, RunEmit,
                polling, process
  <2>. QED  BY <1>4, <2>1, <2>2
<1>8. CASE Announce \/ RestoreMark \/ RestoreEnd \/ UNCHANGED vars
  <2>1. UNCHANGED <<chat, boots, failed, reported, watcher, messages, poller>>
    BY <1>8 DEF Announce, EnqueueView, EnqueueEmit, RestoreMark, RestoreEnd, vars, polling, process
  <2>2. phase' = phase \/ RestoreEnd
    BY <1>8 DEF Announce, EnqueueView, EnqueueEmit, RestoreMark, vars, process
  <2>. QED  BY <1>4, <2>1, <2>2 DEF RestoreEnd
<1>9. ASSUME NEW p \in Pages, PageStep(p)
      PROVE  ButtonsOwned'
  <2>1. UNCHANGED <<chat, boots, failed, reported, watcher, messages, poller, phase>>
    BY <1>9 DEF PageStep, PageConnect, PageSnapshot, PageRead, PageEnd, polling, process
  <2>. QED  BY <1>4, <2>1
<1>10. CASE Crash
  <2>1. phase' = "down" /\ watcher'.at = "off"
    BY <1>10 DEF Crash, Asleep
  <2>. QED  BY <2>1 DEF ButtonsOwned
<1>11. CASE Boot
  <2>1. boots' = boots + 1 /\ boots \in Nat /\ UNCHANGED <<chat, watcher>> /\ watcher.at = "off"
    BY <1>11 DEF Boot, Placed, Quiet, Typed, ProcessTyped
  <2>2. \A i \in DOMAIN chat' : chat'[i].boot # boots'
    <3>1. \A i \in DOMAIN chat : chat[i].boot <= boots
      BY DEF PromptInv, BootsInOrder
    <3>2. \A i \in DOMAIN chat : chat[i].boot \in Nat
      <4>1. \A i \in 1 .. Len(chat) : chat[i] \in Prompts
        BY <1>0
      <4>. QED  BY <1>0, <4>1 DEF Prompts
    <3>. QED  BY <2>1, <3>1, <3>2
  <2>. QED  BY <2>1, <2>2 DEF ButtonsOwned
<1>12. ASSUME Watch \/ Poll
       PROVE  phase = "up" /\ UNCHANGED <<phase, boots>>
  <2>1. phase = "up" /\ phase' = phase
    BY <1>12, UpOnly DEF Placed
  <2>. QED  BY <1>5, <2>1 DEF Boot
<1>13. CASE WatcherSubscribe \/ WatcherCut \/ ReadProgress \/ onCheckpoint
  <2>1. /\ UNCHANGED <<chat, failed, reported, messages, poller, phase, boots>>
        /\ watcher.at \in {"off", "idle"} /\ watcher'.at # "store"
    BY <1>0, <1>12, <1>13 DEF WatcherSubscribe, WatcherCut, ReadProgress, onCheckpoint, WatcherTake,
                              polling, Watch
  <2>. QED  BY <1>3, <2>1 DEF Owned
<1>14. CASE onState
  <2> DEFINE c == BatchOf(Head(chan[Notifier]).job)
  <2>1. UNCHANGED <<chat, failed, poller, phase, boots>> /\ watcher.at = "idle" /\ c \in Batches
    BY <1>12, <1>14, Takes DEF Placed, Watch, polling
  <2>2. CASE UNCHANGED notify
    BY <1>4, <2>1, <2>2
  <2>3. CASE /\ reported' = reported \cup {c} /\ messages' = [messages EXCEPT ![c] = None]
             /\ watcher' = [at |-> "summary", b |-> c, id |-> messages[c]]
    <3> HIDE DEF c
    <3>1. watcher'.at = "summary" /\ watcher'.id = messages[c]
      BY <2>3
    <3>2. ASSUME NEW i \in DOMAIN chat, Owned(i)
          PROVE  Owned(i)'
      <4>1. CASE messages[chat[i].batch] = i /\ chat[i].batch = c
        BY <2>1, <3>1, <4>1 DEF Owned
      <4>2. CASE messages[chat[i].batch] = i /\ chat[i].batch \notin reported /\ chat[i].batch # c
        BY <1>0, <1>2, <2>1, <2>3, <4>2 DEF Owned
      <4>3. CASE poller.at = "edit" /\ poller.id = i
        BY <2>1, <4>3 DEF Owned
      <4>. QED  BY <2>1, <3>2, <4>1, <4>2, <4>3 DEF Owned
    <3>. QED  BY <1>1, <2>1, <3>1, <3>2 DEF ButtonsOwned, Live
  <2>. QED  BY <1>14, <2>2, <2>3 DEF onState, Retire
<1>15. CASE Send
  <2> DEFINE b == watcher.b
             new == Len(chat) + 1
  <2>1. UNCHANGED <<poller, phase, boots, messages, reported>> /\ watcher.at = "send"
    BY <1>12, <1>15 DEF Send, Watch, polling
  <2>2. \A i \in DOMAIN chat : Owned(i) => \/ messages[chat[i].batch] = i /\ chat[i].batch \notin reported
                                           \/ poller.at = "edit" /\ poller.id = i
    BY <2>1 DEF Owned
  <2>3. failed \subseteq failed' /\ (chat' = chat \/ chat' = Append(chat, Prompt(b)))
    BY <1>15 DEF Send
  <2>4. \A i \in DOMAIN chat' : (i \in DOMAIN chat /\ chat'[i] = chat[i])
                                  \/ (i = new /\ chat'[i] = Prompt(b) /\ chat' # chat)
    BY <1>0, <2>3
  <2>5. ASSUME NEW i \in DOMAIN chat', Live(i)'
        PROVE  Owned(i)'
    <3>1. CASE i \in DOMAIN chat /\ chat'[i] = chat[i]
      <4>1. Live(i)
        BY <2>1, <2>3, <2>5, <3>1 DEF Live
      <4>. QED  BY <1>1, <1>12, <1>15, <2>1, <2>2, <3>1, <4>1 DEF Owned, Watch
    <3>2. CASE i = new /\ chat'[i] = Prompt(b) /\ chat' # chat
      <4>1. chat'[i].batch = b /\ (b \in reported => chat'[i].late)
        <5>1. Prompt(b).batch = b /\ (b \in reported => Prompt(b).late)
          BY DEF Prompt
        <5>. QED  BY <3>2, <5>1
      <4>2. b \notin failed' /\ b \notin reported
        BY <2>5, <4>1 DEF Live
      <4>3. watcher' = [at |-> "store", b |-> b, id |-> new]
        BY <1>15, <3>2, <4>2 DEF Send
      <4>. QED  BY <2>1, <3>2, <4>1, <4>2, <4>3 DEF Owned
    <3>. QED  BY <2>4, <2>5, <3>1, <3>2
  <2>6. watcher'.at = "store" =>
          chat'[watcher'.id].batch = watcher'.b /\ chat'[watcher'.id].boot = boots'
    <3>1. ASSUME watcher'.at = "store"
          PROVE  watcher' = [at |-> "store", b |-> b, id |-> new] /\ chat' = Append(chat, Prompt(b))
      BY <1>15, <3>1 DEF Send, Asleep
    <3>2. Append(chat, Prompt(b))[new] = Prompt(b)
      BY <1>0
    <3>. QED  BY <2>1, <3>1, <3>2 DEF Prompt
  <2>. QED  BY <2>5, <2>6 DEF ButtonsOwned, Live
<1>16. CASE StoreMessage
  <2> DEFINE b == watcher.b
             id == watcher.id
  <2>1. /\ UNCHANGED <<chat, failed, reported, poller, phase, boots>> /\ watcher.at = "store"
        /\ messages' = [messages EXCEPT ![b] = id] /\ watcher'.at = "idle"
    BY <1>12, <1>16 DEF StoreMessage, Asleep, Watch, polling
  <2>2. id \in DOMAIN chat /\ b \in Batches /\ chat[id].batch = b /\ chat[id].boot = boots
    BY <1>0, <1>1, <2>1
  <2> HIDE DEF b, id
  <2>3. ASSUME NEW i \in DOMAIN chat, Live(i), Owned(i)
        PROVE  Owned(i)'
    <3>1. CASE chat[i].batch = b
      <4>1. i = id
        <5>1. IsSent(b, i) /\ IsSent(b, id)
          BY <2>2, <2>3, <3>1 DEF IsSent, Of, Live
        <5>. QED  BY <2>2, <5>1 DEF PromptInv, InOnePlace, OneSent
      <4>2. messages'[chat'[i].batch] = i
        BY <1>0, <2>1, <2>2, <3>1, <4>1
      <4>3. b \notin reported \/ (poller.at = "edit" /\ poller.id = i)
        BY <2>1, <2>3, <3>1 DEF Owned
      <4>. QED  BY <2>1, <3>1, <4>2, <4>3 DEF Owned
    <3>2. CASE chat[i].batch # b
      <4>1. messages'[chat[i].batch] = messages[chat[i].batch]
        BY <1>0, <1>2, <2>1, <2>2, <3>2
      <4>2. ~ (watcher.at = "store" /\ watcher.id = i)
        BY <2>2, <3>2 DEF id
      <4>. QED  BY <2>1, <2>3, <4>1, <4>2 DEF Owned
    <3>. QED  BY <3>1, <3>2
  <2>. QED  BY <1>3, <2>1, <2>3
<1>17. CASE SendSummary
  <2>1. /\ UNCHANGED <<chat, failed, reported, messages, poller, phase, boots>> /\ watcher.at = "summary"
        /\ \/ watcher.id = None /\ watcher'.at = "idle"
           \/ watcher'.at = "edit" /\ watcher'.id = watcher.id
    BY <1>0, <1>12, <1>17 DEF SendSummary, Asleep, Watch, polling
  <2>. QED  BY <1>2, <1>3, <2>1 DEF Owned
\* An edit takes away the button it is for, or fails.
<1>18. ASSUME NEW id \in DOMAIN chat, Edit(id), UNCHANGED <<boots, reported, messages>>,
              watcher'.at # "store" \/ watcher' = watcher, phase # "down",
              \A i \in DOMAIN chat : Owned(i) /\ i # id =>
                \/ messages[chat[i].batch] = i /\ chat[i].batch \notin reported
                \/ watcher.at = "store" /\ watcher.id = i /\ chat[i].batch \notin reported
                     /\ watcher' = watcher
                \/ watcher.at \in {"summary", "edit"} /\ watcher.id = i /\ watcher' = watcher
                \/ poller.at = "edit" /\ poller.id = i /\ poller' = poller
       PROVE  ButtonsOwned'
  <2>1. /\ DOMAIN chat' = DOMAIN chat /\ failed \subseteq failed'
        /\ \A i \in DOMAIN chat :
             /\ chat'[i].batch = chat[i].batch /\ chat'[i].late = chat[i].late
             /\ chat'[i].boot = chat[i].boot
             /\ chat'[i].live => chat[i].live /\ (i # id \/ chat[i].batch \in failed')
    BY <1>0, <1>18, Edits
  <2>2. ASSUME NEW i \in DOMAIN chat, Live(i)'
        PROVE  Owned(i)'
    <3>1. Live(i) /\ i # id
      BY <1>18, <2>1, <2>2 DEF Live
    <3>2. Owned(i)
      BY <1>1, <1>18, <3>1
    <3>. QED  BY <1>18, <2>1, <3>1, <3>2 DEF Owned
  <2>3. watcher'.at = "store" =>
          chat'[watcher'.id].batch = watcher'.b /\ chat'[watcher'.id].boot = boots'
    BY <1>0, <1>1, <1>18, <2>1
  <2>. QED  BY <2>1, <2>2, <2>3 DEF ButtonsOwned, Live
<1>19. CASE EditAtEnd
  <2>1. /\ UNCHANGED <<reported, messages, poller, phase, boots>> /\ watcher.at = "edit"
        /\ watcher'.at = "idle" /\ Edit(watcher.id) /\ phase # "down"
    BY <1>12, <1>19 DEF EditAtEnd, Asleep, Watch, polling
  <2>. QED  BY <1>0, <1>18, <2>1 DEF Owned
<1>20. CASE EditStopped
  <2>1. /\ UNCHANGED <<reported, messages, watcher, phase, boots>> /\ poller.at = "edit"
        /\ Edit(poller.id) /\ phase # "down"
    BY <1>12, <1>20 DEF EditStopped, Poll
  <2>. QED  BY <1>0, <1>18, <2>1 DEF Owned
<1>21. CASE getUpdates \/ CancelBatch \/ CancelNext \/ CancelFinish \/ CancelView \/ CancelTell
  <2>1. /\ UNCHANGED <<chat, failed, reported, messages, watcher, phase, boots>>
        /\ poller.at # "edit"
    BY <1>12, <1>21 DEF getUpdates, CancelBatch, CancelNext, CancelFinish, CancelView, CancelTell, Poll
  <2>. QED  BY <1>4, <2>1
<1>22. CASE onCallback
  <2>1. PICK b \in Batches : b = presses[Head(poller.got)]
    BY <1>22, PressInHand DEF onCallback, Placed
  <2>2. /\ UNCHANGED <<chat, failed, reported, watcher, phase, boots>> /\ poller.at = "cancel"
        /\ messages' = [messages EXCEPT ![b] = None]
        /\ messages[b] # None => poller' = [poller EXCEPT !.at = "edit", !.id = messages[b]]
    BY <1>12, <1>22, <2>1 DEF onCallback, Poll
  <2>3. messages[b] # None => poller'.at = "edit" /\ poller'.id = messages[b]
    BY <1>0, <2>2 DEF Pollers
  <2>4. ASSUME NEW i \in DOMAIN chat, Owned(i)
        PROVE  Owned(i)'
    <3>1. CASE messages[chat[i].batch] = i /\ chat[i].batch = b
      BY <1>2, <2>2, <2>3, <3>1 DEF Owned
    <3>2. CASE messages[chat[i].batch] = i /\ chat[i].batch \notin reported /\ chat[i].batch # b
      BY <1>0, <1>2, <2>2, <3>2 DEF Owned
    <3>3. CASE ~ (messages[chat[i].batch] = i)
      BY <2>2, <2>4, <3>3 DEF Owned
    <3>. QED  BY <2>2, <2>4, <3>1, <3>2, <3>3 DEF Owned
  <2>. QED  BY <1>3, <2>2, <2>4
<1>. QED  BY <1>6, <1>7, <1>8, <1>9, <1>10, <1>11, <1>13, <1>14, <1>15, <1>16, <1>17, <1>19, <1>20,
              <1>21, <1>22 DEF Next, Restore, Watch, Poll

(* Once a batch has been summarised no stop button for it is left, unless a call to Telegram
   failed, the prompt is from an earlier process, or it was sent after the summary. *)
THEOREM NoButtonLeft == Spec => []ButtonsRetired
<1>1. Init => ButtonsOwned
  <2>1. SUFFICES ASSUME Init PROVE ButtonsOwned
    OBVIOUS
  <2>2. watcher.at = "off" /\ (phase = "down" \/ chat = <<>>)
    BY <2>1 DEF Init, Asleep
  <2>. QED  BY <2>2 DEF ButtonsOwned
<1>2. Spec => [](Placed /\ ButtonsOwned)
  <2>1. Placed /\ PromptInv /\ ButtonsOwned /\ [Next]_vars => ButtonsOwned'
    BY ButtonsStep
  <2>2. Spec => []Placed
    BY PlacedAlways
  <2>3. Spec => []PromptInv
    BY PromptsAlways
  <2>. QED  BY <1>1, <2>1, <2>2, <2>3, PTL DEF Spec
<1>3. Placed /\ ButtonsOwned => ButtonsRetired
  <2>1. SUFFICES ASSUME Placed, ButtonsOwned, NEW b \in reported, watcher.at = "idle",
                        poller.at = "poll", b \notin failed, NEW i \in DOMAIN chat,
                        chat[i].batch = b, chat[i].live, ~chat[i].late, chat[i].boot = boots
                 PROVE  FALSE
    BY DEF ButtonsRetired
  <2>2. phase # "down"
    BY <2>1 DEF Placed, Quiet
  <2>3. Owned(i)
    BY <2>1, <2>2 DEF ButtonsOwned
  <2>. QED  BY <2>1, <2>3 DEF Owned
<1>. QED  BY <1>2, <1>3, PTL

-----------------------------------------------------------------------------
(* The picture a page has *)

(* An event about a job is the last word on it; one about another, or of a checkpoint,
   leaves the last word with whom it was. *)
LEMMA WordSent ==
    ASSUME NEW c \in Seq(Events), NEW ev \in Events, NEW j \in Jobs
    PROVE  /\ DOMAIN Append(c, ev) = 1 .. Len(c) + 1 /\ Append(c, ev)[Len(c) + 1] = ev
           /\ ev.kind # "checkpoint" /\ ev.job = j => LastWord(Append(c, ev), j, Len(c) + 1)
           /\ ev.kind = "checkpoint" \/ ev.job # j =>
                /\ Silent(c, j) => Silent(Append(c, ev), j)
                /\ \A k \in DOMAIN c : LastWord(c, j, k) =>
                     /\ k \in DOMAIN Append(c, ev) /\ LastWord(Append(c, ev), j, k)
                     /\ Append(c, ev)[k] = c[k]
<1> DEFINE n == Len(c)
           d == Append(c, ev)
<1>1. /\ n \in Nat /\ DOMAIN c = 1 .. n /\ DOMAIN d = 1 .. n + 1
      /\ d[n + 1] = ev /\ \A k \in 1 .. n : d[k] = c[k]
  OBVIOUS
<1> HIDE DEF d, n
<1>2. \A k \in 1 .. n : Paints(d, j, k) <=> Paints(c, j, k)
  BY <1>1 DEF Paints
<1>3. Paints(d, j, n + 1) <=> ev.kind # "checkpoint" /\ ev.job = j
  BY <1>1 DEF Paints
<1>4. ev.kind # "checkpoint" /\ ev.job = j => LastWord(d, j, n + 1)
  BY <1>1, <1>3 DEF LastWord
<1>5. ASSUME ev.kind = "checkpoint" \/ ev.job # j
      PROVE  /\ Silent(c, j) => Silent(d, j)
             /\ \A k \in DOMAIN c : LastWord(c, j, k) =>
                  k \in DOMAIN d /\ LastWord(d, j, k) /\ d[k] = c[k]
  <2>1. ~Paints(d, j, n + 1)
    BY <1>3, <1>5
  <2>. QED  BY <1>1, <1>2, <2>1 DEF LastWord, Silent
<1>. QED  BY <1>1, <1>4, <1>5 DEF n, d

(* The last word is read in its turn. *)
LEMMA WordRead ==
    ASSUME NEW c \in Seq(Events), c # <<>>, NEW j \in Jobs
    PROVE  /\ Silent(c, j) => Silent(Tail(c), j)
           /\ LastWord(c, j, 1) =>
                Silent(Tail(c), j) /\ Head(c).kind # "checkpoint" /\ Head(c).job = j
           /\ \A k \in DOMAIN c \ {1} : LastWord(c, j, k) =>
                /\ k - 1 \in DOMAIN Tail(c) /\ LastWord(Tail(c), j, k - 1)
                /\ Tail(c)[k - 1] = c[k]
<1> DEFINE n == Len(c)
           d == Tail(c)
<1>1. /\ n \in Nat \ {0} /\ DOMAIN c = 1 .. n /\ DOMAIN d = 1 .. n - 1
      /\ \A k \in 1 .. n - 1 : d[k] = c[k + 1]
      /\ Head(c) = c[1]
  OBVIOUS
<1> HIDE DEF d, n
<1>2. \A k \in 1 .. n - 1 : Paints(d, j, k) <=> Paints(c, j, k + 1)
  BY <1>1 DEF Paints
<1>3. Silent(c, j) => Silent(d, j)
  <2>1. \A k \in 1 .. n - 1 : k + 1 \in 1 .. n
    BY <1>1
  <2>. QED  BY <1>1, <1>2, <2>1 DEF Silent
<1>4. LastWord(c, j, 1) => Silent(d, j) /\ Head(c).kind # "checkpoint" /\ Head(c).job = j
  <2>1. LastWord(c, j, 1) => Silent(d, j)
    BY <1>1, <1>2 DEF Silent, LastWord
  <2>. QED  BY <1>1, <2>1 DEF LastWord, Paints
<1>5. ASSUME NEW k \in DOMAIN c \ {1}, LastWord(c, j, k)
      PROVE  k - 1 \in DOMAIN d /\ LastWord(d, j, k - 1) /\ d[k - 1] = c[k]
  <2>1. k - 1 \in 1 .. n - 1 /\ (k - 1) + 1 = k
    BY <1>1, <1>5
  <2>2. Paints(d, j, k - 1) /\ d[k - 1] = c[k]
    BY <1>1, <1>2, <1>5, <2>1 DEF LastWord
  <2>3. ASSUME NEW m \in DOMAIN d, m > k - 1
        PROVE  ~Paints(d, j, m)
    <3>1. m + 1 \in DOMAIN c /\ m + 1 > k
      BY <1>1, <2>1, <2>3
    <3>. QED  BY <1>1, <1>2, <1>5, <2>3, <3>1 DEF LastWord
  <2>. QED  BY <1>1, <2>1, <2>2, <2>3 DEF LastWord
<1>. QED  BY <1>1, <1>3, <1>4, <1>5 DEF n, d

(* What a page will show of a job when nothing is sent to it. *)
LEMMA PictureStays ==
    ASSUME NEW p \in Pages, NEW j \in Jobs, WillShow(p, j),
           chan'[p] = chan[p], page'[p] = page[p], shown'[p] = shown[p],
           st'[j] = st[j], overtaken \subseteq overtaken'
    PROVE  WillShow(p, j)'
BY DEF WillShow, Fits

(* What it will show after an event that fits its job, or is of no picture. *)
LEMMA PictureSent ==
    ASSUME Typed, NEW ev \in Events, emit(ev), NEW p \in Pages \cap subs', NEW j \in Jobs,
           page'[p] = page[p], shown'[p] = shown[p]
    PROVE  /\ ev.kind = "state" /\ ev.job = j /\ Fits(j, ev.st)' => WillShow(p, j)'
           /\ /\ WillShow(p, j) /\ st'[j] = st[j] /\ overtaken \subseteq overtaken'
              /\ ev.kind # "checkpoint" /\ ev.job = j => Fits(j, ev.st)'
              => WillShow(p, j)'
<1> DEFINE c == chan[p]
<1>1. /\ c \in Seq(Events)
      /\ chan'[p] = c \/ chan'[p] = Append(c, ev)
      /\ ev.kind # "progress" => chan'[p] = Append(c, ev)
  <2>1. p \in Subscribers
    BY DEF Subscribers
  <2>. QED  BY <2>1, Emits DEF Typed, StreamTyped
<1>2. ASSUME chan'[p] = Append(c, ev), ev.kind # "checkpoint", ev.job = j, Fits(j, ev.st)'
      PROVE  WillShow(p, j)'
  <2>1. /\ Len(c) + 1 \in DOMAIN chan'[p] /\ LastWord(chan'[p], j, Len(c) + 1)
        /\ chan'[p][Len(c) + 1] = ev
    BY <1>1, <1>2, WordSent
  <2>. QED  BY <1>2, <2>1 DEF WillShow, Fits
<1>3. ASSUME WillShow(p, j), st'[j] = st[j], overtaken \subseteq overtaken',
             chan'[p] = Append(c, ev), ev.kind = "checkpoint" \/ ev.job # j
      PROVE  WillShow(p, j)'
  <2>1. CASE Silent(c, j) /\ (page[p] = "subscribed" \/ Fits(j, shown[p][j]))
    <3>1. Silent(chan'[p], j)
      BY <1>1, <1>3, <2>1, WordSent
    <3>. QED  BY <1>3, <2>1, <3>1 DEF WillShow, Fits, Event
  <2>2. CASE \E k \in DOMAIN c : LastWord(c, j, k) /\ Fits(j, c[k].st)
    <3>1. PICK k \in DOMAIN c : LastWord(c, j, k) /\ Fits(j, c[k].st)
      BY <2>2
    <3>2. k \in DOMAIN chan'[p] /\ LastWord(chan'[p], j, k) /\ chan'[p][k] = c[k]
      BY <1>1, <1>3, <3>1, WordSent
    <3>. QED  BY <1>3, <3>1, <3>2 DEF WillShow, Fits, Event
  <2>. QED  BY <1>3, <2>1, <2>2 DEF WillShow
<1>. QED  BY <1>1, <1>2, <1>3, PictureStays

(* What it will show when it has read one of the events for it. *)
LEMMA PictureRead ==
    ASSUME Typed, NEW p \in Pages, NEW j \in Jobs, PageRead(p), WillShow(p, j)
    PROVE  WillShow(p, j)'
<1> DEFINE c == chan[p]
<1>1. /\ c \in Seq(Events) /\ c # <<>> /\ Head(c) \in Events /\ chan'[p] = Tail(c)
      /\ page' = page /\ page[p] = "open" /\ UNCHANGED <<st, overtaken>>
      /\ DOMAIN c = 1 .. Len(c) /\ Head(c) = c[1]
  <2>1. c \in Seq(Events) /\ c # <<>> /\ chan'[p] = Tail(c)
    BY DEF PageRead, Typed, StreamTyped, Subscribers
  <2>. QED  BY <2>1, HeadAndRest DEF PageRead, queue
<1>2. shown'[p][j] = IF Head(c).kind # "checkpoint" /\ Head(c).job = j THEN Head(c).st
                     ELSE shown[p][j]
  <2>1. shown \in [Pages -> [Jobs -> JobStates]]
    BY DEF Typed, PagesTyped
  <2>2. shown' = IF Head(c).kind = "checkpoint" THEN shown
                 ELSE [shown EXCEPT ![p][Head(c).job] = Head(c).st]
    BY DEF PageRead
  <2>. QED  BY <2>1, <2>2
<1>3. CASE Silent(c, j) /\ Fits(j, shown[p][j])
  <2>1. Silent(chan'[p], j)
    BY <1>1, <1>3, WordRead
  <2>2. shown'[p][j] = shown[p][j]
    <3>1. 1 \in DOMAIN c
      BY <1>1
    <3>. QED  BY <1>1, <1>2, <1>3, <3>1 DEF Silent, Paints
  <2>. QED  BY <1>1, <1>3, <2>1, <2>2 DEF WillShow, Fits
<1>4. CASE LastWord(c, j, 1) /\ Fits(j, c[1].st)
  <2>1. Silent(chan'[p], j) /\ shown'[p][j] = c[1].st
    BY <1>1, <1>2, <1>4, WordRead
  <2>. QED  BY <1>1, <1>4, <2>1 DEF WillShow, Fits
<1>5. ASSUME NEW k \in DOMAIN c \ {1}, LastWord(c, j, k), Fits(j, c[k].st)
      PROVE  WillShow(p, j)'
  <2>1. k - 1 \in DOMAIN chan'[p] /\ LastWord(chan'[p], j, k - 1) /\ chan'[p][k - 1] = c[k]
    BY <1>1, <1>5, WordRead
  <2>. QED  BY <1>1, <1>5, <2>1 DEF WillShow, Fits
<1>. QED  BY <1>1, <1>3, <1>4, <1>5 DEF WillShow

(* A page that has missed nothing comes to show each job as it is. *)
LEMMA PictureStep ==
    ASSUME Placed, PictureInv, [Next]_vars
    PROVE  PictureInv'
<1> USE DEF queue, pages, polling
<1>0. /\ Typed /\ Notifier \notin Pages /\ st \in [Jobs -> JobStates]
      /\ run \in [Jobs -> Places]
      /\ chan \in [Subscribers -> Seq(Events)] /\ Pages \subseteq Subscribers
      /\ page \in [Pages -> {"off", "subscribed", "open"}]
      /\ shown \in [Pages -> [Jobs -> JobStates]]
  BY ConstantsOK DEF Placed, Typed, QueueTyped, StreamTyped, Subscribers, PagesTyped
<1>1. telling \in Seq(Jobs) /\ poller.left \in Seq(Jobs)
  BY <1>0 DEF Typed, QueueTyped, PollerTyped, Pollers
\* Nothing happens to the pages, and of the jobs only what will still be told.
<1>2. ASSUME NEW p \in Pages, NEW j \in Jobs, p \in subs, chan'[p] = chan[p],
             page'[p] = page[p], shown'[p] = shown[p], overtaken \subseteq overtaken',
             ToTell(j) \/ st'[j] # st[j] => ToTell(j)'
      PROVE  ToTell(j)' \/ WillShow(p, j)'
  BY <1>2, PictureStays DEF PictureInv
\* An event is sent that fits its job.
<1>3. ASSUME NEW ev \in Events, emit(ev), UNCHANGED <<st, pages>>, overtaken \subseteq overtaken',
             ev.kind # "checkpoint" /\ subs \cap Pages # {} => Fits(ev.job, ev.st)',
             \A j \in Jobs : ToTell(j) => ToTell(j)' \/ (ev.kind = "state" /\ ev.job = j)
      PROVE  PictureInv'
  <2>1. ASSUME NEW p \in Pages \cap subs', NEW j \in Jobs
        PROVE  ToTell(j)' \/ WillShow(p, j)'
    <3>0. p \in subs
      BY <1>0, <1>3, <2>1, Emits DEF Typed
    <3>1. CASE ev.kind = "state" /\ ev.job = j
      BY <1>0, <1>3, <2>1, <3>0, <3>1, PictureSent
    <3>2. CASE ~(ev.kind = "state" /\ ev.job = j) /\ ToTell(j)
      BY <1>3, <3>2 DEF ToTell
    <3>3. CASE ~(ev.kind = "state" /\ ev.job = j) /\ ~ToTell(j)
      <4>1. WillShow(p, j)
        BY <3>0, <3>3 DEF PictureInv
      <4>. QED  BY <1>0, <1>3, <2>1, <3>0, <4>1, PictureSent
    <3>. QED  BY <3>1, <3>2, <3>3
  <2>. QED  BY <2>1 DEF PictureInv
<1>4. ASSUME NEW b \in Batches, Enqueue(b)
      PROVE  PictureInv'
  <2>1. /\ UNCHANGED <<run, subs, chan, page, shown, overtaken, poller>> /\ telling = <<>>
        /\ telling' = JobsOf[b] /\ \A j \in Jobs : st'[j] # st[j] => j \in ToSet(JobsOf[b])
    BY <1>0, <1>4 DEF Enqueue, Create, stream
  <2>2. ASSUME NEW p \in Pages \cap subs', NEW j \in Jobs
        PROVE  ToTell(j)' \/ WillShow(p, j)'
    <3>1. ToTell(j) \/ st'[j] # st[j] => ToTell(j)'
      BY <2>1 DEF ToTell, ToSet
    <3>. QED  BY <1>2, <2>1, <2>2, <3>1
  <2>. QED  BY <2>2 DEF PictureInv
<1>5. ASSUME NEW ev \in Events, ev = hand, EnqueueEmit
      PROVE  PictureInv'
  <2>1. /\ emit(ev) /\ ev.kind = "state" /\ telling # <<>> /\ ev.job = Head(telling)
        /\ telling' = Tail(telling) /\ UNCHANGED <<st, run, page, shown, poller>>
        /\ overtaken' = IF Stale(ev) THEN overtaken \cup {ev} ELSE overtaken
    <3>1. hand # None /\ (hand # None => hand.kind = "state" /\ telling # <<>> /\ hand.job = Head(telling))
      BY <1>0, <1>5 DEF EnqueueEmit, Typed, QueueTyped
    <3>. QED  BY <1>5, <3>1 DEF EnqueueEmit, Overtake
  <2>2. subs \cap Pages # {} => Fits(ev.job, ev.st)'
    BY <2>1 DEF Fits, Stale
  <2>3. ASSUME NEW j \in Jobs, ToTell(j), ev.job # j
        PROVE  ToTell(j)'
    <3>1. j \in ToSet(telling) => j \in ToSet(Tail(telling))
      BY <1>1, <2>1, <2>3, HeadAndRest
    <3>. QED  BY <2>1, <2>3, <3>1 DEF ToTell
  <2>4. \A j \in Jobs : ToTell(j) => ToTell(j)' \/ (ev.kind = "state" /\ ev.job = j)
    <3>1. ASSUME NEW j \in Jobs, ToTell(j)
          PROVE  ToTell(j)' \/ (ev.kind = "state" /\ ev.job = j)
      BY <2>1, <2>3, <3>1
    <3>. QED  BY <3>1
  <2>. QED  BY <1>3, <2>1, <2>2, <2>4
<1>6. ASSUME NEW j \in Jobs, RunStep(j)
      PROVE  PictureInv'
  <2>0. UNCHANGED <<page, shown, telling, poller>>
    BY <1>6 DEF RunStep, RunDispatch, RunStart, RunView, StartEmit, onProgress,
               maybeCheckpoint, CheckpointEmit, RunFinish, RunExit, RunEmit
  <2>1. CASE Emitting(j)
    <3>1. PICK ev \in Events : /\ ev = Word(j) /\ emit(ev) /\ OvertakeStruck(ev) /\ ev.job = j
                               /\ ev.kind = Telling[run[j]]
                               /\ ev.st = IF says[j] = None THEN st[j] ELSE says[j].st
      BY <1>0, <2>1, RunSends
    <3>2. UNCHANGED st /\ \A k \in Jobs \ {j} : run'[k] = run[k]
      BY <1>0, <2>1, RunSends
    <3>3. subs \cap Pages # {} => Fits(ev.job, ev.st)'
      <4>1. j \notin struck => ev.st = st[j]
        BY <3>1 DEF Placed, ApartAll, Apart
      <4>. QED  BY <3>1, <3>2, <4>1 DEF Fits, OvertakeStruck, Stale
    <3>4. \A k \in Jobs : ToTell(k) => ToTell(k)' \/ (ev.kind = "state" /\ ev.job = k)
      <4>1. run[j] \in {"started", "ended"} => ev.kind = "state"
        BY <3>1 DEF Telling
      <4>. QED  BY <2>0, <3>1, <3>2, <4>1 DEF ToTell
    <3>5. overtaken \subseteq overtaken'
      BY <3>1 DEF OvertakeStruck
    <3>. QED  BY <1>3, <2>0, <3>1, <3>2, <3>3, <3>4, <3>5
  <2>2. CASE RunDispatch(j) \/ RunStart(j) \/ RunView(j) \/ maybeCheckpoint(j) \/ RunFinish(j)
    <3>1. /\ UNCHANGED <<subs, chan, overtaken>>
          /\ \A k \in Jobs : run[k] \in {"started", "ended"} => run'[k] \in {"started", "ended"}
          /\ \A k \in Jobs : st'[k] # st[k] => run'[k] \in {"started", "ended"}
      BY <1>0, <2>2 DEF RunDispatch, Pending, RunStart, RunView, maybeCheckpoint, RunFinish, stream
    <3>2. ASSUME NEW p \in Pages \cap subs', NEW k \in Jobs
          PROVE  ToTell(k)' \/ WillShow(p, k)'
      <4>1. ToTell(k) \/ st'[k] # st[k] => ToTell(k)'
        BY <2>0, <3>1 DEF ToTell
      <4>. QED  BY <1>2, <2>0, <3>1, <3>2, <4>1
    <3>. QED  BY <3>2 DEF PictureInv
  <2>. QED  BY <1>6, <2>1, <2>2 DEF RunStep, Emitting
\* Nothing that will be told changes; some pages may read, or be off.
<1>7. ASSUME UNCHANGED <<st, run, telling, overtaken>>,
             poller.at \in {"view", "tell"} => poller' = poller,
             \A p \in Pages \cap subs' :
               p \in subs /\ chan'[p] = chan[p] /\ page'[p] = page[p] /\ shown'[p] = shown[p]
      PROVE  PictureInv'
  <2>1. ASSUME NEW p \in Pages \cap subs', NEW j \in Jobs
        PROVE  ToTell(j)' \/ WillShow(p, j)'
    <3>1. ToTell(j) \/ st'[j] # st[j] => ToTell(j)'
      BY <1>7 DEF ToTell
    <3>. QED  BY <1>2, <1>7, <2>1, <3>1
  <2>. QED  BY <2>1 DEF PictureInv
<1>8. CASE EnqueueView \/ RestoreMark \/ RestoreEnd \/ Boot \/ UNCHANGED vars
  BY <1>7, <1>8 DEF EnqueueView, RestoreMark, RestoreEnd, Boot, vars, stream
<1>9. CASE Crash \/ \E b \in Batches : RestoreEnqueue(b)
  <2>1. subs' = {}
    BY <1>9 DEF Crash, RestoreEnqueue, stream, Placed, Quiet
  <2>. QED  BY <2>1 DEF PictureInv
<1>10. ASSUME NEW b \in Batches, Press(b)
       PROVE  PictureInv'
  BY <1>7, <1>10, Bystanders DEF stream
<1>11. CASE Watch
  <2>1. UNCHANGED <<st, run, telling, overtaken, poller, page, shown>>
    BY <1>11 DEF Watch, WatcherSubscribe, WatcherCut, ReadProgress, onCheckpoint, onState,
                WatcherTake, Send, StoreMessage, SendSummary, EditAtEnd
  <2>2. subs' \subseteq subs \cup {Notifier} /\ \A p \in Pages : chan'[p] = chan[p]
    BY <1>0, <1>11 DEF Watch, WatcherSubscribe, WatcherCut, ReadProgress, onCheckpoint, onState,
                WatcherTake, Send, StoreMessage, SendSummary, EditAtEnd, stream, Subscribe
  <2>. QED  BY <1>0, <1>7, <2>1, <2>2
<1>12. ASSUME NEW j \in Jobs, j = Head(poller.left), CancelFinish \/ CancelView
       PROVE  PictureInv'
  <2>1. /\ UNCHANGED <<run, subs, chan, page, shown, telling, overtaken>>
        /\ \A k \in Jobs : st'[k] # st[k] => k = j
        /\ poller'.left = poller.left /\ poller'.at \in {"view", "tell"}
    BY <1>0, <1>12 DEF CancelFinish, CancelView, Typed, PollerTyped, Pollers, stream
  <2>2. ASSUME NEW p \in Pages \cap subs', NEW k \in Jobs
        PROVE  ToTell(k)' \/ WillShow(p, k)'
    <3>1. ToTell(k) \/ st'[k] # st[k] => ToTell(k)'
      BY <1>12, <2>1 DEF ToTell
    <3>. QED  BY <1>2, <2>1, <2>2, <3>1
  <2>. QED  BY <2>2 DEF PictureInv
<1>13. ASSUME NEW j \in Jobs, j = Head(poller.left), CancelTell
       PROVE  PictureInv'
  <2>1. PICK ev \in Events : /\ ev = poller.ev /\ ev.kind = "state" /\ ev.job = j
                             /\ emit(ev) /\ OvertakeStruck(ev)
    BY <1>0, <1>13, Emitted DEF CancelTell
  <2>2. UNCHANGED <<st, run, telling, page, shown>> /\ poller.at = "tell"
    BY <1>13 DEF CancelTell
  <2>3. subs \cap Pages # {} => Fits(j, ev.st)'
    <3>1. j \notin struck => ev.st = st[j]
      BY <1>13, <2>1, <2>2 DEF Placed, ApartAll, Apart, Cancelling
    <3>. QED  BY <2>1, <2>2, <3>1 DEF Fits, OvertakeStruck, Stale
  <2>4. \A k \in Jobs : ToTell(k) => ToTell(k)' \/ (ev.kind = "state" /\ ev.job = k)
    BY <1>13, <2>1, <2>2 DEF ToTell
  <2>5. overtaken \subseteq overtaken'
    BY <2>1 DEF OvertakeStruck
  <2>. QED  BY <1>3, <2>1, <2>2, <2>3, <2>4, <2>5
<1>14. CASE getUpdates \/ CancelBatch \/ CancelNext \/ onCallback \/ EditStopped
  <2>1. /\ UNCHANGED <<st, run, telling, overtaken, subs, chan, page, shown>>
        /\ poller.at \notin {"view", "tell"}
    BY <1>14 DEF getUpdates, CancelBatch, CancelNext, onCallback, EditStopped, stream
  <2>. QED  BY <1>7, <2>1
<1>15. ASSUME NEW p \in Pages, PageStep(p)
       PROVE  PictureInv'
  <2>1. /\ UNCHANGED <<st, run, telling, overtaken, poller>>
        /\ \A q \in Pages \ {p} : /\ q \in subs' => q \in subs
                                 /\ chan'[q] = chan[q] /\ page'[q] = page[q] /\ shown'[q] = shown[q]
    BY <1>0, <1>15 DEF PageStep, PageConnect, PageSnapshot, PageRead, PageEnd, Subscribe, stream
  <2>2. ASSUME NEW q \in Pages \cap subs', q # p, NEW j \in Jobs
        PROVE  ToTell(j)' \/ WillShow(q, j)'
    <3>1. ToTell(j) \/ st'[j] # st[j] => ToTell(j)'
      BY <2>1 DEF ToTell
    <3>. QED  BY <1>2, <2>1, <2>2, <3>1
  <2>3. ASSUME p \in subs', NEW j \in Jobs, ~ToTell(j)
        PROVE  WillShow(p, j)'
    <3>1. CASE PageConnect(p)
      <4>1. chan'[p] = <<>> /\ page'[p] = "subscribed"
        BY <1>0, <3>1 DEF PageConnect, Subscribe
      <4>2. Silent(chan'[p], j)
        BY <4>1 DEF Silent
      <4>. QED  BY <4>1, <4>2 DEF WillShow
    <3>2. CASE PageSnapshot(p)
      <4>1. /\ UNCHANGED <<chan, subs>> /\ shown'[p] = st /\ st' = st
        BY <1>0, <3>2 DEF PageSnapshot, stream
      <4>2. WillShow(p, j)
        BY <2>3, <4>1 DEF PictureInv
      <4>. QED  BY <2>1, <4>1, <4>2 DEF WillShow, Fits
    <3>3. CASE PageRead(p)
      <4>1. p \in subs
        BY <2>3, <3>3 DEF PageRead
      <4>2. WillShow(p, j)
        BY <2>3, <4>1 DEF PictureInv
      <4>. QED  BY <1>0, <3>3, <4>2, PictureRead
    <3>4. ~PageEnd(p)
      BY <2>3 DEF PageEnd
    <3>. QED  BY <1>15, <3>1, <3>2, <3>3, <3>4 DEF PageStep
  <2>4. ASSUME p \in subs', NEW j \in Jobs, ToTell(j)
        PROVE  ToTell(j)'
    BY <2>1, <2>4 DEF ToTell
  <2>. QED  BY <2>2, <2>3, <2>4 DEF PictureInv
<1>16. CancelFinish \/ CancelView \/ CancelTell => Head(poller.left) \in Jobs
  BY <1>0, InHand DEF CancelFinish, CancelView, CancelTell, Cancelling
<1>17. EnqueueEmit => hand \in Events
  BY <1>0, Emitted
<1>. QED  BY <1>4, <1>5, <1>6, <1>8, <1>9, <1>10, <1>11, <1>12, <1>13, <1>14, <1>15, <1>16, <1>17
          DEF Next, Announce, Restore, Poll

(* A page that is connected and has read everything shows each job as it is once all has been
   said of it, but for what Enqueue announced too late, and for a job that Cancel took for
   queued after its dispatch, of which Cancel and run speak in either order. *)
THEOREM PictureTrue == Spec => []PictureCurrent
<1>1. Init => PictureInv
  BY DEF Init, PictureInv
<1>2. Placed /\ PictureInv /\ [Next]_vars => PictureInv'
  BY PictureStep
<1>3. PictureInv => PictureCurrent
  <2>1. SUFFICES ASSUME PictureInv, NEW p \in Pages, NEW j \in Jobs, page[p] = "open", p \in subs,
                        chan[p] = <<>>, ~ToTell(j)
                 PROVE  Fits(j, shown[p][j])
    BY DEF PictureCurrent, Fits
  <2>2. WillShow(p, j)
    BY <2>1 DEF PictureInv
  <2>. QED  BY <2>1, <2>2 DEF WillShow
<1>. QED  BY <1>1, <1>2, <1>3, PlacedAlways, PTL DEF Spec
=============================================================================
