------------------------------- MODULE Notify -------------------------------
(***************************************************************************)
(* Who hears of the queue, and what they do about it: emit and Subscribe   *)
(* of ver2/internal/jobs, the event stream of web.handleEvents with the    *)
(* page that reads it, and the notifier of ver2/internal/notify with its   *)
(* two goroutines (Watcher.consume and Telegram.Poll) and the Telegram     *)
(* service behind them.                                                    *)
(*                                                                         *)
(* The queue is reduced to what its events tell: which waiting job is      *)
(* dispatched is a subject of JobQueue, overlapping saves of QueueStore.   *)
(* Whoever announces a job takes a view of it under the job's lock and     *)
(* sends it under the subscribers' lock afterwards.  The two are two steps *)
(* wherever the view may be overtaken in between.                          *)
(***************************************************************************)
EXTENDS Naturals, FiniteSets, SequencesExt, Sift

CONSTANTS
    Batches,     \* batch ids
    Jobs,        \* job ids
    JobsOf,      \* Batch.jobIDs
    Left,        \* what an earlier process may have left to do of each batch
    Pages,       \* browsers that may open /api/events
    Notifier,    \* the subscriber of Watcher.Run
    Audiences,   \* the sets of subscribers a behaviour may have
    Workers,     \* conversions that may run at once
    Buffer,      \* capacity of a subscriber's channel (64 in the code)
    MaxChat,     \* bound: prompts Telegram receives
    MaxPress,    \* bound: presses of stop buttons
    MaxBoots,    \* bound: starts of the process
    None

Subscribers == Pages \cup {Notifier}
BatchOf(j)  == CHOOSE b \in Batches : j \in ToSet(JobsOf[b])

ASSUME ConstantsOK ==
    /\ JobsOf \in [Batches -> Seq(Jobs) \ {<<>>}]
    /\ \A j \in Jobs : \E b \in Batches : j \in ToSet(JobsOf[b])
    /\ \A b, c \in Batches : b # c => ToSet(JobsOf[b]) \cap ToSet(JobsOf[c]) = {}
    /\ Left \in [Batches -> SUBSET Jobs] /\ \A b \in Batches : Left[b] \subseteq ToSet(JobsOf[b])
    /\ Notifier \notin Pages
    /\ Audiences \subseteq SUBSET Subscribers
    /\ Workers \in Nat \ {0} /\ Buffer \in Nat \ {0}
    /\ MaxChat \in Nat /\ MaxPress \in Nat /\ MaxBoots \in Nat
    /\ None \notin Jobs \cup Batches \cup Nat

VARIABLES
    audience,   \* who may subscribe in this behaviour
    st,         \* Job.state; "absent" for a job this process does not know
    run,        \* where each job's run goroutine is; "dispatched" until j.start
    says,       \* the event each run goroutine has made and not sent
    flag,       \* batches whose Batch.checkpoint is set
    telling,    \* jobs Enqueue has still to announce
    hand,       \* the event Enqueue has made and not sent
    file,       \* queue.json: jobs to do, batches whose prompt went out
    phase,      \* the process: "restore", "up" or "down"
    restoring,  \* what Restore has read: the jobs it has still to enqueue, and the flags
    mark,       \* the batch whose flag Restore is about to set
    boots,      \* starts so far
    subs,       \* keys of q.subs
    chan,       \* each subscriber's channel
    page,       \* handleEvents of each page: "off", "subscribed" or "open"
    shown,      \* the state each page shows of each job
    watcher,    \* Watcher.consume: where it is, the batch and message at hand
    messages,   \* Watcher.messages
    reported,   \* Watcher.reported
    poller,     \* Telegram.Poll: where it is, presses and jobs left, the message at hand
    offset,     \* getUpdates' offset, in memory only
    chat,       \* Telegram: the prompts it holds, by message id
    presses,    \* Telegram: presses so far, update id = position
    acked,      \* Telegram: updates it will not deliver again
    handled,    \* history: presses whose CancelBatch has run
    struck,     \* history: jobs that Cancel took for queued after their dispatch
    missed,     \* history: batches whose latest end was not delivered to the notifier
    overtaken,  \* history: what pages were told when it was no longer so
    unmarked,   \* history: batches for which the record of the prompt was lost
    failed      \* history: batches for which a call to Telegram failed

queue   == <<st, run, says, flag, telling, hand>>
process == <<file, phase, restoring, mark, boots>>
stream  == <<subs, chan, missed>>
pages   == <<page, shown>>
notify  == <<watcher, messages, reported>>
polling == <<poller, offset, acked, handled, struck>>
service == <<chat, presses, failed>>
vars    == <<audience, queue, process, stream, pages, notify, polling, service, overtaken, unmarked>>

-----------------------------------------------------------------------------
(* The queue as its events tell it *)

\* Failed and Canceled are told apart by nobody here: both are "failed".
Terminal(s) == s \in {"done", "failed"}
Event(kind, j, s) == [kind |-> kind, job |-> j, st |-> s]

\* The jobs of b this process knows; those of an earlier one are not among them.
Members(b) == Without(JobsOf[b], {j \in Jobs : st[j] = "absent"})

\* BatchView: Active is false when nothing in the batch is queued or running.
Known(b)  == Members(b) # <<>>
Active(b) == \E j \in ToSet(JobsOf[b]) : st[j] \in {"queued", "running"}

\* Mutant: a full subscriber is kept whatever it misses.
CutNever(full, ev) == {}

\* A state that cannot be delivered cuts the subscriber loose; progress is only dropped.
Cut(full, ev) == IF ev.kind = "progress" THEN {} ELSE full

\* Mutant: one event too many is put into a channel.
FullLate(s) == Len(chan[s]) > Buffer

Full(s) == Len(chan[s]) = Buffer

emit(ev) ==
    LET full == {s \in subs : Full(s)}
    IN  /\ subs' = subs \ Cut(full, ev)
        /\ chan' = [s \in Subscribers |->
                      IF s \in subs \ full THEN Append(chan[s], ev) ELSE chan[s]]
        /\ missed' = IF ev.kind = "state" /\ Terminal(ev.st)
                     THEN IF Notifier \in subs \ full
                          THEN missed \ {BatchOf(ev.job)}
                          ELSE missed \cup {BatchOf(ev.job)}
                     ELSE missed

\* q.save() after state and flags have changed to s and f.
save(s, f) ==
    file' = [todo |-> {j \in Jobs : s[j] \in {"queued", "running"}}, flags |-> f]

\* A page is told what is no longer so.
Stale(ev) == st[ev.job] # ev.st /\ subs \cap Pages # {}

Overtake(ev) == overtaken' = IF Stale(ev) THEN overtaken \cup {ev} ELSE overtaken

\* Nobody but a Cancel that took the job for queued may overtake run, or be overtaken by it.
OvertakeStruck(ev) ==
    overtaken' = IF ev.job \in struck /\ Stale(ev) THEN overtaken \cup {ev} ELSE overtaken

Create(js) == st' = [j \in Jobs |-> IF j \in js THEN "queued" ELSE st[j]]

\* enqueue up to the release of q.mu; the jobs are announced afterwards.  The id is
\* drawn at random: nobody has heard of it.
Enqueue(b) ==
    /\ phase = "up" /\ telling = <<>>
    /\ \A j \in ToSet(JobsOf[b]) : st[j] = "absent"
    /\ \A i \in DOMAIN chat : chat[i].batch # b
    /\ Create(ToSet(JobsOf[b]))
    /\ telling' = JobsOf[b]
    /\ UNCHANGED <<run, says, flag, hand, process, stream, pages, notify, polling, service, audience,
                   overtaken, unmarked>>

EnqueueView ==
    /\ telling # <<>> /\ hand = None
    /\ hand' = Event("state", Head(telling), st[Head(telling)])
    /\ UNCHANGED <<st, run, says, flag, telling, process, stream, pages, notify, polling, service,
                   audience, overtaken, unmarked>>

\* The last announcement is followed by q.save().
EnqueueEmit ==
    /\ hand # None
    /\ emit(hand)
    /\ Overtake(hand)
    /\ telling' = Tail(telling)
    /\ hand' = None
    /\ IF Len(telling) = 1 THEN save(st, flag) ELSE UNCHANGED file
    /\ UNCHANGED <<st, run, says, flag, phase, restoring, mark, boots, pages, notify, polling,
                   service, audience, unmarked>>

\* run leaves q.running before it announces the end.
Running == {j \in Jobs : run[j] \notin {"none", "ended"}}

\* In q.pending: a queued job that neither the dispatcher nor Cancel has taken out.
Pending(j) ==
    st[j] = "queued" /\ run[j] = "none" /\ ~(poller.at = "settle" /\ Head(poller.left) = j)

\* From q.pending to q.running: the job is still queued, and its goroutine has not begun.
RunDispatch(j) ==
    /\ Pending(j) /\ phase # "down" /\ Cardinality(Running) < Workers
    /\ run' = [run EXCEPT ![j] = "dispatched"]
    /\ UNCHANGED <<st, says, flag, telling, hand, process, stream, pages, notify, polling,
                   service, audience, overtaken, unmarked>>

\* j.start does not ask whether a Cancel has settled the job meanwhile.
RunStart(j) ==
    /\ run[j] = "dispatched"
    /\ st' = [st EXCEPT ![j] = "running"]
    /\ run' = [run EXCEPT ![j] = "started"]
    /\ UNCHANGED <<says, flag, telling, hand, process, stream, pages, notify, polling, service,
                   audience, overtaken, unmarked>>

\* What run announces, by where it is.
Telling == [started |-> "state", encode |-> "progress", prompt |-> "checkpoint", ended |-> "state"]

View(j) == Event(Telling[run[j]], j, st[j])

\* j.View() some time before the emit that sends it.  It matters when a Cancel is about to
\* settle the job under run: only that changes a job whose run has announced itself.
RunView(j) ==
    /\ run[j] \in DOMAIN Telling /\ says[j] = None
    /\ poller.at = "settle" /\ Head(poller.left) = j
    /\ says' = [says EXCEPT ![j] = View(j)]
    /\ UNCHANGED <<st, run, flag, telling, hand, process, stream, pages, notify, polling,
                   service, audience, overtaken, unmarked>>

Word(j) == IF says[j] = None THEN View(j) ELSE says[j]

RunEmit(j, from, to) ==
    /\ run[j] = from
    /\ emit(Word(j)) /\ OvertakeStruck(Word(j))
    /\ says' = [says EXCEPT ![j] = None]
    /\ run' = [run EXCEPT ![j] = to]
    /\ UNCHANGED <<st, flag, telling, hand, phase, restoring, mark, boots, pages, notify,
                   polling, service, audience, unmarked>>

StartEmit(j) == RunEmit(j, "started", "encode") /\ UNCHANGED file

\* A reading of ffmpeg's progress, below the checkpoint or past it.
onProgress(j) ==
    (RunEmit(j, "encode", "encode") \/ RunEmit(j, "encode", "reached")) /\ UNCHANGED file

MayPrompt(j) == BatchOf(j) \notin flag /\ Head(Members(BatchOf(j))) = j

\* The first job past the checkpoint, and only it, sets the flag under b.mu and saves.
maybeCheckpoint(j) ==
    /\ run[j] = "reached"
    /\ IF MayPrompt(j)
       THEN /\ run' = [run EXCEPT ![j] = "prompt"]
            /\ flag' = flag \cup {BatchOf(j)}
            /\ save(st, flag')
            /\ unmarked' = IF mark = BatchOf(j) THEN unmarked \cup {mark} ELSE unmarked
       ELSE run' = [run EXCEPT ![j] = "encode"] /\ UNCHANGED <<flag, file, unmarked>>
    /\ UNCHANGED <<st, says, telling, hand, phase, restoring, mark, boots, stream, pages, notify,
                   polling, service, audience, overtaken>>

CheckpointEmit(j) == RunEmit(j, "prompt", "encode") /\ UNCHANGED file

RunFinish(j) ==
    /\ run[j] = "encode" /\ says[j] = None
    /\ \E s \in {"done", "failed"} : st' = [st EXCEPT ![j] = s]
    /\ run' = [run EXCEPT ![j] = "ended"]
    /\ UNCHANGED <<says, flag, telling, hand, process, stream, pages, notify, polling, service,
                   audience, overtaken, unmarked>>

RunExit(j) == RunEmit(j, "ended", "none") /\ save(st, flag)

-----------------------------------------------------------------------------
(* Restart *)

\* Mutant: Restore forgets that the prompt went out.
MarkNever(b) == None

MarkIf(b) == IF b \in restoring.flags THEN b ELSE None

\* Restore enqueues a batch under its old id.  Nobody has subscribed yet, and the
\* save in enqueue writes the batch without its flag.
RestoreEnqueue(b) ==
    LET s == [j \in Jobs |-> IF j \in restoring.jobs[b] THEN "queued" ELSE st[j]]
    IN  /\ phase = "restore" /\ mark = None
        /\ restoring.jobs[b] # {}
        /\ st' = s
        /\ save(s, flag)
        /\ restoring' = [restoring EXCEPT !.jobs[b] = {}]
        /\ mark' = MarkIf(b)
        /\ UNCHANGED <<run, says, flag, telling, hand, phase, boots, stream, pages, notify, polling,
                       service, audience, overtaken, unmarked>>

RestoreMark ==
    /\ mark # None
    /\ flag' = flag \cup {mark}
    /\ mark' = None
    /\ UNCHANGED <<st, run, says, telling, hand, file, phase, restoring, boots, stream, pages, notify,
                   polling, service, audience, overtaken, unmarked>>

Nothing == [jobs |-> [b \in Batches |-> {}], flags |-> {}]

\* main goes on to start the notifier and to listen.
RestoreEnd ==
    /\ phase = "restore" /\ mark = None /\ \A b \in Batches : restoring.jobs[b] = {}
    /\ phase' = "up" /\ restoring' = Nothing
    /\ UNCHANGED <<queue, file, mark, boots, stream, pages, notify, polling, service,
                   audience, overtaken, unmarked>>

NoOne   == [s \in Subscribers |-> <<>>]
Asleep  == [at |-> "off", b |-> None, id |-> None]
Polling == [at |-> "poll", got |-> <<>>, left |-> <<>>, id |-> None, ev |-> None]
Blank   == [p \in Pages |-> [j \in Jobs |-> "absent"]]

\* Batches whose prompt went out from an earlier process, and are known to have had it.
Remembered == {chat[i].batch : i \in {k \in DOMAIN chat : chat[k].boot # boots}} \cap flag

\* The process dies.  Jobs that are done have their output on the disk, and
\* Restore will skip them.
Crash ==
    /\ phase # "down"
    /\ phase' = "down"
    /\ file' = [file EXCEPT !.todo = {j \in @ : st[j] # "done"}]
    /\ unmarked' = unmarked \cup {b \in Batches \ file.flags : b = mark \/ b \in Remembered}
    /\ st' = [j \in Jobs |-> "absent"]
    /\ run' = [j \in Jobs |-> "none"] /\ says' = [j \in Jobs |-> None]
    /\ flag' = {} /\ telling' = <<>> /\ hand' = None
    /\ restoring' = Nothing /\ mark' = None
    /\ subs' = {} /\ chan' = NoOne /\ missed' = {}
    /\ page' = [p \in Pages |-> "off"] /\ shown' = Blank
    /\ watcher' = Asleep /\ messages' = [b \in Batches |-> None] /\ reported' = {}
    /\ poller' = Polling /\ offset' = 0
    /\ overtaken' = {} /\ struck' = {}
    /\ UNCHANGED <<boots, acked, handled, service, audience>>

Boot ==
    /\ phase = "down" /\ boots < MaxBoots
    /\ boots' = boots + 1
    /\ phase' = "restore"
    /\ restoring' = [jobs |-> [b \in Batches |-> ToSet(JobsOf[b]) \cap file.todo],
                      flags |-> file.flags]
    /\ UNCHANGED <<queue, file, mark, stream, pages, notify, polling, service, audience, overtaken,
                   unmarked>>

-----------------------------------------------------------------------------
(* A page: handleEvents and the EventSource that reads it *)

Subscribe(s) ==
    /\ subs' = subs \cup {s}
    /\ chan' = [chan EXCEPT ![s] = <<>>]
    /\ missed' = missed

PageConnect(p) ==
    /\ phase = "up" /\ page[p] = "off" /\ p \in audience
    /\ Subscribe(p)
    /\ page' = [page EXCEPT ![p] = "subscribed"]
    /\ UNCHANGED <<queue, process, shown, notify, polling, service, audience, overtaken, unmarked>>

\* "Open with the full picture": jobs of which there is none are not shown.
PageSnapshot(p) ==
    /\ page[p] = "subscribed"
    /\ page' = [page EXCEPT ![p] = "open"]
    /\ shown' = [shown EXCEPT ![p] = st]
    /\ UNCHANGED <<queue, process, stream, notify, polling, service, audience, overtaken, unmarked>>

\* paint: a page repaints on progress and on a change of state alike.
PageRead(p) ==
    /\ page[p] = "open" /\ chan[p] # <<>>
    /\ LET ev == Head(chan[p])
       IN shown' = IF ev.kind = "checkpoint" THEN shown ELSE [shown EXCEPT ![p][ev.job] = ev.st]
    /\ chan' = [chan EXCEPT ![p] = Tail(@)]
    /\ UNCHANGED <<queue, process, subs, missed, page, notify, polling, service, audience,
                   overtaken, unmarked>>

\* The handler returns when the client leaves, or has read all there is in a closed channel.
PageEnd(p) ==
    /\ page[p] = "open"
    /\ page' = [page EXCEPT ![p] = "off"]
    /\ subs' = subs \ {p}
    /\ chan' = [chan EXCEPT ![p] = <<>>]
    /\ shown' = [shown EXCEPT ![p] = Blank[p]]
    /\ UNCHANGED <<queue, process, missed, notify, polling, service, audience, overtaken, unmarked>>

-----------------------------------------------------------------------------
(* Watcher.Run and consume *)

WatcherSubscribe ==
    /\ phase = "up" /\ watcher.at = "off" /\ Notifier \in audience
    /\ Subscribe(Notifier)
    /\ watcher' = [watcher EXCEPT !.at = "idle"]
    /\ UNCHANGED <<queue, process, pages, messages, reported, polling, service, audience, overtaken,
                   unmarked>>

WatcherCut ==
    /\ watcher.at = "idle" /\ chan[Notifier] = <<>> /\ Notifier \notin subs
    /\ watcher' = [watcher EXCEPT !.at = "off"]
    /\ UNCHANGED <<queue, process, stream, pages, messages, reported, polling, service, audience,
                   overtaken, unmarked>>

WatcherTake(kind) ==
    /\ watcher.at = "idle" /\ chan[Notifier] # <<>>
    /\ Head(chan[Notifier]).kind = kind
    /\ chan' = [chan EXCEPT ![Notifier] = Tail(@)]
    /\ UNCHANGED <<queue, process, subs, missed, pages, polling, service, audience, overtaken,
                   unmarked>>

ReadProgress == WatcherTake("progress") /\ UNCHANGED notify

onCheckpoint ==
    /\ WatcherTake("checkpoint")
    /\ watcher' = [at |-> "send", b |-> BatchOf(Head(chan[Notifier]).job), id |-> None]
    /\ UNCHANGED <<messages, reported>>

\* Mutant: the summary is due only when all is done.
OverDone(b) == \A j \in ToSet(Members(b)) : st[j] = "done"

Over(b) == Known(b) /\ ~Active(b)

\* Mutant: the summary leaves the prompt alone.
RetireNone(b) == None

Retire(b) == messages[b]

onState ==
    LET ev == Head(chan[Notifier])
        b  == BatchOf(ev.job)
    IN  /\ WatcherTake("state")
        /\ IF Terminal(ev.st) /\ Over(b) /\ b \notin reported
           THEN /\ reported' = reported \cup {b}
                /\ watcher' = [at |-> "summary", b |-> b, id |-> Retire(b)]
                /\ messages' = [messages EXCEPT ![b] = None]
           ELSE UNCHANGED notify

-----------------------------------------------------------------------------
(* Calls to Telegram, which may fail before or after they have taken effect *)

Prompt(b) == [batch |-> b, live |-> TRUE, late |-> b \in reported, boot |-> boots]

Send ==
    LET b == watcher.b
        sent == chat' = Append(chat, Prompt(b)) /\ Len(chat) < MaxChat
        lost == failed' = failed \cup {b} /\ watcher' = [Asleep EXCEPT !.at = "idle"]
    IN  /\ watcher.at = "send"
        /\ \/ sent /\ failed' = failed /\ watcher' = [at |-> "store", b |-> b, id |-> Len(chat) + 1]
           \/ sent /\ lost
           \/ chat' = chat /\ lost
        /\ UNCHANGED <<queue, process, stream, pages, messages, reported, polling, presses, audience,
                       overtaken, unmarked>>

\* w.messages[batch] = id, some time after the prompt has appeared.
StoreMessage ==
    /\ watcher.at = "store"
    /\ messages' = [messages EXCEPT ![watcher.b] = watcher.id]
    /\ watcher' = [Asleep EXCEPT !.at = "idle"]
    /\ UNCHANGED <<queue, process, stream, pages, reported, polling, service, audience, overtaken,
                   unmarked>>

\* The summary is sent once whether or not it arrives.
SendSummary ==
    /\ watcher.at = "summary"
    /\ watcher' = IF watcher.id = None THEN [Asleep EXCEPT !.at = "idle"]
                  ELSE [watcher EXCEPT !.at = "edit"]
    /\ UNCHANGED <<queue, process, stream, pages, messages, reported, polling, service, audience,
                   overtaken, unmarked>>

\* Edit of a message of b: the text is replaced and the button goes.
Edit(id) ==
    \/ chat' = [chat EXCEPT ![id].live = FALSE] /\ failed' = failed
    \/ chat' = chat /\ failed' = failed \cup {chat[id].batch}

EditAtEnd ==
    /\ watcher.at = "edit"
    /\ Edit(watcher.id)
    /\ watcher' = [Asleep EXCEPT !.at = "idle"]
    /\ UNCHANGED <<queue, process, stream, pages, messages, reported, polling, presses, audience,
                   overtaken, unmarked>>

\* The owner presses a button that is still there.
Press(b) ==
    /\ Len(presses) < MaxPress
    /\ \E i \in DOMAIN chat : chat[i].batch = b /\ chat[i].live
    /\ presses' = Append(presses, b)
    /\ UNCHANGED <<queue, process, stream, pages, notify, polling, chat, failed, audience, overtaken,
                   unmarked>>

-----------------------------------------------------------------------------
(* Telegram.Poll and Watcher.onCallback *)

\* Asking with an offset confirms every update below it; the answer may be lost.
Confirmed == IF offset > acked + 1 THEN offset - 1 ELSE acked

\* Mutant: the offset starts after everything Telegram holds, as a "skip old updates" would.
SinceNow == Len(presses)

Since == Confirmed

\* Poll is a goroutine of its own, started before the watcher subscribes.
getUpdates ==
    LET new == [i \in 1 .. Len(presses) - Since |-> Since + i]
    IN  /\ phase = "up" /\ poller.at = "poll"
        /\ acked' = Since
        /\ \/ acked' # acked /\ UNCHANGED <<poller, offset>>      \* an error
           \/ /\ new # <<>>
              /\ offset' = Len(presses) + 1
              /\ poller' = [poller EXCEPT !.at = "take", !.got = new]
        /\ UNCHANGED <<queue, process, stream, pages, notify, handled, struck, service, audience, overtaken,
                       unmarked>>

Idle(got) == [Polling EXCEPT !.at = IF got = <<>> THEN "poll" ELSE "take", !.got = got]

\* CancelBatch takes the ids of a batch it knows; of any other there is nothing to stop.
CancelBatch ==
    /\ poller.at = "take"
    /\ poller' = [poller EXCEPT !.at = "cancel", !.left = Members(presses[Head(poller.got)])]
    /\ UNCHANGED <<queue, process, stream, pages, notify, offset, acked, handled, struck, service, audience,
                   overtaken, unmarked>>

\* Under q.mu: a queued job is taken out of q.pending, where it may no longer be; a running
\* one is interrupted, and ends in its own time.
CancelNext ==
    LET j == Head(poller.left)
    IN  /\ poller.at = "cancel" /\ poller.left # <<>>
        /\ IF st[j] = "queued"
           THEN /\ poller' = [poller EXCEPT !.at = "settle"]
                /\ struck' = IF run[j] # "none" THEN struck \cup {j} ELSE struck
           ELSE poller' = [poller EXCEPT !.left = Tail(@)] /\ struck' = struck
        /\ UNCHANGED <<queue, process, stream, pages, notify, offset, acked, handled, service,
                       audience, overtaken, unmarked>>

\* j.finish, after q.mu is released: run may be anywhere by now.
CancelFinish ==
    /\ poller.at = "settle"
    /\ st' = [st EXCEPT ![Head(poller.left)] = "failed"]
    /\ poller' = [poller EXCEPT !.at = "view"]
    /\ UNCHANGED <<run, says, flag, telling, hand, process, stream, pages, notify, offset, acked,
                   handled, struck, service, audience, overtaken, unmarked>>

CancelView ==
    LET j == Head(poller.left)
    IN  /\ poller.at = "view"
        /\ poller' = [poller EXCEPT !.at = "tell", !.ev = Event("state", j, st[j])]
        /\ UNCHANGED <<queue, process, stream, pages, notify, offset, acked, handled, struck,
                       service, audience, overtaken, unmarked>>

CancelTell ==
    /\ poller.at = "tell"
    /\ emit(poller.ev) /\ OvertakeStruck(poller.ev)
    /\ save(st, flag)
    /\ poller' = [poller EXCEPT !.at = "cancel", !.left = Tail(@), !.ev = None]
    /\ UNCHANGED <<queue, phase, restoring, mark, boots, pages, notify, offset, acked, handled,
                   struck, service, audience, unmarked>>

\* Answer, and the message taken out of the map under w.mu.
onCallback ==
    LET b == presses[Head(poller.got)]
    IN  /\ poller.at = "cancel" /\ poller.left = <<>>
        /\ handled' = handled \cup {Head(poller.got)}
        /\ messages' = [messages EXCEPT ![b] = None]
        /\ poller' = IF messages[b] = None THEN Idle(Tail(poller.got))
                     ELSE [poller EXCEPT !.at = "edit", !.id = messages[b]]
        /\ UNCHANGED <<queue, process, stream, pages, watcher, reported, offset, acked, struck, service,
                       audience, overtaken, unmarked>>

EditStopped ==
    /\ poller.at = "edit"
    /\ Edit(poller.id)
    /\ poller' = Idle(Tail(poller.got))
    /\ UNCHANGED <<queue, process, stream, pages, notify, offset, acked, handled, struck, presses, audience,
                   overtaken, unmarked>>

-----------------------------------------------------------------------------
(* The specification *)

Fresh == [todo |-> {}, flags |-> {}]

\* A process with a queue still empty, followed here until it dies, or one that had
\* prompted for a batch and died, followed through its restarts.
Init ==
    /\ audience \in Audiences
    /\ \/ phase = "up" /\ boots = MaxBoots /\ file = Fresh /\ chat = <<>>
       \/ /\ phase = "down" /\ boots = 0
          /\ \E b \in Batches : /\ file = [todo |-> Left[b], flags |-> {b}]
                               /\ chat = <<[batch |-> b, live |-> TRUE, late |-> FALSE, boot |-> 0]>>
    /\ st = [j \in Jobs |-> "absent"] /\ run = [j \in Jobs |-> "none"]
    /\ says = [j \in Jobs |-> None] /\ struck = {}
    /\ flag = {} /\ telling = <<>> /\ hand = None
    /\ restoring = Nothing /\ mark = None
    /\ subs = {} /\ chan = NoOne /\ missed = {}
    /\ page = [p \in Pages |-> "off"] /\ shown = Blank
    /\ watcher = Asleep /\ messages = [b \in Batches |-> None] /\ reported = {}
    /\ poller = Polling /\ offset = 0 /\ acked = 0 /\ handled = {}
    /\ presses = <<>> /\ failed = {} /\ overtaken = {} /\ unmarked = {}

RunStep(j) ==
    \/ RunDispatch(j) \/ RunStart(j) \/ RunView(j) \/ StartEmit(j) \/ onProgress(j)
    \/ maybeCheckpoint(j) \/ CheckpointEmit(j) \/ RunFinish(j) \/ RunExit(j)

Announce == EnqueueView \/ EnqueueEmit
Restore  == (\E b \in Batches : RestoreEnqueue(b)) \/ RestoreMark \/ RestoreEnd
Watch    == WatcherSubscribe \/ WatcherCut \/ ReadProgress \/ onCheckpoint \/ onState \/ Send
            \/ StoreMessage \/ SendSummary \/ EditAtEnd
Poll     == getUpdates \/ CancelBatch \/ CancelNext \/ CancelFinish \/ CancelView \/ CancelTell
            \/ onCallback \/ EditStopped
PageStep(p) == PageConnect(p) \/ PageSnapshot(p) \/ PageRead(p) \/ PageEnd(p)

Next ==
    \/ \E b \in Batches : Enqueue(b) \/ Press(b)
    \/ \E j \in Jobs : RunStep(j)
    \/ Announce \/ Restore \/ Crash \/ Boot \/ Watch \/ Poll
    \/ \E p \in Pages : PageStep(p)

Spec == Init /\ [][Next]_vars

-----------------------------------------------------------------------------
(* Properties *)

JobStates == {"absent", "queued", "running", "done", "failed"}

TypeOK ==
    /\ audience \in Audiences
    /\ st \in [Jobs -> JobStates]
    /\ run \in [Jobs -> {"none", "dispatched", "started", "encode", "reached", "prompt",
                          "ended"}]
    /\ flag \subseteq Batches
    /\ telling \in Seq(Jobs) /\ file.todo \subseteq Jobs /\ file.flags \subseteq Batches
    /\ phase \in {"restore", "up", "down"} /\ mark \in Batches \cup {None}
    /\ restoring \in [jobs : [Batches -> SUBSET Jobs], flags : SUBSET Batches] /\ boots \in Nat
    /\ subs \subseteq Subscribers
    /\ \A s \in Subscribers : chan[s] \in Seq([kind : {"state", "progress", "checkpoint"},
                                            job : Jobs, st : JobStates]) /\ Len(chan[s]) <= Buffer
    /\ page \in [Pages -> {"off", "subscribed", "open"}]
    /\ watcher.at \in {"off", "idle", "send", "store", "summary", "edit"}
    /\ messages \in [Batches -> 1 .. MaxChat \cup {None}] /\ reported \subseteq Batches
    /\ poller.at \in {"poll", "take", "cancel", "settle", "view", "tell", "edit"}
    /\ presses \in Seq(Batches) /\ offset \in Nat /\ acked \in 0 .. Len(presses)

\* A goroutine has still to say something of j.
ToTell(j) ==
    \/ run[j] \in {"started", "ended"}
    \/ j \in ToSet(telling)
    \/ poller.at \in {"view", "tell"} /\ Head(poller.left) = j

\* A page that is connected and has read everything shows each job as it is, once all
\* has been said of it, although no sender holds a lock from its view to its event.  There
\* are two exceptions.  What Enqueue says too late may leave a job that has gone on shown
\* as it was.  And of a job that Cancel took for queued after its dispatch, Cancel and run
\* both speak, in either order: it may stay shown as canceled while it runs.
PictureCurrent ==
    \A p \in Pages, j \in Jobs :
        page[p] = "open" /\ p \in subs /\ chan[p] = <<>> /\ ~ToTell(j)
            => \/ shown[p][j] = st[j]
               \/ \E ev \in overtaken : ev.job = j /\ ev.st = shown[p][j]

\* The prompt goes out once per batch, restarts included, unless the record of it was
\* lost: Restore saves a batch without its flag and sets the flag afterwards.
OnePrompt ==
    \A b \in Batches : Cardinality({i \in DOMAIN chat : chat[i].batch = b}) > 1 => b \in unmarked

\* A batch that is over, and all said and read, has been summarised, unless its end fell
\* in a time when the notifier was cut loose or not yet listening.
BatchReported ==
    \A b \in Batches :
        /\ Notifier \in audience /\ phase = "up" /\ watcher.at = "idle" /\ chan[Notifier] = <<>>
        /\ Known(b) /\ ~Active(b) /\ \A j \in ToSet(JobsOf[b]) : ~ToTell(j)
        => b \in reported \/ b \in missed

\* Once a batch has been summarised no stop button for it is left, unless a call to
\* Telegram failed, the prompt is from an earlier process, or it was sent after the summary.
ButtonsRetired ==
    \A b \in reported :
        watcher.at = "idle" /\ poller.at = "poll" /\ b \notin failed
            => \A i \in DOMAIN chat :
                   chat[i].batch = b /\ chat[i].live => chat[i].late \/ chat[i].boot # boots

\* A press is delivered again until CancelBatch has gone through its batch: Telegram forgets
\* only what has been handled, whatever crashes in between.  (That an interrupted conversion
\* has ended, and the state file tells so, comes later.)
PressesKept == 1 .. acked \subseteq handled
=============================================================================
