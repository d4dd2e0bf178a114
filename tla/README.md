# nas-video-transcoding: a TLA+ model

The repository holds two programs. **v2** (`ver2/`) is a web server that converts films from a
read-only library into MP4 files, one night's batch at a time, and notifies through Telegram.
**v1** (`ver1/`) is a frozen WebDAV proxy that converts what players open. v2's conversion queue is
at the centre of this project: it is modelled step by step and proved about. Around it stand models
of what feeds the queue and of what reads it, and one of v1's manager, cache and readers.

Line numbers below refer to the files under `ver2/internal/` unless they say otherwise.

## 1. The system: components, state, operations

| component | state | operations | hard behaviour | what makes it correct |
|---|---|---|---|---|
| queue (`jobs/jobs.go`) | jobs, batches, pending, running, claims on outputs, bounded history, wake token | Enqueue, Cancel, CancelBatch, dispatchLoop, run, Shutdown | three kinds of goroutines under one mutex, with file operations and `finish` outside it | one converter per output, finished files stay whole, no job or slot lost, order, every job settles |
| state file (`jobs/persist.go`) | `queue.json` and its `.tmp` | save, persist, Restore, Shutdown | writers not serialised, crash at any step, restart | readable after a crash, nothing written down is lost |
| event stream (`jobs.go` 548-585, `web/handlers.go` 547-586) | subscribers with a buffer of 64 | Subscribe, emit | full buffers, subscribers cut loose, snapshot after subscribing | who is still subscribed has seen every state change |
| notifier (`notify/`) | message per batch, reported batches, poll offset | onCheckpoint, onState, onCallback, Poll | events lost between subscriptions, sends that race button presses, repeated updates after a restart | one prompt and one summary per batch |
| web server (`web/`) | cached index of playable files, signing secret | convert, cancel, discard, progress, pages | check-then-act between handlers and the queue; cache invalidation | a discard never removes what a job relies on; no stale index |
| paths (`outpath/`) | roots | ParseRel, Output, Partial, RemoveOutput | two sources, one output; the output tree inside the library | collisions are refused or serialised; the tree is not listed as films |
| probe cache (`mediainfo/`), history (`history/`) | entries, dirty flag, file | Probe, Note, Forget, Flush | dirty flag cleared before the write | what was noted reaches the disk, in its order, unless a write fails |
| library (`library/`) | none | List, walk, Order, NaturalLess | - | order total and stable, picked file first, a film listed once |
| subtitles (`subs/`) | none | Find, Pick, Prepare, repairSRT | looked up again for each job, from a cache that a restart empties | the language the viewer picked, or none |
| encoder (`ffmpeg/`) | a process | Run, ParseProgress, Args | interrupt against exit | success only without interrupt |
| v1 manager and cache (`ver1/internal/transcode`, `cache`) | jobs, slots, priorities, completion markers | Start, dispatch, preempt, DropPendingOutside, Evict | preemption against completion, promotion against dropping, eviction against reading | a finished output is kept, a viewer is served |
| v1 file system (`ver1/internal/vfs`) | open files that grow | list, open, prefetch, Read | reads ahead of the encoder | a reader ends only when the job has |

How they interact: HTTP handlers and the Telegram poller call the queue directly; the dispatcher
starts one goroutine per job, which calls the prober, the subtitle resolver and the encoder; the
queue calls subscribers through channels; queue, probe cache and history each write a file of
their own. `main` restores the queue before any client can reach it, and shuts it down last.

`PROJECT.json` lists each component with what is modelled of it, and every hazard with the line
where it bites.

## 2. Modules

| module | what it is | models |
|---|---|---|
| `JobQueue` | the queue, step by step | `jobs.go`, Shutdown's side of `persist.go` |
| `WorkPool` | what the queue promises: wait, one of `Workers` slots, over | abstract |
| `MCJobQueue` | instances for TLC | - |
| `QueueStore` | the state file, crashes and restarts | `persist.go` |
| `MCQueueStore` | instances for TLC | - |
| `Notify`, `MCNotify` | events, the pages and the notifier that hear them, Telegram, restarts | `jobs.go` 278-419, 548-585, 827-869, `persist.go` 120-171, `notify/`, `handlers.go` 547-586, `app.js` |
| `Catalog`, `MCCatalog` | the two trees of files, the cached index, discards, a film's page | `playable.go`, `handlers.go` 128-255, 629-690, `library.go`, `outpath.go` |
| `Film` | which subtitle ends up in which film of a batch | `handlers.go` 449-501, `jobs.go` 751-825, `persist.go` 120-171, `subs.go`, `library.go` 262-295, `mediainfo.go` |
| `History` | where viewers stopped, and the file it is kept in | `history.go`, `main.go` 157-184 |
| `Evening`, `MCEvening` | `Film` and `History` side by side, and instances of them for TLC | - |
| `Sift` | `Without`: what loops over a queue keep of it; used by `QueueStore`, `Notify`, `Film`, `V1Cache` | - |
| `V1Cache`, `MCV1Cache` | v1's manager, cache and readers | `ver1/internal/transcode`, `cache`, `vfs` |
| `SeqFacts` | lemmas about sequences the proofs need | - |
| `JobQueueProofs`, `ClaimProofs` | theorems about `JobQueue`, and that it implements `WorkPool` | - |
| `StoreProofs`, `NotifyProofs`, `CatalogProofs`, `V1Proofs` | theorems about `QueueStore`, `Notify`, `Catalog`, `V1Cache` | - |
| `EveningProofs` | theorems about `History`, `Film` and `Evening` | - |

### JobQueue

A step is what one goroutine does between two points where another can interfere: a critical
section of `q.mu`, a write of a job's fields under `j.mu`, one file operation.

- *Callers* are HTTP handlers and the poller. `Enqueue` takes `q.mu` and keeps it through
  `EnqueueStat` (the disk) and `EnqueueClaim` (the claim on the output) until `EnqueueReturn`:
  they are separate steps because `run` renames and finishes without `q.mu`. `CancelTake` is the
  critical section of `Cancel`; for a job that is Queued the rest follows without the lock, in
  `CancelFinish` (the verdict) and `CancelSettle` (the `.part`, the claim, the nudge).
  `CancelBatch` loops over them.
- *The dispatcher*: `DispatchWake`, `DispatchStart`, `DispatchPark`. A dispatched job stays
  Queued until its goroutine runs `RunStart`. This is the **dispatch window**.
- *A job's goroutine*: `RunStart`, then `RunPlanFail` or `RunEncode`, `RunnerOk` or
  `RunnerFail`, `RunRename` or `RunRenameFail`, `RunDone`, `RunExit`. The last is the deferred
  function with the release before it.
- `fd[j]` says where the file an encoder holds open is linked: at the `.part`, at the output
  after somebody else's rename, or nowhere after a remove.
- `struck` is history: the jobs a `Cancel` took for Queued. A struck job that was dispatched all
  the same (`Late`) is the trouble of the dispatch window; most safety properties say what holds
  of all jobs without one, and the run `torn_output` shows what happens with one.

Left out here: progress, the checkpoint and events (in `Notify`), what plan asks ffprobe and the
subtitle resolver (in `Film`), the `.vtt` beside the output (in `Catalog`), the preview
(`liveDir`, nowhere). `save` is the subject of `QueueStore` and changes nothing here.

### QueueStore

The queue is reduced to what `persist` reads of it. A save has the steps `SaveCheck`, `Snapshot`,
then `SaveClear` or `SaveOpen`, `SaveWrite`, `SaveRename`; every goroutine that changes the queue
goes through them afterwards, with no lock held. All share one temporary file: `fd` follows it
through renames, and a write over another's text may leave a mixture (`Torn`). `Crash` empties
the memory at any step; `Boot` and `RestoreBatch` are `Restore`; `ShutdownClose` and
`ShutdownDrain` are `Shutdown`. `Snapshots` is the set of lists `persist` can write: batches and
running files come out of Go maps, in any order.

`harmed` is history: two writes overlapped, or a crash came during Restore. A crash of the process
loses no write that had returned and reorders none; `persist.go` 108-112 has no fsync, so this says
nothing about a loss of power. The properties hold without harm. With it they do not (a stale list
replaces a newer one, an early save of Restore drops the batches still to come); `PROJECT.json`
lists these as hazards.

### Notify

The queue is reduced to what its events tell: which waiting job is dispatched is `JobQueue`'s
subject. A subscriber's channel is `chan[s]`, full at `Buffer`; `emit` delivers, drops (progress) or
cuts the subscriber loose (state, checkpoint). Whoever announces a job takes its view under `j.mu`
and sends it under the subscribers' lock later, and between the two the job may go on:

- Enqueue (`EnqueueView`, `EnqueueEmit`) may be overtaken by everybody.
- `run` (`RunDispatch`, `RunStart`, `RunView`, `RunEmit`): a dispatched job is Queued until
  `RunStart`, which does not ask whether a `Cancel` settled it meanwhile. Its view is a step of its
  own (`RunView`) where a `Cancel` is about to settle the job; otherwise nobody changes the job
  between view and event, and `RunEmit` does both.
- `Cancel` of a queued job (`CancelNext`, `CancelFinish`, `CancelView`, `CancelTell`) has let `q.mu`
  go before the verdict. It and `run` overtake each other when the job had been dispatched.

`Cancel` is called by the poller only; a web handler calls the same function, and what it adds is
`JobQueue`'s subject. `maybeCheckpoint` sets the flag and saves, `CheckpointEmit` sends afterwards.

- *A page* is `PageConnect`, `PageSnapshot`, `PageRead`, `PageEnd`: subscribed first, then the
  full picture, then events.
- *`Watcher.consume`* is `watcher`: it takes an event, makes a call to Telegram (`Send`,
  `SendSummary`, `EditAtEnd`), and stores the id of the prompt after it was sent (`StoreMessage`).
- *`Telegram.Poll`* is `poller`: `getUpdates` confirms what is below `offset` and fetches the rest,
  then each press goes through `CancelBatch`, the four steps above for each job of the batch,
  `onCallback`, `EditStopped`.
- *Telegram* holds `chat` (prompts, whether their button is `live`), `presses`, and `acked`. A call
  may fail before or after it took effect.
- `Crash` empties the memory; `Boot`, `RestoreEnqueue`, `RestoreMark`, `RestoreEnd` are `Restore`
  with the checkpoint flag.

Failed and Canceled are one state here. `missed`, `overtaken`, `struck`, `unmarked`, `failed` are
history: each holds what one of the documented exceptions of the properties is about. `Left` is what
an earlier process may have left to do: a behaviour may begin in the restart after it.

### Catalog

A file is a record: directory, base, extension, and whether the byte before the dot is white space
to `unicode.IsSpace` (`blank`). A conversion is a number; `out[o]` and `track[o]` say which
conversion made an output and the `.vtt` beside it. `enqueue` looks at the disk (`EnqueueStat`), and
at who claims the output (`EnqueueClaim`): a conversion may rename and end between the two. When
nobody has the output, nothing that the second look reads can change before it, and the two are one
step. A job goes `RunRename`, `RunTrack`, `RunFinish`, `RunCount`: video in place, subtitle,
verdict, count; or `RunStop`. `Strike` is a `Cancel` in the dispatch window: the claim is released,
the job converts all the same. Which conversions write a `.vtt` is the constant `Soft`. A page reads
the count, then takes `indexMu` and uses the index or walks both trees: the output tree first
(`PageWalk`), the library when it stores (`PageStore`). `DiscardRel` and `DiscardOut` are the two
forms of `handleDiscard`, followed by `DiscardTrack` (which may fail unnoticed), `DiscardFile` or
`DiscardFail`, and `DiscardEnd`. `promised[r]` is history: what had been counted, discarded or
explained when page `r` was asked for. Each tree is read in one step, because every property is
about one film at a time.

### Film

`handleWatch` probes the film and lists its tracks; `handleConvert` is the form sent from a page,
which may have been open across a restart. A folder is one of `Folders`: the streams inside each
film, and the sidecars with their place (`dir`, `Subs`, `Subs/<film>`), name and text. Tags are in
lower case, as the code compares them. `Find` gives the tracks as the code collects them; the loops
that take the first one that fits (`PickLang`, `Pick`, `FindByID`) run over them sorted, so `First`
takes the one with the least `Rank`, and of equals the earliest: what a stable sort puts first.
`plan` looks the tracks up again when a job starts. The queue is `JobQueue`'s with one worker and
nobody who cancels: `pickLocked` prefers what is known to be a copy, and an enqueue may overlook a
conversion that ends between its two looks (`Overlooks`), so a film may be queued though it is
converted. `Restart` takes the probe cache from its file (`saved`) and what is to be
enqueued again from `queue.json` (`todo`); `RestoreBatch` enqueues one batch of it, in any order,
while the dispatcher starts what is there already. Pages and the timer that flushes the probes come
after that (`Serving`). A restart in the middle loses the batches that were not yet enqueued, as
the file has been rewritten without them: that is the subject of `QueueStore`.

### History

`Note`, `Forget` and the two callers of `Flush`, the timer and `main`, which share one temporary
file and hold `mu` only while they marshal: `FlushMarshal`, `FlushCreate`, `FlushWrite`,
`FlushRename`, or `FlushFail` at any of the last three. `fd` follows an open file through a rename.
`harmed` is history: a write failed, or two overlapped, since the file was last right; `steady`:
the clock has not been set back. Names never decide the order, because entries of one start differ
in `Seq` and those of a file written before `Seq` existed are left out. A temporary file that
nobody has open is `Torn` or `Absent`: its text is never read.

### V1Cache

A viewer is a GET (`OpenFile` to `Close`); the guesser is the goroutine of `prefetch` or
`queueNext`. `StartCheck`, `StartFind` or `StartCreate`, and `StartRaise` are `Start`, which raises
a job after `m.mu` was let go. `dispatch` is one pass of the dispatcher, with preemption. A job's
goroutine is the `Run` actions, then `Evict`. `mkv[k]` is the output (`none`, `partial`, `full`) and
`marker` the `.done` files; they are written and removed in separate steps, and a marker may fail to
be written (`RunMarkFail`). `fd[v]` is what a reader has open: `growing`, the file being written;
`whole`, the finished file at its path; `kept`, a finished file whose name is gone, which nobody can
harm any more; `cut`, a file that was emptied or given up under it. `Begin` is `ffmpeg -y`, which
opens the output in place: it cuts whoever has that very file open, growing or whole (`Truncated`);
removing the name of a whole file cuts nobody (`Kept`). `bare` is history: finished outputs that
have lost their marker, or never got one. How long `openGrowing` waits is a choice, and so is
whether a request looks like a scan. `Restart` ends in `sweepIncomplete`.

## 3. Runs

| run | instance | shows |
|---|---|---|
| `twins` | two callers, `film.mkv` and `film.avi` becoming one file, two workers, two jobs, history of one | claims, converters, `.part` files, verdicts under all interleavings (`ClaimHeld`, `OneConverter`, `PartIntact`, `OutputSettled`, `VerdictFinal`) |
| `order` | one caller, three jobs, one of them a copy, one worker, history of two | `SlotsBounded`, `NoJobLost`, `EncodesInOrder`, refinement of `WorkPool` (`PoolSafe`) |
| `live` | one caller, a batch of two, one worker, shutdown | `EveryJobSettles`, `ShutdownDrains`, `PoolLive` |
| `store` | two batches, two saving goroutines and main, two boots | `StoreReadable`, `StoreCurrent`, `KeptUntilSettled`, `FileSettles` |
| `notify` | one batch of two files, a page or the notifier, one worker, channels of two, a press, two boots | `PictureCurrent`, `OnePrompt`, `BatchReported`, `ButtonsRetired`, `PressesKept` |
| `catalog` | two requests, two conversions, the first with a `.vtt`; a film to convert, that is taken to play until it is probed, and one that plays as it is, was converted before and has white space before its dot; the output tree inside the library | `ConvertedListed`, `DiscardedNotListed`, `NotGuessed`, `TrackBelongs`, `DiscardSpares`, `RowsOnce` |
| `evening` | two films in three kinds of folder, two batches, a restart; three titles of which two are kept, three reports, two starts | `SubtitleAsAsked`, `PlacesKept` |
| `v1cache` | two films of one directory and another directory, a viewer, the guesser, one slot, a cache of one | `OneWriter`, `CompleteIsFull`, `NoGuessInTheWay`, `ViewerNotDropped`, `ReaderWhole` |
| `torn_output` | as `twins` | **violated**: an unfinished file appears as the output |
| `reconverted` | as `twins` | **violated**: a converted file is converted again |
| `store_after_shutdown` | two batches, one saving goroutine | **violated**: the state file is rewritten after shutdown recorded it |
| `store_order` | a batch of two and one of one | **violated**: the interrupted file is not the first to start again |

Bounds, and why they are enough. Two jobs on one output are what any race over a claim needs, and
two callers make each step of one interleave with each of the other; two workers let both convert
at once. Order and loss need a job in front, one behind and one that overtakes: three jobs, and a
history shorter than that so that forgetting happens. `MaxJobs` bounds jobs created, `MaxBoots`
starts of the process; two boots are a crash or shutdown and the restart after it, which are
independent of what came before except through the files. `QueueStore` enqueues each batch once.
`MCStore.cfg` follows harmed behaviours only in the first process (constraint `HarmIsFirst`):
harm is for ever and every property but the type invariant is void after it, so nothing that
could violate one is cut off. Deadlock is not checked: the queue may rest, and at a bound it does.

In `notify`, a channel of two is full after two events and the batch has more than four; with two
jobs and one worker one waits while the other runs, and a press meets the first dispatched, running
or ended and the second queued; a page and the notifier meet only in `emit`, which treats each
channel by itself, so a behaviour has one of them. A process with a fresh queue is followed until it
dies, and one that had prompted before through its restarts. In `catalog`, a page and a discard
overlap with two requests, and the second conversion is the one that comes between a discard's look
and its removal, or is asked for while the first ends; requests are interchangeable (symmetry). In
`evening`, `Film` and `History` share no variable: the product of their behaviours would say nothing
more, so a behaviour is one of either (`evening`). The folders hold an embedded track of the
language asked, one of another, one whose title contradicts its tag, a picture track, sidecars
named, shared and unreadable; titles are interchangeable. No page is opened once `MaxBatches` forms
were sent (`MoreForms`), and one that is open then is forgotten. A form that asks for text drawn in
without a subtitle is left out: it would only keep copies from overtaking. Three reports with room
for two are a trim and a repetition. In `v1cache`, one slot and a cache of one make preemption and
eviction happen with two films; a second directory without films of its own is one whose listing
makes guesses stale; two jobs are made between restarts, any number of restarts apart. Two jobs are
enough for a finished file to be emptied under its reader: the first fails to set its marker, a
viewer reads the output, the second opens it. That an eviction under way removes the marker in
between takes three jobs; there the theorem speaks. These four runs check safety only.

Fairness (`FairSpec`). In `JobQueue` every goroutine that can move does; fairness is strong
because it waits for `q.mu`, which others take in between, and Go's mutex hands itself to a
waiter that has starved for a millisecond. That a run step happens includes that ffmpeg ends by
itself. Clients need not call and nobody need stop the process. In `QueueStore` the goroutines of
a living process go on, a batch's jobs end, and a process that is down is started again
(`restart: unless-stopped` in the compose files). No fairness on crashes, callers or conversions
succeeding.

Mutants. Each property of a passing run is paired with a change of the model, the kind of slip a
later edit could make: a claim released whoever holds it, a nudge or a `delete(q.running, ...)`
forgotten, the `return` after a failed rename missing, the shutdown not looked at before a start,
running files left out of the state file, the file overwritten in place, a slow subscriber kept,
the index stamped with the count at the end of the walk, the dirty flag cleared after the rename,
the picked track given to every episode, a guess raised without a nudge. TLC finds the property
violated by it. They are the operators marked "Mutant" beside the ones they replace.

## 4. What disagrees with the code's comments

1. **Dispatch window** (`jobs.go:657`, run `torn_output`). A job taken from `pending` is Queued
   until its goroutine runs. A `Cancel` in between settles it and releases its claim, and it runs
   nevertheless. If the file is enqueued again at once, two encoders write one `.part`; the first
   rename puts a file in place that the other still writes. `outpath.go:176-178` promises there is
   no such window.
2. **Converted again** (`jobs.go:311`, run `reconverted`). The disk is looked at before the claim.
3. **State file after shutdown** (`persist.go:43`, run `store_after_shutdown`). `save` checks
   `stopping` and writes later.
4. **Order after a restart** (`persist.go:84`, run `store_order`). Batches are written in the
   order of a map.

The properties of the other modules hold with exceptions, each written into the property. They are
behaviours of the code that a reader may not expect; TLC reaches all of them.

- `PictureCurrent`: Enqueue takes its view of a job before it sends it. A job that has started
  or ended in between stays on an open page as Queued (`jobs.go:353`) until it has news. And of a job
  that a `Cancel` took for queued after its dispatch (`jobs.go:374`), `Cancel` and `run` both speak, in
  either order: an open page may show it as canceled while it runs, or as running though it is settled.
- `OnePrompt`: Restore saves a batch before it sets its flag again (`persist.go:159`). A crash, or
  a job past the checkpoint, in between loses the record, and the prompt goes out again.
- `BatchReported`: a notifier that was cut loose does not look at what it missed
  (`watcher.go:62-85`): a batch that ended meanwhile is never reported.
- `ButtonsRetired`: a batch may end while its checkpoint event waits; the prompt then follows the
  summary and keeps its button. So does the prompt of an earlier process: `messages` is memory.
- `TrackBelongs`: a discard by output (`handlers.go:646`) leaves the `.vtt`, one by source does not
  look whether it could be removed, and one between a conversion's rename and its `.vtt`
  (`jobs.go:738`) finds none to remove. A later conversion without soft subtitles is played with it.
  So is one that was made while the output was there, because enqueue overlooked the conversion that
  ended between its two looks or a `Cancel` had released its claim (`jobs.go:311-319`, `374-382`).
- `DiscardSpares`: it covers a discard by source and the conversions that had been asked for and not
  renamed when it looked. One asked for after that is not spared, nor one whose claim a `Cancel` has
  released in the dispatch window. A discard by output does not ask the queue at all.
- `RowsOnce`: `TrimExt` keeps an extension when `unicode.IsSpace` holds of the one byte before the dot
  (`library.go:340-341`): a space, but also the last byte, 0x85 or 0xA0, of a letter in UTF-8, as in a
  title that ends in U+B0A0. A converted film with such a name is listed beside its output.
- `SubtitleAsAsked`: the language of the picked track is looked up when the form is sent
  (`handlers.go:480`). After a restart before the probes were flushed it is empty, and the rest of
  the batch takes the first subtitle there is, contrary to the comment above it. And the picked
  track goes to the first job *created* (`jobs.go:338`), which may be another film's. Last, a
  track is shown in the language its tag *or its title* tells (`subs.go:399-406`), and `PickLang`
  looks for a language other than Korean by tag alone (`subs.go:376`): a track tagged `eng` whose
  title says Korean is taken for the rest of an English batch, which the comment above `PickLang`
  calls "a permanent surprise". `In` allows for it.
- `PlacesKept`: a failed write is not tried again until something changes (`history.go:177`), the
  timer and `main` may write at once, and the wall clock orders before `Seq`.
- `CompleteIsFull`: `Discard` and `Evict` remove the file before the marker. A conversion begun
  beside a marker that is left counts as complete while it is written.
- `ViewerNotDropped`: a viewer's `Start` may find a guess that is dropped before it is raised.
- `ReaderWhole`: preempting or retrying a conversion takes the output from under its readers; so
  does another job, when the viewer's own had ended before the viewer opened the file. And `ffmpeg -y`
  (`ver1/.../transcode.go:411`) empties in place a finished film that is being read, when it had lost
  its marker to an eviction that came late or to a disk that took no marker. What `openCached` has
  opened is a plain file and is not followed any further.

## 5. Proofs

Every theorem holds for every value of its module's constants that satisfies the assumptions named
there: any number of jobs, workers, batches, viewers, restarts, tracks, and any bound. TLC evaluates
the assumptions on every run. Each safety invariant and each action property of the passing runs is
a theorem; liveness is not. Every proof finds an invariant that every action preserves, one lemma
per group of actions, and shows that the property follows from it.

**JobQueue**: any number of jobs, callers and workers, any collisions of outputs, any history
limit. The inductive invariant (`Invariance`) is `Typed /\ Consistent`:

- `Typed` is `TypeOK` and `TodoOK`: whoever holds `q.mu` in Enqueue is alone, has sources left
  that fit under `MaxJobs`, and a source in hand in "claim". `TypeOK` alone is not inductive: a
  claim could then create a job beyond the last.
- `Consistent`: what does not exist has no traces (`ExistOK`); `running` is exactly the set of
  goroutines that have not ended (`RunningOK`); pending jobs are in order of creation, Queued,
  remembered and not struck (`PendingOK`); a job's goroutine position tells its state unless it
  was struck (`ProgressOK`); an encoder holds a file only while it encodes (`WritingOK`); a Cancel
  in its second half works on a struck job (`StrikingOK`).

| theorem | states |
|---|---|
| `TypeCorrect`, `NoJobIsLost`, `SlotsAreBounded` | directly from the invariant, `SlotsAreBounded` with a count of the slots |
| `VerdictIsFinal` | each action that calls `finish` acts on a job whose state is not terminal, or that was struck |
| `ClaimsAreHeld` | a claim is dropped only by its holder, once it is terminal, and overwritten only when the holder is |
| `ConvertersAreAlone` | two jobs that convert are not terminal, so both would hold the one claim |
| `PartsStay`, `OutputsSettle` | only a twin in conversion or a Cancel's remove touches another's `.part`; both require a strike |
| `EncodesStartInOrder` | pending is increasing, and what is not the head is picked only if it is a copy |
| `ImplementsPool` | each action maps, through `Phase`, to one step of `WorkPool` or to none |

**QueueStore** (`TypeCorrect`, `AlwaysReadable`, `AlwaysCurrent`, `NothingLost`): any batches with
files of their own (`StoreConstants`: a film is in one batch, because Enqueue skips what is on its
way), any number of goroutines that save, any number of boots. The invariant is `Typed`, `LifeOK`
(what the life of the process says of queue and savers) and, unless harmed, four parts that need
each other:

- `Alone`: one goroutine writes at a time, into a temporary file that is its own, so what it
  renames is what it wrote. This is `StoreReadable`.
- `AddsOK`: what a goroutine has enqueued is in the queue, and in its snapshot once it has one.
- `KeptOK`: a file once written down is in the state file and in whatever is about to replace it
  (`Safe`); while Restore is at work, it is that, still to be enqueued, or in the queue of a main
  that is about to save. `KeptUntilSettled` alone is not inductive, as it says nothing of the
  snapshot of a goroutine that writes next.
- `CurrentOK`: the file tells what is to do (`Tells`), or somebody is about to write what does.

**Notify**: any batches, pages, buffers, presses and restarts. `Typed`, `Quiet` (nothing is left of
a process that is down) and `Stages` (what a goroutine has in hand says how far the job is) support
one invariant for each property:

| theorem | the invariant it adds |
|---|---|
| `PromptedOnce` | `PromptInv`: in one life of the process a prompt is in one place, asked for, waiting in the channel, being sent or in the chat, and then its batch is flagged in memory and file (`InOnePlace`); over several lives, a batch prompted for is flagged before it is known again (`Marked`) |
| `Summarised` | `EndHeard`: of a batch with an ended job, something is going on, to be said, or to be heard, or its end was missed |
| `NoButtonLeft` | `ButtonsOwned`: a live button of this life belongs to somebody who will take it away |
| `PictureTrue` | `PictureInv`: the last event in a page's channel that repaints a job fits its state, or there is none and the page shows what does, or somebody (Enqueue, `run`, `Cancel`) has still to tell; `Fits` allows the two exceptions, what is in `overtaken` |
| `PressesStay` | `PressInv`: every press below the offset was handled or is among those fetched, and nothing is in hand when the poller asks for more |

**Catalog** (`IInv`): any films and outputs, requests, conversions. The names have types
(`ConstantsOK`), and `FilmsFound` says of the constants only what "the films" means: `Titles` are
those files a walk finds, `Junk` those it does not. The invariant:

- `Typed`, `Entered`, `CountIs`, `HoldsAll`: the conversions asked for are the first ones, as many
  are counted as `finishedCount` says, and what a request holds fits where it is.
- `Beside`, `Untracked`: a `.vtt` that is not of the conversion that made the output is `stray`, and
  what a discard by source is about to remove has none, or a stray one. `TracksBelong` follows.
- `Looked`: what a discard by source knows from its look at the queue to the removal (`Knows`):
  the conversions of its output asked for until then are over or struck, so what is there is what it
  saw, or newer, or of a struck one. With `wrong = {}` this is inductive, and `Spared` follows.
- `SaidTrue`, `Walks`, `IndexRight`: what was counted is there, what was discarded is not; a walk
  stamped with the present count has read all that was counted; an index that a waiting page will
  accept covers what that page was promised. `CountedIsListed`, `DiscardedIsGone`, `ToldIsKnown`
  and `ListedOnce` follow.

**History** (`HistoryInvariance`, `PlacesAreKept`): any finite set of titles, any limit, any
positions, starts and clock. `Rights`: memory, the snapshots, and both files that are not torn hold
a map with distinct `Seq` in which, as long as the clock was not set back, the later report is the
newer entry. `SeqTop`: the next report has a number of its own. `Follows`: without harm one writer
is at work, and with the flag clear it has what is remembered on its way to the file. That the
first `n` of a linear order are `n`, and that rows grow with it, is a count (`PlacesGrow`,
`NewestFew`).

**Film** (`FilmInvariance`, `SubtitlesAreAsAsked`): any directory, any number of films, tracks and
sidecars, batches and restarts. `FoldersOK` gives the types and that no two sidecars have one path.
`FilmInv` says that a page offers tracks of its film whatever the prober had cached (`PageRight`);
that what a batch picked is a track of its film, shown in the language it has (`BatchesRight`); that
each film waits once and does not run meanwhile, and only the first job of a batch carries the
picked track (`QueueRight`), whatever enqueue has overlooked (`EndsRight`) and whichever job is
picked (`PickedAndRest`); that what runs or was made is `WellMade` (`RunRight`, `MadeRight`); that
what is to be restored lists each film once (`TodoRight`). The step that matters is `RunStart`
(`PlannedAsAsked`): the job that carries the picked track finds that very one, since no two tracks
of a film have one name (`UniqueIds`), and the others find one in its language or none
(`PickLangIn`).

**Evening**: a behaviour of both is one of each (`EveningOfBoth`), so `TypeCorrect` and
`EveningKept` follow from the theorems of the halves.

**V1Cache**: any films (finitely many), directories, viewers, slots, cache size and number of
jobs. The inductive invariant `Base` (`AlwaysBase`) is

- `Typed` and `SlotsOK`: `running` is exactly the set of jobs at work, and never exceeds the slots.
  `NextJobs` counts what one pass of the dispatcher may take (`DispatchKeeps`).
- `JobsKnown`: a job is open exactly while its film is registered for it; one that was not made
  yet is nowhere.
- `AtWork`: whatever is queued or at work is what its film is registered for, and not both, which
  is `OneWriter`.
- `ViewersKnown`, `GuesserKnown`: the job a caller holds is for the film it asked for.

| theorem | the invariant it adds |
|---|---|
| `CompleteIsFullAlways` | `FullInv`: half an output beside a marker was begun beside it, and a job about to set its marker has a whole one |
| `NoGuessInTheWayAlways` | none: preserved as it is, given `Base`; a pass of the dispatcher establishes it (`DispatchServes`), every other step nudges |
| `ViewerNotDroppedEver` | `LateInv`: what a viewer waits for has been raised, and a drop touches guesses only |
| `ReaderWholeAlways` | `PartialOK`: half an output has its writer, or is an orphan found at the start that counts as complete; `ReadersOK`: a reader is cut only if its job is among the exceptions, and reads along with a job that writes; `WholeOK`: a whole file that is read is at its path; `BareOK`: a finished output without a marker is `bare`, or its job has still to mark it or to throw it away |

**SeqFacts**: what `RemoveAt`, `Append`, concatenation and enumeration do to elements and order. Of
`Without`, a recursive function, `KeptExists` shows that it is one (a least length for which there
is none could be continued from the one before), and `WithoutElements` what it returns; both argue
by a least number (`LeastNumber`).

Only model-checked: the liveness properties (`EveryJobSettles`, `ShutdownDrains`, `PoolLive`,
`FileSettles`), which are out of the prover's reach, and the four violations of section 4.

## 6. Not modelled, and what is left

Not modelled, and why:

- The live rendition (`liveDir`): files for a player, removed with the job; no other state depends
  on them.
- Text: `NaturalLess`, `repairSRT`, encodings, WebVTT, the ffmpeg command line, progress parsing,
  templates, messages. They are functions of text, and their unit tests cover them better than
  small alphabets would.
- Sign-in and signed links, reading the environment, the health endpoints.
- Streaming of finished files (`http.ServeContent`) and of renditions.
- v1's scan detector (a choice in `OpenFile`), its listings, and its planning from ffprobe's answer.
- The player in `app.js`: what it reports is a choice. One hazard there has no property: a page
  left before the metadata has loaded reports position 0.
- In `QueueStore`: a source that disappears before `Restore`, a write that fails, a file of
  another version. In the probe cache: its semaphore and the check of size and time.

Left, most useful first:

1. An abstract event log that each subscriber reads a prefix of, and `Notify` shown to implement it.
2. An abstract record of what is to do, and `QueueStore` shown to implement it through crashes.
3. Liveness of v1: a viewer's job ends although guesses keep arriving.
