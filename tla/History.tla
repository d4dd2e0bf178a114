------------------------------ MODULE History ------------------------------
(***************************************************************************)
(* Where viewers of ver2 stopped watching (history/history.go): the places *)
(* noted from the players' reports (web/recent.go), the list of what was   *)
(* watched last, and the file they are written to on a timer and once more *)
(* when the server stops (main.go).                                        *)
(*                                                                         *)
(* The two callers of Flush share one temporary file and nothing keeps     *)
(* them apart once they have let mu go.  A descriptor follows its file     *)
(* through a rename, as in QueueStore.                                     *)
(***************************************************************************)
EXTENDS Naturals, FiniteSets

CONSTANTS
    Titles,     \* the films
    Places,     \* the positions a player may report
    keep,       \* how many titles are remembered
    MaxNotes,   \* bound: reports that are noted
    MaxStarts,  \* bound: starts of the server
    MaxClock,   \* bound: seconds
    Absent, Torn

ASSUME HistoryConstantsOK ==
    /\ IsFiniteSet(Titles) /\ keep \in Nat \ {0}
    /\ {MaxNotes, MaxClock} \subseteq Nat /\ MaxStarts \in Nat \ {0}
    /\ Absent # Torn
    /\ \A none \in {Absent, Torn}, ts \in SUBSET Titles :
           none \notin [ts -> [title : Titles, pos : Places, updated : Nat, seq : Nat, nth : Nat]]

Flushers == {"timer", "main"}

Nowhere == [t \in {} |-> 0]   \* an empty history, or one that could not be read

VARIABLES
    entries,   \* what is remembered: title -> its Entry
    seq,       \* Store.seq
    dirty,     \* Store.dirty
    clock,     \* time.Now().Unix() when a report was noted last
    noted,     \* reports noted so far, over all starts
    starts,    \* starts of the server so far
    serving,   \* "down", "up", or "stopping" once main has been told to stop
    flush,     \* caller of Flush -> where it is
    marshaled, \* caller of Flush -> the entries it writes
    fd,        \* caller of Flush -> where the file it writes is linked
    tmp,       \* history.json.tmp
    file,      \* history.json
    harmed,    \* history: a write failed or the two overlapped since the file was right
    steady     \* history: the clock has not been set back

historyVars == <<entries, seq, dirty, clock, noted, starts, serving, flush, marshaled, fd, tmp,
                 file, harmed, steady>>

memory == <<entries, seq, dirty>>

-----------------------------------------------------------------------------
(* The order of what was watched *)

\* Mutant: two titles noted in one second are not told apart.
ByTime(a, b) == a.updated > b.updated

\* Names never decide: entries written before there was a Seq are left out, and no two share one.
newerFirst(a, b) == \/ a.updated > b.updated
                    \/ a.updated = b.updated /\ a.seq > b.seq

Newest(es, n) == {t \in DOMAIN es : Cardinality({u \in DOMAIN es : newerFirst(es[u], es[t])}) < n}

\* Recent: title -> its row in the list, for the first limit titles.
Recent(limit) ==
    [t \in Newest(entries, limit) |->
        1 + Cardinality({u \in DOMAIN entries : newerFirst(entries[u], entries[t])})]

\* Mutant: room is made before the new title is in.
TrimEarly(es) == [t \in Newest(es, keep + 1) |-> es[t]]

trim(es) == [t \in Newest(es, keep) |-> es[t]]

-----------------------------------------------------------------------------
(* Reports *)

Entry(t, p) ==
    [title |-> t, pos |-> p, updated |-> clock', seq |-> seq + 1, nth |-> noted + 1]

\* A report is noted.  Handlers may still run when main has given up waiting for them.  The clock
\* has gone on since the last one, or not, or the NAS has been told another time.
Note(t, p) ==
    /\ serving # "down" /\ noted < MaxNotes
    /\ clock' \in 0 .. MaxClock
    /\ steady' = (steady /\ clock' >= clock)
    /\ entries' = trim([u \in DOMAIN entries \cup {t} |->
                           IF u = t THEN Entry(t, p) ELSE entries[u]])
    /\ seq' = seq + 1
    /\ dirty' = TRUE
    /\ noted' = noted + 1
    /\ UNCHANGED <<starts, serving, flush, marshaled, fd, tmp, file, harmed>>

Forget(t) ==
    /\ serving # "down" /\ t \in DOMAIN entries
    /\ entries' = [u \in DOMAIN entries \ {t} |-> entries[u]]
    /\ dirty' = TRUE
    /\ UNCHANGED <<seq, clock, noted, starts, serving, flush, marshaled, fd, tmp, file, harmed,
                   steady>>

-----------------------------------------------------------------------------
(* Flush *)

Flushing == {f \in Flushers : flush[f] \in {"create", "write", "rename"}}

FlushGo(f, to) == flush' = [flush EXCEPT ![f] = to]

\* main is done with the process when its Flush returns; the timer waits for the next tick.
After(f) == IF f = "main" THEN "done" ELSE "idle"

MayFlush(f) == IF f = "main" THEN serving = "stopping" ELSE serving # "down"

FlushClean(f) ==
    /\ MayFlush(f) /\ flush[f] = "idle" /\ ~dirty
    /\ FlushGo(f, After(f)) /\ flush' # flush
    /\ UNCHANGED <<memory, clock, noted, starts, serving, marshaled, fd, tmp, file, harmed, steady>>

\* Mutant: the flag is cleared when the file is in place.
CleanLater(at) == IF at = "rename" THEN FALSE ELSE dirty

\* The flag after a step of Flush: it is cleared as the entries are marshaled.
Cleaned(at) == IF at = "marshal" THEN FALSE ELSE dirty

FlushMarshal(f) ==
    /\ MayFlush(f) /\ flush[f] = "idle" /\ dirty
    /\ marshaled' = [marshaled EXCEPT ![f] = entries]
    /\ dirty' = Cleaned("marshal")
    /\ harmed' = (harmed \/ Flushing # {})
    /\ FlushGo(f, "create")
    /\ UNCHANGED <<entries, seq, clock, noted, starts, serving, fd, tmp, file, steady>>

\* The temporary file is opened and emptied, whoever else has it open.
FlushCreate(f) ==
    /\ flush[f] = "create"
    /\ tmp' = Torn
    /\ fd' = [fd EXCEPT ![f] = "tmp"]
    /\ FlushGo(f, "write")
    /\ UNCHANGED <<memory, clock, noted, starts, serving, marshaled, file, harmed, steady>>

\* What a write leaves: over what the other has written it may leave a mixture.
Written(f) ==
    LET under == IF fd[f] = "tmp" THEN tmp ELSE IF fd[f] = "file" THEN file ELSE Torn
    IN  {marshaled[f]} \cup (IF under = Torn THEN {} ELSE {Torn})

FlushWrite(f) ==
    /\ flush[f] = "write"
    /\ \E b \in Written(f) :
        /\ tmp' = IF fd[f] = "tmp" THEN b ELSE tmp
        /\ file' = IF fd[f] = "file" THEN b ELSE file
    /\ FlushGo(f, "rename")
    /\ fd' = [fd EXCEPT ![f] = "closed"]
    /\ marshaled' = [marshaled EXCEPT ![f] = Nowhere]
    /\ UNCHANGED <<memory, clock, noted, starts, serving, harmed, steady>>

\* A temporary file that nobody writes is never read: only that it is there matters.
Leftover == IF tmp = Absent THEN Absent ELSE Torn

\* The disk is full, or the directory not writable: nothing is said, and nothing tried again.
FlushFail(f) ==
    /\ flush[f] \in {"create", "write", "rename"}
    /\ harmed' = TRUE
    /\ tmp' = IF fd[f] = "tmp" \/ Flushing = {f} THEN Leftover ELSE tmp
    /\ file' = IF fd[f] = "file" THEN Torn ELSE file
    /\ fd' = [fd EXCEPT ![f] = "closed"]
    /\ marshaled' = [marshaled EXCEPT ![f] = Nowhere]
    /\ FlushGo(f, After(f))
    /\ UNCHANGED <<memory, clock, noted, starts, serving, steady>>

\* What the other had open under either name moves, or is linked nowhere any more.
Moved(at) == CASE at = "tmp" -> "file" [] at = "file" -> "closed" [] at = "closed" -> "closed"

FlushRename(f) ==
    /\ flush[f] = "rename" /\ tmp # Absent
    /\ file' = tmp /\ tmp' = Absent
    /\ fd' = [g \in Flushers |-> Moved(fd[g])]
    /\ dirty' = Cleaned("rename")
    /\ harmed' = (harmed /\ (Flushing # {f} \/ tmp # entries))
    /\ FlushGo(f, After(f))
    /\ UNCHANGED <<entries, seq, clock, noted, starts, serving, marshaled, steady>>

-----------------------------------------------------------------------------
(* The server's life *)

Stop ==
    /\ serving = "up" /\ serving' = "stopping"
    /\ UNCHANGED <<memory, clock, noted, starts, flush, marshaled, fd, tmp, file, harmed, steady>>

\* main returns, or the process dies: memory is gone, the files stay as they are.
Die ==
    /\ serving # "down" /\ serving' = "down"
    /\ entries' = Nowhere /\ seq' = 0 /\ dirty' = FALSE
    /\ flush' = [f \in Flushers |-> "idle"]
    /\ marshaled' = [f \in Flushers |-> Nowhere]
    /\ fd' = [f \in Flushers |-> "closed"]
    /\ tmp' = Leftover
    /\ UNCHANGED <<clock, noted, starts, file, harmed, steady>>

Loaded == IF file \in {Absent, Torn} THEN Nowhere ELSE file

Highest(es) == CHOOSE n \in {0} \cup {es[t].seq : t \in DOMAIN es} :
                   \A t \in DOMAIN es : es[t].seq <= n

New ==
    /\ serving = "down" /\ starts < MaxStarts
    /\ serving' = "up" /\ starts' = starts + 1
    /\ entries' = Loaded
    /\ seq' = Highest(Loaded)
    /\ dirty' = FALSE
    /\ harmed' = (file = Torn)
    /\ UNCHANGED <<clock, noted, flush, marshaled, fd, tmp, file, steady>>

HistoryInit ==
    /\ entries = Nowhere /\ seq = 0 /\ dirty = FALSE
    /\ clock = 0 /\ noted = 0 /\ starts = 1 /\ serving = "up"
    /\ flush = [f \in Flushers |-> "idle"]
    /\ marshaled = [f \in Flushers |-> Nowhere]
    /\ fd = [f \in Flushers |-> "closed"]
    /\ tmp = Absent /\ file = Absent
    /\ harmed = FALSE /\ steady = TRUE

HistoryNext ==
    \/ \E t \in Titles, p \in Places : Note(t, p)
    \/ \E t \in Titles : Forget(t)
    \/ \E f \in Flushers :
        FlushClean(f) \/ FlushMarshal(f) \/ FlushCreate(f) \/ FlushWrite(f) \/ FlushFail(f)
            \/ FlushRename(f)
    \/ Stop \/ Die \/ New

HistorySpec == HistoryInit /\ [][HistoryNext]_historyVars

-----------------------------------------------------------------------------
(* Properties *)

IsHistory(es) ==
    /\ DOMAIN es \subseteq Titles /\ Cardinality(DOMAIN es) <= keep
    /\ \A t \in DOMAIN es : /\ es[t].title = t /\ es[t].pos \in Places
                           /\ {es[t].updated, es[t].seq, es[t].nth} \subseteq Nat

\* No more than keep titles are remembered, each under its own name, and a file that is not torn
\* holds such a history (history.go:18, 55, 153).
HistoryTyped ==
    /\ \A es \in {entries, Loaded} \cup {marshaled[f] : f \in Flushers} : IsHistory(es)
    /\ seq \in Nat /\ dirty \in BOOLEAN /\ harmed \in BOOLEAN /\ steady \in BOOLEAN
    /\ clock \in 0 .. MaxClock /\ noted \in 0 .. MaxNotes /\ starts \in 1 .. MaxStarts
    /\ serving \in {"down", "up", "stopping"}
    /\ flush \in [Flushers -> {"idle", "create", "write", "rename", "done"}]
    /\ fd \in [Flushers -> {"closed", "tmp", "file"}]

\* With the flag clear and nobody writing, the file holds what is remembered, unless a write
\* failed or the timer's and main's overlapped (history.go:170-186).
FileFollows ==
    serving # "down" /\ ~dirty /\ Flushing = {} => Loaded = entries \/ harmed

\* What was noted later is higher in the list, across restarts and within one second, as long
\* as the clock is not set back (history.go:125-151, and seq restored by 76-80).
LaterIsHigher ==
    steady => LET row == Recent(Cardinality(DOMAIN entries))
              IN  \A t, u \in DOMAIN entries : entries[t].nth > entries[u].nth => row[t] < row[u]

\* The two together: when nobody writes and nothing is unwritten, the file has what was noted, and
\* in its order (history.go:1-6).
PlacesKept ==
    /\ FileFollows
    /\ LaterIsHigher
=============================================================================
