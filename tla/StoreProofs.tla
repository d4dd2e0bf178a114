----------------------------- MODULE StoreProofs -----------------------------
(***************************************************************************)
(* Proofs about QueueStore, for any batches, any number of goroutines that *)
(* save and any number of crashes and restarts.                            *)
(***************************************************************************)
EXTENDS QueueStore, SeqFacts

-----------------------------------------------------------------------------
(* The inductive invariant *)

\* A goroutine that will write, and one that has taken its snapshot.
Before(s) == pc[s] \in {"check", "snap"}
Writes(s) == pc[s] \in {"clear", "open", "write", "rename"}

\* No file is listed in two batches.
Tidy(list) ==
    list \notin NoList =>
        \A i, k \in DOMAIN list : i # k => ToSet(list[i]) \cap ToSet(list[k]) = {}

Typed ==
    /\ TypeOK /\ IsFiniteSet(running)
    /\ Tidy(store) /\ Tidy(tmp) /\ Tidy(todo) /\ \A s \in Goroutines : Tidy(blob[s])

\* What the life of the process says of the queue and of who may be saving.
LifeOK ==
    /\ life = "down" =>
         /\ pending = <<>> /\ running = {}
         /\ \A s \in Goroutines : pc[s] = "idle"
    /\ life \in {"up", "drained"} => pc[Main] = "idle"
    /\ life # "restoring" => todo = <<>>
    /\ life = "restoring" => Outstanding \cap FilesOf(todo) = {}
    /\ adds[Main] = {}
    /\ life \in {"down", "restoring"} => \A s \in Goroutines : adds[s] = {}

\* One writes at a time, in a temporary file that is its own.
Alone ==
    /\ \A s, t \in Goroutines : Writes(s) /\ Writes(t) => s = t
    /\ \A s \in Goroutines :
         /\ pc[s] = "clear" => FilesOf(blob[s]) = {}
         /\ pc[s] = "write" => fd[s] = "tmp" /\ tmp = Empty
         /\ pc[s] = "rename" => tmp = blob[s]
    /\ store \notin {Empty, Torn}

\* What a goroutine has enqueued is in the queue, and in its snapshot once it has one.
AddsOK ==
    \A s \in Goroutines :
       /\ (Before(s) \/ Writes(s)) /\ life # "drained"
          => adds[s] \subseteq Outstanding \cup settled \cup converted
       /\ Writes(s) => adds[s] \subseteq FilesOf(blob[s]) \cup settled \cup converted

\* In the file, and in whatever is about to replace it.
Safe(f) == f \in Listed /\ \A s \in Goroutines : Writes(s) => f \in FilesOf(blob[s])

\* What becomes of a file once written down: while Restore is at work, a file it has enqueued
\* again is safe when main has saved.
KeptOK ==
    \A f \in kept \ (settled \cup converted) :
       /\ life \in {"restoring", "up", "closed"} => f \in Outstanding \cup FilesOf(todo)
       /\ life # "restoring" => Safe(f)
       /\ life = "restoring" =>
            \/ f \in FilesOf(todo) \/ Safe(f) \/ Before(Main)
            \/ Writes(Main) /\ f \in FilesOf(blob[Main])

\* These files are all that wait or run, and none besides but what Restore has still to enqueue.
Tells(files) ==
    /\ Outstanding \ converted \subseteq files
    /\ files \ converted \subseteq Outstanding \cup FilesOf(todo)

\* The file tells what is to do, or somebody is about to write what does.
CurrentOK ==
    life \in {"restoring", "up"} =>
       \/ \E s \in Goroutines : Before(s)
       \/ \E s \in Goroutines : Writes(s) /\ Tells(FilesOf(blob[s]))
       \/ (\A s \in Goroutines : ~Writes(s)) /\ Tells(Listed)

Unharmed == ~harmed => Alone /\ AddsOK /\ KeptOK /\ CurrentOK

IInv == Typed /\ LifeOK /\ Unharmed

-----------------------------------------------------------------------------
(* Files and lists *)

(* Every file is listed in one batch, and that is the batch it is of. *)
LEMMA OneBatch ==
    ASSUME NEW f \in Files
    PROVE  /\ BatchOf(f) \in Batches /\ f \in ToSet(Lists[BatchOf(f)])
           /\ \A b \in Batches : f \in ToSet(Lists[b]) => b = BatchOf(f)
<1>1. \E b \in Batches : f \in ToSet(Lists[b])
  BY DEF Files
<1>2. BatchOf(f) \in Batches /\ f \in ToSet(Lists[BatchOf(f)])
  BY <1>1 DEF BatchOf
<1>. QED  BY <1>2, StoreConstants

LEMMA ListOfBatch ==
    ASSUME NEW b \in Batches
    PROVE  Lists[b] \in Seq(Files) /\ ToSet(Lists[b]) \subseteq Files
BY StoreConstants DEF Files

LEMMA NoListIsList ==
    ASSUME NEW list \in Seq(Seq(Files))
    PROVE  /\ list \notin NoList
           /\ FilesOf(list) = UNION {ToSet(list[i]) : i \in DOMAIN list}
           /\ FilesOf(list) \subseteq Files
<1>1. list \notin NoList
  BY StoreConstants
<1>2. \A i \in DOMAIN list : list[i] \in Seq(Files)
  OBVIOUS
<1>3. \A i \in DOMAIN list : ToSet(list[i]) \subseteq Files
  BY <1>2 DEF ToSet
<1>. QED  BY <1>1, <1>3 DEF FilesOf

LEMMA InList ==
    ASSUME NEW list \in Seq(Seq(Files)), NEW f
    PROVE  f \in FilesOf(list) <=> \E i \in DOMAIN list : f \in ToSet(list[i])
<1> DEFINE sets == {ToSet(list[i]) : i \in DOMAIN list}
<1>1. FilesOf(list) = UNION sets
  BY NoListIsList
<1>2. f \in UNION sets <=> \E T \in sets : f \in T
  OBVIOUS
<1>. QED  BY <1>1, <1>2

LEMMA EmptyList == <<>> \in Seq(Seq(Files)) /\ FilesOf(<<>>) = {} /\ Tidy(<<>>)
<1>1. <<>> \in Seq(Seq(Files)) /\ DOMAIN <<>> = {}
  OBVIOUS
<1>2. {ToSet(<<>>[i]) : i \in DOMAIN <<>>} = {}
  BY <1>1
<1>. QED  BY <1>1, <1>2, NoListIsList DEF Tidy

(* A snapshot has all that wait or run, and nothing else, no file twice. *)
LEMMA SnapshotTells ==
    ASSUME Typed, NEW snapshot \in Snapshots
    PROVE  /\ snapshot \in Seq(Seq(Files)) /\ Tidy(snapshot)
           /\ FilesOf(snapshot) = Outstanding
<1> DEFINE BS == {BatchOf(f) : f \in Outstanding}
           part(rs, b) == Without(rs \o pending, Files \ ToSet(Lists[b]))
<1>1. PICK bs \in SetToSeqs(BS), rs \in SetToSeqs(running) :
        snapshot = [i \in DOMAIN bs |-> part(rs, bs[i])]
  BY DEF Snapshots
<1>2. /\ pending \in Seq(Files) /\ running \subseteq Files /\ Outstanding \subseteq Files
      /\ IsFiniteSet(running) /\ IsFiniteSet(Outstanding)
  <2>1. pending \in Seq(Files) /\ running \subseteq Files /\ IsFiniteSet(running)
    BY DEF Typed, TypeOK
  <2>2. IsFiniteSet(ToSet(pending)) /\ ToSet(pending) \subseteq Files
    BY <2>1, ElementsFinite DEF ToSet
  <2>. QED  BY <2>1, <2>2, FS_Union DEF Outstanding
<1>3. IsFiniteSet(BS)
  <2> DEFINE g == [f \in Outstanding |-> BatchOf(f)]
  <2>1. g \in Surjection(Outstanding, BS)
    BY DEF Surjection
  <2>. QED  BY <1>2, <2>1, FS_Surjection
<1>4. bs \in Seq(BS) /\ ToSet(bs) = BS /\ IsInjective(bs)
  BY <1>3, Enumerates
<1>5. rs \o pending \in Seq(Files) /\ ToSet(rs \o pending) = Outstanding
  <2>1. rs \in Seq(running) /\ ToSet(rs) = running
    BY <1>2, Enumerates
  <2>2. rs \in Seq(Files)
    BY <1>2, <2>1
  <2>. QED  BY <1>2, <2>1, <2>2, ConcatElements DEF Outstanding
<1>. HIDE DEF BS
<1>6. ASSUME NEW i \in DOMAIN bs
      PROVE  /\ bs[i] \in Batches
             /\ part(rs, bs[i]) \in Seq(Files)
             /\ ToSet(part(rs, bs[i])) = Outstanding \cap ToSet(Lists[bs[i]])
  <2>1. bs[i] \in BS
    BY <1>4
  <2>2. bs[i] \in Batches
    BY <1>2, <2>1, OneBatch DEF BS
  <2> DEFINE all == rs \o pending
             gone == Files \ ToSet(Lists[bs[i]])
  <2> HIDE DEF all, gone
  <2>3. all \in Seq(Files)
    BY <1>5 DEF all
  <2>4. Without(all, gone) \in Seq(Files) /\ ToSet(Without(all, gone)) = ToSet(all) \ gone
    BY <2>3, WithoutElements
  <2>5. part(rs, bs[i]) = Without(all, gone)
    BY DEF all, gone
  <2>. QED  BY <1>2, <1>5, <2>2, <2>4, <2>5 DEF all, gone
<1>. HIDE DEF part
<1>7. DOMAIN bs = 1 .. Len(bs) /\ Len(bs) \in Nat
  BY <1>4
<1>8. snapshot \in Seq(Seq(Files)) /\ DOMAIN snapshot = DOMAIN bs
  BY <1>1, <1>6, <1>7
<1>9. Tidy(snapshot)
  <2>1. SUFFICES ASSUME NEW i \in DOMAIN bs, NEW k \in DOMAIN bs, i # k
                 PROVE  ToSet(snapshot[i]) \cap ToSet(snapshot[k]) = {}
    BY <1>8 DEF Tidy
  <2>2. bs[i] # bs[k]
    BY <1>4, <2>1 DEF IsInjective
  <2>3. ToSet(Lists[bs[i]]) \cap ToSet(Lists[bs[k]]) = {}
    BY <1>6, <2>2, StoreConstants
  <2>. QED  BY <1>1, <1>6, <2>3
<1>10. ASSUME NEW f \in Outstanding
       PROVE  f \in FilesOf(snapshot)
  <2>1. BatchOf(f) \in BS /\ f \in Files /\ f \in ToSet(Lists[BatchOf(f)])
    BY <1>2, OneBatch DEF BS
  <2>2. PICK i \in DOMAIN bs : bs[i] = BatchOf(f)
    BY <1>4, <2>1 DEF ToSet
  <2>3. f \in ToSet(snapshot[i])
    BY <1>1, <1>6, <2>1, <2>2
  <2>. QED  BY <1>8, <2>3, InList
<1>11. ASSUME NEW f \in FilesOf(snapshot)
       PROVE  f \in Outstanding
  <2>1. PICK i \in DOMAIN bs : f \in ToSet(snapshot[i])
    BY <1>8, InList
  <2>. QED  BY <1>1, <1>6, <2>1
<1>. QED  BY <1>8, <1>9, <1>10, <1>11

(* The files of a list that are neither converted nor on their way. *)
LEMMA NewFiles ==
    ASSUME NEW list \in Seq(Files)
    PROVE  /\ New(list) \in Seq(Files)
           /\ ToSet(New(list)) = ToSet(list) \ (converted \cup Outstanding)
BY WithoutElements DEF New

(* What Restore takes from its list is in none of the batches it has still to take. *)
LEMMA NextBatch ==
    ASSUME Typed, todo # <<>>
    PROVE  /\ Head(todo) \in Seq(Files) /\ Tail(todo) \in Seq(Seq(Files)) /\ Tidy(Tail(todo))
           /\ FilesOf(todo) = ToSet(Head(todo)) \cup FilesOf(Tail(todo))
           /\ ToSet(Head(todo)) \cap FilesOf(Tail(todo)) = {}
<1>1. todo \in Seq(Seq(Files)) /\ todo \notin NoList /\ Tail(todo) \notin NoList
  <2>1. todo \in Seq(Seq(Files))
    BY DEF Typed, TypeOK
  <2>2. Tail(todo) \in Seq(Seq(Files))
    BY <2>1
  <2>. QED  BY <2>1, <2>2, NoListIsList
<1>2. /\ Tail(todo) \in Seq(Seq(Files)) /\ Len(todo) \in Nat \ {0} /\ Len(Tail(todo)) = Len(todo) - 1
      /\ \A k \in 1 .. Len(todo) - 1 : Tail(todo)[k] = todo[k + 1]
      /\ DOMAIN todo = 1 .. Len(todo) /\ DOMAIN Tail(todo) = 1 .. Len(todo) - 1
      /\ Head(todo) = todo[1] /\ Head(todo) \in Seq(Files)
  BY <1>1
<1>3. \A i, k \in 1 .. Len(todo) : i # k => ToSet(todo[i]) \cap ToSet(todo[k]) = {}
  BY <1>1, <1>2 DEF Typed, Tidy
<1>4. Tidy(Tail(todo))
  <2>1. SUFFICES ASSUME NEW i \in 1 .. Len(todo) - 1, NEW k \in 1 .. Len(todo) - 1, i # k
                 PROVE  ToSet(Tail(todo)[i]) \cap ToSet(Tail(todo)[k]) = {}
    BY <1>2 DEF Tidy
  <2>2. i + 1 \in 1 .. Len(todo) /\ k + 1 \in 1 .. Len(todo) /\ i + 1 # k + 1
    BY <1>2, <2>1
  <2>. QED  BY <1>2, <1>3, <2>2
<1>5. ASSUME NEW f
      PROVE  /\ f \in FilesOf(todo) <=> \E i \in 1 .. Len(todo) : f \in ToSet(todo[i])
             /\ f \in FilesOf(Tail(todo))
                  <=> \E i \in 1 .. Len(todo) - 1 : f \in ToSet(todo[i + 1])
  BY <1>1, <1>2, InList
<1>6. ASSUME NEW f
      PROVE  f \in FilesOf(todo) <=> f \in ToSet(Head(todo)) \/ f \in FilesOf(Tail(todo))
  <2>1. ASSUME NEW i \in 1 .. Len(todo), f \in ToSet(todo[i]), i # 1
        PROVE  f \in FilesOf(Tail(todo))
    <3>1. i - 1 \in 1 .. Len(todo) - 1 /\ i - 1 + 1 = i
      BY <1>2, <2>1
    <3>. QED  BY <1>5, <2>1, <3>1
  <2>2. ASSUME NEW i \in 1 .. Len(todo) - 1, f \in ToSet(todo[i + 1])
        PROVE  f \in FilesOf(todo)
    <3>1. i + 1 \in 1 .. Len(todo)
      BY <1>2, <2>2
    <3>. QED  BY <1>5, <2>2, <3>1
  <2>3. 1 \in 1 .. Len(todo)
    BY <1>2
  <2>. QED  BY <1>2, <1>5, <2>1, <2>2, <2>3
<1>7. ASSUME NEW f \in FilesOf(Tail(todo))
      PROVE  f \notin ToSet(Head(todo))
  <2>1. PICK i \in 1 .. Len(todo) - 1 : f \in ToSet(todo[i + 1])
    BY <1>5
  <2>2. i + 1 \in 1 .. Len(todo) /\ 1 \in 1 .. Len(todo) /\ i + 1 # 1
    BY <1>2
  <2>. QED  BY <1>2, <1>3, <2>1, <2>2
<1>. QED  BY <1>2, <1>4, <1>6, <1>7

-----------------------------------------------------------------------------
(* Types and the life of the process *)

LEMMA InitOK == Init => IInv
<1>1. SUFFICES ASSUME Init PROVE IInv
  OBVIOUS
<1>2. /\ Goroutines # {} /\ <<>> \in Seq(Files) /\ Cardinality({}) = 0 /\ IsFiniteSet({})
      /\ <<>> \in Seq(Seq(Files)) /\ Tidy(<<>>) /\ FilesOf(<<>>) = {}
  BY EmptyList, FS_EmptySet DEF Goroutines
<1>3. Absent \in Contents /\ Tidy(Absent) /\ FilesOf(Absent) = {}
  BY DEF Contents, NoList, Tidy, FilesOf
<1>4. TypeOK
  <2>1. boots \in 0 .. MaxBoots
    BY <1>1, StoreConstants DEF Init
  <2>2. /\ life \in {"down", "restoring", "up", "closed", "drained"}
        /\ pending \in Seq(Files) /\ running \subseteq Files /\ Cardinality(running) <= 1
        /\ converted \subseteq Files /\ todo \in Seq(Seq(Files))
        /\ store \in Contents /\ tmp \in Contents
    BY <1>1, <1>2, <1>3 DEF Init
  <2>3. /\ pc \in [Goroutines -> {"idle", "check", "snap", "clear", "open", "write", "rename"}]
        /\ blob \in [Goroutines -> Seq(Seq(Files))]
        /\ fd \in [Goroutines -> {"none", "tmp", "store", "gone"}]
        /\ adds \in [Goroutines -> SUBSET Files]
    BY <1>1, <1>2 DEF Init
  <2>4. kept \subseteq Files /\ settled \subseteq Files /\ cut \subseteq Files /\ harmed \in BOOLEAN
    BY <1>1 DEF Init
  <2>. QED  BY <2>1, <2>2, <2>3, <2>4 DEF TypeOK
<1>5. Typed
  BY <1>1, <1>2, <1>3, <1>4 DEF Init, Typed
<1>6. LifeOK
  BY <1>1, <1>2 DEF Init, LifeOK, Outstanding, Goroutines
<1>7. Alone /\ AddsOK
  BY <1>1, StoreConstants DEF Init, Alone, AddsOK, Writes, Before
<1>8. KeptOK /\ CurrentOK
  BY <1>1 DEF Init, KeptOK, CurrentOK
<1>. QED  BY <1>5, <1>6, <1>7, <1>8 DEF IInv, Unharmed

(* A save changes the files and what the goroutine holds, nothing of the queue. *)
LEMMA SaveTyped ==
    ASSUME Typed, NEW s \in Goroutines, SaveStep(s)
    PROVE  Typed'
<1> USE DEF Typed, TypeOK, Contents
<1>1. CASE SaveCheck(s)
  BY <1>1 DEF SaveCheck, memory, disk, history, Tidy
<1>2. CASE Snapshot(s)
  <2>1. PICK snapshot \in Snapshots : blob' = [blob EXCEPT ![s] = snapshot]
    BY <1>2 DEF Snapshot
  <2>2. snapshot \in Seq(Seq(Files)) /\ Tidy(snapshot)
    BY <2>1, SnapshotTells
  <2>. QED  BY <1>2, <2>1, <2>2 DEF Snapshot, memory, disk, Tidy
<1>3. CASE SaveClear(s)
  BY <1>3, EmptyList DEF SaveClear, Saved, Relink, Stay, memory, NoList, Tidy
<1>4. CASE SaveOpen(s)
  BY <1>4 DEF SaveOpen, memory, history, NoList, Tidy
<1>5. CASE SaveWrite(s)
  BY <1>5 DEF SaveWrite, Relink, Stay, memory, history, NoList, Tidy, Written
<1>6. CASE SaveRename(s)
  <2>1. /\ pc' \in [Goroutines -> {"idle", "check", "snap", "clear", "open", "write", "rename"}]
        /\ blob' \in [Goroutines -> Seq(Seq(Files))] /\ adds' \in [Goroutines -> SUBSET Files]
        /\ \A t \in Goroutines : Tidy(blob'[t])
    BY <1>6, EmptyList DEF SaveRename, Saved
  <2>2. /\ store' \in Contents /\ tmp' \in Contents /\ kept' \subseteq Files
        /\ Tidy(store') /\ Tidy(tmp')
    BY <1>6 DEF SaveRename, NoList, Tidy
  <2>3. fd' \in [Goroutines -> {"none", "tmp", "store", "gone"}]
    BY <1>6 DEF SaveRename, Relink, Stay
  <2>. QED  BY <1>6, <2>1, <2>2, <2>3 DEF SaveRename, memory, Tidy
<1>. QED  BY <1>1, <1>2, <1>3, <1>4, <1>5, <1>6 DEF SaveStep

(* So does every other step. *)
LEMMA TypedStep ==
    ASSUME Typed, [Next]_vars
    PROVE  Typed'
<1>0. CASE \E s \in Goroutines : SaveStep(s)
  BY <1>0, SaveTyped
<1>1. ASSUME NEW s \in Savers, NEW b \in Batches, Enqueue(b, s)
      PROVE  Typed'
  <2>1. New(Lists[b]) \in Seq(Files) /\ ToSet(New(Lists[b])) \subseteq Files
    BY ListOfBatch, NewFiles
  <2>2. pending' \in Seq(Files)
    BY <1>1, <2>1, ConcatElements DEF Enqueue, Typed, TypeOK
  <2>. QED  BY <1>1, <2>1, <2>2 DEF Enqueue, Saves, Typed, TypeOK, Contents, disk, history,
                                     Goroutines, Tidy
<1>2. ASSUME NEW s \in Savers, NEW f \in Files, Cancel(f, s)
      PROVE  Typed'
  <2>1. pending' \in Seq(Files)
    BY <1>2, WithoutElements DEF Cancel, Typed, TypeOK
  <2>. QED  BY <1>2, <2>1 DEF Cancel, Saves, Typed, TypeOK, Contents, disk, Goroutines, Tidy
<1>3. CASE Start
  <2>1. pending' \in Seq(Files) /\ Head(pending) \in Files
    BY <1>3, HeadAndRest DEF Start, Typed, TypeOK
  <2>2. running' = {Head(pending)} /\ Cardinality({Head(pending)}) = 1
        /\ IsFiniteSet({Head(pending)})
    BY <1>3, FS_Singleton DEF Start
  <2>3. Cardinality(running') <= 1 /\ IsFiniteSet(running') /\ running' \subseteq Files
    BY <2>1, <2>2
  <2>. QED  BY <1>3, <2>1, <2>3 DEF Start, Typed, TypeOK, Contents, disk, saving, Tidy
<1>4. ASSUME NEW f \in Files, Convert(f)
      PROVE  Typed'
  BY <1>4 DEF Convert, Typed, TypeOK, Contents, memory, saving, history, Tidy
<1>5. ASSUME NEW f \in Files, NEW s \in Savers, End(f, s)
      PROVE  Typed'
  <2>1. /\ IsFiniteSet(running \ {f}) /\ Cardinality(running \ {f}) = Cardinality(running) - 1
        /\ Cardinality(running) \in Nat
    BY <1>5, FS_RemoveElement, FS_CardinalityType DEF End, Typed
  <2>2. Cardinality(running') <= 1 /\ IsFiniteSet(running') /\ running' \subseteq Files
    BY <1>5, <2>1 DEF End, Typed, TypeOK
  <2>. QED  BY <1>5, <2>2 DEF End, Saves, Typed, TypeOK, Contents, disk, Goroutines, Tidy
<1>6. CASE Boot
  <2>1. todo' \in Seq(Seq(Files)) /\ Tidy(todo')
    BY <1>6, EmptyList DEF Boot, Typed, TypeOK, Contents
  <2>2. boots' \in 0 .. MaxBoots
    BY <1>6, StoreConstants DEF Boot, Typed, TypeOK
  <2>. QED  BY <1>6, <2>1, <2>2 DEF Boot, Typed, TypeOK, Contents, disk, saving, history, Tidy
<1>7. CASE RestoreBatch
  <2>1. /\ Head(todo) \in Seq(Files) /\ todo' \in Seq(Seq(Files)) /\ Tidy(todo')
        /\ New(Head(todo)) \in Seq(Files)
    BY <1>7, NextBatch, NewFiles DEF RestoreBatch
  <2>2. pending' \in Seq(Files)
    <3>1. pending' = pending \/ pending' = pending \o New(Head(todo))
      BY <1>7 DEF RestoreBatch
    <3>2. pending \in Seq(Files)
      BY DEF Typed, TypeOK
    <3>3. pending \o New(Head(todo)) \in Seq(Files)
      BY <2>1, <3>2, ConcatElements
    <3>. QED  BY <3>1, <3>2, <3>3
  <2>3. /\ pc' \in [Goroutines -> {"idle", "check", "snap", "clear", "open", "write", "rename"}]
        /\ blob' = blob /\ fd' = fd /\ adds' \in [Goroutines -> SUBSET Files]
    BY <1>7 DEF RestoreBatch, Saves, saving, Typed, TypeOK, Goroutines
  <2>. QED  BY <1>7, <2>1, <2>2, <2>3 DEF RestoreBatch, Typed, TypeOK, Contents, disk, history, Tidy
<1>8. CASE RestoreDone
  BY <1>8 DEF RestoreDone, Typed, TypeOK, Contents, memory, disk, saving, history, Tidy
<1>9. CASE ShutdownClose
  BY <1>9 DEF ShutdownClose, Typed, TypeOK, Contents, memory, disk, history, Goroutines, Tidy
<1>10. CASE ShutdownDrain
  BY <1>10 DEF ShutdownDrain, Typed, TypeOK, Contents, memory, disk, saving, Tidy
<1>11. ASSUME Dies, cut' \subseteq Files, harmed' \in BOOLEAN
       PROVE  Typed'
  <2>1. /\ life' = "down" /\ boots' \in 0 .. MaxBoots
        /\ pending' \in Seq(Files) /\ running' \subseteq Files /\ Cardinality(running') <= 1
        /\ IsFiniteSet(running')
        /\ todo' \in Seq(Seq(Files)) /\ Tidy(todo')
    BY <1>11, EmptyList, FS_EmptySet DEF Dies, Typed, TypeOK
  <2>2. /\ pc' \in [Goroutines -> {"idle", "check", "snap", "clear", "open", "write", "rename"}]
        /\ blob' \in [Goroutines -> Seq(Seq(Files))] /\ \A s \in Goroutines : Tidy(blob'[s])
        /\ fd' \in [Goroutines -> {"none", "tmp", "store", "gone"}]
        /\ adds' \in [Goroutines -> SUBSET Files]
    BY <1>11, EmptyList DEF Dies
  <2>. QED  BY <1>11, <2>1, <2>2 DEF Dies, Typed, TypeOK, Contents, disk, Tidy
<1>12. CASE Exit
  BY <1>11, <1>12 DEF Exit, Typed, TypeOK
<1>13. CASE Crash
  BY <1>11, <1>13 DEF Crash, Typed, TypeOK
<1>14. CASE UNCHANGED vars
  BY <1>14 DEF vars, memory, disk, saving, history, Typed, TypeOK, Contents, Tidy
<1>. QED  BY <1>0, <1>1, <1>2, <1>3, <1>4, <1>5, <1>6, <1>7, <1>8, <1>9, <1>10, <1>12, <1>13, <1>14
          DEF Next, Ends, Restore

(* A save is of one goroutine, and leaves the queue as it is. *)
LEMMA SaveFrame ==
    ASSUME Typed, NEW s \in Goroutines, SaveStep(s)
    PROVE  /\ life' = life /\ pending' = pending /\ running' = running /\ todo' = todo
           /\ converted' = converted /\ settled' = settled
           /\ \A t \in Goroutines \ {s} :
                pc'[t] = pc[t] /\ blob'[t] = blob[t] /\ adds'[t] = adds[t]
           /\ pc[s] # "idle" /\ pc'[s] # "check" /\ adds'[s] \in {adds[s], {}}
           /\ harmed => harmed'
<1> USE DEF Typed, TypeOK
<1>1. CASE SaveCheck(s)
  BY <1>1 DEF SaveCheck, memory, disk, history
<1>2. CASE Snapshot(s)
  BY <1>2 DEF Snapshot, memory, disk
<1>3. CASE SaveClear(s)
  BY <1>3 DEF SaveClear, Saved, memory
<1>4. CASE SaveOpen(s)
  BY <1>4 DEF SaveOpen, memory, history
<1>5. CASE SaveWrite(s)
  BY <1>5 DEF SaveWrite, memory, history
<1>6. CASE SaveRename(s)
  BY <1>6 DEF SaveRename, Saved, memory
<1>. QED  BY <1>1, <1>2, <1>3, <1>4, <1>5, <1>6 DEF SaveStep

\* Every step that is not a save's.
QueueStep ==
    \/ \E s \in Savers, b \in Batches : Enqueue(b, s)
    \/ \E s \in Savers, f \in Files : Cancel(f, s)
    \/ Start \/ (\E f \in Files : Convert(f)) \/ Ends
    \/ Boot \/ Restore \/ ShutdownClose \/ ShutdownDrain \/ Exit \/ Crash
    \/ UNCHANGED vars

LEMMA SaveOrQueue == [Next]_vars => (\E s \in Goroutines : SaveStep(s)) \/ QueueStep
BY DEF Next, QueueStep

(* The queue's steps leave the files alone, and those who write, unless they die. *)
LEMMA QueueFrame ==
    ASSUME Typed, LifeOK, QueueStep
    PROVE  /\ store' = store /\ tmp' = tmp /\ kept' = kept
           /\ converted \subseteq converted' /\ settled \subseteq settled'
           /\ harmed => harmed'
           /\ \A s \in Goroutines : Writes(s)' => /\ pc'[s] = pc[s] /\ fd'[s] = fd[s]
                                             /\ blob'[s] = blob[s] /\ adds'[s] = adds[s]
<1> USE DEF Typed, TypeOK, Writes, Goroutines
<1>1. ASSUME NEW s \in Savers, NEW b \in Batches, Enqueue(b, s)
      PROVE  /\ UNCHANGED <<store, tmp, kept, converted, settled, harmed, fd, blob>>
             /\ \A t \in Goroutines : t # s => pc'[t] = pc[t] /\ adds'[t] = adds[t]
             /\ pc'[s] = "check"
  BY <1>1 DEF Enqueue, Saves, disk, history
<1>2. ASSUME NEW s \in Savers, NEW f \in Files, Cancel(f, s) \/ End(f, s)
      PROVE  /\ UNCHANGED <<store, tmp, kept, converted, harmed, fd, blob>>
             /\ settled \subseteq settled'
             /\ \A t \in Goroutines : t # s => pc'[t] = pc[t] /\ adds'[t] = adds[t]
             /\ pc'[s] = "check"
  BY <1>2 DEF Cancel, End, Saves, disk
<1>3. CASE Start
  BY <1>3 DEF Start, disk, saving
<1>4. ASSUME NEW f \in Files, Convert(f)
      PROVE  /\ UNCHANGED <<store, tmp, kept, settled, harmed, fd, blob, pc, adds>>
             /\ converted \subseteq converted'
  BY <1>4 DEF Convert, saving, history
<1>5. CASE Boot
  BY <1>5 DEF Boot, disk, saving, history
<1>6. CASE RestoreBatch
  <2>1. UNCHANGED <<store, tmp, kept, converted, settled, harmed, fd, blob>>
    BY <1>6 DEF RestoreBatch, Saves, disk, saving, history
  <2>2. /\ \A t \in Goroutines : t # Main => pc'[t] = pc[t] /\ adds'[t] = adds[t]
        /\ pc'[Main] \in {"idle", "check"}
    BY <1>6 DEF RestoreBatch, Saves, saving
  <2>. QED  BY <2>1, <2>2
<1>7. CASE RestoreDone
  BY <1>7 DEF RestoreDone, disk, saving, history
<1>8. CASE ShutdownClose
  BY <1>8 DEF ShutdownClose, disk, history
<1>9. CASE ShutdownDrain
  BY <1>9 DEF ShutdownDrain, disk, saving
<1>10. CASE Exit
  BY <1>10 DEF Exit, Dies, disk
<1>11. CASE Crash
  BY <1>11 DEF Crash, Dies, disk
<1>12. CASE UNCHANGED vars
  BY <1>12 DEF vars, disk, saving, history
<1>. QED  BY <1>1, <1>2, <1>3, <1>4, <1>5, <1>6, <1>7, <1>8, <1>9, <1>10, <1>11, <1>12
          DEF QueueStep, Ends, Restore

(* The files that wait or run, step by step. *)
LEMMA QueueMoves ==
    ASSUME Typed, LifeOK
    PROVE  /\ \A s \in Savers, b \in Batches : Enqueue(b, s) =>
                Outstanding' = Outstanding \cup ToSet(New(Lists[b]))
           /\ \A s \in Savers, f \in Files : Cancel(f, s) =>
                /\ Outstanding \ {f} \subseteq Outstanding' /\ Outstanding' \subseteq Outstanding
           /\ Start => Outstanding' = Outstanding
           /\ \A s \in Savers, f \in Files : End(f, s) =>
                /\ Outstanding \ {f} \subseteq Outstanding' /\ Outstanding' \subseteq Outstanding
           /\ RestoreBatch => Outstanding' = Outstanding \cup ToSet(New(Head(todo)))
<1>0. pending \in Seq(Files)
  BY DEF Typed, TypeOK
<1>1. ASSUME NEW s \in Savers, NEW b \in Batches, Enqueue(b, s)
      PROVE  Outstanding' = Outstanding \cup ToSet(New(Lists[b]))
  <2>1. New(Lists[b]) \in Seq(Files)
    BY ListOfBatch, NewFiles
  <2>2. ToSet(pending') = ToSet(pending) \cup ToSet(New(Lists[b])) /\ running' = running
    BY <1>0, <1>1, <2>1, ConcatElements DEF Enqueue
  <2>. QED  BY <2>2 DEF Outstanding
<1>2. ASSUME NEW s \in Savers, NEW f \in Files, Cancel(f, s)
      PROVE  Outstanding \ {f} \subseteq Outstanding' /\ Outstanding' \subseteq Outstanding
  <2>1. ToSet(pending') = ToSet(pending) \ {f} /\ running' = running
    BY <1>0, <1>2, WithoutElements DEF Cancel
  <2>. QED  BY <2>1 DEF Outstanding
<1>3. ASSUME Start
      PROVE  Outstanding' = Outstanding
  <2>1. ToSet(pending) = {Head(pending)} \cup ToSet(Tail(pending))
    BY <1>0, <1>3, HeadAndRest DEF Start
  <2>2. running = {} /\ running' = {Head(pending)} /\ pending' = Tail(pending)
    BY <1>3 DEF Start
  <2>. QED  BY <2>1, <2>2 DEF Outstanding
<1>4. ASSUME NEW s \in Savers, NEW f \in Files, End(f, s)
      PROVE  Outstanding \ {f} \subseteq Outstanding' /\ Outstanding' \subseteq Outstanding
  BY <1>4 DEF End, Outstanding
<1>5. ASSUME RestoreBatch
      PROVE  Outstanding' = Outstanding \cup ToSet(New(Head(todo)))
  <2>1. Head(todo) \in Seq(Files) /\ New(Head(todo)) \in Seq(Files)
    BY <1>5, NextBatch, NewFiles DEF RestoreBatch
  <2>2. running' = running
    BY <1>5 DEF RestoreBatch
  <2>3. CASE New(Head(todo)) = <<>>
    <3>1. pending' = pending /\ ToSet(New(Head(todo))) = {}
      BY <1>5, <2>3 DEF RestoreBatch, ToSet
    <3>. QED  BY <2>2, <3>1 DEF Outstanding
  <2>4. CASE New(Head(todo)) # <<>>
    <3>1. ToSet(pending') = ToSet(pending) \cup ToSet(New(Head(todo)))
      BY <1>0, <1>5, <2>1, <2>4, ConcatElements, ZenonT(40) DEF RestoreBatch
    <3>. QED  BY <2>2, <3>1 DEF Outstanding
  <2>. QED  BY <2>3, <2>4
<1>. QED  BY <1>1, <1>2, <1>3, <1>4, <1>5

(* The life of the process. *)
LEMMA LifeStep ==
    ASSUME Typed, LifeOK, [Next]_vars
    PROVE  LifeOK'
<1>0. /\ Main \in Goroutines /\ Main \notin Savers /\ Savers \subseteq Goroutines
      /\ pc \in [Goroutines -> {"idle", "check", "snap", "clear", "open", "write", "rename"}]
      /\ adds \in [Goroutines -> SUBSET Files]
  BY StoreConstants DEF Goroutines, Typed, TypeOK
<1>1. CASE \E s \in Goroutines : SaveStep(s)
  <2>1. PICK s \in Goroutines : SaveStep(s)
    BY <1>1
  <2>. QED  BY <1>0, <2>1, SaveFrame DEF LifeOK, Outstanding
<1>2. ASSUME NEW s \in Savers, NEW b \in Batches, Enqueue(b, s)
      PROVE  LifeOK'
  BY <1>0, <1>2 DEF Enqueue, Saves, LifeOK
<1>3. ASSUME NEW s \in Savers, NEW f \in Files, Cancel(f, s)
      PROVE  LifeOK'
  BY <1>0, <1>3 DEF Cancel, Saves, LifeOK
<1>4. CASE Start
  <2>1. Outstanding' = Outstanding
    BY <1>4, QueueMoves
  <2>. QED  BY <1>0, <1>4, <2>1 DEF Start, LifeOK, saving
<1>5. ASSUME NEW f \in Files, Convert(f)
      PROVE  LifeOK'
  BY <1>0, <1>5 DEF Convert, LifeOK, memory, saving, Outstanding
<1>6. ASSUME NEW f \in Files, NEW s \in Savers, End(f, s)
      PROVE  LifeOK'
  <2>1. Outstanding' \subseteq Outstanding
    BY <1>6, QueueMoves
  <2>2. life # "down" /\ life' = life /\ todo' = todo
    BY <1>6 DEF End, LifeOK
  <2>3. /\ pc'[Main] = pc[Main] /\ adds'[Main] = {}
        /\ \A t \in Goroutines : adds'[t] \in {adds[t], {}}
    BY <1>0, <1>6 DEF End, Saves, LifeOK
  <2>. QED  BY <2>1, <2>2, <2>3 DEF LifeOK
<1>7. CASE Boot
  BY <1>0, <1>7 DEF Boot, LifeOK, disk, saving, Outstanding, ToSet
<1>8. CASE RestoreBatch
  <2>1. /\ Head(todo) \in Seq(Files)
        /\ FilesOf(todo) = ToSet(Head(todo)) \cup FilesOf(Tail(todo))
        /\ ToSet(Head(todo)) \cap FilesOf(Tail(todo)) = {}
    BY <1>8, NextBatch DEF RestoreBatch
  <2>2. Outstanding' \subseteq Outstanding \cup ToSet(Head(todo))
    BY <1>8, <2>1, QueueMoves, NewFiles
  <2>3. Outstanding' \cap FilesOf(todo') = {}
    BY <1>8, <2>1, <2>2 DEF RestoreBatch, LifeOK
  <2>4. life = "restoring" /\ life' = life
    BY <1>8 DEF RestoreBatch
  <2>5. \A t \in Goroutines : adds'[t] = {}
    BY <1>0, <1>8 DEF RestoreBatch, Saves, LifeOK, saving
  <2>. QED  BY <1>0, <2>3, <2>4, <2>5 DEF LifeOK
<1>9. CASE RestoreDone
  BY <1>0, <1>9 DEF RestoreDone, LifeOK, memory, saving
<1>10. CASE ShutdownClose
  BY <1>0, <1>10 DEF ShutdownClose, LifeOK, memory
<1>11. CASE ShutdownDrain
  BY <1>0, <1>11 DEF ShutdownDrain, LifeOK, memory, saving
<1>12. CASE Exit \/ Crash
  BY <1>0, <1>12 DEF Exit, Crash, Dies, LifeOK
<1>13. CASE UNCHANGED vars
  BY <1>13 DEF vars, memory, disk, saving, LifeOK, Outstanding
<1>. QED  BY <1>1, <1>2, <1>3, <1>4, <1>5, <1>6, <1>7, <1>8, <1>9, <1>10, <1>11, <1>12, <1>13
          DEF Next, Ends, Restore

-----------------------------------------------------------------------------
(* Writing down *)

(* Where no writes have overlapped, a goroutine takes its snapshot alone, and not after Shutdown
   has; what it has then is all that waits or runs. *)
LEMMA SnapshotAlone ==
    ASSUME Typed, LifeOK, NEW s \in Goroutines, Snapshot(s), ~harmed'
    PROVE  /\ \A t \in Goroutines : ~Writes(t)
           /\ life \in {"restoring", "up", "closed"}
           /\ FilesOf(blob'[s]) = Outstanding
           /\ pc'[s] \in {"clear", "open"} /\ (pc'[s] = "clear" => Outstanding = {})
<1>1. ~Overlaps(s) /\ pc[s] = "snap"
  BY DEF Snapshot
<1>2. \A t \in Goroutines : ~Writes(t)
  BY <1>1 DEF Overlaps, Writes
<1>3. life \in {"restoring", "up", "closed"}
  BY <1>1 DEF Overlaps, stopping, LifeOK, Typed, TypeOK
<1>4. PICK snapshot \in Snapshots : blob' = [blob EXCEPT ![s] = snapshot]
  BY DEF Snapshot
<1>5. FilesOf(blob'[s]) = Outstanding
  BY <1>4, SnapshotTells DEF Typed, TypeOK
<1>6. pc'[s] \in {"clear", "open"} /\ (pc'[s] = "clear" => Outstanding = {})
  BY DEF Snapshot, Typed, TypeOK
<1>. QED  BY <1>2, <1>3, <1>5, <1>6

(* What the steps of a save that leave queue.json alone do. *)
LEMMA SaveLeaves ==
    ASSUME Typed, Alone, NEW s \in Goroutines, SaveStep(s)
    PROVE  /\ SaveCheck(s) =>
                /\ ~Writes(s) /\ ~Writes(s)' /\ UNCHANGED <<store, tmp, kept, adds, fd, blob>>
                /\ (life \notin {"closed", "drained"} => Before(s)')
           /\ Snapshot(s) =>
                /\ Before(s) /\ ~Writes(s) /\ Writes(s)'
                /\ UNCHANGED <<store, tmp, kept, adds, fd>>
           /\ SaveOpen(s) =>
                /\ Writes(s) /\ Writes(s)' /\ pc'[s] = "write"
                /\ fd'[s] = "tmp" /\ tmp' = Empty /\ UNCHANGED <<store, kept, blob, adds>>
           /\ SaveWrite(s) =>
                /\ Writes(s) /\ Writes(s)' /\ pc'[s] = "rename"
                /\ tmp' = blob[s] /\ UNCHANGED <<store, kept, blob, adds>>
           /\ SaveClear(s) \/ SaveRename(s) =>
                /\ Writes(s) /\ pc'[s] = "idle" /\ adds'[s] = {}
                /\ store' \notin {Empty, Torn} /\ FilesOf(store') = FilesOf(blob[s])
                /\ kept' = kept \cup adds[s]
<1> USE DEF Typed, TypeOK, Writes, Before
<1>1. ASSUME SaveCheck(s)
      PROVE  /\ ~Writes(s) /\ ~Writes(s)' /\ UNCHANGED <<store, tmp, kept, adds, fd, blob>>
             /\ (life \notin {"closed", "drained"} => Before(s)')
  BY <1>1 DEF SaveCheck, disk, history, stopping
<1>2. ASSUME Snapshot(s)
      PROVE  /\ Before(s) /\ ~Writes(s) /\ Writes(s)'
             /\ UNCHANGED <<store, tmp, kept, adds, fd>>
  BY <1>2 DEF Snapshot, disk
<1>3. ASSUME SaveOpen(s)
      PROVE  /\ Writes(s) /\ Writes(s)' /\ pc'[s] = "write"
             /\ fd'[s] = "tmp" /\ tmp' = Empty /\ UNCHANGED <<store, kept, blob, adds>>
  BY <1>3 DEF SaveOpen, history
<1>4. ASSUME SaveWrite(s)
      PROVE  /\ Writes(s) /\ Writes(s)' /\ pc'[s] = "rename"
             /\ tmp' = blob[s] /\ UNCHANGED <<store, kept, blob, adds>>
  <2>1. fd[s] = "tmp" /\ tmp = Empty
    BY <1>4 DEF SaveWrite, Alone
  <2>2. tmp' = blob[s] /\ store' = store
    BY <1>4, <2>1 DEF SaveWrite, Written
  <2>. QED  BY <1>4, <2>2 DEF SaveWrite, history
<1>5. ASSUME SaveClear(s)
      PROVE  /\ Writes(s) /\ pc'[s] = "idle" /\ adds'[s] = {}
             /\ store' \notin {Empty, Torn} /\ FilesOf(store') = FilesOf(blob[s])
             /\ kept' = kept \cup adds[s]
  <2>1. FilesOf(blob[s]) = {} /\ store' = Absent
    BY <1>5 DEF SaveClear, Alone
  <2>2. FilesOf(Absent) = {} /\ Absent \notin {Empty, Torn}
    BY StoreConstants DEF FilesOf, NoList
  <2>. QED  BY <1>5, <2>1, <2>2 DEF SaveClear, Saved
<1>6. ASSUME SaveRename(s)
      PROVE  /\ Writes(s) /\ pc'[s] = "idle" /\ adds'[s] = {}
             /\ store' \notin {Empty, Torn} /\ FilesOf(store') = FilesOf(blob[s])
             /\ kept' = kept \cup adds[s]
  <2>1. tmp = blob[s] /\ blob[s] \in Seq(Seq(Files))
    BY <1>6 DEF SaveRename, Alone
  <2>2. tmp \notin NoList
    BY <2>1, NoListIsList
  <2>3. store' = tmp /\ kept' = kept \cup adds[s]
    BY <1>6, <2>2 DEF SaveRename, NoList
  <2>4. pc'[s] = "idle" /\ adds'[s] = {} /\ Writes(s)
    BY <1>6 DEF SaveRename, Saved
  <2>. QED  BY <1>6, <2>1, <2>2, <2>3, <2>4 DEF NoList
<1>. QED  BY <1>1, <1>2, <1>3, <1>4, <1>5, <1>6

LEMMA AloneStep ==
    ASSUME Typed, LifeOK, Alone, [Next]_vars, ~harmed'
    PROVE  Alone'
<1>1. ASSUME NEW s \in Goroutines, SaveStep(s)
      PROVE  Alone'
  <2>1. /\ \A t \in Goroutines \ {s} : pc'[t] = pc[t] /\ blob'[t] = blob[t]
        /\ Writes(s) => \A t \in Goroutines \ {s} : ~Writes(t)
    BY <1>1, SaveFrame DEF Writes, Alone
  <2>2. CASE SaveCheck(s)
    BY <2>1, <2>2 DEF Alone, SaveCheck, Writes, disk, Typed, TypeOK
  <2>3. CASE Snapshot(s)
    <3>1. \A t \in Goroutines : ~Writes(t)
      BY <2>3, SnapshotAlone
    <3>2. pc'[s] \in {"clear", "open"} /\ (pc'[s] = "clear" => FilesOf(blob'[s]) = {})
      BY <2>3, SnapshotAlone
    <3>3. store' = store
      BY <2>3 DEF Snapshot, disk
    <3>4. \A t \in Goroutines \ {s} : ~Writes(t)'
      BY <2>1, <3>1 DEF Writes
    <3>. QED  BY <3>2, <3>3, <3>4 DEF Alone, Writes
  <2>4. CASE SaveOpen(s)
    <3>1. pc'[s] = "write" /\ fd'[s] = "tmp" /\ tmp' = Empty /\ store' = store /\ Writes(s)
      BY <1>1, <2>4, SaveLeaves
    <3>2. \A t \in Goroutines \ {s} : ~Writes(t)'
      BY <2>1, <3>1 DEF Writes
    <3>. QED  BY <3>1, <3>2 DEF Alone, Writes
  <2>5. CASE SaveWrite(s)
    <3>1. /\ pc'[s] = "rename" /\ tmp' = blob[s] /\ store' = store /\ Writes(s)
          /\ blob' = blob
      BY <1>1, <2>5, SaveLeaves
    <3>2. \A t \in Goroutines \ {s} : ~Writes(t)'
      BY <2>1, <3>1 DEF Writes
    <3>. QED  BY <3>1, <3>2 DEF Alone, Writes
  <2>6. CASE SaveClear(s) \/ SaveRename(s)
    <3>1. /\ pc'[s] = "idle" /\ store' \notin {Empty, Torn} /\ Writes(s)
      BY <1>1, <2>6, SaveLeaves
    <3>2. \A t \in Goroutines \ {s} : ~Writes(t)'
      BY <2>1, <3>1 DEF Writes
    <3>. QED  BY <3>1, <3>2 DEF Alone, Writes
  <2>. QED  BY <1>1, <2>2, <2>3, <2>4, <2>5, <2>6 DEF SaveStep
<1>2. CASE QueueStep
  BY <1>2, QueueFrame DEF Alone, Writes
<1>. QED  BY <1>1, <1>2, SaveOrQueue

LEMMA AddsStep ==
    ASSUME Typed, LifeOK, Alone, AddsOK, [Next]_vars, ~harmed'
    PROVE  AddsOK'
<1>0. /\ Main \in Goroutines /\ Main \notin Savers /\ Savers \subseteq Goroutines
      /\ pc \in [Goroutines -> {"idle", "check", "snap", "clear", "open", "write", "rename"}]
      /\ adds \in [Goroutines -> SUBSET Files]
  BY StoreConstants DEF Goroutines, Typed, TypeOK
<1>1. ASSUME NEW s \in Goroutines, SaveStep(s)
      PROVE  AddsOK'
  <2>1. /\ life' = life /\ Outstanding' = Outstanding
        /\ converted' = converted /\ settled' = settled
    BY <1>1, SaveFrame DEF Outstanding
  <2>2. ASSUME NEW t \in Goroutines \ {s}
        PROVE  pc'[t] = pc[t] /\ blob'[t] = blob[t] /\ adds'[t] = adds[t]
    BY <1>1, SaveFrame
  <2>3. /\ (Before(s) \/ Writes(s))' /\ life # "drained"
             => adds'[s] \subseteq Outstanding \cup settled \cup converted
        /\ Writes(s)' => adds'[s] \subseteq FilesOf(blob'[s]) \cup settled \cup converted
    <3>1. CASE SaveCheck(s)
      BY <1>0, <3>1 DEF SaveCheck, AddsOK, Before, Writes
    <3>2. CASE Snapshot(s)
      <4>1. life # "drained" /\ FilesOf(blob'[s]) = Outstanding
        BY <3>2, SnapshotAlone
      <4>2. Before(s) /\ adds'[s] = adds[s]
        BY <3>2 DEF Snapshot, Before
      <4>. QED  BY <4>1, <4>2 DEF AddsOK
    <3>3. CASE SaveOpen(s) \/ SaveWrite(s)
      <4>1. Writes(s) /\ adds'[s] = adds[s] /\ blob'[s] = blob[s]
        BY <3>3 DEF SaveOpen, SaveWrite, Writes
      <4>. QED  BY <4>1 DEF AddsOK
    <3>4. CASE SaveClear(s) \/ SaveRename(s)
      <4>1. adds'[s] = {}
        BY <1>0, <3>4 DEF SaveClear, SaveRename, Saved
      <4>. QED  BY <4>1
    <3>. QED  BY <1>1, <3>1, <3>2, <3>3, <3>4 DEF SaveStep
  <2>. QED  BY <2>1, <2>2, <2>3 DEF AddsOK, Before, Writes
<1>2. ASSUME QueueStep
      PROVE  \A s \in Goroutines :
                Writes(s)' => adds'[s] \subseteq FilesOf(blob'[s]) \cup settled' \cup converted'
  BY <1>2, QueueFrame DEF AddsOK, Writes
\* It is in the queue: what leaves the queue is settled.
<1> DEFINE InQueue == \A s \in Goroutines : (Before(s) \/ Writes(s))' /\ life' # "drained"
                           => adds'[s] \subseteq (Outstanding \cup settled \cup converted)'
<1>3. ASSUME NEW s \in Savers, NEW b \in Batches, Enqueue(b, s)
      PROVE  InQueue
  <2>1. /\ Outstanding' = Outstanding \cup ToSet(New(Lists[b])) /\ life = "up"
        /\ settled' = settled /\ converted' = converted
        /\ adds'[s] = ToSet(New(Lists[b]))
        /\ \A t \in Goroutines \ {s} : adds'[t] = adds[t] /\ pc'[t] = pc[t]
    BY <1>0, <1>3, QueueMoves DEF Enqueue, Saves, disk, history
  <2>. QED  BY <2>1 DEF AddsOK, Before, Writes
<1>4. ASSUME NEW s \in Savers, NEW f \in Files, Cancel(f, s)
      PROVE  InQueue
  <2>1. /\ Outstanding \ {f} \subseteq Outstanding' /\ life = "up"
        /\ settled' = settled \cup {f} /\ converted' = converted /\ adds'[s] = {}
        /\ \A t \in Goroutines \ {s} : adds'[t] = adds[t] /\ pc'[t] = pc[t]
    BY <1>0, <1>4, QueueMoves DEF Cancel, Saves, disk
  <2>. QED  BY <2>1 DEF AddsOK, Before, Writes
<1>5. ASSUME Start PROVE InQueue
  <2>1. Outstanding' = Outstanding /\ UNCHANGED <<converted, settled, pc, adds>> /\ life' = life
    BY <1>5, QueueMoves DEF Start, disk, saving
  <2>. QED  BY <2>1 DEF AddsOK, Before, Writes
<1>6. ASSUME NEW f \in Files, Convert(f)
      PROVE  InQueue
  BY <1>6 DEF Convert, AddsOK, memory, saving, history, Outstanding, Before, Writes
<1>7. ASSUME NEW f \in Files, NEW s \in Savers, End(f, s)
      PROVE  InQueue
  <2>1. /\ Outstanding \ {f} \subseteq Outstanding' /\ life' = life /\ converted' = converted
        /\ settled \subseteq settled' /\ adds'[s] = {}
        /\ life # "drained" => f \in settled' \cup converted
        /\ \A t \in Goroutines \ {s} : adds'[t] = adds[t] /\ pc'[t] = pc[t]
    BY <1>0, <1>7, QueueMoves DEF End, Saves, disk
  <2>. QED  BY <2>1 DEF AddsOK, Before, Writes
<1>8. ASSUME Boot PROVE InQueue
  BY <1>8 DEF Boot, LifeOK, saving
<1>9. ASSUME RestoreBatch PROVE InQueue
  <2>1. \A s \in Goroutines : adds'[s] = {}
    BY <1>0, <1>9 DEF RestoreBatch, LifeOK, Saves, saving
  <2>. QED  BY <2>1
<1>10. ASSUME RestoreDone PROVE InQueue
  BY <1>10 DEF RestoreDone, LifeOK, saving
<1>11. ASSUME ShutdownClose PROVE InQueue
  <2>1. /\ \A t \in Goroutines \ {Main} : pc'[t] = pc[t] /\ adds'[t] = adds[t]
        /\ adds'[Main] = {} /\ life = "up"
        /\ Outstanding' = Outstanding /\ settled' = settled /\ converted' = converted
    BY <1>0, <1>11 DEF ShutdownClose, LifeOK, memory, disk, history, Outstanding
  <2>. QED  BY <2>1 DEF AddsOK, Before, Writes
<1>12. ASSUME ShutdownDrain PROVE InQueue
  BY <1>12 DEF ShutdownDrain
<1>13. ASSUME Exit \/ Crash PROVE InQueue
  BY <1>13 DEF Exit, Crash, Dies, Before, Writes
<1>14. ASSUME UNCHANGED vars PROVE InQueue
  <2>1. UNCHANGED <<life, converted, settled, pc, adds>> /\ Outstanding' = Outstanding
    BY <1>14 DEF vars, memory, disk, saving, history, Outstanding
  <2>. QED  BY <2>1 DEF AddsOK, Before, Writes
<1>15. QueueStep => InQueue
  BY <1>3, <1>4, <1>5, <1>6, <1>7, <1>8, <1>9, <1>10, <1>11, <1>12, <1>13, <1>14
     DEF QueueStep, Ends, Restore
<1>16. CASE QueueStep
  BY <1>2, <1>15, <1>16 DEF AddsOK
<1>. QED  BY <1>1, <1>16, SaveOrQueue

(* What is written down stays: a save takes it over, a boot takes it up, Restore passes it on. *)
LEMMA KeptStep ==
    ASSUME Typed, LifeOK, Alone, AddsOK, KeptOK, [Next]_vars, ~harmed'
    PROVE  KeptOK'
<1>0. /\ Main \in Goroutines /\ Main \notin Savers /\ Savers \subseteq Goroutines
      /\ pc \in [Goroutines -> {"idle", "check", "snap", "clear", "open", "write", "rename"}]
      /\ adds \in [Goroutines -> SUBSET Files]
  BY StoreConstants DEF Goroutines, Typed, TypeOK
<1>1. ASSUME NEW s \in Goroutines, SaveStep(s)
      PROVE  KeptOK'
  <2>1. /\ life' = life /\ Outstanding' = Outstanding /\ todo' = todo
        /\ converted' = converted /\ settled' = settled
    BY <1>1, SaveFrame DEF Outstanding
  <2>2. \A t \in Goroutines \ {s} : pc'[t] = pc[t] /\ blob'[t] = blob[t]
    BY <1>1, SaveFrame
  <2>3. Writes(s) => \A t \in Goroutines \ {s} : ~Writes(t)
    BY DEF Alone
  <2>4. SUFFICES ASSUME NEW f \in kept' \ (settled \cup converted)
                 PROVE  /\ life \in {"restoring", "up", "closed"}
                              => f \in Outstanding \cup FilesOf(todo)
                        /\ life # "restoring" => Safe(f)'
                        /\ life = "restoring" =>
                             \/ f \in FilesOf(todo) \/ Safe(f)' \/ Before(Main)'
                             \/ Writes(Main)' /\ f \in FilesOf(blob'[Main])
    BY <2>1 DEF KeptOK
  <2>5. CASE SaveCheck(s)
    <3>1. /\ UNCHANGED <<store, kept, blob>> /\ \A t \in Goroutines : Writes(t)' => Writes(t)
          /\ life = "restoring" /\ Before(Main) => Before(Main)'
      BY <1>0, <1>1, <2>2, <2>5, SaveLeaves DEF Writes, Before
    <3>. QED  BY <1>0, <2>1, <2>2, <2>5, <3>1 DEF KeptOK, Safe, Listed, Writes, Before, SaveCheck
  <2>6. CASE Snapshot(s)
    <3>1. /\ UNCHANGED <<store, kept>> /\ Before(s) /\ Writes(s)'
      BY <1>1, <2>6, SaveLeaves
    <3>2. /\ FilesOf(blob'[s]) = Outstanding /\ life \in {"restoring", "up", "closed"}
          /\ \A t \in Goroutines : ~Writes(t)
      BY <2>6, SnapshotAlone
    <3>3. \A t \in Goroutines : Writes(t)' => t = s
      BY <2>2, <3>2 DEF Writes
    <3>4. f \in Outstanding \cup FilesOf(todo)
      BY <2>4, <3>1, <3>2 DEF KeptOK
    <3>5. CASE life # "restoring"
      <4>1. Safe(f) /\ f \in Outstanding
        BY <2>4, <3>1, <3>4, <3>5, EmptyList DEF KeptOK, LifeOK
      <4>. QED  BY <3>1, <3>2, <3>3, <3>4, <3>5, <4>1 DEF Safe, Listed
    <3>6. CASE life = "restoring" /\ f \in Outstanding
      <4>1. CASE Safe(f)
        BY <3>1, <3>2, <3>3, <3>6, <4>1 DEF Safe, Listed
      <4>2. CASE Before(Main) /\ s # Main
        BY <1>0, <2>2, <3>4, <3>6, <4>2 DEF Before
      <4>3. CASE s = Main
        BY <3>1, <3>2, <3>4, <3>6, <4>3
      <4>4. f \in FilesOf(todo) \/ Safe(f) \/ Before(Main)
        BY <1>0, <2>4, <3>1, <3>2, <3>6 DEF KeptOK
      <4>. QED  BY <3>4, <3>6, <4>1, <4>2, <4>3, <4>4
    <3>. QED  BY <3>2, <3>4, <3>5, <3>6
  <2>7. CASE SaveOpen(s) \/ SaveWrite(s)
    <3>1. UNCHANGED <<store, kept, blob>> /\ Writes(s) /\ Writes(s)'
      BY <1>1, <2>7, SaveLeaves
    <3>2. /\ \A t \in Goroutines : Writes(t)' <=> Writes(t)
          /\ Before(Main)' <=> Before(Main)
      BY <1>0, <2>2, <3>1 DEF Writes, Before
    <3>. QED  BY <1>0, <2>1, <2>4, <3>1, <3>2 DEF KeptOK, Safe, Listed, Writes
  <2>8. CASE SaveClear(s) \/ SaveRename(s)
    <3>1. /\ Writes(s) /\ pc'[s] = "idle" /\ FilesOf(store') = FilesOf(blob[s])
          /\ kept' = kept \cup adds[s]
      BY <1>1, <2>8, SaveLeaves
    <3>2. \A t \in Goroutines : ~Writes(t)'
      BY <2>2, <2>3, <3>1 DEF Writes
    <3>3. Safe(f)' <=> f \in FilesOf(blob[s])
      BY <3>1, <3>2 DEF Safe, Listed
    <3>4. life # "down"
      BY <3>1 DEF LifeOK, Writes
    <3>5. CASE f \notin kept
      <4>1. f \in adds[s]
        BY <2>4, <3>1, <3>5
      <4>2. life \notin {"down", "restoring"}
        BY <4>1 DEF LifeOK
      <4>3. life # "drained" => f \in Outstanding
        BY <2>4, <3>1, <4>1 DEF AddsOK
      <4>4. f \in FilesOf(blob[s])
        BY <2>4, <3>1, <4>1 DEF AddsOK
      <4>. QED  BY <3>3, <4>2, <4>3, <4>4
    <3>6. CASE f \in kept
      <4>1. f \in kept \ (settled \cup converted)
        BY <2>4, <3>6
      <4>2. life \in {"restoring", "up", "closed"} => f \in Outstanding \cup FilesOf(todo)
        BY <4>1 DEF KeptOK
      <4>3. CASE life # "restoring"
        <5>1. Safe(f)
          BY <4>1, <4>3 DEF KeptOK
        <5>. QED  BY <3>1, <3>3, <4>2, <4>3, <5>1 DEF Safe
      <4>4. CASE life = "restoring"
        <5>1. \/ f \in FilesOf(todo) \/ Safe(f) \/ Before(Main)
              \/ Writes(Main) /\ f \in FilesOf(blob[Main])
          BY <4>1, <4>4 DEF KeptOK
        <5>2. Safe(f) => Safe(f)'
          BY <3>1, <3>3 DEF Safe
        <5>3. Before(Main) => Before(Main)'
          BY <1>0, <2>2, <3>1 DEF Before, Writes
        <5>4. Writes(Main) => s = Main
          BY <1>0, <2>3, <3>1
        <5>. QED  BY <3>3, <4>2, <4>4, <5>1, <5>2, <5>3, <5>4
      <4>. QED  BY <4>3, <4>4
    <3>. QED  BY <3>5, <3>6
  <2>. QED  BY <1>1, <2>5, <2>6, <2>7, <2>8 DEF SaveStep
<1>2. ASSUME QueueStep
      PROVE  /\ kept' = kept /\ settled \subseteq settled' /\ converted \subseteq converted'
             /\ \A f \in Files : Safe(f) => Safe(f)'
  BY <1>2, QueueFrame DEF Safe, Listed, Writes
<1>3. kept \subseteq Files
  BY DEF Typed, TypeOK
<1>4. ASSUME NEW s \in Savers, NEW b \in Batches, Enqueue(b, s)
      PROVE  KeptOK'
  <2>1. life = "up" /\ life' = life /\ todo' = todo /\ Outstanding \subseteq Outstanding'
    BY <1>4, QueueMoves DEF Enqueue
  <2>2. QueueStep
    BY <1>4 DEF QueueStep
  <2>. QED  BY <1>2, <1>3, <2>1, <2>2 DEF KeptOK
<1>5. ASSUME NEW s \in Savers, NEW f \in Files, Cancel(f, s)
      PROVE  KeptOK'
  <2>1. /\ life = "up" /\ life' = life /\ todo' = todo /\ Outstanding \ {f} \subseteq Outstanding'
        /\ f \in settled'
    BY <1>5, QueueMoves DEF Cancel
  <2>2. QueueStep
    BY <1>5 DEF QueueStep
  <2>. QED  BY <1>2, <1>3, <2>1, <2>2 DEF KeptOK
<1>6. CASE Start
  <2>1. life' = life /\ todo' = todo /\ Outstanding = Outstanding' /\ pc' = pc /\ blob' = blob
    BY <1>6, QueueMoves DEF Start, saving
  <2>2. QueueStep
    BY <1>6 DEF QueueStep
  <2>. QED  BY <1>2, <1>3, <2>1, <2>2 DEF KeptOK, Before, Writes
<1>7. ASSUME NEW f \in Files, Convert(f)
      PROVE  KeptOK'
  <2>1. life' = life /\ todo' = todo /\ Outstanding = Outstanding' /\ pc' = pc /\ blob' = blob
    BY <1>7 DEF Convert, saving, memory, Outstanding
  <2>2. QueueStep
    BY <1>7 DEF QueueStep
  <2>. QED  BY <1>2, <1>3, <2>1, <2>2 DEF KeptOK, Before, Writes
<1>8. ASSUME NEW f \in Files, NEW s \in Savers, End(f, s)
      PROVE  KeptOK'
  <2>1. /\ life' = life /\ todo' = todo /\ Outstanding \ {f} \subseteq Outstanding'
        /\ pc'[Main] = pc[Main] /\ blob' = blob
        /\ life # "drained" => f \in settled' \cup converted'
    BY <1>0, <1>8, QueueMoves DEF End, Saves, disk
  <2>2. QueueStep
    BY <1>8 DEF QueueStep, Ends
  <2>. QED  BY <1>2, <1>3, <2>1, <2>2 DEF KeptOK, Before, Writes
<1>9. CASE Boot
  <2>1. QueueStep
    BY <1>9 DEF QueueStep
  <2>2. life = "down" /\ life' = "restoring"
    BY <1>9 DEF Boot
  <2>3. FilesOf(todo') = Listed
    BY <1>9, EmptyList DEF Boot, Listed, FilesOf
  <2>. QED  BY <1>2, <1>3, <2>1, <2>2, <2>3 DEF KeptOK, Safe
<1>10. CASE RestoreBatch
  <2>1. QueueStep
    BY <1>10 DEF QueueStep, Restore
  <2>2. /\ life = "restoring" /\ life' = life /\ todo' = Tail(todo) /\ converted' = converted
        /\ pc[Main] = "idle"
    BY <1>10 DEF RestoreBatch, disk
  <2>3. Outstanding' = Outstanding \cup ToSet(New(Head(todo)))
    BY <1>10, QueueMoves
  <2>4. /\ FilesOf(todo) = ToSet(Head(todo)) \cup FilesOf(Tail(todo))
        /\ ToSet(New(Head(todo))) = ToSet(Head(todo)) \ (converted \cup Outstanding)
    BY <1>10, NextBatch, NewFiles DEF RestoreBatch
  <2>5. ToSet(New(Head(todo))) # {} => Before(Main)'
    <3>1. CASE New(Head(todo)) = <<>>
      BY <3>1 DEF ToSet
    <3>2. CASE New(Head(todo)) # <<>>
      BY <1>0, <1>10, <3>2 DEF RestoreBatch, Saves, Before
    <3>. QED  BY <3>1, <3>2
  <2>6. SUFFICES ASSUME NEW f \in kept \ (settled \cup converted)
                 PROVE  /\ f \in Outstanding' \cup FilesOf(todo')
                        /\ f \in FilesOf(todo') \/ Safe(f)' \/ Before(Main)'
    BY <1>2, <2>1, <2>2 DEF KeptOK
  <2>7. /\ f \in Outstanding \cup FilesOf(todo)
        /\ f \in FilesOf(todo) \/ Safe(f)
    BY <2>2, <2>6 DEF KeptOK, Before, Writes
  <2>8. Safe(f) => Safe(f)'
    BY <1>2, <1>3, <2>1, <2>6
  <2>9. Outstanding \cap FilesOf(todo) = {}
    BY <2>2 DEF LifeOK
  <2>. QED  BY <2>2, <2>3, <2>4, <2>5, <2>6, <2>7, <2>8, <2>9
<1>11. CASE RestoreDone
  <2>1. QueueStep
    BY <1>11 DEF QueueStep, Restore
  <2>2. /\ life = "restoring" /\ life' = "up" /\ FilesOf(todo) = {} /\ todo' = todo
        /\ pc[Main] = "idle" /\ Outstanding' = Outstanding
    BY <1>11, EmptyList DEF RestoreDone, memory, Outstanding
  <2>3. \A f \in kept \ (settled \cup converted) : f \in Outstanding /\ Safe(f)
    BY <2>2 DEF KeptOK, Before, Writes
  <2>. QED  BY <1>2, <1>3, <2>1, <2>2, <2>3 DEF KeptOK
<1>12. CASE ShutdownClose
  <2>1. QueueStep
    BY <1>12 DEF QueueStep
  <2>2. life = "up" /\ life' = "closed" /\ todo' = todo /\ Outstanding' = Outstanding
    BY <1>12 DEF ShutdownClose, memory, Outstanding
  <2>. QED  BY <1>2, <1>3, <2>1, <2>2 DEF KeptOK
<1>13. CASE ShutdownDrain
  <2>1. QueueStep
    BY <1>13 DEF QueueStep
  <2>2. life = "closed" /\ life' = "drained"
    BY <1>13 DEF ShutdownDrain
  <2>. QED  BY <1>2, <1>3, <2>1, <2>2 DEF KeptOK
<1>14. CASE Exit \/ Crash
  <2>1. QueueStep
    BY <1>14 DEF QueueStep
  <2>2. life # "restoring" /\ life' = "down"
    BY <1>14 DEF Exit, Crash, Dies
  <2>. QED  BY <1>2, <1>3, <2>1, <2>2 DEF KeptOK
<1>15. CASE UNCHANGED vars
  BY <1>15 DEF vars, memory, disk, saving, history, KeptOK, Safe, Listed, Outstanding, Writes, Before
<1>. QED  BY <1>1, <1>4, <1>5, <1>6, <1>7, <1>8, <1>9, <1>10, <1>11, <1>12, <1>13, <1>14, <1>15
          DEF Next, Ends, Restore

(* Whenever the file does not tell what is to do, somebody will write what does. *)
LEMMA CurrentStep ==
    ASSUME Typed, LifeOK, Alone, CurrentOK, [Next]_vars, ~harmed'
    PROVE  CurrentOK'
<1>0. /\ Main \in Goroutines /\ Savers \subseteq Goroutines
      /\ pc \in [Goroutines -> {"idle", "check", "snap", "clear", "open", "write", "rename"}]
  BY DEF Goroutines, Typed, TypeOK
<1>1. ASSUME NEW s \in Goroutines, SaveStep(s)
      PROVE  CurrentOK'
  <2>1. /\ life' = life /\ Outstanding' = Outstanding /\ todo' = todo /\ converted' = converted
    BY <1>1, SaveFrame DEF Outstanding
  <2>2. \A t \in Goroutines \ {s} : pc'[t] = pc[t] /\ blob'[t] = blob[t]
    BY <1>1, SaveFrame
  <2>3. Writes(s) => \A t \in Goroutines \ {s} : ~Writes(t)
    BY DEF Alone
  <2>4. SUFFICES ASSUME life \in {"restoring", "up"}
                 PROVE  \/ \E t \in Goroutines : Before(t)'
                        \/ \E t \in Goroutines : Writes(t)' /\ Tells(FilesOf(blob'[t]))
                        \/ (\A t \in Goroutines : ~Writes(t)') /\ Tells(Listed')
    BY <2>1 DEF CurrentOK, Tells
  <2>5. CASE SaveCheck(s)
    <3>1. Before(s)'
      BY <1>1, <2>4, <2>5, SaveLeaves
    <3>. QED  BY <3>1
  <2>6. CASE Snapshot(s)
    <3>1. Writes(s)' /\ FilesOf(blob'[s]) = Outstanding
      BY <1>1, <2>6, SaveLeaves, SnapshotAlone
    <3>2. Tells(FilesOf(blob'[s]))
      BY <3>1 DEF Tells
    <3>. QED  BY <3>1, <3>2
  <2>7. CASE SaveOpen(s) \/ SaveWrite(s)
    <3>1. UNCHANGED <<store, blob>> /\ Writes(s) /\ Writes(s)'
      BY <1>1, <2>7, SaveLeaves
    <3>2. CASE \E t \in Goroutines : Before(t)
      BY <2>2, <3>1, <3>2 DEF Before, Writes
    <3>3. CASE \E t \in Goroutines : Writes(t) /\ Tells(FilesOf(blob[t]))
      BY <2>3, <3>1, <3>3
    <3>. QED  BY <2>4, <3>1, <3>2, <3>3 DEF CurrentOK
  <2>8. CASE SaveClear(s) \/ SaveRename(s)
    <3>1. Writes(s) /\ pc'[s] = "idle" /\ FilesOf(store') = FilesOf(blob[s])
      BY <1>1, <2>8, SaveLeaves
    <3>2. CASE \E t \in Goroutines : Before(t)
      BY <2>2, <3>1, <3>2 DEF Before, Writes
    <3>3. CASE \E t \in Goroutines : Writes(t) /\ Tells(FilesOf(blob[t]))
      <4>1. Tells(FilesOf(blob[s]))
        BY <2>3, <3>1, <3>3
      <4>2. \A t \in Goroutines : ~Writes(t)'
        BY <2>2, <2>3, <3>1 DEF Writes
      <4>. QED  BY <3>1, <4>1, <4>2 DEF Listed
    <3>. QED  BY <2>4, <3>1, <3>2, <3>3 DEF CurrentOK
  <2>. QED  BY <1>1, <2>5, <2>6, <2>7, <2>8 DEF SaveStep
<1>2. ASSUME NEW s \in Goroutines, pc'[s] = "check"
      PROVE  CurrentOK'
  BY <1>2 DEF CurrentOK, Before
\* A step that changes neither what goroutines do nor the file.
<1>3. ASSUME UNCHANGED <<pc, blob, store>>, life \in {"restoring", "up"},
             Outstanding' \ converted' \subseteq Outstanding \ converted,
             (Outstanding \cup FilesOf(todo)) \ converted'
                \subseteq Outstanding' \cup FilesOf(todo') , converted \subseteq converted'
      PROVE  CurrentOK'
  <2>1. \A files : Tells(files) => Tells(files)'
    BY <1>3 DEF Tells
  <2>. QED  BY <1>3, <2>1 DEF CurrentOK, Before, Writes, Listed
<1>4. ASSUME NEW s \in Savers, NEW b \in Batches, Enqueue(b, s)
      PROVE  CurrentOK'
  BY <1>0, <1>2, <1>4 DEF Enqueue, Saves
<1>5. ASSUME NEW s \in Savers, NEW f \in Files, Cancel(f, s) \/ End(f, s)
      PROVE  CurrentOK'
  BY <1>0, <1>2, <1>5 DEF Cancel, End, Saves
<1>6. CASE Start
  <2>1. Outstanding' = Outstanding
    BY <1>6, QueueMoves
  <2>. QED  BY <1>3, <1>6, <2>1 DEF Start, disk, saving
<1>7. ASSUME NEW f \in Files, Convert(f)
      PROVE  CurrentOK'
  <2>1. /\ UNCHANGED <<life, pc, blob, store, todo>> /\ Outstanding' = Outstanding
        /\ converted \subseteq converted'
    BY <1>7 DEF Convert, memory, saving, Outstanding
  <2>2. CASE life \in {"restoring", "up"}
    BY <1>3, <2>1, <2>2
  <2>. QED  BY <2>1, <2>2 DEF CurrentOK
<1>8. CASE Boot
  <2>1. /\ Outstanding' = {} /\ store' = store /\ pc' = pc
        /\ \A s \in Goroutines : ~Writes(s)
    BY <1>8 DEF Boot, LifeOK, disk, saving, Outstanding, ToSet, Writes
  <2>2. FilesOf(todo') = Listed
    BY <1>8, EmptyList DEF Boot, Listed, FilesOf
  <2>3. Tells(Listed)'
    BY <2>1, <2>2 DEF Tells, Listed
  <2>. QED  BY <2>1, <2>3 DEF CurrentOK, Writes
<1>9. CASE RestoreBatch
  <2>1. CASE New(Head(todo)) # <<>>
    BY <1>0, <1>2, <1>9, <2>1 DEF RestoreBatch, Saves
  <2>2. CASE New(Head(todo)) = <<>>
    <3>1. UNCHANGED <<life, pc, blob, store, converted, pending, running>> /\ todo' = Tail(todo)
      BY <1>9, <2>2 DEF RestoreBatch, saving, disk
    <3>2. ToSet(Head(todo)) \subseteq converted \cup Outstanding
      <4>1. ToSet(New(Head(todo))) = {}
        BY <2>2 DEF ToSet
      <4>. QED  BY <1>9, <4>1, NextBatch, NewFiles DEF RestoreBatch
    <3>3. FilesOf(todo) = ToSet(Head(todo)) \cup FilesOf(Tail(todo))
      BY <1>9, NextBatch DEF RestoreBatch
    <3>4. Outstanding' = Outstanding
      BY <3>1 DEF Outstanding
    <3>. QED  BY <1>3, <1>9, <3>1, <3>2, <3>3, <3>4 DEF RestoreBatch
  <2>. QED  BY <2>1, <2>2
<1>10. CASE RestoreDone
  BY <1>3, <1>10 DEF RestoreDone, memory, disk, saving, Outstanding
<1>11. CASE ShutdownClose \/ ShutdownDrain \/ Exit \/ Crash
  BY <1>11 DEF ShutdownClose, ShutdownDrain, Exit, Crash, Dies, CurrentOK
<1>12. CASE UNCHANGED vars
  BY <1>12 DEF vars, memory, disk, saving, CurrentOK, Tells, Listed, Outstanding, Writes, Before
<1>. QED  BY <1>1, <1>4, <1>5, <1>6, <1>7, <1>8, <1>9, <1>10, <1>11, <1>12
          DEF Next, Ends, Restore

-----------------------------------------------------------------------------
(* The theorems *)

LEMMA StoreInvariant == Spec => []IInv
<1>1. IInv /\ [Next]_vars => IInv'
  <2>1. SUFFICES ASSUME IInv, [Next]_vars PROVE IInv'
    OBVIOUS
  <2>2. Typed' /\ LifeOK'
    BY <2>1, TypedStep, LifeStep DEF IInv
  <2>3. ~harmed' => ~harmed
    <3>1. (\E s \in Goroutines : SaveStep(s)) \/ QueueStep
      BY <2>1, SaveOrQueue
    <3>. QED  BY <2>1, <3>1, SaveFrame, QueueFrame DEF IInv
  <2>4. ASSUME ~harmed'
        PROVE  Alone' /\ AddsOK' /\ KeptOK' /\ CurrentOK'
    <3>1. Typed /\ LifeOK /\ Alone /\ AddsOK /\ KeptOK /\ CurrentOK
      BY <2>1, <2>3, <2>4 DEF IInv, Unharmed
    <3>. QED  BY <2>1, <2>4, <3>1, AloneStep, AddsStep, KeptStep, CurrentStep
  <2>. QED  BY <2>2, <2>4 DEF IInv, Unharmed
<1>. QED  BY <1>1, InitOK, PTL DEF Spec

(* The variables of the saved queue keep their types, and at most one file runs. *)
THEOREM TypeCorrect == Spec => []TypeOK
BY StoreInvariant, PTL DEF IInv, Typed

(* persist: however many goroutines save and wherever the process dies, queue.json is never
   found half written, unless two writes overlapped. *)
THEOREM AlwaysReadable == Spec => []StoreReadable
<1>1. IInv => StoreReadable
  BY DEF IInv, Unharmed, Alone, StoreReadable
<1>. QED  BY <1>1, StoreInvariant, PTL

(* save: once nobody is saving, queue.json lists exactly the files still to convert. *)
THEOREM AlwaysCurrent == Spec => []StoreCurrent
<1>1. IInv => StoreCurrent
  <2>1. SUFFICES ASSUME IInv, ~harmed, life = "up", \A s \in Goroutines : pc[s] = "idle"
                 PROVE  Listed \ converted = Outstanding \ converted
    BY DEF StoreCurrent
  <2>2. Tells(Listed)
    BY <2>1 DEF IInv, Unharmed, CurrentOK, Before, Writes
  <2>3. FilesOf(todo) = {}
    BY <2>1, EmptyList DEF IInv, LifeOK
  <2>. QED  BY <2>2, <2>3 DEF Tells
<1>. QED  BY <1>1, StoreInvariant, PTL

(* persist and Restore: a file once written down is in the queue, in what Restore has still to
   take, or in queue.json, through every stop, crash and restart, until it is settled. *)
THEOREM NothingLost == Spec => []KeptUntilSettled
<1>1. IInv => KeptUntilSettled
  <2>1. SUFFICES ASSUME IInv, ~harmed, NEW f \in kept \ (settled \cup converted)
                 PROVE  IF life = "down" THEN f \in Listed
                        ELSE \/ f \in Outstanding \cup FilesOf(todo)
                             \/ life = "drained" /\ f \in Listed
    BY DEF KeptUntilSettled
  <2>2. /\ life \in {"restoring", "up", "closed"} => f \in Outstanding \cup FilesOf(todo)
        /\ life # "restoring" => f \in Listed
    BY <2>1 DEF IInv, Unharmed, KeptOK, Safe
  <2>. QED  BY <2>1, <2>2 DEF IInv, Typed, TypeOK
<1>. QED  BY <1>1, StoreInvariant, PTL

=============================================================================
