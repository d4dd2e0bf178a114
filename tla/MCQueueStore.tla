---------------------------- MODULE MCQueueStore ----------------------------
(***************************************************************************)
(* Small instances of QueueStore.  Every property of the passing run is    *)
(* void once harmed, which never becomes FALSE again, so the run follows   *)
(* harmed behaviours only as long as the first process lives.              *)
(***************************************************************************)
EXTENDS QueueStore

CONSTANTS a1, a2, b1, A, B

MCBatches == {A, B}

\* Two batches of one file, and one of two followed by one of one.
Singles == [b \in MCBatches |-> IF b = A THEN <<a1>> ELSE <<b1>>]
Folder  == [b \in MCBatches |-> IF b = A THEN <<a1, a2>> ELSE <<b1>>]

HarmIsFirst == harmed => boots = 1 /\ life = "up" /\ converted = {}

=============================================================================
