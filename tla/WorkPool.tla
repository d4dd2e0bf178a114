------------------------------ MODULE WorkPool ------------------------------
(***************************************************************************)
(* What the queue of ver2/internal/jobs promises about the order of work:  *)
(* an accepted job waits, takes one of Workers slots, and is over; a       *)
(* waiting job may be withdrawn; nothing starts once the pool is closed.   *)
(***************************************************************************)
EXTENDS Naturals, FiniteSets

CONSTANTS Jobs, Workers

VARIABLES open, phase

Active == {j \in Jobs : phase[j] = "active"}

Move(j, from, to) ==
    /\ phase[j] = from
    /\ phase' = [phase EXCEPT ![j] = to]
    /\ UNCHANGED open

Accept(j)   == Move(j, "absent", "waiting")
Begin(j)    == open /\ Cardinality(Active) < Workers /\ Move(j, "waiting", "active")
Withdraw(j) == Move(j, "waiting", "over")
End(j)      == Move(j, "active", "over")
Close       == open /\ open' = FALSE /\ UNCHANGED phase

Init == open = TRUE /\ phase = [j \in Jobs |-> "absent"]

Next == Close \/ \E j \in Jobs : Accept(j) \/ Begin(j) \/ Withdraw(j) \/ End(j)

Safe == Init /\ [][Next]_<<open, phase>>

\* A job does not hold its slot for ever, nor wait for one for ever.
Live ==
    /\ Safe
    /\ \A j \in Jobs : WF_<<open, phase>>(End(j))
    /\ \A j \in Jobs : SF_<<open, phase>>(Begin(j))

=============================================================================
