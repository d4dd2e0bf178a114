------------------------------ MODULE Evening ------------------------------
(* What is converted and what is watched.  Film and History share no variable, so a behaviour   *)
(* of both is one of each, whatever their interleaving: an evening is spent on one of the two.  *)
EXTENDS Film, History

VARIABLE evening

Init == /\ FilmInit /\ HistoryInit
        /\ evening \in {"converting", "watching"}
        /\ evening = "watching" => folder = CHOOSE d \in Folders : TRUE   \* it plays no part

Convert == evening = "converting" /\ FilmNext /\ UNCHANGED <<historyVars, evening>>

Watch == evening = "watching" /\ HistoryNext /\ UNCHANGED <<filmVars, evening>>

Next == Convert \/ Watch

Spec == Init /\ [][Next]_<<filmVars, historyVars, evening>>

\* Both halves are well typed: the history within its limit, no film on its way twice.
TypeOK == HistoryTyped /\ FilmTyped
=============================================================================
