----------------------------- MODULE MCJobQueue -----------------------------
(* Small instances of JobQueue: two sources of one name, a film to be copied. *)
EXTENDS JobQueue

CONSTANTS mkv, avi, film, o1, o2

MCRels     == {mkv, avi, film}
MCOutputs  == {o1, o2}
MCOutputOf == [r \in MCRels |-> IF r = film THEN o2 ELSE o1]
MCRemux    == {film}
MCRequests == {<<mkv, film>>, <<avi>>, <<mkv, avi>>}
MCTwins    == {<<mkv>>, <<avi>>}
MCPair     == {<<mkv, film>>}

Clients == Permutations(Callers)

=============================================================================
