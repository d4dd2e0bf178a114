----------------------------- MODULE MCCatalog -----------------------------
(* A small instance of Catalog: a film to convert, which is taken to play until it is looked *)
(* into, and one that plays as it is, was converted all the same, and has white space before *)
(* its dot.                                                                                  *)
EXTENDS Catalog, TLC

CONSTANTS r1, r2

File(dir, base, ext, blank) == [dir |-> dir, base |-> base, ext |-> ext, blank |-> blank]

One == File(<<"show">>, "one", "mp4", FALSE)

Two == File(<<"show">>, "two", "mov", TRUE)

MCTitles == {One, Two}

MCFixed == {Two}

MCEarlier == {Two}

\* A preview the NAS keeps for itself, and a text.
MCJunk == {File(<<"show", "@eaDir">>, "one", "mp4", FALSE), File(<<>>, "notes", "txt", FALSE)}

MCOutDir == <<"converted">>

MCReady == {Two}

Symmetric == Permutations(Requests)
=============================================================================
