-------------------------------- MODULE Sift --------------------------------
(* Taking elements out of a sequence: the loops over a queue that keep some of it, in order. *)
EXTENDS Naturals, Sequences

\* s with what is in gone taken out; a recursive function, because tlapm does not open SelectSeq.
Without(s, gone) ==
    LET kept[i \in 0 .. Len(s)] == IF i = 0 THEN <<>>
                                   ELSE IF s[i] \in gone THEN kept[i - 1]
                                   ELSE Append(kept[i - 1], s[i])
    IN  kept[Len(s)]

=============================================================================
