----------------------------- MODULE MCEvening -----------------------------
(* Small instances of Film and of History.                                                      *)
EXTENDS Evening, TLC

CONSTANTS e1, e2, t1, t2, t3

MCfilms == <<e1, e2>>

Stream(lang, bitmap) == [lang |-> lang, hint |-> FALSE, bitmap |-> bitmap, text |-> "lines"]

English == <<Stream("eng", FALSE)>>
KoreanOnly == <<Stream("kor", FALSE)>>
PicturesToo == <<Stream("kor", TRUE), Stream("eng", FALSE)>>

\* A track tagged as English with a title that says Korean.
Mistagged == <<Stream("kor", TRUE), [Stream("eng", FALSE) EXCEPT !.hint = TRUE]>>

Sidecar(name, place, named, tag, hangul) ==
    [name |-> name, place |-> place, named |-> named, tag |-> (e1 :> "" @@ e2 :> tag),
     hint |-> FALSE, hangul |-> hangul, bitmap |-> FALSE, text |-> "lines"]

\* A subtitle of its own beside each film, the first untagged and in Korean.
Own == <<Sidecar("one.smi", "dir", {e1}, "", TRUE),
         Sidecar("two.eng.srt", "dir", {e2}, "eng", FALSE)>>

\* One that is in Subs/, and one that cannot be read in Subs/ under the second film's name.
Shared == <<Sidecar("extra, for both.smi", "Subs", {}, "", TRUE),
            [Sidecar("two.srt", e2, {}, "", FALSE) EXCEPT !.text = "none"]>>

Folder(first, second, beside) ==
    [streams |-> (e1 :> first @@ e2 :> second), sidecars |-> beside, copyable |-> {e1}]

MCFolders == {Folder(English, KoreanOnly, <<>>), Folder(English, Mistagged, Shared),
              Folder(PicturesToo, English, Own)}

MCTitles == {t1, t2, t3}

Symmetric == Permutations(MCTitles)

MCPlaces == {0}

=============================================================================
