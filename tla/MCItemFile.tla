----------------------------- MODULE MCItemFile -----------------------------
(***************************************************************************)
(* Small values for ItemFile: every form of a line at the indents that two *)
(* levels of lists and maps have, and at an odd one.                       *)
(***************************************************************************)
EXTENDS ItemFile

Key   == 1
Other == 2
Word  == Text("word", Key, None)

(* What can stand behind a key.                                            *)
Rests == {Word, Empty, Quote(Word), Bar, Indented(Quote(Word), 1)}

Entries == {Pair(Key, r) : r \in Rests} \cup {BareKey(Key)}

MCLines ==
  LET forms == Entries \cup {Empty, Word, Dashed(Empty), Dashed(Word), BareKey(Tab),
                             Dashed(Pair(Tab, Word))}
                 \cup {Dashed(e) : e \in Entries}
      At(S, n) == {Indented(t, n) : t \in S}
  IN  At(forms, 0) \cup At(forms, 2) \cup At({Pair(Key, Word), Empty}, 1)
        \cup At({Pair(Key, Word), Pair(Key, Bar), BareKey(Key), Dashed(Pair(Key, Word)), Word,
                Empty}, 4)

Begin(lines) == File(FALSE, FALSE, TRUE, <<Marker>> \o lines)

(* Two levels of lists, as Languages and Versions are, a map, a block, and *)
(* a key alone.                                                            *)
Started ==
  { Begin(<<BareKey(Key), Dashed(BareKey(Key)), Indented(Dashed(Pair(Key, Word)), 2)>>),
    Begin(<<BareKey(Key), Indented(BareKey(Key), 2)>>),
    Begin(<<Pair(Key, Bar), Indented(Word, 2)>>),
    Begin(<<BareKey(Key)>>) }

(* Without an end, with other ends, with two kinds of ends, without ---.   *)
MCOpenings ==
  LET one == Begin(<<Pair(Key, Word)>>)
  IN  Started \cup { Begin(<<>>), File(FALSE, FALSE, FALSE, <<Marker>>),
                     [one EXCEPT !.bom = TRUE, !.crlf = TRUE], [one EXCEPT !.odd = 2],
                     [one EXCEPT !.odd = 2, !.crlf = TRUE], [one EXCEPT !.utf8 = 2],
                     File(FALSE, FALSE, TRUE, <<Word>>) }

MCNewValues ==
  {<<t>> : t \in {Word, Empty, Bar, Marker, Quote(Word), Pair(Key, Word), Pair(Key, Quote(Word)),
                  Pair(Key, Empty), BareKey(Key), Dashed(Empty), Indented(Word, 1),
                  Indented(Empty, 2), Text("escape", Key, None), Pair(Tab, Word)}}
    \cup {<<Empty, Word>>, <<Word, Empty, Indented(Word, 2)>>, <<Word, Indented(Empty, 2)>>,
          <<Pair(Key, Bar), Dashed(Word)>>}

MCFieldKeys == <<Key, Other, Key>>

(* A name that is read back as it is written; Bar and Quote(Word) are not.  *)
MCHints == {Pair(Key, Bar)}
=============================================================================
