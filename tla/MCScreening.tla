----------------------------- MODULE MCScreening -----------------------------
(* Texts of up to four runes of five kinds, some with a carriage return, which  *)
(* is both a space and a control character; lists of up to two of eight words   *)
(* that begin, contain and overlap one another, three vocabularies, and inputs  *)
(* of five tokens, so that texts are cut off.                                   *)
EXTENDS Screening

MCRune    == {"a", "A", "wei", "space", "cr", "bell", "#", "[", "C", "c", "S", "P", "U"}
MCSpace   == {"space", "cr"}
MCHan     == {"wei"}
MCControl == {"bell", "cr"}
MCWidth   == [r \in MCRune |-> IF r = "wei" THEN 3 ELSE 1]
MCLower   == [r \in MCRune |-> CASE r = "A" -> "a" [] r = "C" -> "c" [] OTHER -> r]

\* Marks of two runes: the first one is in no other token.
MCCLS    == <<"[", "C">>
MCSEP    == <<"[", "S">>
MCPAD    == <<"[", "P">>
MCUNK    == <<"[", "U">>
MCHashes == <<"#", "#">>

MCWords ==
  {<<"space">>, <<"a">>, <<"wei">>, <<"a", "wei">>, <<"a", "wei", "a">>,
   <<"wei", "a">>, <<"wei", "wei">>, <<"space", "A", "space", "a">>}
MCWordLists == BoundedSeq(MCWords, 2)

\* Runes one by one; longer pieces, too; a suffix that never begins a word.
MCMarks   == {MCCLS, MCSEP, MCPAD, MCUNK}
MCSingles == MCMarks \cup {<<r>> : r \in {"a", "A", "wei"}} \cup {MCHashes \o <<r>> : r \in {"a", "A"}}
MCVocabs ==
  {MCSingles,
   MCSingles \cup {<<"a", "a">>, MCHashes \o <<"a", "a">>},
   MCMarks \cup {<<"a", "a">>, MCHashes \o <<"a">>}}

\* Texts of the alphabet, texts with carriage returns at their ends and within, and
\* texts that spell a mark or a suffix.
MCTexts ==
  BoundedSeq({"a", "A", "wei", "space", "bell"}, 4)
    \cup BoundedSeq({"a", "space", "cr", "bell"}, 3)
    \cup BoundedSeq({"#", "[", "C", "a", "wei"}, 4)
=============================================================================
