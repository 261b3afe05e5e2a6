------------------------------ MODULE Tokenizer ------------------------------
(***************************************************************************)
(* The tokenizer in front of the ONNX model: a text is cleaned, cut into   *)
(* words and Chinese characters, the words into the pieces the vocabulary  *)
(* has, and the pieces framed and padded to the length of the model's      *)
(* input.                                                                  *)
(*                                                                         *)
(* A token is the runes it is written with, as the code's strings are: the *)
(* marks of the frame are tokens that a text may spell, too.  The id of a  *)
(* token stands for the token, since no two lines of vocab.txt have the    *)
(* same id.                                                                *)
(***************************************************************************)
EXTENDS SensitiveWords

CONSTANTS
  Han,      \* Chinese characters
  Control,  \* control characters but newline and tab; some of them are spaces, too
  Lower,    \* strings.ToLower, rune by rune
  CLS, SEP, PAD, UNK,  \* the tokens of vocab.txt that stand for no text
  Hashes,   \* "##", in front of a piece that goes on with a word
  MaxLen    \* the tokens of an input, 512 in the code

ASSUME TokenizerAssumption ==
  /\ Han \subseteq Rune \ Space
  /\ Control \subseteq Rune \ Han
  /\ Lower \in [Rune -> Rune]
  /\ {CLS, SEP, PAD, UNK, Hashes} \subseteq Seq(Rune) \ {<<>>}
  /\ UNK \notin {CLS, SEP, PAD}
  /\ \A mark \in {CLS, SEP, PAD} : mark[1] # Hashes[1]
  /\ MaxLen \in Nat \ {0, 1}

Suffix(runes) == Hashes \o runes

\* The runes of a text that are in a set.
Only(text, set) ==
  LET kept[i \in 0..Len(text)] ==
        IF i = 0 THEN <<>>
        ELSE IF text[i] \in set THEN Append(kept[i - 1], text[i]) ELSE kept[i - 1]
  IN  kept[Len(text)]

\* Lower case, unless at least half of what is left is Chinese.
CleanText(text) ==
  LET cleaned == TrimSpace(Only(text, Rune \ Control))
  IN  IF 2 * Len(Only(cleaned, Han)) >= Len(cleaned)
      THEN cleaned
      ELSE [i \in DOMAIN cleaned |-> Lower[cleaned[i]]]

\* The next piece of a word from a rune on: the longest that the vocabulary has.  A
\* rest that no piece begins is one unknown token.
Cut(vocab, word, s) ==
  LET Candidate(to) == IF s.from = 1 THEN SubSeq(word, 1, to)
                       ELSE Suffix(SubSeq(word, s.from, to))
      fits == {to \in s.from..Len(word) : Candidate(to) \in vocab}
  IN  CASE s.from > Len(word) -> s
        [] s.from <= Len(word) /\ fits = {} ->
             [tokens |-> Append(s.tokens, UNK), from |-> Len(word) + 1]
        [] s.from <= Len(word) /\ fits # {} ->
             [tokens |-> Append(s.tokens, Candidate(Max(fits))), from |-> Max(fits) + 1]

\* A word has no more pieces than runes.
WordPieceSplit(vocab, word) ==
  LET after[n \in 0..Len(word)] ==
        IF n = 0 THEN [tokens |-> <<>>, from |-> 1] ELSE Cut(vocab, word, after[n - 1])
  IN  after[Len(word)].tokens

\* The word under way is split at a space, at a Chinese character and at the end.
Flush(vocab, s) == [tokens |-> s.tokens \o WordPieceSplit(vocab, s.current), current |-> <<>>]

\* Mutant: a Chinese character does not end the word before it.
TakeUnflushed(vocab, s, r) ==
  CASE r \in Space -> Flush(vocab, s)
    [] r \in Han   -> [s EXCEPT !.tokens = Append(@, <<r>>)]
    [] OTHER       -> [s EXCEPT !.current = Append(@, r)]

Take(vocab, s, r) ==
  CASE r \in Space -> Flush(vocab, s)
    [] r \in Han   -> LET f == Flush(vocab, s)
                      IN  [f EXCEPT !.tokens = Append(@, <<r>>)]
    [] OTHER       -> [s EXCEPT !.current = Append(@, r)]

WordPieceTokenize(vocab, text) ==
  LET state[i \in 0..Len(text)] ==
        IF i = 0 THEN [tokens |-> <<>>, current |-> <<>>]
        ELSE Take(vocab, state[i - 1], text[i])
  IN  Flush(vocab, state[Len(text)]).tokens

\* Mutant: no room is left for [SEP].
TruncateToFit(tokens) == SubSeq(tokens, 1, Min({Len(tokens), MaxLen - 1}))

Truncate(tokens) == SubSeq(tokens, 1, Min({Len(tokens), MaxLen - 2}))

\* The ids and how many of them are no padding; the attention mask has as many ones.
Encode(vocab, text) ==
  LET tokens == Truncate(WordPieceTokenize(vocab, CleanText(text)))
      ids    == <<CLS>> \o [i \in DOMAIN tokens |-> IF tokens[i] \in vocab THEN tokens[i] ELSE UNK]
                  \o <<SEP>>
  IN  [ids  |-> [i \in 1..Max({Len(ids), MaxLen}) |-> IF i <= Len(ids) THEN ids[i] ELSE PAD],
       mask |-> Len(ids)]
=============================================================================
