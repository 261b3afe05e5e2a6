--------------------------- MODULE SensitiveWords ----------------------------
(***************************************************************************)
(* The matcher of sensitive words (pkg/sensitive): a trie built from a     *)
(* list of words, and the scan of a text that walks the trie from every    *)
(* rune of it.  A hit gives its place in bytes, although the scan goes by  *)
(* runes.                                                                  *)
(*                                                                         *)
(* A trie is the sequence of its nodes, and a child is its place there.    *)
(* The texts of a gRPC request are valid UTF-8, so that a rune has as many *)
(* bytes in the text as in its own encoding.                               *)
(***************************************************************************)
EXTENDS Naturals, Sequences, SequencesExt

CONSTANTS
  Rune,   \* the runes texts are made of
  Space,  \* those that strings.TrimSpace takes off
  Width   \* the bytes of a rune in UTF-8

ASSUME RuneAssumption ==
  /\ Space \subseteq Rune
  /\ Width \in [Rune -> 1..4]

TrimSpace(s) ==
  LET kept == {i \in DOMAIN s : s[i] \notin Space}
  IN  IF kept = {} THEN <<>> ELSE SubSeq(s, Min(kept), Max(kept))

-----------------------------------------------------------------------------
(* The trie                                                                *)

Root == 1

\* Not a node: the child that is not there.
Nowhere == 0

NewNode == [children |-> [r \in Rune |-> Nowhere], word |-> <<>>]

NewDFAMatcher == <<NewNode>>

\* Mutant: a child that is there is replaced by a new one.
DescendAnew(at, r) ==
  LET new == Len(at.trie) + 1
  IN  [trie |-> Append([at.trie EXCEPT ![at.node].children[r] = new], NewNode), node |-> new]

\* The child of a node, made unless it is there; at is a trie and a node of it.
Descend(at, r) ==
  LET child == at.trie[at.node].children[r]
      new   == Len(at.trie) + 1
  IN  IF child # Nowhere
      THEN [at EXCEPT !.node = child]
      ELSE [trie |-> Append([at.trie EXCEPT ![at.node].children[r] = new], NewNode),
            node |-> new]

Insert(trie, w) ==
  LET at[i \in 0..Len(w)] ==
        IF i = 0 THEN [trie |-> trie, node |-> Root] ELSE Descend(at[i - 1], w[i])
      end == at[Len(w)]
  IN  [end.trie EXCEPT ![end.node].word = w]

\* Words are trimmed, and those with nothing left are skipped.
Build(words) ==
  LET trie[k \in 0..Len(words)] ==
        IF k = 0 THEN NewDFAMatcher
        ELSE IF TrimSpace(words[k]) = <<>> THEN trie[k - 1]
             ELSE Insert(trie[k - 1], TrimSpace(words[k]))
  IN  trie[Len(words)]

-----------------------------------------------------------------------------
(* The scan                                                                *)

\* The bytes of the first i runes of a text.
ByteOffsets(text) ==
  LET offset[i \in 0..Len(text)] ==
        IF i = 0 THEN 0 ELSE offset[i - 1] + Width[text[i]]
  IN  offset

\* The runes from i to j of a text, as the place of a word.
Hit(w, text, i, j) ==
  [word |-> w, start |-> ByteOffsets(text)[i - 1], end |-> ByteOffsets(text)[j]]

\* One rune further down; the walk is over where there is no child.
Walk(trie, text, i, s, j) ==
  LET child == trie[s.node].children[text[j]]
  IN  CASE s.node = Nowhere -> s
        [] s.node # Nowhere /\ child = Nowhere -> [s EXCEPT !.node = Nowhere]
        [] s.node # Nowhere /\ child # Nowhere ->
             [node |-> child,
              hits |-> IF trie[child].word = <<>> THEN s.hits
                       ELSE Append(s.hits, Hit(trie[child].word, text, i, j))]

\* The hits of a walk from rune i, after those of the walks before it.
MatchFrom(trie, text, i, hits) ==
  LET walk[k \in 0..(Len(text) - i + 1)] ==
        IF k = 0 THEN [node |-> Root, hits |-> hits]
        ELSE Walk(trie, text, i, walk[k - 1], i + k - 1)
  IN  walk[Len(text) - i + 1].hits

Match(trie, text) ==
  LET results[i \in 0..Len(text)] ==
        IF i = 0 THEN <<>> ELSE MatchFrom(trie, text, i, results[i - 1])
  IN  results[Len(text)]

-----------------------------------------------------------------------------
(* What the scan is to find                                                *)

\* Every place of the text where a word of the list stands, trimmed.
Occurrences(words, text) ==
  LET listed == {TrimSpace(words[k]) : k \in DOMAIN words} \ {<<>>}
      places == {p \in (DOMAIN text) \X (DOMAIN text) : SubSeq(text, p[1], p[2]) \in listed}
  IN  {Hit(SubSeq(text, p[1], p[2]), text, p[1], p[2]) : p \in places}
=============================================================================
