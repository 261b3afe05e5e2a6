------------------------------ MODULE Screening ------------------------------
(***************************************************************************)
(* What becomes of the text of a post: CreatePost scans it for sensitive   *)
(* words and refuses it when there are any; what passes is asked about     *)
(* and encoded for the model.                                              *)
(***************************************************************************)
EXTENDS Tokenizer, FiniteSets

CONSTANTS
  WordLists,  \* lists of words the matcher may be built from
  Vocabs,     \* vocabularies of a model
  Texts       \* texts of a post

\* Only [CLS] is asked for when a vocabulary is read; any other token of the frame that
\* is not there has the id 0, whatever token that is.
ASSUME ScreeningAssumption ==
  /\ WordLists \subseteq Seq(Seq(Rune))
  /\ Texts \subseteq Seq(Rune)
  /\ \A v \in Vocabs : {CLS, SEP, PAD, UNK} \subseteq v

VARIABLES
  words,       \* the list the matcher was built from
  dfaMatcher,  \* the trie
  vocab,       \* the vocabulary of the tokenizer
  request      \* the CreatePost under way

screeningVars == <<words, dfaMatcher, vocab, request>>

NoRequest == [at |-> "idle"]

ScreeningTypeOK ==
  /\ words \in WordLists
  /\ \A n \in DOMAIN dfaMatcher, r \in Rune :
       dfaMatcher[n].children[r] \in {Nowhere} \cup 2..Len(dfaMatcher)
  /\ vocab \in Vocabs
  /\ request.at \in {"idle", "scanned", "refused", "encoded"}
  /\ request # NoRequest => request.text \in Texts

newDFAMatcher ==
  /\ words \in WordLists
  /\ dfaMatcher = Build(words)

NewBertTokenizerFromFile == vocab \in Vocabs

ScreeningInit ==
  /\ newDFAMatcher
  /\ NewBertTokenizerFromFile
  /\ request = NoRequest

\* The scan of title and content, one text with a newline between them.
ScanSensitive(t) ==
  /\ request = NoRequest
  /\ request' = [at |-> "scanned", text |-> t, hits |-> Match(dfaMatcher, t)]
  /\ UNCHANGED <<words, dfaMatcher, vocab>>

Refuse ==
  /\ request.at = "scanned"
  /\ request.hits # <<>>
  /\ request' = [request EXCEPT !.at = "refused"]
  /\ UNCHANGED <<words, dfaMatcher, vocab>>

Infer ==
  /\ request.at = "scanned"
  /\ request.hits = <<>>
  /\ request' = [at |-> "encoded", text |-> request.text, input |-> Encode(vocab, request.text)]
  /\ UNCHANGED <<words, dfaMatcher, vocab>>

Respond ==
  /\ request.at \in {"refused", "encoded"}
  /\ request' = NoRequest
  /\ UNCHANGED <<words, dfaMatcher, vocab>>

ScreeningNext ==
  \/ \E t \in Texts : ScanSensitive(t)
  \/ Refuse
  \/ Infer
  \/ Respond

ScreeningSpec == ScreeningInit /\ [][ScreeningNext]_screeningVars

-----------------------------------------------------------------------------
(* Properties *)

\* The runes of a token stand in a text, one after the other.
Spells(text, token) ==
  \E i, j \in DOMAIN text : token = SubSeq(text, i, j)

\* The scan finds every place where a word of the list stands, words inside and across
\* one another included, nothing else and nothing twice, in the order of the text.
HitsAreOccurrences ==
  request.at \in {"scanned", "refused"} =>
    LET hits == request.hits
    IN  /\ {hits[k] : k \in DOMAIN hits} = Occurrences(words, request.text)
        /\ Len(hits) = Cardinality(Occurrences(words, request.text))
        /\ \A k \in 2..Len(hits) : hits[k - 1].start <= hits[k].start

\* The input of the model always has its fixed length: [CLS], tokens, [SEP], padding;
\* the mask covers all but the padding, and a token of the frame is inside only where the
\* text spells it.
InputIsFramed ==
  request.at = "encoded" =>
    LET ids == request.input.ids
        end == request.input.mask
    IN  /\ Len(ids) = MaxLen
        /\ end \in 2..MaxLen
        /\ ids[1] = CLS /\ ids[end] = SEP
        /\ \A i \in 2..(end - 1) :
             ids[i] \in {CLS, SEP, PAD} => Spells(CleanText(request.text), ids[i])
        /\ \A i \in (end + 1)..MaxLen : ids[i] = PAD

\* What the tokens of an input say, without the frame and the spaces.
Spelled(input) ==
  LET Runes(token) == IF IsPrefix(Hashes, token)
                      THEN SubSeq(token, Len(Hashes) + 1, Len(token))
                      ELSE token
  IN  FlattenSeq([i \in 1..(input.mask - 2) |-> Runes(input.ids[i + 1])])

\* A vocabulary that can say every rune says the text, rune by rune and in order, as
\* far as the input reaches: what is cut into pieces is neither lost nor moved.
InputSpellsText ==
  request.at = "encoded" =>
    LET text == Only(CleanText(request.text), Rune \ Space)
        said == {r \in Rune : /\ <<r>> \in vocab
                              /\ r \in Han \/ Suffix(<<r>>) \in vocab
                              /\ r # Hashes[1]}
    IN  {text[i] : i \in DOMAIN text} \subseteq said =>
          /\ IsPrefix(Spelled(request.input), text)
          /\ request.input.mask < MaxLen => Spelled(request.input) = text
=============================================================================
