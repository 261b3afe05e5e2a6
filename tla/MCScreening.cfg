SPECIFICATION ScreeningSpec
CONSTANTS
  Rune <- MCRune
  Space <- MCSpace
  Width <- MCWidth
  Han <- MCHan
  Control <- MCControl
  Lower <- MCLower
  CLS <- MCCLS
  SEP <- MCSEP
  PAD <- MCPAD
  UNK <- MCUNK
  Hashes <- MCHashes
  MaxLen = 5
  WordLists <- MCWordLists
  Vocabs <- MCVocabs
  Texts <- MCTexts
INVARIANTS
  HitsAreOccurrences
  InputIsFramed
  InputSpellsText
