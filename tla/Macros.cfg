\* Three blocks of tokens in one module or two; all rows of three tokens.
SPECIFICATION Spec
CONSTANTS
  Texts <- SmallTexts
  Identifiers <- Names
  LiteralTokens <- Numbers
  Paths <- Strings
  Calls <- CallTokens
INVARIANT TypeOK
PROPERTIES
  KeepsMacroPromise
  PreprocessingEnds
\* A program has so many modules.
CHECK_DEADLOCK FALSE
