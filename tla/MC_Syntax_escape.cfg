CONSTANTS
  Bytes <- MCBytes
  Keys <- EscapeKeys
  CharSets <- EscapeCharSets
  QuotePairs <- NoPairs
  CommentPairs <- NoPairs
  AgeMax <- MCAgeMax
  Refreshing = FALSE
  NULL = NULL
SPECIFICATION Spec
VIEW NoRefreshView
INVARIANT MacroEscapedExact
