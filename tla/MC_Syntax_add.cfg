CONSTANTS
  Bytes <- MCBytes
  Keys <- AddKeys
  CharSets <- AddCharSets
  QuotePairs <- NoPairs
  CommentPairs <- NoPairs
  AgeMax <- MCAgeMax
  Refreshing = FALSE
  NULL = NULL
SPECIFICATION Spec
VIEW NoRefreshView
INVARIANT SingleQuotesSound
