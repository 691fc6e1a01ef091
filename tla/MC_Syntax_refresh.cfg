CONSTANTS
  Bytes <- MCBytes
  Keys <- RefreshKeys
  CharSets <- RefreshCharSets
  QuotePairs <- RefreshQuotePairs
  CommentPairs <- NoPairs
  AgeMax <- MCAgeMax
  Refreshing = TRUE
  NULL = NULL
SPECIFICATION Spec
VIEW RefreshView
INVARIANT TypeOK
PROPERTY RefreshRestores
