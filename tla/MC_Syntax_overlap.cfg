CONSTANTS
  Bytes <- MCBytes
  Keys <- NoKeys
  CharSets <- NoCharSets
  QuotePairs <- OverlapQuotePairs
  CommentPairs <- NoPairs
  AgeMax <- MCAgeMax
  Refreshing = FALSE
  NULL = NULL
SPECIFICATION Spec
VIEW NoRefreshView
INVARIANT SingleCommentsSound
