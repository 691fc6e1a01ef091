CONSTANTS
  Bytes <- MCBytes
  Keys <- NoKeys
  CharSets <- NoCharSets
  QuotePairs <- StripQuotePairs
  CommentPairs <- StripCommentPairs
  AgeMax <- MCAgeMax
  Refreshing = FALSE
  NULL = NULL
SPECIFICATION Spec
VIEW NoRefreshView
PROPERTY InstallersShiftOnlyTheirOwn
