CONSTANTS
  Bytes <- MCBytes
  Keys <- RefineKeys
  CharSets <- RefineCharSets
  QuotePairs <- RefineQuotePairs
  CommentPairs <- RefineCommentPairs
  AgeMax <- MCAgeMax
  Refreshing = FALSE
  NULL = NULL
SPECIFICATION Spec
VIEW NoRefreshView
PROPERTY CategoriesRefined
