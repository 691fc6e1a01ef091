CONSTANTS
  Bytes <- MCBytes
  Keys <- CommentKeys
  CharSets <- CommentCharSets
  QuotePairs <- CommentQuotePairs
  CommentPairs <- CommentCommentPairs
  AgeMax <- MCAgeMax
  Refreshing = FALSE
  NULL = NULL
SPECIFICATION Spec
VIEW NoRefreshView
INVARIANT TypeOK
INVARIANT SingleFlagsHaveSingleDelims
INVARIANT QuoteAgeSafe
 
PROPERTY CheckersRepair
