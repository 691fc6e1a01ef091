CONSTANTS
  Bytes <- MCBytes
  Keys <- QuoteKeys
  CharSets <- QuoteCharSets
  QuotePairs <- QuoteQuotePairs
  CommentPairs <- QuoteCommentPairs
  AgeMax <- MCAgeMax
  Refreshing = FALSE
  NULL = NULL
SPECIFICATION Spec
VIEW NoRefreshView
INVARIANT TypeOK
INVARIANT SingleFlagsHaveSingleDelims
INVARIANT QuoteAgeSafe
 
PROPERTY CheckersRepair
