CONSTANTS
  Bytes <- MCBytes
  Keys <- SaturateKeys
  CharSets <- SaturateCharSets
  QuotePairs <- SaturateQuotePairs
  CommentPairs <- SaturateCommentPairs
  AgeMax <- RealAgeMax
  Refreshing = FALSE
  NULL = NULL
SPECIFICATION SaturateSpec
VIEW NoRefreshView
INVARIANT TypeOK
INVARIANT QuoteAgeSafe
 
PROPERTY ChangeSyntaxIssuesFreshAge
