CONSTANTS
  Bytes <- MCBytes
  Keys <- WidthKeys
  CharSets <- WidthCharSets
  QuotePairs <- NoPairs
  CommentPairs <- NoPairs
  AgeMax <- RealAgeMax
  Refreshing = FALSE
  NULL = NULL
SPECIFICATION WidthSpec
VIEW NoRefreshView
INVARIANT QuoteAgeShiftDefined
