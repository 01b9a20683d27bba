SPECIFICATION ChunkerSpec
CONSTANTS
  Documents <- SomeDocuments
  SectionMin = 8
  SectionMax = 14
  ChunkSize = 8
  Overlap = 3
  Lookback = 3
  MinLen = 6
  Extend = 2
  ParagraphLookback = 8
  ParagraphMinLen = 5
INVARIANTS
  ChunkerInv
  NothingLost
  PagesCover
  OffsetsName
  UnderItsHeading
