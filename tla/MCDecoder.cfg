\* The constants of the framing of short files and of numbers; MCDecoder has
\* the other parts
CONSTANTS
  Lengths <- ShortFiles
  Sizes <- ShortSizes
  Counts <- ShortCounts
  Ids <- AllIds
  MaxWidth = 2
  MaxToken = 3
  MaxDepth = 1
  MaxLocals = 1
  Payload = 3
  Acc = 10
  Widths <- SomeWidths
  TypeBytes <- SomeTypeBytes
  None = None
SPECIFICATION DecoderSpec
INVARIANTS TypeOK FilesTile StructureDecides LocalsBounded NumbersAreTheirs EntriesAreTheirs
PROPERTY PositionsOnlyGrow
CHECK_DEADLOCK FALSE
