SPECIFICATION Spec
CONSTANTS
  Sources <- MCSources
  HeaderSize = 2
  RecordSize = 2
  BlockSize = 3
  MaxPointsPerRead = 3
  SinkSize = 3
  LengthValues = 5
INVARIANTS
  AllRead
  WholeBatches
PROPERTIES
  ReaderEnds
