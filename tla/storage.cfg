CONSTANTS
  MaxRecords = 2
  RecordSize = 4
  RecordBase = 3
  StorageSize = 12
  Page = 4
  Bytes = {0, 255}
  Blank = {255}
  AllOnes = 255
  None = None
SPECIFICATION Spec
INVARIANTS TypeOK RightByte
PROPERTIES ImplementsRecords FailsOnlyFor255
