CONSTANTS
  Word = 64
  BlockSize = 2
  DiskSize = 12
  Gpt <- MCTable
  Absent = "nosuch"
  ByteValues = {100, 101}
  ByteOffsets <- MCOffsets
  MaxBytes = 3
  MaxWrites = 1
SPECIFICATION IoSpec
INVARIANT WritesHonourContract
