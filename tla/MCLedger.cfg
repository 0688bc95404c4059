SPECIFICATION Spec
CONSTANTS
  Absent = Absent
  Bad = Bad
  Names = {"a"}
  Spaces = {"spectest", "M"}
  Commands <- LedgerCommands
  Spectest <- TheSpectest
  Results <- SomeResults
  Messages <- SomeMessages
  ExpectTotal = 2
  ExpectUnsupported = 1
  MaxFiles = 2
  MaxCommands = 3
  LeftOut <- LeftOutFiles
INVARIANTS
  PassesAreEarned
  ExitSound
  BooksBalance
CHECK_DEADLOCK FALSE
