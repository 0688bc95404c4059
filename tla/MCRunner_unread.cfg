SPECIFICATION Spec
CONSTANTS
  Absent = Absent
  Bad = Bad
  Names = {"a", "b"}
  Spaces = {"spectest", "M"}
  Commands <- ContextCommands
  Spectest <- TheSpectest
  Results <- OneResult
  Messages <- OneMessage
  ExpectTotal = Absent
  ExpectUnsupported = Absent
  MaxFiles = 2
  MaxCommands = 4
INVARIANT
  FailedModuleInvalidates
CHECK_DEADLOCK FALSE
