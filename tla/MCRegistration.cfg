CONSTANTS
  Names <- MCNames
  NoHandler = NoHandler
  Payloads <- MCPayloads
  Sessions = {s1, s2}
  Keys = {"release"}
  Versions = {"1.0.0", "1.1.0"}
  Absent = Absent
  Committed = Committed
  Unpublished = Unpublished
SPECIFICATION FairSpec
INVARIANTS
  RegistrationTypeOK
  ValidationIsRight
  AnswersAreTrue
PROPERTIES
  ImplementsCatalog
  AlwaysAnswered
CHECK_DEADLOCK FALSE
