SPECIFICATION FSpec
CONSTANTS
  Slaves <- OneSlave
  MaxCmds = 3
  Fragments = 2
  MaxAnswers = 4
INVARIANTS FTypeOK AnAnswerEach PassedIsStored NeverBackwards
CHECK_DEADLOCK FALSE
