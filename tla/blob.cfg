SPECIFICATION QFairSpec
CONSTANTS
  MaxCmds = 5
INVARIANTS QTypeOK Anchored NoLeak FrontStable
PROPERTIES PushEnds
