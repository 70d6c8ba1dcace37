SPECIFICATION FairSpec
CONSTANTS
  N = 2
  RETRY_MAX = 2
  Addr <- TwoAddrs
  MaxCmds = 2
  Controls = {"DISABLE", "ENABLE", "OTHER"}
  ReplyAddrs = {129}
  ReplySeqs = {0, 3}
INVARIANTS TypeOK DeadlineSet StatusTruthful
PROPERTIES NoStarvation DisabledLeftAlone
