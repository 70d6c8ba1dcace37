SPECIFICATION BSpec
CONSTANTS
  N = 1
  RETRY_MAX = 2
  Addr <- OneAddr
  MaxCmds = 1
  Controls = {}
  ReplyAddrs = {}
  ReplySeqs = {}
  Late = TRUE
  MaxLate = 1
  Refusals = {}
  Strict = FALSE
  MaxEvents = 0
  MaxReboots = 1
  PortFails = FALSE
INVARIANTS ReplyAnswersPoll
