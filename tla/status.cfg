SPECIFICATION BFairSpec
CONSTANTS
  N = 1
  RETRY_MAX = 2
  Addr <- OneAddr
  MaxCmds = 0
  Controls = {"DISABLE", "ENABLE"}
  ReplyAddrs = {}
  ReplySeqs = {}
  Late = FALSE
  MaxLate = 0
  Refusals = {}
  Strict = FALSE
  MaxEvents = 0
  MaxReboots = 1
  PortFails = FALSE
PROPERTIES DeadIsOffline
