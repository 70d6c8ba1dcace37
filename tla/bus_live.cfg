SPECIFICATION BFairSpec
CONSTANTS
  N = 1
  RETRY_MAX = 2
  Addr <- OneAddr
  MaxCmds = 2
  Controls = {}
  ReplyAddrs = {}
  ReplySeqs = {}
  Late = FALSE
  MaxLate = 0
  Refusals = {}
  Strict = TRUE
  MaxEvents = 0
  MaxReboots = 1
  PortFails = FALSE
PROPERTIES QueueDrains DeadIsOffline AliveComesOnline
