SPECIFICATION BSpec
CONSTANTS
  N = 1
  RETRY_MAX = 2
  Addr <- OneAddr
  MaxCmds = 2
  Controls = {}
  ReplyAddrs = {}
  ReplySeqs = {}
  Late = FALSE
  MaxLate = 0
  Refusals = {"NAK", "BUSY"}
  Strict = FALSE
  MaxEvents = 1
  MaxReboots = 1
  PortFails = TRUE
INVARIANTS BTypeOK PopsWhatWasSent InOrderOnce SeqSync ReplyAnswersPoll NoEventLost AckedExecuted
PROPERTIES ImplementsChannel
