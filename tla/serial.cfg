SPECIFICATION SFairSpec
CONSTANTS
  PortNames <- TwoPorts
  Port1 = "ttyUSB0"
  Port2 = "ttyUSB1"
  BUFSIZE = 13
  Crc <- SumCrc
  Lines <- Replies
  MaxLine = 9
  TxLen = 2
INVARIANTS STypeOK FramesAtSoh AcceptedIntact GoodNotRefused
PROPERTIES ReadEnds AnyPortOpens
