SPECIFICATION SFairSpec
CONSTANTS
  PortNames <- OnePort
  Port1 = "ttyUSB0"
  Port2 = "none"
  BUFSIZE = 13
  Crc <- SumCrc
  Lines <- Some
  MaxLine = 8
  TxLen = 2
PROPERTIES ReadReturns
