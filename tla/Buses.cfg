SPECIFICATION BusSpec
CONSTANTS
  QSize = 2
  Delta = 2
  MaxReq = 3
  Horizon = 7
  Envs <- Safe
  SpiConf <- TwoModes
  SpiQSize = 2
  SpiEnvs <- SpiSafe
  SpiMaxReq = 4
  UartQSize = 2
  UartEnvs <- UartSafe
  UartHorizon = 15
  Ms = 3
  ByteTime = 1
  Lens = {2, 5}
  MaxTx = 3
  RxSize = 2
  MaxRx = 3
  LogQSize = 2
  LogMAXLEN = 6
  LogColor = 1
  LogTexts = {1, 3, 6}
  LogMaxMsg = 3
  Parts = {"I2C", "SPI", "UART", "Log"}
INVARIANTS Sound InOrder CalledIffTransferred FreeBus SpiServed UartTransmitted UartReceived LogHeard
PROPERTY AllGetsOut
CHECK_DEADLOCK FALSE
