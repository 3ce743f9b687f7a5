SPECIFICATION DevSpec
CONSTANTS
  Boxes = {0, 1}
  TxSize = 1
  QSize = 1
  MaxReq = 3
  MaxOther = 1
  Horizon = 4
  Envs <- AllEnvs
  ODriveSlots = 2
  ODriveOut = 1
  ODrivePeriod = 2
  ODriveEnvs <- ODriveSafe
  ODriveMaxReq = 4
  ODriveHorizon = 3
  BnoBus = 3
  BnoSlots = 2
  BnoOps = 2
  BnoLens = {1, 2}
  BnoEnvs <- BnoSafe
  BnoMaxReq = 2
  BnoMaxMsg = 2
  PdoNodes = {1, 2}
  PdoNs = {1, 4}
  PdoWidth <- McWidth
  PdoMap <- McMap
  PdoPreset <- OwnMap
  PdoIntBits = 2
  PdoEnvs <- PdoSafe
  PdoMaxEnable = 2
  Parts = {"BNO085"}
INVARIANT BnoTransactionSent
CHECK_DEADLOCK FALSE
