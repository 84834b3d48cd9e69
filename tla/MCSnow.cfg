SPECIFICATION FairSpec
CONSTANTS
  MaxDni = 2
  MaxPowerCycles = 2
  StatErrors = FALSE
INVARIANTS TypeOK RebootOnce NodeIPAfterReboot SuccessIsReady
PROPERTIES NoDataLoss Converges
CHECK_DEADLOCK FALSE
