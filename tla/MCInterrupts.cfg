SPECIFICATION IntSpec
CONSTANTS
  Devices = {0, 1, 9}
  Fickle = {1, 9}
  FirmwareMasks <- MCFirmwareMasks
  Offset <- MCOffset
  TICKS = 5
  Sleeps = {0, 2, 4}
  Maskable = {9}
INVARIANTS IntTypeOK InterruptsReachHandlers AllAcknowledged MasksSurvive
PROPERTIES SleepsLongEnough SleepEnds
