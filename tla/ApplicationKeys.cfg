CONSTANTS
  shift = shift
  enter = enter
  sel = sel
  keyboard = keyboard
  fiveway = fiveway
  Key <- KeysAndPad
  Substitute <- SameWithPad
  ScreenshotSequence <- ShiftShift
  DeviceOrder <- TwoDevices
  DeviceOf <- PadKeyApart
  ConfigAt <- PadVersion
  Signal = {}
  DropsEvents = TRUE
  GrabFails = TRUE
  ReadMax = 1
  MaxQueue = 1
  MaxSequence = 2
  MaxDown = 3
  MaxPage = 2
SPECIFICATION Spec
INVARIANTS CapturingIsGrabbed QuietMeansNoKeysDown BarLeavesNoText
