CONSTANTS
  shift = shift
  enter = enter
  sel = sel
  keyboard = keyboard
  fiveway = fiveway
  Key <- TwoKeys
  Substitute <- Same
  ScreenshotSequence <- ShiftShift
  DeviceOrder <- OneDevice
  DeviceOf <- AllOnKeyboard
  ConfigAt <- TwoVersions
  Signal = {"HUP", "TERM", "INT"}
  DropsEvents = FALSE
  GrabFails = FALSE
  ReadMax = 2
  MaxQueue = 2
  MaxSequence = 1
  MaxDown = 3
  MaxPage = 1
SPECIFICATION FairSpec
INVARIANTS TypeOK NoLostReload OneConfigurationPerSequence
PROPERTIES GrabReleased ReloadHappens ShutdownCompletes BarHidden
