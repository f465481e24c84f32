CONSTANTS
  fbreader_ini = fbreader_ini
  launchpad_ini = launchpad_ini
  servicecmds_ini = servicecmds_ini
  FileOrder <- MCOrder
  LaunchpadIni = launchpad_ini
  Key = {"Shift", "Enter", "A"}
  ScreenshotSequence <- ShiftShift
  Text <- MCText
  Missing = Missing
  MaxEdits = 1
SPECIFICATION Spec
INVARIANTS LoadedIsMeant
