SPECIFICATION Spec
CONSTANTS
  XRES = 8
  YRES = 5
  STATUSBAR_HEIGHT = 3
  STATUS_BAR_HEIGHT = 2
  TEXT_X = 2
  FNTWIDTH = 4
  FNTHEIGHT = 1
  default_font <- MCFont
  Binding <- MCBinding
  Disturbed <- MCDisturbed
  Name <- MCName
  Success <- MCSuccess
  Failure <- MCFailure
INVARIANTS
  TypeOK
  HotkeyFound
  TypedIsMeant
  PageRestored
  PanelShowsPage
  ScreenshotShowsPage
