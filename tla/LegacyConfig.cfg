SPECIFICATION Spec
CONSTANTS
  File = {f1, f2}
  Text <- MCText
  KeydefsText <- MCKeydefsText
  Missing = Missing
  default_input_keys <- MCKeys
  MAXSEQ = 2
  MAXKEYS = 3
  MAXCODE = 255
  SHIFT = 42
  ENTER = 28
  MaxEdits = 1
SYMMETRY MCSymmetry
INVARIANTS
  BindingsAreMeant
  SettingsAreMeant
  RceIsReset
  KeyNamesAreMeant
