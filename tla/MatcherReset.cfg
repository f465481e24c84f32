CONSTANTS
  shift = shift
  enter = enter
  a = a
  k3_a = k3_a
  Key <- MCKey
  Substitute <- MCSubstitute
  Introducer = shift
  Trailer = enter
  MaxSequence = 3
SPECIFICATION ResetSpec
INVARIANTS TypeOK CountsKeys AllUpResynchronises
PROPERTIES CaptureStartsOnTap SessionWhileSynced
