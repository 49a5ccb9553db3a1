\* One text edited by splices of up to two runes, one of them above U+FFFF, and a client cursor made at rune or UTF-16 indexes.
CONSTANTS
  Key = {"k"}
  Rune = {"a", "U"}
  Astral = {"U"}
  Slot = {1}
  MaxOp = 5
  MaxLen = 3
  MaxIndex = 5
SPECIFICATION Spec
INVARIANTS
  TypeOK
  CursorTracksEdits
  IndexConversionRoundTrip
