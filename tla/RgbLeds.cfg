CONSTANTS
  COLOR_NONE = none
  COLOR_RED = red
  Color = {none, red}
SPECIFICATION Spec
INVARIANTS StatusMatchesLed PressAndRestore
PROPERTIES ButtonHandled
