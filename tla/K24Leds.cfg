CONSTANTS
  LastColor = 2
  Commanded = {1}
SPECIFICATION Spec
INVARIANTS PinsSpellStatus PressAndRestore
PROPERTY ButtonsHandled
