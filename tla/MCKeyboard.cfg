SPECIFICATION FairSpec
CONSTANTS
  KEYBOARD_BUFFER_SIZE = 3
  Letters = {a}
  Symbols = {one}
  Dead = {ctrl}
  NoChar = NoChar
  MaxWire = 1
INVARIANT ShiftNotStuck
PROPERTIES ImplementsCharQueue CharactersArrive
