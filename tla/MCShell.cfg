SPECIFICATION Spec
CONSTANTS
  VGA_WIDTH = 5
  VGA_HEIGHT = 3
  Keys = {"c", "h", "w", "m", "a", "e", "d", " "}
  LINE_BUF_SIZE = 7
  HISTORY_SIZE = 2
  FS_NAME_LEN = 3
  Outputs <- SomeOutput
CONSTRAINT LongLinesFirst
INVARIANTS LineShown HistoryShown ShortWordsKept
