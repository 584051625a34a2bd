\* Three threads of ui.c: menus and the file browser over a tree whose
\* listings are never empty, the progress commands (a timed scope racing
\* the codec callbacks), and key presses arriving at any time.
CONSTANTS
  KeyCodes <- Keys
  QueueMax = 2
  MaxPresses = 3
  TextRows = 3
  NHeaders = 1
  Tree <- BrowseTree
  Matching <- BrowseMatching
  Den = 2
  Width = 1
  Dur = 2
  MaxTime = 2
  Commands <- AllCommands
  MaxRounds = 2
SPECIFICATION Spec
\* The recovery waits at its menus for keys that may never come.
CHECK_DEADLOCK FALSE
INVARIANTS TypeOK KeysInOrder BrowseSelectsMatchingFile
PROPERTIES ProgressNeverBacksUp KeyPressReachesMenu
