\* The file browser over an SDCARD tree with a directory whose only
\* subdirectory holds no matching file: the browser lists the directory
\* but shows an empty menu inside it.
CONSTANTS
  KeyCodes <- Keys
  QueueMax = 2
  MaxPresses = 2
  TextRows = 3
  NHeaders = 1
  Tree <- EmptyTree
  Matching <- EmptyMatching
  Den = 2
  Width = 1
  Dur = 2
  MaxTime = 0
  Commands = {}
  MaxRounds = 1
SPECIFICATION Spec
CHECK_DEADLOCK FALSE
INVARIANT BrowseNeverCrashes
