SPECIFICATION Spec
CONSTANTS
  main = main
  a = a
  File = {main, a}
  Text <- MCText
  Malformed = {"broken"}
  Imports <- MCImports
  EntryModule = "entry"
  FileOf <- MCFileOf
  Closed = Closed
  TextsOf <- MCTextsOf
  DiskText <- MCDiskText
  MaxHandlers = 2
INVARIANTS TypeOK DocumentsFollowEditor QuietAnalysisIsCurrent
