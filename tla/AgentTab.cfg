CONSTANTS
  MaxTurns = 2
  MaxAgents = 2
  MaxTools = 1
  Preserve = 4
  StartMayFail = TRUE
  NoFile = NoFile
  Contents <- MCContents
  Absent = Absent
  Broken = Broken
  Error = Error
  MaxFiles = 3
SPECIFICATION TabSpec
CHECK_DEADLOCK FALSE
INVARIANTS
  QuestionsArePaired
  IdleAgentIsSaved
  LaterFilesWin
PROPERTIES
  NoToolAfterCancel
  ThreadsEnd
