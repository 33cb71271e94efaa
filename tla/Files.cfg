CONSTANTS
  RotateAfter = 2
  MaxRotated = 1
  MayFail = TRUE
  Torn = FALSE
  OpensAny = FALSE
  NoPath = NoPath
  MaxMessages = 4
  MaxClock = 4
  MaxCrashes = 2
  Sessions = {s1, s2, old}
  Retitled = {old}
  N = 2
  Modes = {ask, allow}
  MaxTurns = 1
  External = {e}
  Bundled = {b}
  MaxVersion = 2
  Procs = {p, q}
  MaxAge = 2
  None = None
  Empty = Empty
  Garbled = Garbled
  lineA = lineA
  lineB = lineB
  Callers = {m, n}
  NewTexts <- FilesTexts
  Alphabet <- FilesAlphabet
  MaxWrite = 3
  Missing = Missing
  MaxCells = 15
  Context = 1
  MaxPatchLines = 3
  Details <- FilesDetails
  NoticeChars = 4
  Budgets <- FilesBudgets
  MaxLines = 4
  Caches = {c, d}
  Asks = {r}
  CompletionTtl = 2
  PromptTtl = 1
  CacheReads = {0, 1}
  MinDrop = 1
  NoEntry = NoEntry
  MaxNow = 3
SPECIFICATION FilesSpec
CHECK_DEADLOCK FALSE
INVARIANTS
  SessionFiles
  ReplSessions
  PluginDirectories
  CredentialsFile
  FileContents
  FileEdits
  SummariesFit
  CachedPrompts
