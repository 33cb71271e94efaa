CONSTANTS
  bash = bash
  edit = edit
  other = other
  a = a
  b = b
  Words <- MCWords
  Texts <- MCTexts
  NoText = NoText
  MaxRules = 3
  Tools <- MCTools
  Inputs <- MCInputs
  Rules <- MCRules
  Required <- MCRequired
  PipeSize = 1
  MaxOutput = 4
  MaxBytes = 2
  MaxFrames = 3
SPECIFICATION BoundariesSpec
CHECK_DEADLOCK FALSE
INVARIANTS
  NothingPassesUnasked
  HooksOnlyRestrict
  ConsultationsAreSafe
  CutsDoNotMatter
  ShellResults
PROPERTIES
  ModeIsMonotone
  DenyOutlivesMode
  ShellCallsEnd
