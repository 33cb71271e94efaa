CONSTANTS
  Tools <- MCTools
  Rules <- MCRules
  Required <- MCRequired
  NoText = NoText
  InputNames <- MCNames
  InputOf <- MCInputOf
  TurnPolicies <- MCPolicies
  Answers <- MCAnswers
  Hooked = TRUE
  HasPrompter = TRUE
  Drivers = {"repl", "tab"}
  PushMayFail = TRUE
  MaxIterations = 2
  Threshold = 2
  Preserve = 2
  Usages = {1}
  MaxTurns = 2
  MaxCalls = 2
  Servers = {s1, s2}
  NoServer = NoServer
  MaxOps = 2
  MaxPages = 1
  MaxProcs = 2
  MaxSpawns = 2
  MaxNoise = 1
SPECIFICATION EngineSpec
CHECK_DEADLOCK FALSE
INVARIANTS
  RunsWhatWasAllowed
  RequestsArePaired
  ResultsAreTrue
  ServersInStep
PROPERTIES
  TurnsEndWell
  OperationsEnd
