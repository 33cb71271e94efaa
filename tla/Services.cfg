CONSTANTS
  Prompts = {p1, p2}
  MaxWorkers = 1
  MaxAttempts = 3
  None = None
  Agents = {a1, a2}
  Procs = {p, q}
  Slots = 1
  Tasks = {t1}
  Teams = {m1, m2}
  MaxMessages = 1
  Modes = {"default", "acceptEdits"}
  Calls = {1, 2}
  Pieces = 2
  MaxRetries = 1
  Answers <- MCAnswers
  Events = {"pre", "post"}
  Commands = 2
  PipeSize = 1
  Payload = 2
  MaxOutput = 2
  Limits = {TRUE, FALSE}
  Helpers = TRUE
  HelpersEnd = TRUE
SPECIFICATION ServicesSpec
CHECK_DEADLOCK FALSE
INVARIANTS
  WorkersAreTrue
  PriorModeIsKept
PROPERTIES
  AgentOutcomes
  TaskOutcomes
  AnswersArrive
  Implements
  RunEnds
