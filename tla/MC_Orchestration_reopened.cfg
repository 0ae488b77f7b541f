CONSTANTS
  s1 = s1
  s2 = s2
  None = None
  StoryOrder <- OneStory
  Dependencies <- NoDependency
  Team <- NoTeam
  MaxAgents = 4
  MaxRetry = 0
  RequiresApproval = FALSE
  Faults = {}
  Messages = {"session-started", "operation-started", "candidate-ready", "review-submitted", "session-shutdown"}
  Verdicts = {"approved"}
  Controls = {"close"}
SPECIFICATION Spec
PROPERTIES
  TerminalClosed
CHECK_DEADLOCK FALSE
