CONSTANTS
  s1 = s1
  s2 = s2
  None = None
  StoryOrder <- OneStory
  Dependencies <- NoDependency
  Team <- NoTeam
  MaxAgents = 4
  MaxRetry = 0
  RequiresApproval = FALSE
  Faults = {"pane"}
  Messages = {"session-started", "operation-started", "candidate-ready", "review-submitted", "session-shutdown"}
  Verdicts = {"approved"}
  Controls = {}
SPECIFICATION Spec
PROPERTIES
  UnmergedWorkKept
CHECK_DEADLOCK FALSE
