CONSTANTS
  s1 = s1
  s2 = s2
  None = None
  StoryOrder <- OneStory
  Dependencies <- NoDependency
  Team <- AdvisorOnly
  MaxAgents = 4
  MaxRetry = 1
  RequiresApproval = TRUE
  Faults = {"crash", "pane", "session", "launch", "empty", "late-write", "inexact"}
  Messages = {"session-started", "operation-started", "operation-completed", "operation-failed", "candidate-ready", "review-submitted", "session-shutdown"}
  Verdicts = {"approved", "changes-requested"}
  Controls = {"approve", "approve-story", "reject", "pause", "resume", "steer", "close", "dismiss", "execute"}
SPECIFICATION Spec
INVARIANTS
  TypeOK
  LeaseFollowsAssignment
  MergedAsReviewed
PROPERTIES
  MergedIsFinal
CHECK_DEADLOCK FALSE
