--------------------------- MODULE ControllerState ---------------------------
(***************************************************************************)
(* The run, story and agent state machines of domain/controller-state.ts   *)
(* and the reducer that applies a child's message to its agent: from which *)
(* statuses a transition is legal and what it makes of the record.  A      *)
(* transition from any other status throws.                                *)
(*                                                                         *)
(* Heads are numbers: an integration head is the number of merges made, a  *)
(* candidate the number of commits on its story branch, 0 for null.  The   *)
(* candidate and the integration head it was made on are always set and    *)
(* cleared together, so `reviewed` means something only with a candidate.  *)
(***************************************************************************)
EXTENDS Naturals

RunStatus == {"planning", "awaiting-approval", "ready", "active", "blocked",
              "completed", "failed", "cancelled"}

TerminalRun == {"completed", "failed", "cancelled"}

RunFrom(t) ==
  CASE t \in {"plan-approved", "plan-revision-requested"} ->
                                             {"awaiting-approval"}
    [] t = "run-started"                  -> {"ready"}
    [] t = "run-blocked"                  -> {"ready", "active"}
    [] t = "run-completed"                -> {"active"}
    [] t = "run-cancelled"                -> RunStatus \ TerminalRun

\* A pause by the parent resumes to ready: the next tick starts the run anew.
RunTo(t) ==
  CASE t = "plan-approved"           -> "ready"
    [] t = "plan-revision-requested" -> "planning"
    [] t = "run-started"             -> "active"
    [] t = "run-blocked"             -> "blocked"
    [] t = "run-completed"           -> "completed"
    [] t = "run-cancelled"           -> "cancelled"

-----------------------------------------------------------------------------
StoryStatus == {"planned", "awaiting-approval", "ready", "assigned",
                "working", "work-complete", "awaiting-candidate",
                "awaiting-review", "approved", "changes-requested",
                "merging", "merged", "blocked", "failed"}

NewStory(status, none) ==
  [status |-> status, writer |-> none, candidate |-> 0, reviewed |-> 0,
   reviewer |-> none, merge |-> 0, cleaned |-> FALSE]

StoryPlanApproved(st)          == [st EXCEPT !.status = "ready"]
StoryPlanRevisionRequested(st) == [st EXCEPT !.status = "planned"]

StoryAssigned(st, a) == [st EXCEPT !.status = "assigned", !.writer = a]

StoryWorkStarted(st, none) ==
  [st EXCEPT !.status = "working", !.candidate = 0, !.reviewed = 0,
             !.reviewer = none]

StoryWorkCompleted(st) == [st EXCEPT !.status = "work-complete"]

ReassignmentRequested(st, none) == NewStory("ready", none)

\* Mutant: the candidate head is not recorded.
CandidateCreatedHeadless(st, head, integrationHead, none) ==
  [st EXCEPT !.status = "awaiting-review", !.candidate = none,
             !.reviewed = integrationHead, !.reviewer = none]

\* candidate-requested and candidate-created, persisted as one change.
CandidateCreated(st, head, integrationHead, none) ==
  [st EXCEPT !.status = "awaiting-review", !.candidate = head,
             !.reviewed = integrationHead, !.reviewer = none]

\* review-approved and review-changes-requested.
Reviewed(st, reviewer, verdict) ==
  [st EXCEPT !.status = verdict, !.reviewer = reviewer]

\* merge-started and story-merged, persisted as one change.
StoryMerged(st, head) == [st EXCEPT !.status = "merged", !.merge = head]

-----------------------------------------------------------------------------
AgentStatus == {"planned", "launching", "idle", "working", "blocked",
                "completed", "failed", "closed"}

\* The statuses waiting, reviewing and disconnected are left out: only a lost
\* pane and transitions that nothing in the source requests lead to them.
AgentFrom(t) ==
  CASE t = "launch-requested"   -> {"planned"}
    [] t = "session-ready"      -> {"launching"}
    [] t = "operation-started"  -> {"idle"}
    [] t = "operation-finished" -> {"working"}
    [] t = "agent-blocked"      -> {"idle", "working"}
    [] t = "agent-unblocked"    -> {"blocked"}
    [] t = "agent-completed"    -> {"idle", "working"}
    [] t = "agent-failed"       -> AgentStatus \ {"completed", "failed",
                                                  "closed"}
    [] t = "agent-closed"       -> {"completed", "failed"}

AgentTo(t) ==
  CASE t = "launch-requested"   -> "launching"
    [] t = "session-ready"      -> "idle"
    [] t = "operation-started"  -> "working"
    [] t = "operation-finished" -> "idle"
    [] t = "agent-blocked"      -> "blocked"
    [] t = "agent-unblocked"    -> "working"
    [] t = "agent-completed"    -> "completed"
    [] t = "agent-failed"       -> "failed"
    [] t = "agent-closed"       -> "closed"

\* Child messages; operation-completed is told apart by its success flag.
MessageType == {"session-started", "operation-started",
                "operation-completed", "operation-failed", "agent-blocked",
                "agent-unblocked", "candidate-ready", "review-submitted",
                "session-shutdown"}

\* Messages that leave the agent as it is and are handled by the lifecycle.
SignalMessage == {"candidate-ready", "review-submitted", "session-shutdown"}

MessageTransition(m) ==
  CASE m = "session-started"     -> "session-ready"
    [] m = "operation-started"   -> "operation-started"
    [] m = "operation-completed" -> "operation-finished"
    [] m = "operation-failed"    -> "agent-failed"
    [] m = "agent-blocked"       -> "agent-blocked"
    [] m = "agent-unblocked"     -> "agent-unblocked"

\* applyAgentMessage accepts the message in this status, and what it makes
\* of it.  A success reported by a blocked agent unblocks it first.
MessageAccepted(status, m) ==
  \/ m \in SignalMessage
  \/ m = "operation-completed" /\ status = "blocked"
  \/ m \notin SignalMessage /\ status \in AgentFrom(MessageTransition(m))

ApplyAgentMessage(status, m) ==
  IF m \in SignalMessage THEN status ELSE AgentTo(MessageTransition(m))
=============================================================================
