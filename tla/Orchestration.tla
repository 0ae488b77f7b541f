---------------------------- MODULE Orchestration ----------------------------
(***************************************************************************)
(* One controller process delivering a run: the bounded drain of the       *)
(* orchestration loop and its effects (launches, merges, cleanups), the    *)
(* lifecycle that child messages drive, and the parent controls.           *)
(*                                                                         *)
(* Child messages and ticks pass one after the other through the           *)
(* executor's queue: `job` is the operation at its head.  At an await that *)
(* operation is suspended and a parent control may load and commit: what   *)
(* the job loaded before is then stale.  Between two steps without an      *)
(* await only a crash can fall.  The writer lease, the launch of an agent  *)
(* and the Git worktrees change as the effects run, long before the tick   *)
(* commits the stories they belong to.                                     *)
(*                                                                         *)
(* Clock, expiry and fencing are the subject of ControllerRepository.      *)
(***************************************************************************)
EXTENDS ControllerState, Scheduling

CONSTANTS Team,              \* sequence of the TeamActions the run asks for
          MaxRetry,          \* bound: retry attempts of one agent role
          RequiresApproval,  \* the complexity mode asks for plan confirmation
          Faults,            \* which of FaultKind may happen
          Messages,          \* which of MessageType the children send
          Verdicts,          \* which outcomes reviewers submit
          Controls,          \* which of ControlAction the parent uses
          None               \* SQL NULL

FaultKind == {"crash",       \* the controller process dies
              "pane",        \* no pane can be allocated
              "session",     \* the private session cannot be created
              "launch",      \* the child fails to launch in its pane
              "empty",       \* a writer submits without having changed a file
              "late-write",  \* a writer goes on writing after its candidate
             "inexact"}     \* a review names other heads than its assignment

Verdict == {"approved", "changes-requested"}

ControlAction == {"approve", "approve-story", "reject", "pause", "resume",
                  "steer", "close", "dismiss",
                  "execute"}   \* orchestration.execute of a management client

ASSUME TeamAssumption     == Team \in Seq(TeamAction)
ASSUME RetryAssumption    == MaxRetry \in Nat
ASSUME ApprovalAssumption == RequiresApproval \in BOOLEAN
ASSUME InputAssumption    ==
  /\ Faults \subseteq FaultKind
  /\ Messages \subseteq MessageType
  /\ Verdicts \subseteq Verdict
  /\ Controls \subseteq ControlAction

\* Which agents there can be: a team member works on the primary story.
Slot == [kind : Elements(Team), story : {PrimaryStory}]
          \cup [kind : {"assign-story", "assign-reviewer"}, story : Story]

AgentId == [kind : Elements(Team) \cup {"assign-story", "assign-reviewer"},
            story : Story, attempt : 0 .. MaxRetry]

ASSUME NoneAssumption == None \notin AgentId /\ None \notin Story

Writers   == {a \in AgentId : a.kind = "assign-story"}
Reviewers == {a \in AgentId : a.kind = "assign-reviewer"}

VARIABLES
  controller,  \* the process: "ready", "gated" by recovery, "down", or
               \* "quarantined" because its database failed verification
  run,         \* runs.status
  story,       \* the stories rows
  agent,       \* the agents rows: a status, or "absent"
  confirmed,   \* agents whose agent_launches row is confirmed
  pane,        \* agents whose recorded pane exists
  lease,       \* writer_leases: the owner of each story, or None
  tree,        \* the story worktree and branch of each story
  staged,      \* the story whose merge is in the index, not yet committed
  mainline,    \* the merges on the integration branch
  approvals,   \* the review-approved rows of controller_events
  job          \* the executor operation in progress

vars == <<controller, run, story, agent, confirmed, pane, lease, tree, staged,
          mainline, approvals, job>>

launchVars == <<confirmed, pane>>
gitVars    == <<tree, staged, mainline>>

Steps == {"idle",                               \* no operation
          "message", "authorized",              \* a child message
          "released", "recorded",               \* its candidate
          "tick", "act", "staged",              \* a tick
          "provisioned", "leased", "launching"} \* its launch

Idle == [step |-> "idle", agent |-> None, message |-> None, todo |-> <<>>,
         run |-> None, story |-> None, stale |-> FALSE, acted |-> FALSE,
         managed |-> FALSE]

NoTree == [present |-> FALSE, base |-> 0, head |-> 0, dirty |-> FALSE]

StoryRow == [status : StoryStatus, writer : AgentId \cup {None},
             candidate : Nat, reviewed : Nat,
             reviewer : AgentId \cup {None}, merge : Nat, cleaned : BOOLEAN]
Merge    == [story : Story, candidate : Nat, base : Nat]

TypeOK ==
  /\ controller \in {"ready", "gated", "down", "quarantined"}
  /\ run \in RunStatus
  /\ story \in [Story -> StoryRow]
  /\ agent \in [AgentId -> AgentStatus \cup {"absent"}]
  /\ confirmed \subseteq AgentId /\ pane \subseteq AgentId
  /\ lease \in [Story -> AgentId \cup {None}]
  /\ tree \in [Story -> [present : BOOLEAN, base : Nat, head : Nat,
                         dirty : BOOLEAN]]
  /\ staged \in Story \cup {None}
  /\ mainline \in Seq(Merge)
  /\ approvals \subseteq Merge
  /\ job \in [step : Steps, agent : AgentId \cup {None},
              message : MessageType \cup {None}, todo : Seq(Action),
              run : RunStatus \cup {None},
              story : [Story -> StoryRow] \cup {None},
              stale : BOOLEAN, acted : BOOLEAN, managed : BOOLEAN]

\* run.initialize commits the prepared run: nothing is launched before it.
Init ==
  LET prepared == IF RequiresApproval THEN "awaiting-approval" ELSE "ready" IN
  /\ controller = "ready"
  /\ run = prepared
  /\ story = [s \in Story |-> NewStory(prepared, None)]
  /\ agent = [a \in AgentId |-> "absent"]
  /\ confirmed = {} /\ pane = {}
  /\ lease = [s \in Story |-> None]
  /\ tree = [s \in Story |-> NoTree]
  /\ staged = None
  /\ mainline = <<>>
  /\ approvals = {}
  /\ job = Idle

Serving         == controller \in {"ready", "gated"}
IntegrationHead == Len(mainline)

\* Mutant: a reservation counts only once its session has started.
OccupiedOnceStarted ==
  {a \in AgentId :
     agent[a] \notin {"absent", "closed", "planned", "launching"}}

\* Every persisted agent reserves a slot until it is closed.
Occupied == {a \in AgentId : agent[a] \notin {"absent", "closed"}}

\* #assertWriterLeaseSnapshotConsistency, a condition of every commitSnapshot
\* and of the verification when the database is opened.
ConsistentWith(leases, stories, agents) ==
  \A s \in Story : leases[s] # None =>
    /\ stories[s].writer = leases[s]
    /\ agents[leases[s]] \notin {"absent", "closed"}
    /\ stories[s].status \in {"assigned", "working", "work-complete",
                              "changes-requested", "blocked"}

Consistent(stories, agents) == ConsistentWith(lease, stories, agents)

IsLaunch(todo) == todo # <<>> /\ todo[1].type \in LaunchAction

\* The operation in progress is suspended at an await (or there is none).
Suspended ==
  \/ job.step \in {"idle", "authorized", "provisioned", "launching"}
  \/ job.step = "act" /\ IsLaunch(job.todo)

\* A thrown error ends the operation.
Abort == job' = Idle

-----------------------------------------------------------------------------
(* Parent controls: loaded, decided and committed in one turn.             *)

CanQuit ==
  /\ run \notin {"blocked", "failed"}
  /\ \A s \in Story : story[s].status \in {"work-complete", "merged"}
  /\ \A a \in AgentId : agent[a] \in {"absent", "idle", "completed", "closed"}

\* Approving every story that still waits, or sending all of them back.
Approved(st) ==
  IF st.status = "awaiting-approval" THEN StoryPlanApproved(st) ELSE st
SentBack(st) ==
  IF st.status = "awaiting-approval"
    THEN StoryPlanRevisionRequested(st) ELSE st

CommitControl(nextRun, nextStory) ==
  /\ Suspended /\ Serving
  /\ Consistent(nextStory, agent)
  /\ run' = nextRun
  /\ story' = nextStory
  /\ job' = [job EXCEPT !.stale = (job.step # "idle")]
  /\ UNCHANGED <<controller, agent, launchVars, lease, gitVars, approvals>>

ControlRun(t, nextStory) ==
  /\ run \in RunFrom(t)
  /\ CommitControl(RunTo(t), nextStory)

ApproveStory(s) ==
  LET approved == [story EXCEPT ![s] = StoryPlanApproved(@)] IN
  /\ run = "awaiting-approval" /\ story[s].status = "awaiting-approval"
  /\ CommitControl(IF \A x \in Story : approved[x].status = "ready"
                     THEN RunTo("plan-approved") ELSE run, approved)

\* Resuming a run its parent paused makes it ready, not active.
Resume == run = "blocked" /\ CommitControl("ready", story)

\* Steering only records an event for a registered agent: a new revision.
Steer ==
  /\ job.step # "idle" /\ ~job.stale
  /\ \E a \in AgentId : agent[a] # "absent"
  /\ CommitControl(run, story)

ParentControl ==
  \/ "approve" \in Controls
     /\ ControlRun("plan-approved", [s \in Story |-> Approved(story[s])])
  \/ "approve-story" \in Controls /\ \E s \in Story : ApproveStory(s)
  \/ "reject" \in Controls
     /\ ControlRun("plan-revision-requested",
                   [s \in Story |-> SentBack(story[s])])
  \/ "pause" \in Controls /\ ControlRun("run-blocked", story)
  \/ "resume" \in Controls /\ Resume
  \/ "steer" \in Controls /\ Steer
  \/ "close" \in Controls /\ ControlRun("run-cancelled", story)
  \/ "dismiss" \in Controls /\ CanQuit /\ ControlRun("run-cancelled", story)

-----------------------------------------------------------------------------
(* Child messages and the lifecycle they drive.                            *)

\* A writer changes files in its worktree while it works.
WriteFiles(a) ==
  LET s == a.story IN
  /\ a \in Writers /\ agent[a] = "working"
  /\ tree[s].present /\ ~tree[s].dirty
  /\ \/ "late-write" \in Faults
     \/ /\ story[s].candidate = 0
        /\ job.step \notin {"authorized", "released", "recorded"}
  /\ tree' = [tree EXCEPT ![s].dirty = TRUE]
  /\ UNCHANGED <<controller, run, story, agent, launchVars, lease, staged,
                 mainline, approvals, job>>

MessageJob(step, a, m) ==
  [Idle EXCEPT !.step = step, !.agent = a, !.message = m]

\* The message is committed to its agent first.  While recovery gates the
\* controller the operation then fails: no lifecycle, no tick.  Only some
\* messages have a lifecycle handler or trigger a tick.
ReceiveMessage(a, m) ==
  /\ job.step = "idle" /\ Serving
  /\ m \in Messages \ {"candidate-ready", "review-submitted"}
  /\ agent[a] # "absent" /\ MessageAccepted(agent[a], m)
  /\ LET applied == [agent EXCEPT ![a] = ApplyAgentMessage(agent[a], m)] IN
       Consistent(story, applied) /\ agent' = applied
  /\ job' = IF controller = "ready"
                /\ m \notin {"session-started", "agent-blocked",
                             "agent-unblocked"}
              THEN MessageJob("message", a, m) ELSE Idle
  /\ UNCHANGED <<controller, run, story, launchVars, lease, gitVars,
                 approvals>>

\* Evidence is recorded as a signal; then the snapshot is loaded and the
\* authority of the sender's role is looked up, which awaits.
ReceiveEvidence(a, m) ==
  /\ job.step = "idle" /\ controller = "ready"
  /\ m \in Messages
  /\ \/ m = "candidate-ready" /\ a \in Writers
     \/ m = "review-submitted" /\ a \in Reviewers
  /\ agent[a] \in {"idle", "working"}
  /\ m = "candidate-ready" =>
       \/ "empty" \in Faults
       \/ tree[a.story].dirty \/ story[a.story].candidate > 0
  /\ Consistent(story, agent)
  /\ job' = MessageJob("authorized", a, m)
  /\ UNCHANGED <<controller, run, story, agent, launchVars, lease, gitVars,
                 approvals>>

TickJob == [Idle EXCEPT !.step = "tick"]

Handling(step, m) == job.step = step /\ job.message = m

\* A lifecycle handler commits what it made of the aggregate and goes on to
\* its next step; a commit that is refused ends the operation.  Nothing it
\* read can be stale here: its message was committed in this very turn.
Lifecycle(nextStory, nextAgent, nextJob) ==
  /\ IF Consistent(nextStory, nextAgent)
       THEN story' = nextStory /\ agent' = nextAgent /\ job' = nextJob
       ELSE UNCHANGED <<story, agent>> /\ Abort
  /\ UNCHANGED <<controller, run, launchVars, lease, gitVars, approvals>>

\* The story its sender writes, in one of these statuses.
WritesStory(a, statuses) ==
  story[a.story].writer = a /\ story[a.story].status \in statuses

StartWriterWork ==
  LET a == job.agent
      starts == WritesStory(a, {"assigned", "work-complete"})
                  /\ lease[a.story] = a
  IN
  /\ Handling("message", "operation-started")
  /\ Lifecycle(IF starts
                 THEN [story EXCEPT ![a.story] = StoryWorkStarted(@, None)]
                 ELSE story,
               agent, Idle)

\* Mutant: what the writer still does counts whatever became of its story.
CompleteWriterWorkLate ==
  LET a == job.agent IN
  /\ Handling("message", "operation-completed")
  /\ Lifecycle(IF story[a.story].writer = a
                 THEN [story EXCEPT ![a.story] = StoryWorkCompleted(@)]
                 ELSE story,
               agent, TickJob)

\* Work that was never reported as started is started and completed at once.
CompleteWriterWork ==
  LET a == job.agent
      Completed(st) == StoryWorkCompleted(
        IF st.status = "assigned" THEN StoryWorkStarted(st, None) ELSE st)
  IN
  /\ Handling("message", "operation-completed")
  /\ Lifecycle(IF WritesStory(a, {"assigned", "working"})
                 THEN [story EXCEPT ![a.story] = Completed(@)] ELSE story,
               agent, TickJob)

\* A reported failure has failed the agent; its story is left as it is.
ReportFailure ==
  /\ Handling("message", "operation-failed")
  /\ Lifecycle(story, agent, TickJob)

SettledWriter(a) ==
  /\ WritesStory(a, {"awaiting-review", "approved", "merging", "merged"})
  /\ lease[a.story] = None

SettledReviewer(a) ==
  /\ story[a.story].reviewer = a
  /\ story[a.story].status \in {"changes-requested", "approved", "merging",
                                "merged"}

\* Mutant: the agent is closed, but no tick follows.
CloseSettledAgentQuietly ==
  LET a == job.agent
      settled == agent[a] # "closed"
                   /\ (SettledWriter(a) \/ SettledReviewer(a))
  IN
  /\ Handling("message", "session-shutdown")
  /\ Lifecycle(story,
               IF settled THEN [agent EXCEPT ![a] = "closed"] ELSE agent,
               Idle)

\* The agent is completed first unless it has failed; from any other status
\* closing throws.  An agent that is not settled is left alone.
CloseSettledAgent ==
  LET a == job.agent
      settled  == agent[a] # "closed"
                    /\ (SettledWriter(a) \/ SettledReviewer(a))
      closable == agent[a] \in AgentFrom("agent-completed")
                                 \cup AgentFrom("agent-closed")
  IN
  /\ Handling("message", "session-shutdown")
  /\ Lifecycle(story,
               IF settled /\ closable
                 THEN [agent EXCEPT ![a] = AgentTo("agent-closed")] ELSE agent,
               IF settled /\ ~closable THEN Idle ELSE TickJob)

EvidenceStep == UNCHANGED <<controller, run, agent, launchVars, staged,
                            mainline>>

\* Creating the candidate: the writer lease is released first.
ReleaseForCandidate ==
  LET s == job.agent.story IN
  /\ Handling("authorized", "candidate-ready")
  /\ WritesStory(job.agent, {"assigned", "working", "work-complete"})
  /\ lease[s] = job.agent
  /\ tree[s].present
  /\ lease' = [lease EXCEPT ![s] = None]
  /\ job' = [job EXCEPT !.step = "released"]
  /\ EvidenceStep
  /\ UNCHANGED <<story, tree, approvals>>

\* A candidate that is already there is accepted again; anything else that
\* does not fit throws.
KeepCandidate ==
  LET s == job.agent.story IN
  /\ Handling("authorized", "candidate-ready")
  /\ \/ ~WritesStory(job.agent, {"assigned", "working", "work-complete"})
     \/ lease[s] # job.agent
     \/ ~tree[s].present
  /\ IF WritesStory(job.agent, {"awaiting-review"}) THEN job' = TickJob
                                                     ELSE Abort
  /\ EvidenceStep
  /\ UNCHANGED <<story, lease, tree, approvals>>

\* createCandidateCommit: the integration head must be an ancestor of the
\* story branch, and there must be changes to commit.
CommitCandidate ==
  LET s == job.agent.story IN
  /\ job.step = "released"
  /\ IF tree[s].base = IntegrationHead /\ tree[s].dirty
       THEN /\ tree' = [tree EXCEPT ![s].head = @ + 1, ![s].dirty = FALSE]
            /\ job' = [job EXCEPT !.step = "recorded"]
       ELSE UNCHANGED tree /\ Abort
  /\ EvidenceStep
  /\ UNCHANGED <<story, lease, approvals>>

\* The snapshot was loaded before the await: a control in between makes this
\* commit stale, and unlike a tick's it is not tried again.
RecordCandidate ==
  LET s == job.agent.story
      next == [story EXCEPT ![s] =
                 CandidateCreated(@, tree[s].head, IntegrationHead, None)]
  IN
  /\ job.step = "recorded"
  /\ IF ~job.stale /\ Consistent(next, agent)
       THEN story' = next /\ job' = TickJob
       ELSE UNCHANGED story /\ Abort
  /\ EvidenceStep
  /\ UNCHANGED <<lease, tree, approvals>>

\* Mutant: the live heads are not compared with the reviewed ones.
ReviewAcceptedUnchecked(a, st) ==
  /\ st.reviewer = a /\ st.writer # a
  /\ st.status = "awaiting-review"
  /\ tree[a.story].present

\* recordReview accepts the assigned reviewer's evidence while both live
\* heads are still the ones that were put to review.
ReviewAccepted(a, st) ==
  /\ st.reviewer = a /\ st.writer # a
  /\ st.status = "awaiting-review"
  /\ tree[a.story].present
  /\ tree[a.story].head = st.candidate
  /\ IntegrationHead = st.reviewed

\* A decision sent again is accepted when it is the recorded one; evidence
\* for other heads than the assigned ones throws.
RecordReview(verdict, exact) ==
  LET a  == job.agent
      s  == a.story
      st == story[s]
      next == [story EXCEPT ![s] = Reviewed(@, a, verdict)]
      recorded == st.reviewer = a /\ st.writer # a
                    /\ (\/ st.status = verdict
                        \/ verdict = "approved" /\ st.status = "merged")
  IN
  /\ Handling("authorized", "review-submitted")
  /\ exact \/ "inexact" \in Faults
  /\ IF exact /\ ReviewAccepted(a, st) /\ ~job.stale
          /\ Consistent(next, agent)
       THEN /\ story' = next
            /\ approvals' = IF verdict # "approved" THEN approvals
                            ELSE approvals \cup
                                   {[story |-> s, candidate |-> st.candidate,
                                     base |-> st.reviewed]}
            /\ job' = TickJob
       ELSE /\ UNCHANGED <<story, approvals>>
            /\ IF exact /\ recorded THEN job' = TickJob ELSE Abort
  /\ EvidenceStep
  /\ UNCHANGED <<lease, tree>>

-----------------------------------------------------------------------------
(* The tick: load, decide, perform the effects one by one, commit.         *)

\* projectStory: what a tick sees of a story.
Projection(s) ==
  LET r == story[s].reviewer IN
  [status           |-> story[s].status,
   reviewerAssigned |-> r # None,
   reviewerClosed   |-> r # None /\ agent[r] = "closed",
   workspaceCleaned |-> story[s].cleaned]

\* A team member counts as launched unless its launch is unconfirmed.
Launched(kind) ==
  \E a \in AgentId : /\ a.kind = kind /\ agent[a] # "absent"
                     /\ agent[a] = "launching" => a \in confirmed

TeamLaunches ==
  LET missing == Selected(Team, {kind \in TeamAction : ~Launched(kind)})
  IN  [i \in 1 .. Len(missing) |->
         [type |-> missing[i], story |-> PrimaryStory]]

Admitted ==
  ReserveAgentLaunchCapacity(
    TeamLaunches \o PlanOrchestration([s \in Story |-> Projection(s)]),
    Cardinality(Occupied))

TickStep == UNCHANGED <<controller, approvals>>

\* A thrown error ends the whole drain; what a management client asked for
\* then also blocks the run, unless that commit is refused too.
TickFails(leases) ==
  /\ Abort
  /\ run' = IF job.managed /\ run \in RunFrom("run-blocked")
                /\ ConsistentWith(leases, story, agent)
              THEN RunTo("run-blocked") ELSE run

\* A tick starts after a child message, after a tick that acted, or because
\* the parent or a management client asks for it: that request is not gated
\* by recovery.
TickDue(managed) ==
  \/ job.step = "tick" /\ job.managed = managed
  \/ job.step = "idle" /\ Serving /\ (managed => "execute" \in Controls)

LoadTick(managed) ==
  /\ TickDue(managed)
  /\ run = "ready" \/ (run = "active" /\ Admitted # <<>>)
  /\ job' = [Idle EXCEPT !.step = "act", !.todo = Admitted,
                         !.run = "active", !.story = story,
                         !.acted = (Admitted # <<>>), !.managed = managed]
  /\ TickStep
  /\ UNCHANGED <<run, story, agent, launchVars, lease, gitVars>>

\* Nothing may be done, or nothing is left to do: the drain ends.
QuietTick ==
  /\ job.step = "tick"
  /\ run \notin {"ready", "active"} \/ (run = "active" /\ Admitted = <<>>)
  /\ Abort
  /\ TickStep
  /\ UNCHANGED <<run, story, agent, launchVars, lease, gitVars>>

Acting(type) ==
  /\ job.step = "act" /\ job.todo # <<>>
  /\ job.todo[1].type = type

Acted(next) ==
  job' = [job EXCEPT !.step = "act", !.todo = Tail(@), !.agent = None,
                     !.story = next]

\* Mutant: the candidate is merged onto whatever the head is now.
MergeReadyAnyHead(s) ==
  LET st == job.story[s] IN
  /\ lease[s] = None
  /\ tree[s].present /\ ~tree[s].dirty /\ tree[s].head = st.candidate

\* mergeCandidate's conditions on lease, candidate worktree and head.
MergeReady(s) ==
  LET st == job.story[s] IN
  /\ lease[s] = None
  /\ tree[s].present /\ ~tree[s].dirty /\ tree[s].head = st.candidate
  /\ st.reviewed = IntegrationHead
  /\ staged \in {None, s}

\* Mutant: a head that moved is taken for the merge already made.
MergeRecoversAnyAdvance(s) ==
  LET st == job.story[s] IN
  /\ lease[s] = None /\ staged = None
  /\ tree[s].present /\ ~tree[s].dirty /\ tree[s].head = st.candidate
  /\ IntegrationHead > st.reviewed

\* The head moved on, but by this very merge: its commit is taken over.
MergeRecovers(s) ==
  LET st == job.story[s] IN
  /\ lease[s] = None /\ staged = None
  /\ tree[s].present /\ ~tree[s].dirty /\ tree[s].head = st.candidate
  /\ IntegrationHead > 0
  /\ mainline[IntegrationHead] = [story |-> s, candidate |-> st.candidate,
                       base |-> st.reviewed]

\* git merge --no-commit, unless an interrupted merge of the same candidate
\* is found in the index.
StageMerge ==
  LET s == job.todo[1].story IN
  /\ Acting("request-merge")
  /\ MergeReady(s)
  /\ staged' = s
  /\ job' = [job EXCEPT !.step = "staged"]
  /\ TickStep
  /\ UNCHANGED <<run, story, agent, launchVars, lease, tree, mainline>>

\* git commit, then merge-started and story-merged on the tick's own copy.
CommitMerge ==
  LET s  == job.todo[1].story
      st == job.story[s]
  IN
  /\ job.step = "staged"
  /\ mainline' = Append(mainline, [story |-> s, candidate |-> st.candidate,
                                   base |-> st.reviewed])
  /\ staged' = None
  /\ Acted([job.story EXCEPT ![s] = StoryMerged(@, IntegrationHead + 1)])
  /\ TickStep
  /\ UNCHANGED <<run, story, agent, launchVars, lease, tree>>

RecoverMerge ==
  LET s == job.todo[1].story IN
  /\ Acting("request-merge")
  /\ ~MergeReady(s) /\ MergeRecovers(s)
  /\ Acted([job.story EXCEPT ![s] = StoryMerged(@, IntegrationHead)])
  /\ TickStep
  /\ UNCHANGED <<run, story, agent, launchVars, lease, gitVars>>

\* cleanupStoryWorkspace: merged by its own operation, its writer closed,
\* nothing uncommitted.
CleanUpReady(s) ==
  LET st == job.story[s] IN
  /\ mainline[st.merge] = [story |-> s, candidate |-> st.candidate,
                           base |-> st.reviewed]
  /\ lease[s] = None
  /\ st.writer # None => agent[st.writer] = "closed"
  /\ tree[s].present => ~tree[s].dirty /\ tree[s].head = st.candidate

CleanUp ==
  LET s == job.todo[1].story IN
  /\ Acting("request-cleanup")
  /\ CleanUpReady(s)
  /\ tree' = [tree EXCEPT ![s] = NoTree]
  /\ Acted([job.story EXCEPT ![s].cleaned = TRUE])
  /\ TickStep
  /\ UNCHANGED <<run, story, agent, launchVars, lease, staged, mainline>>

Delivered(s) == job.story[s].status = "merged"

\* An effect that is denied throws, and the whole tick is lost.
FailEffect ==
  /\ \/ Acting("request-merge") /\ ~MergeReady(job.todo[1].story)
                                /\ ~MergeRecovers(job.todo[1].story)
     \/ Acting("request-cleanup") /\ ~CleanUpReady(job.todo[1].story)
     \/ Acting("complete-run") /\ \E s \in Story : ~Delivered(s)
  /\ TickFails(lease)
  /\ TickStep
  /\ UNCHANGED <<story, agent, launchVars, lease, gitVars>>

CompleteRun ==
  /\ Acting("complete-run") /\ \A s \in Story : Delivered(s)
  /\ job' = [job EXCEPT !.todo = Tail(@), !.run = RunTo("run-completed")]
  /\ TickStep
  /\ UNCHANGED <<run, story, agent, launchVars, lease, gitVars>>

-----------------------------------------------------------------------------
(* A launch: Git worktree, pane, session, writer lease, materialization,   *)
(* process, confirmation.                                                  *)

\* ControllerAgentFactory: the first identity of the role until it has
\* ended, then always one attempt more than any before.
AgentFor(kind, s) ==
  LET first    == [kind |-> kind, story |-> s, attempt |-> 0]
      attempts == {n \in 0 .. MaxRetry :
                     agent[[first EXCEPT !.attempt = n]] # "absent"}
  IN  IF agent[first] \in {"completed", "failed", "closed"}
        THEN [first EXCEPT !.attempt =
                1 + CHOOSE n \in attempts : \A m \in attempts : n >= m]
        ELSE first

OwnsTree(a) == a.kind # "assign-project-manager"

\* provisionGit creates the story worktree at the integration head, or keeps
\* the one that exists; the Project Manager works on the integration branch.
ProvisionGit ==
  LET a == AgentFor(job.todo[1].type, job.todo[1].story)
      s == a.story
  IN
  /\ job.step = "act" /\ IsLaunch(job.todo)
  /\ a \in AgentId
  /\ tree' = IF OwnsTree(a) /\ ~tree[s].present
               THEN [tree EXCEPT ![s] =
                       [NoTree EXCEPT !.present = TRUE,
                                      !.base = IntegrationHead]]
               ELSE tree
  /\ job' = [job EXCEPT !.step = "provisioned", !.agent = a]
  /\ TickStep
  /\ UNCHANGED <<run, story, agent, launchVars, lease, staged, mainline>>

\* rollbackStoryWorkspace: a clean worktree is removed with its branch,
\* whoever created it; a dirty one makes the rollback fail and stays.
RollBackTree(a) ==
  IF OwnsTree(a) /\ tree[a.story].present /\ ~tree[a.story].dirty
    THEN [tree EXCEPT ![a.story] = NoTree] ELSE tree

\* The pane is not allocated, or the session fails and the pane is released.
FailProvision ==
  /\ job.step = "provisioned"
  /\ \/ "pane" \in Faults /\ UNCHANGED pane
     \/ "session" \in Faults /\ pane' = pane \ {job.agent}
  /\ tree' = RollBackTree(job.agent)
  /\ TickFails(lease)
  /\ TickStep
  /\ UNCHANGED <<story, agent, confirmed, lease, staged, mainline>>

SlotAvailable(a) ==
  agent[a] # "absent" \/ Cardinality(Occupied) < MaxAgents

\* materializeAgentLaunch accepts a new agent, one that was only planned, or
\* one whose launch is repeated in the same pane.
Materializable(a) ==
  /\ agent[a] \in {"absent", "planned", "launching"}
  /\ agent[a] = "launching" => a \in pane
  /\ SlotAvailable(a)

\* acquireWriterLease: nobody else is assigned or holds the lease.
LeaseGranted(a) ==
  /\ story[a.story].writer \in {None, a}
  /\ lease[a.story] \in {None, a}
  /\ agent[a] \notin {"failed", "completed", "closed"}
  /\ SlotAvailable(a)

\* Mutant: the lease is granted, but the assignment not persisted with it.
AcquireLeaseUnassigned ==
  LET a == job.agent IN
  /\ job.step = "provisioned"
  /\ a \in Writers /\ LeaseGranted(a)
  /\ lease' = [lease EXCEPT ![a.story] = a]
  /\ agent' = [agent EXCEPT ![a] = IF @ = "absent" THEN "planned" ELSE @]
  /\ job' = [job EXCEPT !.step = "leased"]
  /\ TickStep
  /\ UNCHANGED <<run, story, launchVars, gitVars>>

\* The assignment and the planned agent are persisted with the lease.
AcquireLease ==
  LET a == job.agent IN
  /\ job.step = "provisioned"
  /\ a \in Writers /\ LeaseGranted(a)
  /\ lease' = [lease EXCEPT ![a.story] = a]
  /\ story' = [story EXCEPT ![a.story].writer = a]
  /\ agent' = [agent EXCEPT ![a] = IF @ = "absent" THEN "planned" ELSE @]
  /\ job' = [job EXCEPT !.step = "leased"]
  /\ TickStep
  /\ UNCHANGED <<run, launchVars, gitVars>>

ReadyToMaterialize ==
  \/ job.step = "leased"
  \/ job.step = "provisioned" /\ job.agent \notin Writers

Materialize ==
  LET a == job.agent IN
  /\ ReadyToMaterialize /\ Materializable(a)
  /\ agent' = [agent EXCEPT ![a] = "launching"]
  /\ pane' = pane \cup {a}
  /\ job' = [job EXCEPT !.step = "launching"]
  /\ TickStep
  /\ UNCHANGED <<run, story, confirmed, lease, gitVars>>

\* The lease is refused, or the agent is: an acquired lease is released,
\* session, pane and worktree are rolled back, the tick is lost.
RefuseLaunch ==
  LET a == job.agent IN
  /\ \/ job.step = "provisioned" /\ a \in Writers /\ ~LeaseGranted(a)
     \/ ReadyToMaterialize /\ ~Materializable(a)
  /\ lease' = IF job.step = "leased" THEN [lease EXCEPT ![a.story] = None]
                                     ELSE lease
  /\ pane' = pane \ {a}
  /\ tree' = RollBackTree(a)
  /\ TickFails(lease')
  /\ TickStep
  /\ UNCHANGED <<story, agent, confirmed, staged, mainline>>

\* The process does not start: what was materialized stays for a retry.
FailLaunch ==
  /\ job.step = "launching"
  /\ "launch" \in Faults
  /\ TickFails(lease)
  /\ TickStep
  /\ UNCHANGED <<story, agent, launchVars, lease, gitVars>>

\* What the effect makes of the story it launched for.
Assigned(st, a) ==
  CASE a \in Writers ->
         StoryAssigned(IF st.status = "changes-requested"
                         THEN ReassignmentRequested(st, None) ELSE st, a)
    [] a \in Reviewers -> [st EXCEPT !.reviewer = a]
    [] OTHER -> st

ConfirmLaunch ==
  LET a == job.agent IN
  /\ job.step = "launching"
  /\ confirmed' = confirmed \cup {a}
  /\ Acted([job.story EXCEPT ![a.story] = Assigned(@, a)])
  /\ TickStep
  /\ UNCHANGED <<run, story, agent, pane, lease, gitVars>>

-----------------------------------------------------------------------------
(* The end of a tick, crashes and restarts.                                *)

NextDrainJob ==
  IF job.acted THEN [TickJob EXCEPT !.managed = job.managed] ELSE Idle

\* The tick commits its run and stories.  When its snapshot has become stale
\* it loads the latest one and commits over it: run and stories as the tick
\* has them, agents as they are now; a copy of what is there is not written.
CommitTick ==
  /\ job.step = "act" /\ job.todo = <<>>
  /\ \/ Consistent(job.story, agent)
     \/ job.stale /\ run = job.run /\ story = job.story
  /\ run' = job.run
  /\ story' = job.story
  /\ job' = NextDrainJob
  /\ TickStep
  /\ UNCHANGED <<agent, launchVars, lease, gitVars>>

\* A writer lease contradicts what the tick would commit.
FailTick ==
  /\ job.step = "act" /\ job.todo = <<>>
  /\ ~Consistent(job.story, agent)
  /\ ~(job.stale /\ run = job.run /\ story = job.story)
  /\ TickFails(lease)
  /\ TickStep
  /\ UNCHANGED <<story, agent, launchVars, lease, gitVars>>

Crash ==
  /\ "crash" \in Faults
  /\ Serving
  /\ controller' = "down"
  /\ Abort
  /\ UNCHANGED <<run, story, agent, launchVars, lease, gitVars, approvals>>

\* assessStartupRecovery: a launch or an operation was interrupted.  Nothing
\* in the source lifts this gate while the process lives.
Interrupted ==
  \/ \E a \in AgentId : agent[a] \in {"launching", "working"}
  \/ \E s \in Story : story[s].status \in {"awaiting-candidate", "merging"}

Restart ==
  /\ controller = "down"
  /\ controller' = IF ~Consistent(story, agent) THEN "quarantined"
                   ELSE IF Interrupted THEN "gated" ELSE "ready"
  /\ UNCHANGED <<run, story, agent, launchVars, lease, gitVars, approvals,
                 job>>

-----------------------------------------------------------------------------
HandleMessage ==
  \/ StartWriterWork \/ CompleteWriterWork \/ ReportFailure
  \/ CloseSettledAgent
  \/ ReleaseForCandidate \/ KeepCandidate \/ CommitCandidate
  \/ RecordCandidate
  \/ \E verdict \in Verdicts, exact \in BOOLEAN : RecordReview(verdict, exact)

LaunchAgent ==
  \/ ProvisionGit \/ AcquireLease \/ Materialize \/ ConfirmLaunch
  \/ RefuseLaunch

AdvanceTick ==
  \/ QuietTick \/ \E managed \in BOOLEAN : LoadTick(managed)
  \/ StageMerge \/ CommitMerge \/ RecoverMerge \/ CleanUp \/ FailEffect
  \/ CompleteRun \/ LaunchAgent \/ CommitTick \/ FailTick

Children ==
  \E a \in AgentId :
    \/ WriteFiles(a)
    \/ \E m \in MessageType : ReceiveMessage(a, m) \/ ReceiveEvidence(a, m)

Failures == FailProvision \/ FailLaunch \/ Crash

Next ==
  HandleMessage \/ AdvanceTick \/ Children \/ ParentControl \/ Failures
    \/ Restart

Spec == Init /\ [][Next]_vars

\* What a child still has to report, in the order it comes up.
DueReport(a) ==
  LET st == story[a.story] IN
  \/ ReceiveMessage(a, "session-started")
  \/ a \in Writers /\ st.candidate = 0 /\ ReceiveMessage(a, "operation-started")
  \/ tree[a.story].dirty /\ ReceiveEvidence(a, "candidate-ready")
  \/ st.status = "awaiting-review" /\ ReceiveEvidence(a, "review-submitted")
  \/ /\ agent[a] # "closed" /\ (SettledWriter(a) \/ SettledReviewer(a))
     /\ ReceiveMessage(a, "session-shutdown")

\* Fairness, for runs without failures.  The event loop carries every
\* operation to its end; the parent executes orchestration once the run is
\* initialized; a writer writes; and no child stays silent for ever about
\* what is due, its messages passing the executor's queue in order.
FirstExecution ==
  (job.step = "idle" /\ \A a \in AgentId : agent[a] = "absent")
    /\ LoadTick(FALSE)

Fairness ==
  /\ WF_vars(HandleMessage \/ (job.step # "idle" /\ AdvanceTick))
  /\ WF_vars(FirstExecution)
  /\ \A a \in AgentId : WF_vars(WriteFiles(a)) /\ SF_vars(DueReport(a))

FairSpec == Spec /\ Fairness

-----------------------------------------------------------------------------
(* Properties.                                                             *)

\* A writer lease is never stray: its holder is the agent its story records
\* as writer, exists and is not closed, and the story still is to be written,
\* although the lease moves while ticks run that are lost later.
LeaseFollowsAssignment ==
  \A s \in Story : lease[s] # None =>
    /\ story[s].writer = lease[s]
    /\ agent[lease[s]] \notin {"absent", "completed", "closed"}
    /\ story[s].status \in {"ready", "assigned", "working", "work-complete",
                            "changes-requested"}

\* What is on the integration branch was approved by a review of exactly
\* that candidate on exactly the head it was merged onto, once per story.
MergedAsReviewed ==
  \A i \in 1 .. IntegrationHead :
    /\ mainline[i] \in approvals
    /\ mainline[i].base = i - 1
    /\ \A j \in 1 .. IntegrationHead :
         mainline[i].story = mainline[j].story => i = j

\* A story recorded as merged really is on the integration branch, with the
\* candidate and the head of its review, and only such a story is cleaned
\* up, although merge and record are separated by the rest of the tick.
MergedIsOnMainline ==
  \A s \in Story :
    /\ story[s].status = "merged" =>
         /\ story[s].merge \in 1 .. IntegrationHead
         /\ mainline[story[s].merge] =
              [story |-> s, candidate |-> story[s].candidate,
               base |-> story[s].reviewed]
    /\ story[s].cleaned => story[s].status = "merged" /\ ~tree[s].present

\* The run never holds more unclosed agents than its mode allows, counting
\* launches that were lost half way and retries of agents that failed.
CapacityKept ==
  Cardinality({a \in AgentId : agent[a] \notin {"absent", "closed"}})
    <= MaxAgents

\* Nobody writes a story before all it depends on is recorded as merged, and
\* its branch starts from a head that contains those merges.
DependenciesKept ==
  \A s \in Story, d \in Story :
    (\E a \in Writers : a.story = s /\ agent[a] # "absent")
      /\ d \in Dependencies[s]
    => /\ story[d].status = "merged"
       /\ tree[s].present => story[d].merge <= tree[s].base

\* No commit takes a merge back: neither a stale tick that overwrites the
\* stories nor a lifecycle commit changes the record of a merged story.
MergedIsFinal ==
  [][\A s \in Story : story[s].status = "merged" =>
       story'[s] = [story[s] EXCEPT !.cleaned = story'[s].cleaned]]_vars

\* Delivery implements the abstract integration branch.
Delivery == INSTANCE Integration
ImplementsIntegration == Delivery!Spec

\* Every run is delivered, when nothing fails and every review approves:
\* stories are assigned, candidates reviewed and merged, agents closed,
\* worktrees cleaned up and the run completed by the ticks that the
\* children's messages trigger, without the parent asking again.  It holds
\* of stories that depend on one another and fails of independent ones.
RunDelivered == <>(run = "completed")

\* Terminal states are not reopened.
TerminalClosed == [][(run \in TerminalRun) => run' = run]_vars

\* The branch of a candidate that is not merged is never deleted.
UnmergedWorkKept ==
  [][\A s \in Story : tree[s].head > 0 /\ ~tree'[s].present =>
       \E i \in 1 .. IntegrationHead : mainline[i].story = s]_vars
=============================================================================
