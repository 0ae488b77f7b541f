------------------------- MODULE Orchestration_proofs -------------------------
(***************************************************************************)
(* Proofs about Orchestration, for every set of stories, dependencies,     *)
(* team, capacity, fault and input the constants allow.                    *)
(*                                                                         *)
(* The inductive invariant comes in layers, each proved from the ones      *)
(* before it: what the operation in progress holds (Typed), how rows,      *)
(* reviews and merges agree (Integrated), that the team comes first        *)
(* (TeamFirst), and from these what is cleaned up and what is depended on. *)
(* Most actions do not matter to the later layers: those outside a tick    *)
(* and those beside one are classified once (StepKinds).                   *)
(***************************************************************************)
EXTENDS Orchestration, Scheduling_proofs

-----------------------------------------------------------------------------
\* The steps of a tick that has loaded its snapshot, and of a launch in it.
LaunchSteps == {"provisioned", "leased", "launching"}
TickSteps   == {"act", "staged"} \cup LaunchSteps
MessageSteps == {"message", "authorized", "released", "recorded"}

\* The statuses a story passes through: before its first assignment, while it
\* is worked on and reviewed, and then.
Fresh == {"planned", "awaiting-approval", "ready"}
Work  == {"assigned", "working", "work-complete", "awaiting-review",
          "changes-requested"}
LiveStatus == Fresh \cup Work \cup {"approved", "merged"}

\* The rows of a table hold what their status says.
RowsTyped(rows) ==
  /\ rows \in [Story -> StoryRow]
  /\ \A s \in Story :
       /\ rows[s].status \in LiveStatus
       /\ rows[s].status = "awaiting-review" => rows[s].candidate > 0

\* Agents are never left completed, and only a lease makes one planned.
AgentsTyped ==
  \A a \in AgentId : /\ agent[a] # "completed"
                     /\ agent[a] = "planned" => a \in Writers

\* What each step of the operation in progress knows.
JobTyped ==
  /\ job.step \in MessageSteps \cup LaunchSteps => job.agent \in AgentId
  /\ job.step \in {"released", "recorded"} =>
       story[job.agent.story].status \in {"assigned", "working",
                                          "work-complete"}
  /\ job.step = "recorded" => tree[job.agent.story].head > 0
  /\ job.step \in TickSteps =>
       /\ RowsTyped(job.story)
       /\ job.run \in {"active", "completed"}
       /\ run \notin {"planning", "awaiting-approval"}
  /\ job.step \in LaunchSteps \cup {"staged"} => job.todo # <<>>
  /\ job.step \in LaunchSteps => /\ job.agent.kind = job.todo[1].type
                                 /\ job.agent.story = job.todo[1].story
  /\ job.step = "staged" => job.todo[1].type = "request-merge"
  /\ job.step = "leased" => job.agent \in Writers
  /\ job.step \in {"leased", "launching"} => agent[job.agent] # "absent"

Typed == TypeOK /\ RowsTyped(story) /\ AgentsTyped /\ JobTyped

\* The candidate a story puts to review or to merge.
Candidate(s, row) ==
  [story |-> s, candidate |-> row.candidate, base |-> row.reviewed]

\* An approved row has its review, a merged one its merge, and only a merged
\* story is cleaned up.
RowsDelivered(rows, reviews, merges) ==
  \A s \in Story :
    /\ rows[s].status = "approved" => Candidate(s, rows[s]) \in reviews
    /\ rows[s].status = "merged" =>
         /\ rows[s].merge \in 1 .. Len(merges)
         /\ merges[rows[s].merge] = Candidate(s, rows[s])
    /\ rows[s].cleaned => rows[s].status = "merged"

\* Every merge was reviewed on the head it was made on, and its story is at
\* least approved, with that very candidate.
MergesReviewed ==
  \A i \in 1 .. IntegrationHead :
    LET s == mainline[i].story IN
    /\ mainline[i] \in approvals /\ mainline[i].base = i - 1
    /\ story[s].status \in {"approved", "merged"}
    /\ mainline[i] = Candidate(s, story[s])

\* How the rows a tick works on relate to the ones in the database.
CopyFollows ==
  job.step \in TickSteps => \A s \in Story :
    LET row == story[s] copy == job.story[s] IN
    /\ row.status = "merged" => copy = [row EXCEPT !.cleaned = copy.cleaned]
    /\ row.status = "approved" => /\ copy.status \in {"approved", "merged"}
                                  /\ Candidate(s, copy) = Candidate(s, row)
    /\ row.status \notin {"approved", "merged"} =>
         copy.status \notin {"approved", "merged"}

\* What is due for a story as the database has it.
Due(x) ==
  LET s == x.story IN
  /\ x.type = "request-cleanup" => story[s].status = "merged"
  /\ x.type = "request-merge" => story[s].status = "approved"
  /\ x.type = "assign-reviewer" => story[s].status = "awaiting-review"
  /\ x.type = "assign-story" =>
       /\ story[s].status \in {"ready", "changes-requested"}
       /\ \A d \in Dependencies[s] : story[d].status = "merged"
  /\ x.type \in TeamAction => x.type \in Elements(Team) /\ s = PrimaryStory

\* What is still to be done was due when the tick was planned, and still is.
TodoDue ==
  job.step \in TickSteps => \A j \in 1 .. Len(job.todo) : Due(job.todo[j])

\* The staged candidate is merged onto the head it was reviewed on.
StagedOnHead ==
  job.step = "staged" =>
    job.story[job.todo[1].story].reviewed = IntegrationHead

Integrated ==
  /\ RowsDelivered(story, approvals, mainline)
  /\ job.step \in TickSteps => RowsDelivered(job.story, approvals, mainline)
  /\ MergesReviewed /\ CopyFollows /\ TodoDue /\ StagedOnHead

AllLaunched == \A kind \in Elements(Team) : Launched(kind)

TeamBefore(rows) ==
  (\E s \in Story : rows[s].status \notin Fresh) => AllLaunched

\* A team member is due only while every story waits, and a story or its
\* review after the team members that are still missing.
TodoInOrder ==
  \A j \in 1 .. Len(job.todo) :
    /\ job.todo[j].type \in TeamAction =>
         \A s \in Story : story[s].status \in Fresh
    /\ job.todo[j].type \in {"assign-story", "assign-reviewer"} =>
         \A kind \in Elements(Team) :
           Launched(kind) \/ \E i \in 1 .. j - 1 : job.todo[i].type = kind

\* The team is launched before anything else is.
TeamFirst ==
  /\ TeamBefore(story)
  /\ job.step \in TickSteps => TeamBefore(job.story) /\ TodoInOrder

CleanedGone ==
  \A s \in Story :
    story[s].cleaned \/ (job.step \in TickSteps /\ job.story[s].cleaned)
      => ~tree[s].present

\* A story is written, or is about to be: its row says so, the copy of the
\* tick does, or there is a writer for it.
Begun(s) ==
  \/ story[s].status \notin Fresh
  \/ job.step \in TickSteps /\ job.story[s].status \notin Fresh
  \/ \E a \in Writers : a.story = s /\ agent[a] # "absent"

DependenciesMerged ==
  \A s \in Story : Begun(s) =>
    \A d \in Dependencies[s] : story[d].status = "merged"

\* No advisor is asked for, or it joins a story that waits for nothing.  The
\* team is launched first and an advisor works in the worktree of the primary
\* story, the first by its id: when that one waits for others, its branch is
\* made before they are merged.
AdvisorUnbound ==
  "assign-advisor" \notin Elements(Team) \/ Dependencies[PrimaryStory] = {}

BranchesFollow ==
  AdvisorUnbound =>
    \A s \in Story : tree[s].present => \A d \in Dependencies[s] :
      story[d].status = "merged" /\ story[d].merge <= tree[s].base

-----------------------------------------------------------------------------
(* Typing.                                                                 *)

(* What a message makes of its agent: never absent, completed or planned. *)
LEMMA MessageTyped ==
  ASSUME NEW status \in AgentStatus, status # "completed",
         NEW m \in MessageType, MessageAccepted(status, m)
  PROVE  LET next == ApplyAgentMessage(status, m) IN
         /\ next \in AgentStatus /\ next # "completed"
         /\ next = "planned" => status = "planned"
         /\ next = "launching" => status = "launching"
         /\ status = "closed" => next = "closed"
BY DEF AgentStatus, MessageType, MessageAccepted, ApplyAgentMessage,
       SignalMessage, MessageTransition, AgentTo, AgentFrom

(* The initial state. *)
LEMMA TypedInit == Init => Typed
<1> SUFFICES ASSUME Init PROVE Typed
  OBVIOUS
<1>1. RowsTyped(story)
  BY ApprovalAssumption DEF Init, RowsTyped, StoryRow, NewStory, LiveStatus,
     Fresh, Work, StoryStatus
<1>2. TypeOK
  BY <1>1, ApprovalAssumption
     DEF Init, TypeOK, RowsTyped, RunStatus, NoTree, Idle, Steps, AgentStatus
<1>3. AgentsTyped /\ JobTyped
  BY DEF Init, AgentsTyped, JobTyped, Idle, MessageSteps, TickSteps, LaunchSteps
<1>4. QED BY <1>1, <1>2, <1>3 DEF Typed

(* Operations other than a tick keep no knowledge, so their typing follows *)
(* from that of the variables. *)
LEMMA PlainJobTyped ==
  ASSUME job'.step \in {"idle", "tick"}
  PROVE  JobTyped'
BY DEF JobTyped, MessageSteps, TickSteps, LaunchSteps

(* The steps of the jobs that stand for no tick. *)
LEMMA PlainJobs ==
  /\ Idle.step = "idle" /\ TickJob.step = "tick"
  /\ \A a, m : /\ MessageJob("message", a, m).step = "message"
               /\ MessageJob("authorized", a, m).step = "authorized"
               /\ MessageJob("message", a, m).agent = a
               /\ MessageJob("authorized", a, m).agent = a
BY DEF Idle, TickJob, MessageJob

JobType == [step : Steps, agent : AgentId \cup {None},
            message : MessageType \cup {None}, todo : Seq(Action),
            run : RunStatus \cup {None},
            story : [Story -> StoryRow] \cup {None},
            stale : BOOLEAN, acted : BOOLEAN, managed : BOOLEAN]

(* The jobs that actions assign are of the type of jobs. *)
LEMMA JobsTyped ==
  /\ Idle \in JobType /\ TickJob \in JobType
  /\ \A a \in AgentId, m \in MessageType :
       /\ MessageJob("message", a, m) \in JobType
       /\ MessageJob("authorized", a, m) \in JobType
<1>1. Idle \in JobType
  <2>1. "idle" \in Steps /\ <<>> \in Seq(Action)
    BY DEF Steps
  <2>2. QED BY <2>1 DEF Idle, JobType
<1>2. TickJob \in JobType
  <2>1. "tick" \in Steps
    BY DEF Steps
  <2>2. QED BY <1>1, <2>1 DEF TickJob, JobType
<1>3. ASSUME NEW a \in AgentId, NEW m \in MessageType, NEW step \in Steps
      PROVE  MessageJob(step, a, m) \in JobType
  BY <1>1 DEF MessageJob, JobType
<1>4. {"message", "authorized"} \subseteq Steps
  BY DEF Steps
<1>5. QED BY <1>1, <1>2, <1>3, <1>4

(* A lifecycle handler that sets the rows of typed stories and agents. *)
LEMMA LifecycleTyped ==
  ASSUME Typed, NEW rows, NEW agents, NEW next,
         Lifecycle(rows, agents, next),
         RowsTyped(rows), agents \in [AgentId -> AgentStatus \cup {"absent"}],
         \A a \in AgentId : agents[a] \in {agent[a], "closed"},
         next \in {Idle, TickJob}
  PROVE  Typed'
<1>1. job' \in {Idle, TickJob}
  BY DEF Lifecycle, Abort
<1>2. JobTyped' /\ job' \in JobType
  BY <1>1, PlainJobs, JobsTyped, PlainJobTyped
<1>3. RowsTyped(story')
  BY DEF Lifecycle, Typed
<1>4. RowsTyped(story)'
  BY <1>3 DEF RowsTyped
<1>5. /\ agent' \in [AgentId -> AgentStatus \cup {"absent"}]
      /\ \A a \in AgentId : agent'[a] \in {agent[a], "closed"}
  BY DEF Lifecycle, Typed, TypeOK
<1>6. AgentsTyped'
  BY <1>5 DEF AgentsTyped, Typed
<1>7. TypeOK'
  BY <1>2, <1>3, <1>5
     DEF Lifecycle, Typed, TypeOK, JobType, RowsTyped, launchVars, gitVars
<1>8. QED BY <1>2, <1>4, <1>6, <1>7 DEF Typed

(* The rows that the messages of writers and reviewers write. *)
LEMMA RowWritten ==
  ASSUME NEW rows, RowsTyped(rows), NEW s \in Story, NEW row \in StoryRow,
         row.status \in LiveStatus,
         row.status = "awaiting-review" => row.candidate > 0
  PROVE  RowsTyped([rows EXCEPT ![s] = row])
BY DEF RowsTyped

(* The handlers of child messages keep the typing: they write rows only in *)
(* the statuses their guards name.                                         *)
LEMMA TypedMessages ==
  ASSUME Typed, HandleMessage
  PROVE  Typed'
<1> DEFINE a == job.agent
           s == job.agent.story
<1>1. /\ story \in [Story -> StoryRow] /\ RowsTyped(story)
      /\ agent \in [AgentId -> AgentStatus \cup {"absent"}]
      /\ job \in JobType
  BY DEF Typed, TypeOK, JobType
<1>2. ASSUME job.step \in MessageSteps
      PROVE  a \in AgentId /\ s \in Story /\ story[s] \in StoryRow
  <2>1. a \in AgentId
    BY <1>2 DEF Typed, JobTyped
  <2>2. QED BY <1>1, <2>1 DEF AgentId
<1> HIDE DEF a, s
<1>3. ASSUME StartWriterWork PROVE Typed'
  <2>1. job.step = "message" /\ job.step \in MessageSteps
    BY <1>3 DEF StartWriterWork, Handling, MessageSteps
  <2>2. StoryWorkStarted(story[s], None) \in StoryRow
          /\ StoryWorkStarted(story[s], None).status = "working"
    BY <1>2, <2>1 DEF StoryWorkStarted, StoryRow, StoryStatus
  <2>3. RowsTyped([story EXCEPT ![s] = StoryWorkStarted(@, None)])
    BY <1>1, <1>2, <2>1, <2>2, RowWritten DEF LiveStatus, Work
  <2>4. \E rows : RowsTyped(rows) /\ Lifecycle(rows, agent, Idle)
    BY <1>1, <1>3, <2>3 DEF StartWriterWork, a, s
  <2>5. QED BY <1>1, <2>4, LifecycleTyped
<1>4. ASSUME CompleteWriterWork PROVE Typed'
  <2> DEFINE Completed(st) == StoryWorkCompleted(
        IF st.status = "assigned" THEN StoryWorkStarted(st, None) ELSE st)
  <2>1. job.step = "message" /\ job.step \in MessageSteps
    BY <1>4 DEF CompleteWriterWork, Handling, MessageSteps
  <2>2. Completed(story[s]) \in StoryRow
          /\ Completed(story[s]).status = "work-complete"
    BY <1>2, <2>1
       DEF StoryWorkStarted, StoryWorkCompleted, StoryRow, StoryStatus
  <2>3. RowsTyped([story EXCEPT ![s] = Completed(@)])
    BY <1>1, <1>2, <2>1, <2>2, RowWritten DEF LiveStatus, Work
  <2>4. \E rows : RowsTyped(rows) /\ Lifecycle(rows, agent, TickJob)
    BY <1>1, <1>4, <2>3 DEF CompleteWriterWork, a, s
  <2>5. QED BY <1>1, <2>4, LifecycleTyped
<1>5. ASSUME ReportFailure PROVE Typed'
  BY <1>1, <1>5, LifecycleTyped DEF ReportFailure
<1>6. ASSUME CloseSettledAgent PROVE Typed'
  <2>1. a \in AgentId
    BY <1>2, <1>6 DEF CloseSettledAgent, Handling, MessageSteps
  <2>2. AgentTo("agent-closed") = "closed" /\ "closed" \in AgentStatus
    BY DEF AgentTo, AgentStatus
  <2>3. PICK agents, next :
          /\ Lifecycle(story, agents, next) /\ next \in {Idle, TickJob}
          /\ agents \in {agent, [agent EXCEPT ![a] = "closed"]}
    BY <1>6, <2>2 DEF CloseSettledAgent, a
  <2>4. /\ agents \in [AgentId -> AgentStatus \cup {"absent"}]
        /\ \A b \in AgentId : agents[b] \in {agent[b], "closed"}
    BY <1>1, <2>1, <2>2, <2>3
  <2>5. QED BY <1>1, <2>3, <2>4, LifecycleTyped
<1>7. ASSUME EvidenceStep, UNCHANGED story,
             lease' \in [Story -> AgentId \cup {None}],
             tree' \in [Story -> [present : BOOLEAN, base : Nat, head : Nat,
                                  dirty : BOOLEAN]],
             approvals' \subseteq Merge, job' \in JobType, JobTyped'
      PROVE  Typed'
  <2>1. RowsTyped(story)' /\ AgentsTyped'
    BY <1>1, <1>7 DEF RowsTyped, Typed, AgentsTyped, EvidenceStep
  <2>2. TypeOK'
    BY <1>7 DEF Typed, TypeOK, EvidenceStep, JobType, launchVars
  <2>3. QED BY <1>7, <2>1, <2>2 DEF Typed
<1>8. ASSUME ReleaseForCandidate PROVE Typed'
  <2>1. /\ job.step \in MessageSteps
        /\ story[s].status \in {"assigned", "working", "work-complete"}
    BY <1>8 DEF ReleaseForCandidate, Handling, MessageSteps, WritesStory, s
  <2>2. job' = [job EXCEPT !.step = "released"] /\ "released" \in Steps
    BY <1>8 DEF ReleaseForCandidate, Steps
  <2>3. job' \in JobType /\ job'.step = "released" /\ job'.agent = a
    BY <1>1, <2>2 DEF JobType, a
  <2>4. JobTyped'
    BY <1>2, <1>8, <2>1, <2>3 DEF JobTyped, ReleaseForCandidate, EvidenceStep,
       TickSteps, LaunchSteps, a, s
  <2>5. lease' \in [Story -> AgentId \cup {None}]
    BY <1>8 DEF ReleaseForCandidate, Typed, TypeOK
  <2>6. QED BY <1>7, <1>8, <2>3, <2>4, <2>5
            DEF ReleaseForCandidate, Typed, TypeOK
<1>9. ASSUME KeepCandidate PROVE Typed'
  <2>1. job' \in {Idle, TickJob}
    BY <1>9 DEF KeepCandidate, Abort
  <2>2. QED BY <1>7, <1>9, <2>1, PlainJobs, JobsTyped, PlainJobTyped
            DEF KeepCandidate, Typed, TypeOK
<1>10. ASSUME CommitCandidate PROVE Typed'
  <2>1. /\ job.step = "released" /\ job.step \in MessageSteps
        /\ EvidenceStep /\ UNCHANGED <<story, lease, approvals>>
    BY <1>10 DEF CommitCandidate, MessageSteps
  <2>2. CASE job' = Idle /\ UNCHANGED tree
    BY <1>7, <2>1, <2>2, PlainJobs, JobsTyped, PlainJobTyped DEF Typed, TypeOK
  <2>3. CASE /\ job' = [job EXCEPT !.step = "recorded"]
             /\ tree' = [tree EXCEPT ![s].head = @ + 1, ![s].dirty = FALSE]
    <3>1. tree[s] \in [present : BOOLEAN, base : Nat, head : Nat,
                       dirty : BOOLEAN]
      BY <1>2, <2>1 DEF Typed, TypeOK
    <3>2. /\ tree' \in [Story -> [present : BOOLEAN, base : Nat, head : Nat,
                                  dirty : BOOLEAN]]
          /\ tree'[s].head > 0
      <4> DEFINE committed == [tree EXCEPT ![s].head = @ + 1]
                 next == [tree[s] EXCEPT !.head = @ + 1]
      <4>1. /\ tree \in [Story -> [present : BOOLEAN, base : Nat, head : Nat,
                                   dirty : BOOLEAN]]
            /\ s \in Story
        BY <1>2, <2>1 DEF Typed, TypeOK
      <4>2. /\ committed = [tree EXCEPT ![s] = next]
            /\ next.head > 0
            /\ next \in [present : BOOLEAN, base : Nat, head : Nat,
                         dirty : BOOLEAN]
        BY <3>1
      <4>3. tree' = [committed EXCEPT ![s].dirty = FALSE]
        BY <2>3
      <4> HIDE DEF next, committed
      <4>4. /\ committed \in [Story -> [present : BOOLEAN, base : Nat,
                                        head : Nat, dirty : BOOLEAN]]
            /\ committed[s].head > 0
        BY <4>1, <4>2
      <4>5. QED BY <4>1, <4>3, <4>4
    <3>3. "recorded" \in Steps
      BY DEF Steps
    <3>4. job' \in JobType /\ job'.step = "recorded" /\ job'.agent = a
      BY <1>1, <2>3, <3>3 DEF JobType, a
    <3>5. story[s].status \in {"assigned", "working", "work-complete"}
      BY <2>1 DEF Typed, JobTyped, s
    <3>6. JobTyped'
      BY <1>2, <2>1, <3>2, <3>4, <3>5
         DEF JobTyped, TickSteps, LaunchSteps, a, s
    <3>7. QED BY <1>7, <2>1, <3>2, <3>4, <3>6 DEF Typed, TypeOK
  <2>4. QED BY <1>10, <2>2, <2>3 DEF CommitCandidate, Abort, s
<1>11. ASSUME EvidenceStep, NEW row \in StoryRow, s \in Story,
              story' = [story EXCEPT ![s] = row],
              row.status \in LiveStatus,
              row.status = "awaiting-review" => row.candidate > 0,
              UNCHANGED <<lease, tree>>,
              approvals' \subseteq Merge, job' = TickJob
       PROVE  Typed'
  <2>1. RowsTyped(story')
    BY <1>1, <1>11, RowWritten
  <2>2. RowsTyped(story)'
    BY <2>1 DEF RowsTyped
  <2>3. AgentsTyped'
    BY <1>11 DEF Typed, AgentsTyped, EvidenceStep
  <2>4. JobTyped' /\ job' \in JobType
    BY <1>11, PlainJobs, JobsTyped, PlainJobTyped
  <2>5. TypeOK'
    BY <1>11, <2>1, <2>4
       DEF Typed, TypeOK, EvidenceStep, JobType, launchVars, RowsTyped
  <2>6. QED BY <2>2, <2>3, <2>4, <2>5 DEF Typed
<1>12. ASSUME RecordCandidate PROVE Typed'
  <2> DEFINE row == CandidateCreated(story[s], tree[s].head, IntegrationHead,
                                     None)
  <2>1. /\ job.step = "recorded" /\ job.step \in MessageSteps
        /\ EvidenceStep /\ UNCHANGED <<lease, tree, approvals>>
    BY <1>12 DEF RecordCandidate, MessageSteps
  <2>2. CASE job' = Idle /\ UNCHANGED story
    BY <1>7, <2>1, <2>2, PlainJobs, JobsTyped, PlainJobTyped DEF Typed, TypeOK
  <2>3. CASE job' = TickJob /\ story' = [story EXCEPT ![s] = row]
    <3>1. tree[s].head > 0 /\ tree[s].head \in Nat /\ IntegrationHead \in Nat
      BY <1>2, <2>1 DEF Typed, TypeOK, JobTyped, IntegrationHead, s
    <3>2. /\ row \in StoryRow /\ row.status = "awaiting-review"
          /\ row.candidate > 0
      BY <1>2, <2>1, <3>1 DEF CandidateCreated, StoryRow, StoryStatus
    <3>3. "awaiting-review" \in LiveStatus
      BY DEF LiveStatus, Work
    <3> HIDE DEF row
    <3>4. QED BY <1>2, <1>11, <2>1, <2>3, <3>2, <3>3 DEF Typed, TypeOK
  <2>4. QED BY <1>12, <2>2, <2>3 DEF RecordCandidate, Abort, s
<1>13. ASSUME NEW verdict \in Verdicts, NEW exact \in BOOLEAN,
              RecordReview(verdict, exact)
       PROVE  Typed'
  <2> DEFINE row == Reviewed(story[s], a, verdict)
  <2>1. /\ job.step \in MessageSteps
        /\ EvidenceStep /\ UNCHANGED <<lease, tree>>
    BY <1>13 DEF RecordReview, MessageSteps, Handling
  <2>2. CASE job' \in {Idle, TickJob} /\ UNCHANGED <<story, approvals>>
    BY <1>7, <2>1, <2>2, PlainJobs, JobsTyped, PlainJobTyped DEF Typed, TypeOK
  <2>3. CASE /\ story[s].status = "awaiting-review" /\ job' = TickJob
             /\ story' = [story EXCEPT ![s] = row]
             /\ approvals' \subseteq approvals \cup {Candidate(s, story[s])}
    <3>1. /\ verdict \in Verdict
          /\ Verdict \subseteq StoryStatus \ {"awaiting-review"}
      BY InputAssumption DEF Verdict, StoryStatus
    <3>3. row \in StoryRow /\ row.status \in Verdict
      BY <1>2, <2>1, <3>1 DEF Reviewed, StoryRow
    <3>4. Verdict \subseteq LiveStatus
      BY DEF LiveStatus, Work, Verdict
    <3>5. Candidate(s, story[s]) \in Merge
      BY <1>2, <2>1 DEF Candidate, Merge, StoryRow
    <3>6. approvals' \subseteq Merge
      BY <2>3, <3>5 DEF Typed, TypeOK
    <3> HIDE DEF row
    <3>7. QED BY <1>2, <1>11, <2>1, <2>3, <3>1, <3>3, <3>4, <3>6
  <2>4. QED BY <1>13, <2>2, <2>3
            DEF RecordReview, ReviewAccepted, Abort, Candidate, a, s
<1>14. QED BY <1>3, <1>4, <1>5, <1>6, <1>8, <1>9, <1>10, <1>12, <1>13
           DEF HandleMessage

(* The moves of a run. *)
LEMMA RunMoves ==
  /\ RunTo("plan-approved") = "ready" /\ RunTo("run-blocked") = "blocked"
  /\ RunTo("plan-revision-requested") = "planning"
  /\ RunTo("run-cancelled") = "cancelled" /\ RunTo("run-completed") = "completed"
  /\ RunFrom("plan-approved") = {"awaiting-approval"}
  /\ RunFrom("plan-revision-requested") = {"awaiting-approval"}
  /\ {"ready", "planning", "blocked", "cancelled", "active", "completed",
      "awaiting-approval"} \subseteq RunStatus
BY DEF RunTo, RunFrom, RunStatus

Confirming == {"planning", "awaiting-approval"}

(* What a parent control commits: a story waiting for approval moves to    *)
(* another status before its assignment, and no story moves once the plan  *)
(* is confirmed.                                                           *)
LEMMA ControlMoves ==
  ASSUME Typed, ParentControl
  PROVE  \E rows \in [Story -> StoryRow], next \in RunStatus :
           /\ CommitControl(next, rows)
           /\ \A s \in Story :
                \/ rows[s] = story[s]
                \/ /\ story[s].status = "awaiting-approval"
                   /\ rows[s].status \in Fresh
                   /\ rows[s] = [story[s] EXCEPT !.status = rows[s].status]
           /\ run \notin Confirming => rows = story /\ next \notin Confirming
<1> DEFINE Moves(rows) ==
             \A s \in Story :
                \/ rows[s] = story[s]
                \/ /\ story[s].status = "awaiting-approval"
                   /\ rows[s].status \in Fresh
                   /\ rows[s] = [story[s] EXCEPT !.status = rows[s].status]
           Goal == \E rows \in [Story -> StoryRow], next \in RunStatus :
                     /\ CommitControl(next, rows) /\ Moves(rows)
                     /\ run \notin Confirming => /\ rows = story
                                                 /\ next \notin Confirming
<1>1. story \in [Story -> StoryRow] /\ run \in RunStatus
  BY DEF Typed, TypeOK
<1>2. Moves(story)
  OBVIOUS
<1>3. ASSUME NEW row \in StoryRow, row.status = "awaiting-approval"
      PROVE  /\ StoryPlanApproved(row) \in StoryRow
             /\ StoryPlanApproved(row) = [row EXCEPT !.status = "ready"]
             /\ StoryPlanApproved(row).status = "ready"
             /\ StoryPlanRevisionRequested(row) \in StoryRow
             /\ StoryPlanRevisionRequested(row) = [row EXCEPT !.status = "planned"]
             /\ StoryPlanRevisionRequested(row).status = "planned"
  BY <1>3 DEF StoryPlanApproved, StoryPlanRevisionRequested, StoryRow,
              StoryStatus
<1>4. {"ready", "planned"} \subseteq Fresh
  BY DEF Fresh
<1> HIDE DEF Moves, Goal
<1>5. ASSUME NEW next \in RunStatus \ Confirming, CommitControl(next, story)
      PROVE  Goal
  BY <1>1, <1>2, <1>5 DEF Goal
<1>6. ASSUME NEW rows \in [Story -> StoryRow], NEW next \in RunStatus,
             Moves(rows), CommitControl(next, rows), run = "awaiting-approval"
      PROVE  Goal
  BY <1>6 DEF Goal, Confirming
<1>7. ASSUME ControlRun("plan-approved", [s \in Story |-> Approved(story[s])])
      PROVE  Goal
  <2> DEFINE rows == [s \in Story |-> Approved(story[s])]
  <2>1. rows \in [Story -> StoryRow] /\ Moves(rows)
    BY <1>1, <1>3, <1>4 DEF Moves, Approved
  <2> HIDE DEF rows
  <2>2. run = "awaiting-approval" /\ CommitControl("ready", rows)
    BY <1>7, RunMoves DEF ControlRun, rows
  <2>3. QED BY <1>6, <2>1, <2>2, RunMoves
<1>8. ASSUME NEW x \in Story, ApproveStory(x) PROVE Goal
  <2> DEFINE rows == [story EXCEPT ![x] = StoryPlanApproved(@)]
  <2>1. story[x].status = "awaiting-approval" /\ run = "awaiting-approval"
    BY <1>8 DEF ApproveStory
  <2>2. rows \in [Story -> StoryRow] /\ Moves(rows)
    BY <1>1, <1>3, <1>4, <2>1 DEF Moves
  <2> HIDE DEF rows
  <2>3. CommitControl("ready", rows) \/ CommitControl(run, rows)
    BY <1>8, RunMoves DEF ApproveStory, rows
  <2>4. QED BY <1>1, <1>6, <2>1, <2>2, <2>3, RunMoves
<1>9. ASSUME ControlRun("plan-revision-requested",
                      [s \in Story |-> SentBack(story[s])])
      PROVE  Goal
  <2> DEFINE rows == [s \in Story |-> SentBack(story[s])]
  <2>1. rows \in [Story -> StoryRow] /\ Moves(rows)
    BY <1>1, <1>3, <1>4 DEF Moves, SentBack
  <2> HIDE DEF rows
  <2>2. run = "awaiting-approval" /\ CommitControl("planning", rows)
    BY <1>9, RunMoves DEF ControlRun, rows
  <2>3. QED BY <1>6, <2>1, <2>2, RunMoves
<1>10. {"blocked", "ready", "cancelled"} \subseteq RunStatus \ Confirming
  BY RunMoves DEF Confirming
<1>11. ASSUME ControlRun("run-blocked", story)
      PROVE  Goal
  BY <1>5, <1>10, <1>11, RunMoves DEF ControlRun
<1>12. ASSUME Resume
      PROVE  Goal
  BY <1>5, <1>10, <1>12 DEF Resume
<1>13. ASSUME Steer
      PROVE  Goal
  BY <1>1, <1>2, <1>13 DEF Steer, Goal
<1>14. ASSUME ControlRun("run-cancelled", story)
      PROVE  Goal
  BY <1>5, <1>10, <1>14, RunMoves DEF ControlRun
<1>15. Goal
  BY <1>7, <1>8, <1>9, <1>11, <1>12, <1>13, <1>14 DEF ParentControl
<1>16. QED BY <1>15 DEF Goal, Moves

(* A step that ends the operation, or leaves a tick to be run, and changes *)
(* neither story nor agent keeps the typing when its variables have their  *)
(* type.                                                                   *)
TreeRow == [present : BOOLEAN, base : Nat, head : Nat, dirty : BOOLEAN]

(* A step that only ends the operation keeps the types. *)
LEMMA EndTyped ==
  ASSUME Typed, UNCHANGED <<story, agent, mainline, approvals>>,
         job' \in JobType, job'.step \in {"idle", "tick"},
         controller' \in {"ready", "gated", "down", "quarantined"},
         run' \in RunStatus, confirmed' \subseteq AgentId,
         pane' \subseteq AgentId, lease' \in [Story -> AgentId \cup {None}],
         tree' \in [Story -> TreeRow], staged' \in Story \cup {None}
  PROVE  Typed'
<1>1. RowsTyped(story)' /\ AgentsTyped'
  BY DEF Typed, RowsTyped, AgentsTyped
<1>2. JobTyped'
  BY PlainJobTyped
<1>3. TypeOK'
  BY DEF Typed, TypeOK, JobType, TreeRow
<1>4. QED BY <1>1, <1>2, <1>3 DEF Typed

(* What a tick that fails makes of the run and of the operation. *)
LEMMA TickFailsTyped ==
  ASSUME Typed, NEW leases, TickFails(leases)
  PROVE  /\ job' = Idle /\ job' \in JobType /\ job'.step = "idle"
         /\ run' \in RunStatus
BY RunMoves, JobsTyped, PlainJobs DEF TickFails, Abort, Typed, TypeOK

(* A worktree that is rolled back, or made, is a worktree. *)
LEMMA TreesTyped ==
  ASSUME Typed
  PROVE  /\ tree \in [Story -> TreeRow]
         /\ \A a \in AgentId : RollBackTree(a) \in [Story -> TreeRow]
<1>1. tree \in [Story -> TreeRow] /\ NoTree \in TreeRow
  BY DEF Typed, TypeOK, TreeRow, NoTree
<1>2. \A a \in AgentId : a.story \in Story
  BY DEF AgentId
<1>3. QED BY <1>1, <1>2 DEF RollBackTree

(* Children, controls and failures keep the typing. *)
LEMMA TypedOutside ==
  ASSUME Typed, Children \/ ParentControl \/ Failures \/ Restart
  PROVE  Typed'
<1>1. /\ TypeOK /\ RowsTyped(story) /\ AgentsTyped /\ JobTyped
      /\ story \in [Story -> StoryRow] /\ run \in RunStatus
      /\ agent \in [AgentId -> AgentStatus \cup {"absent"}]
      /\ job \in JobType /\ confirmed \subseteq AgentId /\ pane \subseteq AgentId
      /\ lease \in [Story -> AgentId \cup {None}] /\ staged \in Story \cup {None}
      /\ controller \in {"ready", "gated", "down", "quarantined"}
  BY DEF Typed, TypeOK, JobType
<1>2. \A a \in AgentId : a.story \in Story
  BY DEF AgentId
<1>3. ASSUME NEW a \in AgentId, WriteFiles(a) PROVE Typed'
  <2> DEFINE next == [tree[a.story] EXCEPT !.dirty = TRUE]
  <2>1. tree \in [Story -> TreeRow] /\ a.story \in Story
    BY <1>2, TreesTyped
  <2>2. next \in TreeRow /\ next.head = tree[a.story].head
    BY <2>1 DEF TreeRow
  <2>3. tree' = [tree EXCEPT ![a.story] = next]
    BY <1>3 DEF WriteFiles
  <2> HIDE DEF next
  <2>4. /\ tree' \in [Story -> TreeRow]
        /\ \A s \in Story : tree'[s].head = tree[s].head
    BY <2>1, <2>2, <2>3
  <2>5. UNCHANGED <<controller, run, story, agent, launchVars, lease, staged,
                    mainline, approvals, job>>
    BY <1>3 DEF WriteFiles
  <2>6. RowsTyped(story)' /\ AgentsTyped'
    BY <1>1, <2>5 DEF RowsTyped, AgentsTyped
  <2>7. job.step = "recorded" => job.agent.story \in Story
    BY <1>1, <1>2 DEF JobTyped, MessageSteps
  <2>8. JobTyped'
    BY <1>1, <2>4, <2>5, <2>7 DEF JobTyped, RowsTyped
  <2>9. TypeOK'
    BY <1>1, <2>4, <2>5 DEF TypeOK, TreeRow, launchVars
  <2>10. QED BY <2>6, <2>8, <2>9 DEF Typed
<1>4. ASSUME NEW a \in AgentId, NEW m \in MessageType, ReceiveMessage(a, m)
      PROVE  Typed'
  <2> DEFINE next == ApplyAgentMessage(agent[a], m)
  <2>1. agent[a] \in AgentStatus /\ agent[a] # "completed"
    BY <1>1, <1>4 DEF ReceiveMessage, AgentsTyped
  <2>2. /\ next \in AgentStatus /\ next # "completed"
        /\ next = "planned" => agent[a] = "planned"
    BY <1>4, <2>1, MessageTyped DEF ReceiveMessage
  <2>3. agent' = [agent EXCEPT ![a] = next]
    BY <1>4 DEF ReceiveMessage
  <2> HIDE DEF next
  <2>4. /\ agent' \in [AgentId -> AgentStatus \cup {"absent"}]
        /\ AgentsTyped'
    BY <1>1, <2>2, <2>3 DEF AgentsTyped
  <2>5. UNCHANGED <<controller, run, story, launchVars, lease, gitVars,
                    approvals>>
    BY <1>4 DEF ReceiveMessage
  <2>6. RowsTyped(story)'
    BY <1>1, <2>5 DEF RowsTyped
  <2>7. job' \in {Idle, MessageJob("message", a, m)}
    BY <1>4 DEF ReceiveMessage
  <2>8. job' \in JobType
    BY <2>7, JobsTyped
  <2>9. JobTyped'
    <3>1. /\ job'.step \in {"idle", "message"}
          /\ job'.step = "message" => job'.agent = a
      BY <2>7, PlainJobs
    <3>2. QED BY <3>1 DEF JobTyped, TickSteps, LaunchSteps, MessageSteps
  <2>10. TypeOK'
    BY <1>1, <2>4, <2>5, <2>8 DEF TypeOK, JobType, launchVars, gitVars
  <2>11. QED BY <2>4, <2>6, <2>9, <2>10 DEF Typed
<1>5. ASSUME NEW a \in AgentId, NEW m \in MessageType, ReceiveEvidence(a, m)
      PROVE  Typed'
  <2>1. UNCHANGED <<controller, run, story, agent, launchVars, lease, gitVars,
                    approvals>>
    BY <1>5 DEF ReceiveEvidence
  <2>2. job' = MessageJob("authorized", a, m)
    BY <1>5 DEF ReceiveEvidence
  <2>3. job' \in JobType /\ job'.step = "authorized" /\ job'.agent = a
    BY <2>2, JobsTyped, PlainJobs
  <2>4. JobTyped'
    BY <2>3 DEF JobTyped, TickSteps, LaunchSteps, MessageSteps
  <2>5. RowsTyped(story)' /\ AgentsTyped'
    BY <1>1, <2>1 DEF RowsTyped, AgentsTyped
  <2>6. TypeOK'
    BY <1>1, <2>1, <2>3 DEF TypeOK, JobType, launchVars, gitVars
  <2>7. QED BY <2>4, <2>5, <2>6 DEF Typed
<1>6. ASSUME ParentControl PROVE Typed'
  <2>1. PICK rows \in [Story -> StoryRow], next \in RunStatus :
          /\ CommitControl(next, rows)
          /\ \A s \in Story :
               \/ rows[s] = story[s]
               \/ /\ story[s].status = "awaiting-approval"
                  /\ rows[s].status \in Fresh
                  /\ rows[s] = [story[s] EXCEPT !.status = rows[s].status]
          /\ run \notin Confirming => rows = story /\ next \notin Confirming
    BY <1>6, ControlMoves
  <2>2. /\ run' = next /\ story' = rows
        /\ job' = [job EXCEPT !.stale = (job.step # "idle")]
        /\ UNCHANGED <<controller, agent, launchVars, lease, gitVars,
                       approvals>>
    BY <2>1 DEF CommitControl
  <2>3. RowsTyped(rows)
    <3>1. ASSUME NEW s \in Story
          PROVE  /\ rows[s].status \in LiveStatus
                 /\ rows[s].status = "awaiting-review" => rows[s].candidate > 0
      BY <1>1, <2>1 DEF RowsTyped, LiveStatus, Fresh
    <3>2. QED BY <3>1 DEF RowsTyped
  <2>4. RowsTyped(story)' /\ AgentsTyped'
    BY <1>1, <2>2, <2>3 DEF RowsTyped, AgentsTyped
  <2>5. /\ job' \in JobType /\ job'.step = job.step /\ job'.agent = job.agent
        /\ job'.todo = job.todo /\ job'.story = job.story
        /\ job'.run = job.run
    <3>1. (job.step # "idle") \in BOOLEAN
      OBVIOUS
    <3>2. QED BY <1>1, <2>2, <3>1 DEF JobType
  <2>6. Confirming = {"planning", "awaiting-approval"}
    BY DEF Confirming
  <2>7. \/ job.step \in TickSteps /\ story' = story /\ run' \notin Confirming
        \/ job.step \notin TickSteps /\ job.step \notin {"released", "recorded"}
    <3>1. CASE job.step \in TickSteps
      BY <1>1, <2>1, <2>2, <2>6, <3>1 DEF JobTyped
    <3>2. CASE job.step \notin TickSteps
      BY <2>1, <3>2 DEF CommitControl, Suspended
    <3>3. QED BY <3>1, <3>2
  <2>8. JobTyped'
    <3>1. CASE job.step \in TickSteps
      <4>1. RowsTyped(job.story) => RowsTyped(job.story)'
        BY <2>5 DEF RowsTyped
      <4>2. QED BY <1>1, <2>2, <2>5, <2>6, <2>7, <3>1, <4>1
                DEF JobTyped, TickSteps, LaunchSteps, MessageSteps
    <3>2. CASE job.step \notin TickSteps
      BY <1>1, <2>5, <2>7, <3>2
         DEF JobTyped, TickSteps, LaunchSteps, MessageSteps
    <3>3. QED BY <3>1, <3>2
  <2>9. TypeOK'
    BY <1>1, <2>2, <2>5 DEF TypeOK, JobType, launchVars, gitVars
  <2>10. QED BY <2>4, <2>8, <2>9 DEF Typed
<1>7. ASSUME FailProvision PROVE Typed'
  <2>1. job.agent \in AgentId
    BY <1>1, <1>7 DEF FailProvision, JobTyped, LaunchSteps
  <2>2. tree' \in [Story -> TreeRow]
    BY <1>7, <2>1, TreesTyped DEF FailProvision
  <2>3. pane' \subseteq AgentId /\ job' \in JobType /\ job'.step = "idle"
          /\ run' \in RunStatus
    BY <1>1, <1>7, TickFailsTyped DEF FailProvision
  <2>4. UNCHANGED <<controller, approvals, story, agent, confirmed, lease,
                    staged, mainline>>
    BY <1>7 DEF FailProvision, TickStep
  <2>5. QED BY <1>1, <2>2, <2>3, <2>4, EndTyped
<1>8. ASSUME FailLaunch PROVE Typed'
  <2>1. job' \in JobType /\ job'.step = "idle" /\ run' \in RunStatus
    BY <1>8, TickFailsTyped DEF FailLaunch
  <2>2. UNCHANGED <<controller, approvals, story, agent, confirmed, pane,
                    lease, tree, staged, mainline>>
    BY <1>8 DEF FailLaunch, TickStep, launchVars, gitVars
  <2>3. QED BY <1>1, <2>1, <2>2, EndTyped, TreesTyped
<1>9. ASSUME Crash PROVE Typed'
  <2>1. /\ UNCHANGED <<run, story, agent, confirmed, pane, lease, tree, staged,
                       mainline, approvals>>
        /\ job' = Idle /\ controller' = "down"
    BY <1>9 DEF Crash, launchVars, gitVars, Abort
  <2>2. QED BY <1>1, <2>1, EndTyped, TreesTyped, PlainJobs, JobsTyped
<1>10. ASSUME Restart PROVE Typed'
  <2>1. /\ UNCHANGED <<run, story, agent, confirmed, pane, lease, tree, staged,
                       mainline, approvals, job>>
        /\ controller' \in {"quarantined", "gated", "ready"}
    BY <1>10 DEF Restart, launchVars, gitVars
  <2>2. RowsTyped(story)' /\ AgentsTyped'
    BY <1>1, <2>1 DEF RowsTyped, AgentsTyped
  <2>3. RowsTyped(job.story) => RowsTyped(job.story)'
    BY <2>1 DEF RowsTyped
  <2>4. JobTyped'
    BY <1>1, <2>1, <2>3 DEF JobTyped
  <2>5. TypeOK'
    BY <1>1, <2>1 DEF TypeOK
  <2>6. QED BY <2>2, <2>4, <2>5 DEF Typed
<1>11. QED BY <1>3, <1>4, <1>5, <1>6, <1>7, <1>8, <1>9, <1>10
           DEF Children, Failures

-----------------------------------------------------------------------------
(* What a tick admits.                                                     *)

(* There are finitely many agents, so occupied slots can be counted. *)
LEMMA AgentsFinite ==
  /\ IsFiniteSet(AgentId)
  /\ \A T \in SUBSET AgentId : IsFiniteSet(T) /\ Cardinality(T) \in Nat
<1> DEFINE Kinds == Elements(Team) \cup {"assign-story", "assign-reviewer"}
           Attempts == 0 .. MaxRetry
           Triples == (Kinds \X Story) \X Attempts
           make == [t \in Triples |-> [kind |-> t[1][1], story |-> t[1][2],
                                       attempt |-> t[2]]]
<1>1. IsFiniteSet(Kinds)
  <2>1. IsFiniteSet(Elements(Team))
    BY TeamAssumption, ElementsFinite
  <2>2. IsFiniteSet({"assign-story", "assign-reviewer"})
    <3>1. IsFiniteSet({} \cup {"assign-story"})
      BY FS_EmptySet, FS_AddElement
    <3>2. IsFiniteSet(({} \cup {"assign-story"}) \cup {"assign-reviewer"})
      BY <3>1, FS_AddElement
    <3>3. ({} \cup {"assign-story"}) \cup {"assign-reviewer"}
            = {"assign-story", "assign-reviewer"}
      OBVIOUS
    <3>4. QED BY <3>2, <3>3
  <2>3. QED BY <2>1, <2>2, FS_Union
<1>2. IsFiniteSet(Attempts)
  BY RetryAssumption, FS_Interval
<1> HIDE DEF Kinds, Attempts
<1>3. IsFiniteSet(Triples)
  BY <1>1, <1>2, StoriesFinite, FS_Product
<1>4. AgentId = [kind : Kinds, story : Story, attempt : Attempts]
  BY DEF AgentId, Kinds, Attempts
<1>5. make \in [Triples -> AgentId]
  BY <1>4
<1>6. ASSUME NEW a \in AgentId PROVE \E t \in Triples : make[t] = a
  <2>1. /\ <<<<a.kind, a.story>>, a.attempt>> \in Triples
        /\ a = [kind |-> a.kind, story |-> a.story, attempt |-> a.attempt]
    BY <1>4
  <2>2. make[<<<<a.kind, a.story>>, a.attempt>>] = a
    BY <2>1
  <2>3. QED BY <2>1, <2>2
<1> HIDE DEF make, Triples
<1>7. make \in Surjection(Triples, AgentId)
  BY <1>5, <1>6 DEF Surjection
<1>8. IsFiniteSet(AgentId)
  BY <1>3, <1>7, FS_Surjection
<1>9. QED BY <1>8, FS_Subset, FS_CardinalityType

TeamLaunch == [type : TeamAction, story : Story]

(* The launches of the team are those of its members not yet launched. *)
LEMMA TeamLaunchesTyped ==
  /\ TeamLaunches \in Seq(TeamLaunch)
  /\ \A x \in Elements(TeamLaunches) :
       /\ x.type \in Elements(Team) /\ ~Launched(x.type)
       /\ x.story = PrimaryStory
  /\ \A kind \in Elements(Team) :
       Launched(kind) \/ \E x \in Elements(TeamLaunches) : x.type = kind
<1> DEFINE waiting == {kind \in TeamAction : ~Launched(kind)}
           missing == Selected(Team, waiting)
           make(i) == [type |-> missing[i], story |-> PrimaryStory]
<1>1. Elements(Team) \subseteq TeamAction
  BY TeamAssumption, ElementsTyped
<1>2. /\ missing \in Seq(TeamAction)
      /\ Elements(missing) = Elements(Team) \cap waiting
  <2> HIDE DEF waiting
  <2>1. QED BY TeamAssumption, SelectedTyped, SelectedElements
<1>3. \A kind : kind \in waiting <=> kind \in TeamAction /\ ~Launched(kind)
  OBVIOUS
<1>4. TeamLaunches = [i \in 1 .. Len(missing) |-> make(i)]
  BY DEF TeamLaunches
<1> HIDE DEF waiting, missing
<1>5. Len(missing) \in Nat /\ \A i \in 1 .. Len(missing) : missing[i] \in TeamAction
  BY <1>2
<1>6. PrimaryStory \in Story
  BY StoriesFinite
<1>7. TeamLaunches \in Seq(TeamLaunch) /\ Len(TeamLaunches) = Len(missing)
  <2>1. \A i \in 1 .. Len(missing) : make(i) \in TeamLaunch
    BY <1>5, <1>6 DEF TeamLaunch
  <2>2. QED BY <1>4, <1>5, <2>1
<1>8. ASSUME NEW x \in Elements(TeamLaunches)
      PROVE  /\ x.type \in Elements(Team) /\ ~Launched(x.type)
             /\ x.story = PrimaryStory
  <2>1. PICK i \in 1 .. Len(missing) : x = make(i)
    BY <1>4, <1>7 DEF Elements
  <2>2. x.type \in Elements(missing) /\ x.story = PrimaryStory
    BY <2>1 DEF Elements
  <2>3. QED BY <1>2, <1>3, <2>2
<1>9. ASSUME NEW kind \in Elements(Team), ~Launched(kind)
      PROVE  \E x \in Elements(TeamLaunches) : x.type = kind
  <2>1. kind \in Elements(missing)
    BY <1>1, <1>2, <1>3, <1>9
  <2>2. PICK i \in 1 .. Len(missing) : missing[i] = kind
    BY <2>1 DEF Elements
  <2>3. make(i).type = kind
    BY <2>2
  <2>4. TeamLaunches[i] = make(i) /\ i \in 1 .. Len(TeamLaunches)
    BY <1>4, <1>7
  <2>5. TeamLaunches[i] \in Elements(TeamLaunches)
    BY <2>4 DEF Elements
  <2>6. QED BY <2>3, <2>4, <2>5
<1>10. QED BY <1>7, <1>8, <1>9

(* A tick admits what is due, and the launch of the team before any other. *)
THEOREM AdmittedDue ==
  /\ Admitted \in Seq(Action)
  /\ \A j \in 1 .. Len(Admitted) :
       /\ Due(Admitted[j])
       /\ Admitted[j].type \in TeamAction => ~AllLaunched
       /\ Admitted[j].type \in {"assign-story", "assign-reviewer"} =>
            \A kind \in Elements(Team) :
              Launched(kind) \/ \E i \in 1 .. j - 1 : Admitted[i].type = kind
<1> DEFINE seen == [s \in Story |-> Projection(s)]
           plan == PlanOrchestration(seen)
           all  == TeamLaunches \o plan
           n    == Cardinality(Occupied)
<1>1. n \in Nat
  BY AgentsFinite DEF Occupied
<1>2. /\ plan \in Seq(Action)
      /\ \A x \in Elements(plan) : /\ x \in Action /\ x.type \notin TeamAction
                                   /\ MayBePlanned(seen, x)
  <2> HIDE DEF seen
  <2>1. QED BY PlanIsDue
<1>3. Admitted = ReserveAgentLaunchCapacity(all, n)
  BY DEF Admitted
<1>4. TeamLaunch \subseteq Action /\ TeamLaunch \subseteq [type : LaunchAction, story : Story]
  BY DEF TeamLaunch, Action, ActionType, LaunchAction
<1>5. TeamLaunches \in Seq(Action)
  BY <1>4, TeamLaunchesTyped, SeqMonotonic
<1>6. \A x \in Elements(plan) : Due(x)
  <2> SUFFICES ASSUME NEW x \in Elements(plan) PROVE Due(x)
    OBVIOUS
  <2>1. /\ x.story \in Story /\ MayBePlanned(seen, x)
        /\ Dependencies[x.story] \subseteq Story
    BY <1>2, DependencyAssumption DEF Action
  <2>2. \A s \in Story : seen[s].status = story[s].status
    BY DEF Projection
  <2> HIDE DEF seen
  <2> DEFINE status == [s \in Story |-> seen[s].status]
  <2>3. \A s \in Story : status[s] = story[s].status
    BY <2>2
  <2>4. /\ x.type = "request-cleanup" => seen[x.story].status = "merged"
        /\ x.type = "request-merge" => seen[x.story].status = "approved"
        /\ x.type = "assign-reviewer" => seen[x.story].status = "awaiting-review"
        /\ x.type = "assign-story" => Ready(status, x.story)
    BY <2>1 DEF MayBePlanned
  <2> HIDE DEF status
  <2>5. ASSUME Ready(status, x.story)
        PROVE  /\ story[x.story].status \in {"ready", "changes-requested"}
               /\ \A d \in Dependencies[x.story] : story[d].status = "merged"
    BY <2>1, <2>3, <2>5 DEF Ready, SchedulingStatus
  <2>6. x.type \notin TeamAction
    BY <1>2
  <2>7. QED BY <2>1, <2>2, <2>4, <2>5, <2>6 DEF Due
<1> HIDE DEF plan, n
<1>7. all \in Seq(Action)
        /\ Elements(all) = Elements(TeamLaunches) \cup Elements(plan)
  BY <1>2, <1>5, ElementsOfConcat
<1>8. ComeFirst(TeamLaunch, all)
  <2>1. /\ Len(all) = Len(TeamLaunches) + Len(plan)
        /\ \A i \in 1 .. Len(TeamLaunches) + Len(plan) :
             all[i] = IF i <= Len(TeamLaunches) THEN TeamLaunches[i]
                      ELSE plan[i - Len(TeamLaunches)]
    BY <1>2, <1>5, ConcatProperties
  <2> HIDE DEF all
  <2>2. Len(TeamLaunches) \in Nat /\ Len(plan) \in Nat
    BY <1>2, <1>5
  <2> SUFFICES ASSUME NEW i \in 1 .. Len(all), NEW j \in 1 .. Len(all),
                      i < j, all[j] \in TeamLaunch
               PROVE  all[i] \in TeamLaunch
    BY DEF ComeFirst
  <2>3. j <= Len(TeamLaunches)
    <3> SUFFICES ASSUME ~(j <= Len(TeamLaunches)) PROVE FALSE
      OBVIOUS
    <3>1. all[j] = plan[j - Len(TeamLaunches)]
            /\ j - Len(TeamLaunches) \in 1 .. Len(plan)
      BY <2>1, <2>2
    <3>2. all[j] \in Elements(plan)
      BY <3>1 DEF Elements
    <3>3. QED BY <1>2, <3>2 DEF TeamLaunch
  <2>4. i \in 1 .. Len(TeamLaunches) /\ all[i] = TeamLaunches[i]
    BY <2>1, <2>2, <2>3
  <2>5. QED BY <2>4, TeamLaunchesTyped, ElementOfSeq
<1> HIDE DEF all
<1>9. /\ Admitted \in Seq(Action) /\ Elements(Admitted) \subseteq Elements(all)
      /\ ComeFirst(TeamLaunch, Admitted)
  BY <1>1, <1>3, <1>7, <1>8, ReservedTyped
<1>10. ASSUME NEW x \in Elements(TeamLaunches)
       PROVE  Due(x) /\ x.type \in TeamAction /\ ~AllLaunched
                /\ x \in TeamLaunch
  <2>1. /\ x \in TeamLaunch /\ x.type \in Elements(Team) /\ ~Launched(x.type)
        /\ x.story = PrimaryStory
    BY TeamLaunchesTyped, ElementsTyped
  <2>2. QED BY <2>1 DEF TeamLaunch, TeamAction, Due, AllLaunched
<1>11. ASSUME NEW j \in 1 .. Len(Admitted)
       PROVE  /\ Due(Admitted[j])
              /\ Admitted[j].type \in TeamAction => ~AllLaunched
  <2>1. Admitted[j] \in Elements(TeamLaunches) \cup Elements(plan)
    BY <1>7, <1>9 DEF Elements
  <2>2. QED BY <1>2, <1>6, <1>10, <2>1
<1>12. ASSUME NEW j \in 1 .. Len(Admitted),
              Admitted[j].type \in {"assign-story", "assign-reviewer"},
              NEW kind \in Elements(Team), ~Launched(kind)
       PROVE  \E i \in 1 .. j - 1 : Admitted[i].type = kind
  <2>1. PICK y \in Elements(TeamLaunches) : y.type = kind
    BY <1>12, TeamLaunchesTyped
  <2>2. y \in Elements(all) \cap TeamLaunch
    BY <1>7, <1>10
  <2>3. /\ Admitted[j] \in Elements(Admitted)
        /\ Admitted[j].type \in LaunchAction /\ Admitted[j] \notin TeamLaunch
    BY <1>12 DEF Elements, LaunchAction, TeamLaunch, TeamAction
  <2>4. y \in Elements(Admitted)
    BY <1>1, <1>3, <1>4, <1>7, <1>8, <2>2, <2>3, ReservedInOrder
  <2>5. PICK i \in 1 .. Len(Admitted) : Admitted[i] = y
    BY <2>4 DEF Elements
  <2>6. i < j
    <3>1. ~(j < i)
      BY <1>9, <2>2, <2>3, <2>5 DEF ComeFirst
    <3>2. i # j
      BY <2>2, <2>3, <2>5
    <3>3. QED BY <3>1, <3>2
  <2>7. QED BY <2>1, <2>5, <2>6
<1>13. QED BY <1>9, <1>11, <1>12

-----------------------------------------------------------------------------
(* A tick keeps the typing.                                                *)

(* The rest of a list of actions. *)
LEMMA RestTyped ==
  ASSUME NEW q \in Seq(Action), q # <<>>
  PROVE  /\ q[1] \in Action /\ Tail(q) \in Seq(Action)
         /\ Len(q) \in Nat \ {0}
         /\ Len(Tail(q)) = Len(q) - 1
         /\ \A j \in 1 .. Len(Tail(q)) :
              Tail(q)[j] = q[j + 1] /\ j + 1 \in 1 .. Len(q)
<1>1. Len(q) \in Nat \ {0}
  OBVIOUS
<1>2. QED BY <1>1, HeadTailProperties

(* An effect that acted leaves the tick acting, with what is left to do. *)
LEMMA ActedTyped ==
  ASSUME Typed, job.step \in TickSteps, job.todo # <<>>,
         NEW rows, RowsTyped(rows), Acted(rows)
  PROVE  /\ job' \in JobType /\ job'.step = "act" /\ job'.story = rows
         /\ job'.todo = Tail(job.todo) /\ job'.run = job.run
<1>1. job \in JobType /\ "act" \in Steps
  BY DEF Typed, TypeOK, JobType, Steps
<1>2. Tail(job.todo) \in Seq(Action) /\ rows \in [Story -> StoryRow]
  BY <1>1, RestTyped DEF JobType, RowsTyped
<1>3. QED BY <1>1, <1>2 DEF Acted, JobType

(* A step within a tick keeps the typing when its variables have their *)
(* type and the tick knows what its next step needs.                   *)
LEMMA TickTyped ==
  ASSUME Typed, TickStep, UNCHANGED run, job' \in JobType, JobTyped',
         RowsTyped(story'), AgentsTyped',
         agent' \in [AgentId -> AgentStatus \cup {"absent"}],
         confirmed' \subseteq AgentId, pane' \subseteq AgentId,
         lease' \in [Story -> AgentId \cup {None}],
         tree' \in [Story -> TreeRow], staged' \in Story \cup {None},
         mainline' \in Seq(Merge)
  PROVE  Typed'
<1>1. RowsTyped(story)'
  BY DEF RowsTyped
<1>2. TypeOK'
  BY DEF Typed, TypeOK, TickStep, JobType, TreeRow, RowsTyped
<1>3. QED BY <1>1, <1>2 DEF Typed

(* In a tick that acts, the next step needs only the copy and the run. *)
LEMMA ActTyped ==
  ASSUME Typed, job.step \in TickSteps, UNCHANGED run,
         job'.step = "act", RowsTyped(job'.story),
         job'.run \in {"active", "completed"}
  PROVE  JobTyped'
<1>1. run \notin {"planning", "awaiting-approval"}
  BY DEF Typed, JobTyped
<1>2. RowsTyped(job.story)'
  BY DEF RowsTyped
<1>3. QED BY <1>1, <1>2 DEF JobTyped, MessageSteps, TickSteps, LaunchSteps

(* So do merges, cleanup and completion. *)
LEMMA TypedEffects ==
  ASSUME Typed,
         StageMerge \/ CommitMerge \/ RecoverMerge \/ CleanUp \/ CompleteRun
  PROVE  Typed'
<1> DEFINE s == job.todo[1].story
           copy == job.story
<1>1. /\ TypeOK /\ RowsTyped(story) /\ AgentsTyped /\ JobTyped
      /\ story \in [Story -> StoryRow] /\ run \in RunStatus
      /\ agent \in [AgentId -> AgentStatus \cup {"absent"}]
      /\ job \in JobType /\ confirmed \subseteq AgentId /\ pane \subseteq AgentId
      /\ lease \in [Story -> AgentId \cup {None}] /\ staged \in Story \cup {None}
      /\ tree \in [Story -> TreeRow] /\ mainline \in Seq(Merge)
      /\ IntegrationHead \in Nat
  BY DEF Typed, TypeOK, JobType, TreeRow, IntegrationHead
<1>2. job.step \in {"act", "staged"} /\ job.step \in TickSteps /\ job.todo # <<>>
  BY <1>1 DEF StageMerge, CommitMerge, RecoverMerge, CleanUp, CompleteRun,
              Acting, JobTyped, TickSteps
<1>3. /\ RowsTyped(copy) /\ copy \in [Story -> StoryRow]
      /\ job.run \in {"active", "completed"}
      /\ run \notin {"planning", "awaiting-approval"}
      /\ job.todo \in Seq(Action)
  BY <1>1, <1>2 DEF JobTyped, RowsTyped, JobType
<1>4. s \in Story /\ copy[s] \in StoryRow
  BY <1>2, <1>3, RestTyped DEF Action
<1> HIDE DEF s, copy
<1>5. ASSUME StageMerge PROVE Typed'
  <2>1. /\ job' = [job EXCEPT !.step = "staged"] /\ staged' = s /\ TickStep
        /\ job.todo[1].type = "request-merge"
        /\ UNCHANGED <<run, story, agent, confirmed, pane, lease, tree, mainline>>
    BY <1>5 DEF StageMerge, Acting, launchVars, s
  <2>2. /\ job' \in JobType /\ job'.step = "staged" /\ job'.todo = job.todo
        /\ job'.story = copy /\ job'.run = job.run
    <3>1. "staged" \in Steps
      BY DEF Steps
    <3>2. QED BY <1>1, <2>1, <3>1 DEF JobType, copy
  <2>3. RowsTyped(job.story)'
    BY <1>3, <2>2 DEF RowsTyped
  <2>4. JobTyped'
    BY <1>2, <1>3, <2>1, <2>2, <2>3
       DEF JobTyped, MessageSteps, TickSteps, LaunchSteps
  <2>5. AgentsTyped'
    BY <1>1, <2>1 DEF AgentsTyped
  <2>6. QED BY <1>1, <1>4, <2>1, <2>2, <2>4, <2>5, TickTyped
<1>6. ASSUME NEW rows, RowsTyped(rows), Acted(rows), TickStep,
             UNCHANGED <<run, story, agent, confirmed, pane, lease>>,
             tree' \in [Story -> TreeRow], staged' \in Story \cup {None},
             mainline' \in Seq(Merge)
      PROVE  Typed'
  <2>1. /\ job' \in JobType /\ job'.step = "act" /\ job'.story = rows
        /\ job'.run = job.run
    BY <1>2, <1>6, ActedTyped
  <2>2. JobTyped'
    BY <1>2, <1>3, <1>6, <2>1, ActTyped
  <2>3. AgentsTyped'
    BY <1>1, <1>6 DEF AgentsTyped
  <2>4. QED BY <1>1, <1>6, <2>1, <2>2, <2>3, TickTyped
<1>7. ASSUME NEW head \in Nat
      PROVE  RowsTyped([copy EXCEPT ![s] = StoryMerged(@, head)])
  <2> DEFINE row == StoryMerged(copy[s], head)
  <2>1. row \in StoryRow /\ row.status = "merged"
    BY <1>4, <1>7 DEF StoryMerged, StoryRow, StoryStatus
  <2>2. "merged" \in LiveStatus
    BY DEF LiveStatus
  <2> HIDE DEF row
  <2>3. RowsTyped([copy EXCEPT ![s] = row])
    BY <1>3, <1>4, <2>1, <2>2, RowWritten
  <2>4. QED BY <2>3 DEF row
<1>8. ASSUME CommitMerge PROVE Typed'
  <2> DEFINE rows == [copy EXCEPT ![s] = StoryMerged(@, IntegrationHead + 1)]
  <2>1. RowsTyped(rows)
    BY <1>1, <1>7
  <2>2. Candidate(s, copy[s]) \in Merge
    BY <1>4 DEF Candidate, Merge, StoryRow
  <2>3. mainline' = Append(mainline, Candidate(s, copy[s]))
    BY <1>8 DEF CommitMerge, Candidate, s, copy
  <2>4. mainline' \in Seq(Merge)
    BY <1>1, <2>2, <2>3
  <2>5. /\ Acted(rows) /\ TickStep /\ staged' = None
        /\ UNCHANGED <<run, story, agent, confirmed, pane, lease, tree>>
    BY <1>8 DEF CommitMerge, launchVars, s, copy
  <2> HIDE DEF rows
  <2>6. QED BY <1>1, <1>6, <2>1, <2>4, <2>5
<1>9. ASSUME RecoverMerge PROVE Typed'
  <2> DEFINE rows == [copy EXCEPT ![s] = StoryMerged(@, IntegrationHead)]
  <2>1. RowsTyped(rows)
    BY <1>1, <1>7
  <2>2. /\ Acted(rows) /\ TickStep
        /\ UNCHANGED <<run, story, agent, confirmed, pane, lease, tree, staged,
                       mainline>>
    BY <1>9 DEF RecoverMerge, launchVars, gitVars, s, copy
  <2> HIDE DEF rows
  <2>3. QED BY <1>1, <1>6, <2>1, <2>2
<1>10. ASSUME CleanUp PROVE Typed'
  <2> DEFINE row  == [copy[s] EXCEPT !.cleaned = TRUE]
             rows == [copy EXCEPT ![s].cleaned = TRUE]
  <2>1. /\ row \in StoryRow /\ row.status = copy[s].status
        /\ row.candidate = copy[s].candidate
    BY <1>4 DEF StoryRow
  <2>2. rows = [copy EXCEPT ![s] = row]
    OBVIOUS
  <2> HIDE DEF row
  <2>3. RowsTyped(rows)
    BY <1>3, <1>4, <2>1, <2>2 DEF RowsTyped
  <2>4. /\ Acted(rows) /\ TickStep /\ tree' = [tree EXCEPT ![s] = NoTree]
        /\ UNCHANGED <<run, story, agent, confirmed, pane, lease, staged,
                       mainline>>
    BY <1>10 DEF CleanUp, launchVars, s, copy
  <2>5. tree' \in [Story -> TreeRow]
    BY <1>1, <1>4, <2>4 DEF TreeRow, NoTree
  <2> HIDE DEF rows
  <2>6. QED BY <1>1, <1>6, <2>3, <2>4, <2>5
<1>11. ASSUME CompleteRun PROVE Typed'
  <2>1. /\ job' = [job EXCEPT !.todo = Tail(@), !.run = "completed"]
        /\ TickStep /\ job.step = "act"
        /\ UNCHANGED <<run, story, agent, confirmed, pane, lease, tree, staged,
                       mainline>>
    BY <1>11, RunMoves DEF CompleteRun, Acting, launchVars, gitVars
  <2>2. /\ job' \in JobType /\ job'.step = "act" /\ job'.story = copy
        /\ job'.run = "completed"
    <3>1. Tail(job.todo) \in Seq(Action) /\ "completed" \in RunStatus
      BY <1>2, <1>3, RestTyped, RunMoves
    <3>2. QED BY <1>1, <2>1, <3>1 DEF JobType, copy
  <2>3. JobTyped'
    BY <1>2, <1>3, <2>1, <2>2, ActTyped
  <2>4. AgentsTyped'
    BY <1>1, <2>1 DEF AgentsTyped
  <2>5. QED BY <1>1, <2>1, <2>2, <2>3, <2>4, TickTyped
<1>12. QED BY <1>5, <1>8, <1>9, <1>10, <1>11

(* A launch in progress is the one its tick has at its head. *)
LEMMA LaunchTyped ==
  ASSUME Typed, job.step \in LaunchSteps
  PROVE  /\ job.agent \in AgentId /\ job.agent.story \in Story
         /\ job.agent.kind = job.todo[1].type
         /\ job.agent.story = job.todo[1].story
         /\ job.todo # <<>> /\ job.todo \in Seq(Action)
         /\ job.step \in TickSteps
         /\ job.agent \in Writers <=> job.todo[1].type = "assign-story"
         /\ job.agent \in Reviewers <=> job.todo[1].type = "assign-reviewer"
<1>1. /\ job.agent \in AgentId /\ job.todo # <<>>
      /\ job.agent.kind = job.todo[1].type
      /\ job.agent.story = job.todo[1].story
      /\ job.todo \in Seq(Action)
  BY DEF Typed, JobTyped, TypeOK
<1>2. job.agent.story \in Story
  BY <1>1 DEF AgentId
<1>3. job.step \in TickSteps
  BY DEF TickSteps
<1>4. QED BY <1>1, <1>2, <1>3 DEF Writers, Reviewers

(* The identity a launch is made for has its kind and its story. *)
LEMMA AgentForRole ==
  ASSUME NEW kind, NEW s
  PROVE  AgentFor(kind, s).kind = kind /\ AgentFor(kind, s).story = s
BY DEF AgentFor

(* What a launch makes of its story's row. *)
LEMMA AssignedTyped ==
  ASSUME NEW row \in StoryRow, NEW a \in AgentId,
         row.status \in LiveStatus,
         row.status = "awaiting-review" => row.candidate > 0
  PROVE  /\ Assigned(row, a) \in StoryRow
         /\ Assigned(row, a).status = IF a \in Writers THEN "assigned"
                                                       ELSE row.status
         /\ a \notin Writers => /\ Assigned(row, a).candidate = row.candidate
                                /\ Assigned(row, a).reviewed = row.reviewed
                                /\ Assigned(row, a).merge = row.merge
         /\ Assigned(row, a).cleaned => row.cleaned
<1>1. CASE a \in Writers
  <2> DEFINE from == IF row.status = "changes-requested"
                       THEN ReassignmentRequested(row, None) ELSE row
  <2>1. from \in StoryRow /\ (from.cleaned => row.cleaned)
    BY DEF ReassignmentRequested, NewStory, StoryRow, StoryStatus
  <2>2. Assigned(row, a) = StoryAssigned(from, a)
    <3>1. a \notin Reviewers
      BY <1>1 DEF Reviewers, Writers
    <3>2. QED BY <1>1, <3>1 DEF Assigned
  <2> HIDE DEF from
  <2>3. QED BY <1>1, <2>1, <2>2 DEF StoryAssigned, StoryRow, StoryStatus
<1>2. CASE a \in Reviewers
  <2>1. a \notin Writers
    BY <1>2 DEF Reviewers, Writers
  <2>2. Assigned(row, a) = [row EXCEPT !.reviewer = a]
    BY <1>2, <2>1 DEF Assigned
  <2>3. QED BY <2>1, <2>2 DEF StoryRow
<1>3. CASE a \notin Writers /\ a \notin Reviewers
  <2>1. Assigned(row, a) = row
    BY <1>3 DEF Assigned
  <2>2. QED BY <1>3, <2>1
<1>4. QED BY <1>1, <1>2, <1>3

(* So do the seven steps of a launch. *)
LEMMA TypedLaunch ==
  ASSUME Typed, LaunchAgent
  PROVE  Typed'
<1> DEFINE a == job.agent
           copy == job.story
<1>1. /\ TypeOK /\ RowsTyped(story) /\ AgentsTyped /\ JobTyped
      /\ story \in [Story -> StoryRow] /\ run \in RunStatus
      /\ agent \in [AgentId -> AgentStatus \cup {"absent"}]
      /\ job \in JobType /\ confirmed \subseteq AgentId /\ pane \subseteq AgentId
      /\ lease \in [Story -> AgentId \cup {None}] /\ staged \in Story \cup {None}
      /\ tree \in [Story -> TreeRow] /\ mainline \in Seq(Merge)
      /\ IntegrationHead \in Nat
      /\ controller \in {"ready", "gated", "down", "quarantined"}
  BY DEF Typed, TypeOK, JobType, TreeRow, IntegrationHead
<1>2. /\ job.step \in TickSteps /\ job.todo # <<>>
      /\ job.step = "act" \/ job.step \in LaunchSteps
  BY <1>1 DEF LaunchAgent, ProvisionGit, AcquireLease, Materialize,
     ConfirmLaunch, RefuseLaunch, ReadyToMaterialize, JobTyped, IsLaunch,
     TickSteps, LaunchSteps
<1>3. /\ RowsTyped(copy) /\ copy \in [Story -> StoryRow]
      /\ job.run \in {"active", "completed"}
      /\ run \notin {"planning", "awaiting-approval"}
      /\ job.todo \in Seq(Action) /\ job.todo[1] \in Action
  BY <1>1, <1>2, RestTyped DEF JobTyped, RowsTyped, JobType
<1> HIDE DEF a, copy
<1>4. ASSUME NEW step \in Steps, NEW b \in AgentId,
             job' = [job EXCEPT !.step = step, !.agent = b]
      PROVE  /\ job' \in JobType /\ job'.step = step /\ job'.agent = b
             /\ job'.todo = job.todo /\ job'.story = copy /\ job'.run = job.run
             /\ RowsTyped(job.story)'
  <2>1. /\ job' \in JobType /\ job'.step = step /\ job'.agent = b
        /\ job'.todo = job.todo /\ job'.story = copy /\ job'.run = job.run
    BY <1>1, <1>4 DEF JobType, copy
  <2>2. QED BY <1>3, <2>1 DEF RowsTyped
<1>5. LaunchSteps \subseteq Steps
  BY DEF LaunchSteps, Steps
<1>6. ASSUME job.step \in LaunchSteps
      PROVE  /\ a \in AgentId /\ a.story \in Story
             /\ a.kind = job.todo[1].type /\ a.story = job.todo[1].story
             /\ a \in Writers <=> job.todo[1].type = "assign-story"
  BY <1>6, LaunchTyped DEF a
<1>7. ASSUME ProvisionGit PROVE Typed'
  <2> DEFINE b == AgentFor(job.todo[1].type, job.todo[1].story)
  <2>1. /\ b \in AgentId /\ TickStep
        /\ job' = [job EXCEPT !.step = "provisioned", !.agent = b]
        /\ \/ tree' = tree
           \/ tree' = [tree EXCEPT ![b.story] =
                         [NoTree EXCEPT !.present = TRUE,
                                        !.base = IntegrationHead]]
        /\ UNCHANGED <<run, story, agent, confirmed, pane, lease, staged,
                       mainline>>
    BY <1>7 DEF ProvisionGit, launchVars
  <2>2. b.kind = job.todo[1].type /\ b.story = job.todo[1].story
    BY AgentForRole
  <2> HIDE DEF b
  <2>3. /\ job' \in JobType /\ job'.step = "provisioned" /\ job'.agent = b
        /\ job'.todo = job.todo /\ job'.story = copy /\ job'.run = job.run
        /\ RowsTyped(job.story)'
    BY <1>4, <1>5, <2>1 DEF LaunchSteps
  <2>4. JobTyped'
    BY <1>2, <1>3, <2>1, <2>2, <2>3
       DEF JobTyped, MessageSteps, TickSteps, LaunchSteps
  <2>5. tree' \in [Story -> TreeRow]
    <3>1. [NoTree EXCEPT !.present = TRUE, !.base = IntegrationHead] \in TreeRow
      BY <1>1 DEF NoTree, TreeRow
    <3>2. b.story \in Story
      BY <2>1 DEF AgentId
    <3>3. QED BY <1>1, <2>1, <3>1, <3>2
  <2>6. AgentsTyped'
    BY <1>1, <2>1 DEF AgentsTyped
  <2>7. QED BY <1>1, <2>1, <2>3, <2>4, <2>5, <2>6, TickTyped
<1>8. ASSUME AcquireLease PROVE Typed'
  <2>1. /\ job.step = "provisioned" /\ a \in Writers /\ TickStep
        /\ lease' = [lease EXCEPT ![a.story] = a]
        /\ story' = [story EXCEPT ![a.story].writer = a]
        /\ agent' = [agent EXCEPT ![a] = IF @ = "absent" THEN "planned" ELSE @]
        /\ job' = [job EXCEPT !.step = "leased"]
        /\ UNCHANGED <<run, confirmed, pane, tree, staged, mainline>>
    BY <1>8 DEF AcquireLease, launchVars, gitVars, a
  <2>2. job.step \in LaunchSteps
    BY <2>1 DEF LaunchSteps
  <2>3. /\ a \in AgentId /\ a.story \in Story
        /\ a.kind = job.todo[1].type /\ a.story = job.todo[1].story
    BY <1>6, <2>2
  <2>4. job' = [job EXCEPT !.step = "leased", !.agent = a]
    BY <1>1, <2>1 DEF JobType, a
  <2>5. /\ job' \in JobType /\ job'.step = "leased" /\ job'.agent = a
        /\ job'.todo = job.todo /\ job'.story = copy /\ job'.run = job.run
        /\ RowsTyped(job.story)'
    BY <1>4, <1>5, <2>3, <2>4 DEF LaunchSteps
  <2>6. /\ agent' \in [AgentId -> AgentStatus \cup {"absent"}]
        /\ AgentsTyped' /\ agent'[a] # "absent"
    <3>1. "planned" \in AgentStatus
      BY DEF AgentStatus
    <3>2. QED BY <1>1, <2>1, <2>3, <3>1 DEF AgentsTyped
  <2>7. RowsTyped(story')
    <3> DEFINE row == [story[a.story] EXCEPT !.writer = a]
    <3>1. row \in StoryRow /\ row.status = story[a.story].status
            /\ row.candidate = story[a.story].candidate
      BY <1>1, <2>3 DEF StoryRow
    <3>2. story' = [story EXCEPT ![a.story] = row]
      BY <2>1
    <3> HIDE DEF row
    <3>3. QED BY <1>1, <2>3, <3>1, <3>2 DEF RowsTyped
  <2>8. JobTyped'
    BY <1>2, <1>3, <2>1, <2>3, <2>5, <2>6
       DEF JobTyped, MessageSteps, TickSteps, LaunchSteps
  <2>9. lease' \in [Story -> AgentId \cup {None}]
    BY <1>1, <2>1, <2>3
  <2>10. QED BY <1>1, <2>1, <2>5, <2>6, <2>7, <2>8, <2>9, TickTyped
<1>9. ASSUME Materialize PROVE Typed'
  <2>1. /\ job.step \in {"leased", "provisioned"} /\ TickStep
        /\ agent' = [agent EXCEPT ![a] = "launching"]
        /\ pane' = pane \cup {a}
        /\ job' = [job EXCEPT !.step = "launching"]
        /\ UNCHANGED <<run, story, confirmed, lease, tree, staged, mainline>>
    BY <1>9 DEF Materialize, ReadyToMaterialize, gitVars, a
  <2>2. job.step \in LaunchSteps
    BY <2>1 DEF LaunchSteps
  <2>3. /\ a \in AgentId /\ a.story \in Story
        /\ a.kind = job.todo[1].type /\ a.story = job.todo[1].story
    BY <1>6, <2>2
  <2>4. job' = [job EXCEPT !.step = "launching", !.agent = a]
    BY <1>1, <2>1 DEF JobType, a
  <2>5. /\ job' \in JobType /\ job'.step = "launching" /\ job'.agent = a
        /\ job'.todo = job.todo /\ job'.story = copy /\ job'.run = job.run
        /\ RowsTyped(job.story)'
    BY <1>4, <1>5, <2>3, <2>4 DEF LaunchSteps
  <2>6. /\ agent' \in [AgentId -> AgentStatus \cup {"absent"}]
        /\ AgentsTyped' /\ agent'[a] # "absent"
    <3>1. "launching" \in AgentStatus
      BY DEF AgentStatus
    <3>2. QED BY <1>1, <2>1, <2>3, <3>1 DEF AgentsTyped
  <2>7. JobTyped'
    BY <1>2, <1>3, <2>1, <2>3, <2>5, <2>6
       DEF JobTyped, MessageSteps, TickSteps, LaunchSteps
  <2>8. QED BY <1>1, <2>1, <2>3, <2>5, <2>6, <2>7, TickTyped
<1>10. ASSUME ConfirmLaunch PROVE Typed'
  <2> DEFINE row  == Assigned(copy[a.story], a)
             rows == [copy EXCEPT ![a.story] = Assigned(@, a)]
  <2>1. /\ job.step = "launching" /\ TickStep /\ confirmed' = confirmed \cup {a}
        /\ Acted(rows)
        /\ UNCHANGED <<run, story, agent, pane, lease, tree, staged, mainline>>
    BY <1>10 DEF ConfirmLaunch, gitVars, a, copy
  <2>2. a \in AgentId /\ a.story \in Story
    BY <1>6, <2>1 DEF LaunchSteps
  <2>3. /\ copy[a.story] \in StoryRow /\ copy[a.story].status \in LiveStatus
        /\ copy[a.story].status = "awaiting-review" =>
             copy[a.story].candidate > 0
    BY <1>3, <2>2 DEF RowsTyped
  <2>4. /\ row \in StoryRow /\ row.status \in LiveStatus
        /\ row.status = "awaiting-review" => row.candidate > 0
    BY <2>2, <2>3, AssignedTyped DEF LiveStatus, Work
  <2>5. rows = [copy EXCEPT ![a.story] = row]
    OBVIOUS
  <2> HIDE DEF row
  <2>6. RowsTyped(rows)
    BY <1>3, <2>2, <2>4, <2>5, RowWritten
  <2> HIDE DEF rows
  <2>7. /\ job' \in JobType /\ job'.step = "act" /\ job'.story = rows
        /\ job'.run = job.run
    BY <1>2, <2>1, <2>6, ActedTyped
  <2>8. JobTyped'
    BY <1>2, <1>3, <2>1, <2>6, <2>7, ActTyped
  <2>9. AgentsTyped'
    BY <1>1, <2>1 DEF AgentsTyped
  <2>10. QED BY <1>1, <2>1, <2>2, <2>7, <2>8, <2>9, TickTyped
<1>11. ASSUME RefuseLaunch PROVE Typed'
  <2>1. /\ job.step \in {"leased", "provisioned"} /\ TickStep
        /\ lease' \in {lease, [lease EXCEPT ![a.story] = None]}
        /\ pane' = pane \ {a} /\ tree' = RollBackTree(a)
        /\ TickFails(lease')
        /\ UNCHANGED <<story, agent, confirmed, staged, mainline>>
    BY <1>11 DEF RefuseLaunch, ReadyToMaterialize, a
  <2>2. a \in AgentId /\ a.story \in Story
    BY <1>6, <2>1 DEF LaunchSteps
  <2>3. tree' \in [Story -> TreeRow]
    BY <2>1, <2>2, TreesTyped
  <2>4. job' \in JobType /\ job'.step = "idle" /\ run' \in RunStatus
    BY <2>1, TickFailsTyped
  <2>5. UNCHANGED <<controller, approvals>>
    BY <2>1 DEF TickStep
  <2>6. lease' \in [Story -> AgentId \cup {None}]
    BY <1>1, <2>1
  <2>7. pane' \subseteq AgentId
    BY <1>1, <2>1
  <2>8. QED BY <1>1, <2>1, <2>3, <2>4, <2>5, <2>6, <2>7, EndTyped
<1>12. QED BY <1>7, <1>8, <1>9, <1>10, <1>11 DEF LaunchAgent

(* So does a tick. *)
LEMMA TypedTick ==
  ASSUME Typed, AdvanceTick
  PROVE  Typed'
<1>1. /\ TypeOK /\ RowsTyped(story) /\ AgentsTyped /\ JobTyped
      /\ story \in [Story -> StoryRow] /\ run \in RunStatus
      /\ agent \in [AgentId -> AgentStatus \cup {"absent"}]
      /\ job \in JobType /\ confirmed \subseteq AgentId /\ pane \subseteq AgentId
      /\ lease \in [Story -> AgentId \cup {None}] /\ staged \in Story \cup {None}
      /\ tree \in [Story -> TreeRow] /\ mainline \in Seq(Merge)
      /\ controller \in {"ready", "gated", "down", "quarantined"}
      /\ approvals \subseteq Merge
  BY DEF Typed, TypeOK, JobType, TreeRow
<1>2. ASSUME QuietTick PROVE Typed'
  <2>1. /\ UNCHANGED <<controller, approvals, run, story, agent, confirmed,
                       pane, lease, tree, staged, mainline>>
        /\ job' = Idle
    BY <1>2 DEF QuietTick, TickStep, launchVars, gitVars, Abort
  <2>2. QED BY <1>1, <2>1, EndTyped, PlainJobs, JobsTyped
<1>3. ASSUME FailEffect \/ FailTick PROVE Typed'
  <2>1. job' \in JobType /\ job'.step = "idle" /\ run' \in RunStatus
    BY <1>3, TickFailsTyped DEF FailEffect, FailTick
  <2>2. UNCHANGED <<controller, approvals, story, agent, confirmed, pane,
                    lease, tree, staged, mainline>>
    BY <1>3 DEF FailEffect, FailTick, TickStep, launchVars, gitVars
  <2>3. QED BY <1>1, <2>1, <2>2, EndTyped
<1>4. ASSUME NEW managed \in BOOLEAN, LoadTick(managed) PROVE Typed'
  <2>1. /\ TickStep /\ run \in {"ready", "active"}
        /\ job' = [Idle EXCEPT !.step = "act", !.todo = Admitted,
                     !.run = "active", !.story = story,
                     !.acted = (Admitted # <<>>), !.managed = managed]
        /\ UNCHANGED <<run, story, agent, confirmed, pane, lease, tree, staged,
                       mainline>>
    BY <1>4 DEF LoadTick, launchVars, gitVars
  <2>2. /\ job' \in JobType /\ job'.step = "act" /\ job'.story = story
        /\ job'.run = "active"
    <3>1. /\ Admitted \in Seq(Action) /\ "active" \in RunStatus
          /\ "act" \in Steps /\ (Admitted # <<>>) \in BOOLEAN
          /\ Idle \in JobType
      BY AdmittedDue, RunMoves, JobsTyped DEF Steps
    <3>2. QED BY <1>1, <2>1, <3>1 DEF JobType
  <2>3. RowsTyped(job.story)'
    BY <1>1, <2>2 DEF RowsTyped
  <2>4. JobTyped'
    BY <2>1, <2>2, <2>3 DEF JobTyped, MessageSteps, TickSteps, LaunchSteps
  <2>5. AgentsTyped' /\ RowsTyped(story')
    BY <1>1, <2>1 DEF AgentsTyped
  <2>6. QED BY <1>1, <2>1, <2>2, <2>4, <2>5, TickTyped
<1>5. ASSUME CommitTick PROVE Typed'
  <2>1. /\ run' = job.run /\ story' = job.story /\ job' = NextDrainJob
        /\ UNCHANGED <<controller, approvals, agent, confirmed, pane, lease,
                       tree, staged, mainline>>
    BY <1>5 DEF CommitTick, TickStep, launchVars, gitVars
  <2>2. /\ RowsTyped(job.story) /\ job.run \in {"active", "completed"}
    BY <1>1, <1>5 DEF CommitTick, JobTyped, TickSteps
  <2>3. job' \in JobType /\ job'.step \in {"idle", "tick"}
    <3>1. [TickJob EXCEPT !.managed = job.managed] \in JobType
            /\ [TickJob EXCEPT !.managed = job.managed].step = "tick"
      BY <1>1, JobsTyped, PlainJobs DEF JobType
    <3>2. QED BY <2>1, <3>1, JobsTyped, PlainJobs DEF NextDrainJob
  <2>4. RowsTyped(story)' /\ AgentsTyped' /\ JobTyped'
    BY <1>1, <2>1, <2>2, <2>3, PlainJobTyped DEF RowsTyped, AgentsTyped
  <2>5. job.run \in RunStatus /\ job.story \in [Story -> StoryRow]
    BY <2>2, RunMoves DEF RowsTyped
  <2>6. TypeOK'
    BY <1>1, <2>1, <2>3, <2>5 DEF TypeOK, JobType, TreeRow
  <2>7. QED BY <2>4, <2>6 DEF Typed
<1>6. QED BY <1>2, <1>3, <1>4, <1>5, TypedEffects, TypedLaunch DEF AdvanceTick

(* What the operation in progress knows, and the type of every variable. *)
THEOREM TypedStep == Typed /\ [Next]_vars => Typed'
<1> SUFFICES ASSUME Typed, [Next]_vars PROVE Typed'
  OBVIOUS
<1>1. CASE UNCHANGED vars
  <2>1. RowsTyped(job.story) => RowsTyped(job.story)'
    BY <1>1 DEF RowsTyped, vars
  <2>2. QED BY <1>1, <2>1 DEF Typed, TypeOK, RowsTyped, AgentsTyped, JobTyped,
       vars, launchVars, gitVars
<1>2. CASE Next
  BY <1>2, TypedMessages, TypedTick, TypedOutside DEF Next
<1>3. QED BY <1>1, <1>2

(* Run, rows, agents, worktrees and the operation in progress are well typed,*)
(* and the rows and the operation hold what their status and step say.     *)
THEOREM AlwaysTyped == Spec => []Typed
<1>1. Init => Typed
  BY TypedInit
<1>2. Typed /\ [Next]_vars => Typed'
  BY TypedStep
<1>3. QED BY <1>1, <1>2, PTL DEF Spec

(* The variables of the controller, its database and its Git worktrees     *)
(* always have their types, whatever fails and whatever is interrupted.    *)
THEOREM Typing == Spec => []TypeOK
<1>1. Typed => TypeOK
  BY DEF Typed
<1>2. QED BY <1>1, AlwaysTyped, PTL

-----------------------------------------------------------------------------
(* Which steps matter.                                                     *)

\* A row stays in its phase, or a review approves its candidate.
RowKept(s) ==
  /\ story'[s].cleaned = story[s].cleaned
  /\ \/ story'[s] = story[s]
     \/ story[s].status \in Fresh /\ story'[s].status \in Fresh
     \/ story[s].status \in Work /\ story'[s].status \in Work
     \/ /\ story[s].status \in Work /\ story'[s].status = "approved"
        /\ Candidate(s, story'[s]) \in approvals'

\* No agent appears, is launched or comes back.
AgentKept(a) ==
  \/ agent'[a] = agent[a]
  \/ /\ agent[a] \notin {"absent", "closed"}
     /\ agent'[a] \notin {"absent", "launching"}

\* No worktree is made.
TreeKept(s) ==
  tree'[s].present => tree[s].present /\ tree'[s].base = tree[s].base

\* Only a review of the current head approves.
ApprovalsKept ==
  \/ approvals' = approvals
  \/ \E r \in Merge : /\ r.candidate > 0 /\ r.base = IntegrationHead
                      /\ approvals' = approvals \cup {r}

\* A step that is not part of a tick, or ends one that is lost.
OutsideTick ==
  /\ job'.step \notin TickSteps
  /\ mainline' = mainline /\ confirmed' = confirmed /\ ApprovalsKept
  /\ \A s \in Story : RowKept(s) /\ TreeKept(s)
  /\ \A a \in AgentId : AgentKept(a)

\* A step while a tick is suspended, which leaves it all it decides by.
BesideTick ==
  /\ job.step \in TickSteps
  /\ UNCHANGED <<story, mainline, approvals, confirmed, agent>>
  /\ job'.step = job.step /\ job'.todo = job.todo
  /\ job'.story = job.story /\ job'.agent = job.agent
  /\ \A s \in Story : TreeKept(s)

\* The steps of a tick that goes on, or commits.
WithinTick ==
  \/ \E managed \in BOOLEAN : LoadTick(managed)
  \/ StageMerge \/ CommitMerge \/ RecoverMerge \/ CleanUp \/ CompleteRun
  \/ ProvisionGit \/ AcquireLease \/ Materialize \/ ConfirmLaunch
  \/ CommitTick

(* A step that changes no row is outside a tick. *)
LEMMA QuietOutside ==
  ASSUME UNCHANGED <<story, mainline, approvals, confirmed, agent>>,
         job'.step \notin TickSteps, \A s \in Story : TreeKept(s)
  PROVE  OutsideTick
BY DEF OutsideTick, RowKept, AgentKept, ApprovalsKept

(* What the lifecycle of a message writes leaves merged and fresh stories. *)
LEMMA LifecycleOutside ==
  ASSUME NEW rows, NEW agents, NEW next, Lifecycle(rows, agents, next),
         next \in {Idle, TickJob},
         \A s \in Story :
           \/ rows[s] = story[s]
           \/ /\ story[s].status \in Work /\ rows[s].status \in Work
              /\ rows[s].cleaned = story[s].cleaned,
         \A a \in AgentId :
           \/ agents[a] = agent[a]
           \/ agent[a] \notin {"absent", "closed"} /\ agents[a] = "closed"
  PROVE  OutsideTick
<1>1. job'.step \in {"idle", "tick"}
  BY PlainJobs DEF Lifecycle, Abort
<1>2. job'.step \notin TickSteps
  BY <1>1 DEF TickSteps, LaunchSteps
<1>3. UNCHANGED <<mainline, approvals, confirmed, tree>>
  BY DEF Lifecycle, launchVars, gitVars
<1>4. story' \in {rows, story} /\ agent' \in {agents, agent}
  BY DEF Lifecycle
<1>5. QED BY <1>2, <1>3, <1>4
          DEF OutsideTick, RowKept, TreeKept, AgentKept, ApprovalsKept

(* A message and its lifecycle are handled outside a tick. *)
LEMMA MessagesOutside ==
  ASSUME Typed, HandleMessage
  PROVE  OutsideTick
<1> DEFINE a == job.agent
           s == job.agent.story
<1>1. /\ story \in [Story -> StoryRow] /\ RowsTyped(story)
      /\ agent \in [AgentId -> AgentStatus \cup {"absent"}] /\ JobTyped
  BY DEF Typed, TypeOK
<1>2. ASSUME job.step \in MessageSteps
      PROVE  a \in AgentId /\ s \in Story /\ story[s] \in StoryRow
  <2>1. a \in AgentId
    BY <1>1, <1>2 DEF JobTyped
  <2>2. QED BY <1>1, <2>1 DEF AgentId
<1> HIDE DEF a, s
<1>3. ASSUME NEW rows, NEW row \in StoryRow, NEW next \in {Idle, TickJob},
             job.step \in MessageSteps,
             story[s].status \in Work /\ row.status \in Work,
             row.cleaned = story[s].cleaned,
             rows \in {story, [story EXCEPT ![s] = row]},
             Lifecycle(rows, agent, next)
      PROVE  OutsideTick
  <2>1. \A x \in Story :
          \/ rows[x] = story[x]
          \/ /\ story[x].status \in Work /\ rows[x].status \in Work
             /\ rows[x].cleaned = story[x].cleaned
    BY <1>1, <1>2, <1>3
  <2>2. QED BY <1>3, <2>1, LifecycleOutside
<1>4. ({"idle", "tick"} \cup MessageSteps) \cap TickSteps = {}
  BY DEF MessageSteps, TickSteps, LaunchSteps
<1>5. CASE StartWriterWork
  <2> DEFINE row == StoryWorkStarted(story[s], None)
  <2>1. job.step \in MessageSteps /\ Lifecycle(
          IF WritesStory(a, {"assigned", "work-complete"}) /\ lease[s] = a
            THEN [story EXCEPT ![s] = row] ELSE story, agent, Idle)
    BY <1>5 DEF StartWriterWork, Handling, MessageSteps, a, s
  <2>2. row \in StoryRow /\ row.status \in Work /\ row.cleaned = story[s].cleaned
    BY <1>2, <2>1 DEF StoryWorkStarted, StoryRow, StoryStatus, Work
  <2> HIDE DEF row
  <2>3. CASE WritesStory(a, {"assigned", "work-complete"})
    <3>1. story[s].status \in Work
      BY <2>3 DEF WritesStory, Work, a, s
    <3>2. QED BY <1>3, <2>1, <2>2, <3>1
  <2>4. CASE ~WritesStory(a, {"assigned", "work-complete"})
    BY <2>1, <2>4, LifecycleOutside
  <2>5. QED BY <2>3, <2>4
<1>6. CASE CompleteWriterWork
  <2> DEFINE row == StoryWorkCompleted(
               IF story[s].status = "assigned"
                 THEN StoryWorkStarted(story[s], None) ELSE story[s])
  <2>1. job.step \in MessageSteps /\ Lifecycle(
          IF WritesStory(a, {"assigned", "working"})
            THEN [story EXCEPT ![s] = row] ELSE story, agent, TickJob)
    BY <1>6 DEF CompleteWriterWork, Handling, MessageSteps, a, s
  <2>2. row \in StoryRow /\ row.status \in Work /\ row.cleaned = story[s].cleaned
    BY <1>2, <2>1
       DEF StoryWorkStarted, StoryWorkCompleted, StoryRow, StoryStatus, Work
  <2> HIDE DEF row
  <2>3. CASE WritesStory(a, {"assigned", "working"})
    <3>1. story[s].status \in Work
      BY <2>3 DEF WritesStory, Work, a, s
    <3>2. QED BY <1>3, <2>1, <2>2, <3>1
  <2>4. CASE ~WritesStory(a, {"assigned", "working"})
    BY <2>1, <2>4, LifecycleOutside
  <2>5. QED BY <2>3, <2>4
<1>7. CASE ReportFailure
  BY <1>7, LifecycleOutside DEF ReportFailure
<1>8. CASE CloseSettledAgent
  <2>1. a \in AgentId
    BY <1>2, <1>8 DEF CloseSettledAgent, Handling, MessageSteps
  <2>2. /\ AgentTo("agent-closed") = "closed"
        /\ AgentFrom("agent-completed") \cup AgentFrom("agent-closed")
             = {"idle", "working", "completed", "failed"}
    BY DEF AgentTo, AgentFrom
  <2>3. PICK agents, next :
          /\ Lifecycle(story, agents, next) /\ next \in {Idle, TickJob}
          /\ \/ agents = agent
             \/ /\ agents = [agent EXCEPT ![a] = "closed"]
                /\ agent[a] \in {"idle", "working", "completed", "failed"}
    BY <1>8, <2>2 DEF CloseSettledAgent, a
  <2>4. \A b \in AgentId :
          \/ agents[b] = agent[b]
          \/ agent[b] \notin {"absent", "closed"} /\ agents[b] = "closed"
    BY <1>1, <2>1, <2>3
  <2>5. QED BY <2>3, <2>4, LifecycleOutside
<1>9. ASSUME job.step \in MessageSteps, EvidenceStep,
             job'.step \in {"idle", "tick"} \cup MessageSteps,
             UNCHANGED <<story, approvals>>, \A x \in Story : TreeKept(x)
      PROVE  OutsideTick
  BY <1>4, <1>9, QuietOutside DEF EvidenceStep, launchVars
<1>10. CASE ReleaseForCandidate
  <2>1. /\ job.step \in MessageSteps /\ job' = [job EXCEPT !.step = "released"]
        /\ EvidenceStep /\ UNCHANGED <<story, tree, approvals>>
    BY <1>10 DEF ReleaseForCandidate, Handling, MessageSteps
  <2>2. job'.step \in MessageSteps
    BY <2>1 DEF Typed, TypeOK, MessageSteps
  <2>3. QED BY <1>9, <2>1, <2>2 DEF TreeKept
<1>11. CASE KeepCandidate
  BY <1>9, <1>11, PlainJobs
     DEF KeepCandidate, Handling, MessageSteps, Abort, TreeKept
<1>12. CASE CommitCandidate
  <2>1. /\ job.step \in MessageSteps /\ EvidenceStep
        /\ UNCHANGED <<story, approvals>>
        /\ job' = Idle \/ job' = [job EXCEPT !.step = "recorded"]
        /\ \/ tree' = tree
           \/ tree' = [tree EXCEPT ![s].head = @ + 1, ![s].dirty = FALSE]
    BY <1>12 DEF CommitCandidate, MessageSteps, Abort, s
  <2>2. job'.step \in {"idle"} \cup MessageSteps
    BY <2>1, PlainJobs DEF Typed, TypeOK, MessageSteps
  <2>3. ASSUME NEW x \in Story PROVE TreeKept(x)
    <3>1. tree \in [Story -> TreeRow]
      BY DEF Typed, TypeOK, TreeRow
    <3>2. QED BY <2>1, <3>1 DEF TreeKept, TreeRow
  <2>4. QED BY <1>9, <2>1, <2>2, <2>3
<1>13. CASE RecordCandidate
  <2> DEFINE row == CandidateCreated(story[s], tree[s].head, IntegrationHead,
                                     None)
  <2>1. /\ job.step = "recorded" /\ job.step \in MessageSteps
        /\ EvidenceStep /\ UNCHANGED <<tree, approvals>>
        /\ job' \in {Idle, TickJob}
        /\ story' \in {story, [story EXCEPT ![s] = row]}
    BY <1>13 DEF RecordCandidate, MessageSteps, Abort, s
  <2>2. story[s].status \in Work
    BY <1>1, <2>1 DEF JobTyped, Work, s
  <2>3. row.status \in Work /\ row.cleaned = story[s].cleaned
    BY <1>2, <2>1 DEF CandidateCreated, StoryRow, Work
  <2> HIDE DEF row
  <2>4. \A x \in Story : RowKept(x) /\ TreeKept(x)
    BY <1>1, <1>2, <2>1, <2>2, <2>3 DEF RowKept, TreeKept
  <2>5. job'.step \notin TickSteps
    BY <1>4, <2>1, PlainJobs
  <2>6. QED BY <2>1, <2>4, <2>5
            DEF OutsideTick, EvidenceStep, launchVars, AgentKept, ApprovalsKept
<1>14. ASSUME NEW verdict \in Verdicts, NEW exact \in BOOLEAN,
              RecordReview(verdict, exact)
       PROVE  OutsideTick
  <2> DEFINE row == Reviewed(story[s], a, verdict)
             r == Candidate(s, story[s])
  <2>1. /\ job.step \in MessageSteps /\ EvidenceStep /\ UNCHANGED tree
        /\ job' \in {Idle, TickJob}
        /\ \/ UNCHANGED <<story, approvals>>
           \/ /\ story' = [story EXCEPT ![s] = row]
              /\ story[s].status = "awaiting-review"
              /\ story[s].reviewed = IntegrationHead
              /\ approvals' = IF verdict # "approved" THEN approvals
                              ELSE approvals \cup {r}
    BY <1>14 DEF RecordReview, MessageSteps, Handling, ReviewAccepted, Abort,
       Candidate, a, s
  <2>2. CASE UNCHANGED <<story, approvals>>
    BY <1>9, <2>1, <2>2, PlainJobs DEF TreeKept
  <2>3. CASE /\ story' = [story EXCEPT ![s] = row]
             /\ story[s].status = "awaiting-review"
             /\ story[s].reviewed = IntegrationHead
             /\ approvals' = IF verdict # "approved" THEN approvals
                             ELSE approvals \cup {r}
    <3>1. story[s].candidate > 0 /\ story[s].status \in Work
      BY <1>1, <1>2, <2>1, <2>3 DEF RowsTyped, Work
    <3>2. /\ row.status = verdict /\ row.cleaned = story[s].cleaned
          /\ Candidate(s, row) = r
      BY <1>2, <2>1 DEF Reviewed, StoryRow, Candidate
    <3>3. verdict = "approved" \/ verdict \in Work
      BY InputAssumption DEF Verdict, Work
    <3>4. r \in Merge /\ r.candidate > 0 /\ r.base = IntegrationHead
      BY <1>2, <2>1, <2>3, <3>1 DEF Candidate, Merge, StoryRow
    <3> HIDE DEF row, r
    <3>5. ApprovalsKept
      BY <2>3, <3>4 DEF ApprovalsKept
    <3>6. ASSUME NEW x \in Story PROVE RowKept(x) /\ TreeKept(x)
      <4>1. CASE x # s
        BY <1>1, <2>1, <2>3, <4>1 DEF RowKept, TreeKept
      <4>2. CASE x = s
        <5>1. story'[s] = row
          BY <1>1, <1>2, <2>1, <2>3
        <5>2. QED BY <2>1, <2>3, <3>1, <3>2, <3>3, <4>2, <5>1
                  DEF RowKept, TreeKept
      <4>3. QED BY <4>1, <4>2
    <3>7. job'.step \notin TickSteps
      BY <1>4, <2>1, PlainJobs
    <3>8. QED BY <2>1, <3>5, <3>6, <3>7
              DEF OutsideTick, EvidenceStep, launchVars, AgentKept
  <2>4. QED BY <2>1, <2>2, <2>3
<1>15. QED BY <1>5, <1>6, <1>7, <1>8, <1>10, <1>11, <1>12, <1>13, <1>14
           DEF HandleMessage

(* A worktree that is rolled back is gone, or as it was. *)
LEMMA RolledBack ==
  ASSUME Typed, NEW a \in AgentId, tree' = RollBackTree(a), NEW s \in Story
  PROVE  TreeKept(s)
<1>1. tree \in [Story -> TreeRow] /\ NoTree.present = FALSE
  BY TreesTyped DEF NoTree
<1>2. QED BY <1>1 DEF RollBackTree, TreeKept

(* What children do to their agents and worktrees happens beside a tick. *)
LEMMA ChildrenOutside ==
  ASSUME Typed, Children
  PROVE  OutsideTick \/ BesideTick
<1>1. /\ agent \in [AgentId -> AgentStatus \cup {"absent"}] /\ AgentsTyped
      /\ tree \in [Story -> TreeRow]
  BY TreesTyped DEF Typed, TypeOK
<1>2. ASSUME NEW a \in AgentId, WriteFiles(a)
      PROVE  OutsideTick \/ BesideTick
  <2>1. /\ UNCHANGED <<story, mainline, approvals, confirmed, agent, job>>
        /\ tree' = [tree EXCEPT ![a.story].dirty = TRUE]
    BY <1>2 DEF WriteFiles, launchVars
  <2>2. \A s \in Story : TreeKept(s)
    BY <1>1, <2>1 DEF TreeKept, TreeRow
  <2>3. CASE job.step \in TickSteps
    BY <2>1, <2>2, <2>3 DEF BesideTick
  <2>4. CASE job.step \notin TickSteps
    BY <2>1, <2>2, <2>4, QuietOutside
  <2>5. QED BY <2>3, <2>4
<1>3. ASSUME NEW a \in AgentId, NEW m \in MessageType, ReceiveMessage(a, m)
      PROVE  OutsideTick
  <2> DEFINE next == ApplyAgentMessage(agent[a], m)
  <2>1. agent[a] \in AgentStatus /\ agent[a] # "completed"
    BY <1>1, <1>3 DEF ReceiveMessage, AgentsTyped
  <2>2. /\ next # "absent" /\ (next = "launching" => agent[a] = "launching")
        /\ agent[a] = "closed" => next = "closed"
    BY <1>3, <2>1, MessageTyped DEF ReceiveMessage, AgentStatus
  <2>3. agent' = [agent EXCEPT ![a] = next]
    BY <1>3 DEF ReceiveMessage
  <2> HIDE DEF next
  <2>4. \A b \in AgentId : AgentKept(b)
    BY <1>1, <2>1, <2>2, <2>3 DEF AgentKept, AgentStatus
  <2>5. /\ UNCHANGED <<story, mainline, approvals, confirmed, tree>>
        /\ job'.step \in {"idle", "message"}
    BY <1>3, PlainJobs DEF ReceiveMessage, launchVars, gitVars
  <2>6. job'.step \notin TickSteps
    BY <2>5 DEF TickSteps, LaunchSteps
  <2>7. QED BY <2>4, <2>5, <2>6
            DEF OutsideTick, RowKept, TreeKept, ApprovalsKept
<1>4. ASSUME NEW a \in AgentId, NEW m \in MessageType, ReceiveEvidence(a, m)
      PROVE  OutsideTick
  <2>1. /\ UNCHANGED <<story, mainline, approvals, confirmed, agent, tree>>
        /\ job'.step = "authorized"
    BY <1>4, PlainJobs DEF ReceiveEvidence, launchVars, gitVars
  <2>2. job'.step \notin TickSteps
    BY <2>1 DEF TickSteps, LaunchSteps
  <2>3. QED BY <2>1, <2>2, QuietOutside DEF TreeKept
<1>5. QED BY <1>2, <1>3, <1>4 DEF Children

(* So does what a parent commands, which the tick's copy does not see. *)
LEMMA ControlOutside ==
  ASSUME Typed, ParentControl
  PROVE  OutsideTick \/ BesideTick
<1>1. PICK rows \in [Story -> StoryRow], next \in RunStatus :
        /\ CommitControl(next, rows)
        /\ \A s \in Story :
             \/ rows[s] = story[s]
             \/ /\ story[s].status = "awaiting-approval"
                /\ rows[s].status \in Fresh
                /\ rows[s] = [story[s] EXCEPT !.status = rows[s].status]
        /\ run \notin Confirming => rows = story /\ next \notin Confirming
  BY ControlMoves
<1>2. /\ story' = rows
      /\ job' = [job EXCEPT !.stale = (job.step # "idle")]
      /\ UNCHANGED <<agent, confirmed, tree, mainline, approvals>>
  BY <1>1 DEF CommitControl, launchVars, gitVars
<1>3. /\ job'.step = job.step /\ job'.todo = job.todo
      /\ job'.story = job.story /\ job'.agent = job.agent
  BY <1>2 DEF Typed, TypeOK
<1>4. CASE job.step \in TickSteps
  <2>1. run \notin Confirming
    BY <1>4 DEF Typed, JobTyped, Confirming
  <2>2. QED BY <1>1, <1>2, <1>3, <1>4, <2>1 DEF BesideTick, TreeKept
<1>5. CASE job.step \notin TickSteps
  <2>1. story \in [Story -> StoryRow]
    BY DEF Typed, TypeOK
  <2>2. ASSUME NEW s \in Story PROVE RowKept(s)
    <3>1. CASE rows[s] = story[s]
      BY <1>2, <3>1 DEF RowKept
    <3>2. CASE /\ story[s].status = "awaiting-approval"
               /\ rows[s].status \in Fresh
               /\ rows[s] = [story[s] EXCEPT !.status = rows[s].status]
      <4>1. rows[s].cleaned = story[s].cleaned
        BY <2>1, <3>2 DEF StoryRow
      <4>2. story[s].status \in Fresh
        BY <3>2 DEF Fresh
      <4>3. QED BY <1>2, <3>2, <4>1, <4>2 DEF RowKept
    <3>3. QED BY <1>1, <3>1, <3>2
  <2>3. QED BY <1>2, <1>3, <1>5, <2>2
            DEF OutsideTick, TreeKept, AgentKept, ApprovalsKept
<1>6. QED BY <1>4, <1>5

(* Every step is one outside a tick, beside one or within one. *)
LEMMA StepKinds ==
  ASSUME Typed, [Next]_vars
  PROVE  OutsideTick \/ BesideTick \/ WithinTick
<1>1. ASSUME UNCHANGED <<story, mainline, approvals, confirmed, agent, tree,
                         job>>
      PROVE  OutsideTick \/ BesideTick
  <2>1. CASE job.step \in TickSteps
    BY <1>1, <2>1 DEF BesideTick, TreeKept
  <2>2. CASE job.step \notin TickSteps
    BY <1>1, <2>2, QuietOutside DEF TreeKept
  <2>3. QED BY <2>1, <2>2
<1>2. ASSUME UNCHANGED <<story, mainline, approvals, confirmed, agent>>,
             job' = Idle,
             \/ tree' = tree
             \/ job.step \in LaunchSteps /\ tree' = RollBackTree(job.agent)
      PROVE  OutsideTick
  <2>1. job'.step \notin TickSteps
    BY <1>2, PlainJobs DEF TickSteps, LaunchSteps
  <2>2. \A s \in Story : TreeKept(s)
    <3>1. CASE tree' = tree
      BY <3>1 DEF TreeKept
    <3>2. CASE job.step \in LaunchSteps /\ tree' = RollBackTree(job.agent)
      BY <3>2, LaunchTyped, RolledBack
    <3>3. QED BY <1>2, <3>1, <3>2
  <2>3. QED BY <1>2, <2>1, <2>2, QuietOutside
<1>3. CASE UNCHANGED vars
  BY <1>1, <1>3 DEF vars
<1>4. CASE HandleMessage
  BY <1>4, MessagesOutside
<1>5. CASE Children
  BY <1>5, ChildrenOutside
<1>6. CASE ParentControl
  BY <1>6, ControlOutside
<1>7. CASE Restart
  BY <1>1, <1>7 DEF Restart, launchVars, gitVars
<1>8. CASE Failures
  BY <1>2, <1>8 DEF Failures, FailProvision, FailLaunch, Crash, TickFails,
     TickStep, Abort, launchVars, gitVars, LaunchSteps
<1>9. CASE QuietTick \/ FailEffect \/ FailTick
  BY <1>2, <1>9 DEF QuietTick, FailEffect, FailTick, TickFails, TickStep,
     Abort, launchVars, gitVars
<1>10. CASE RefuseLaunch
  <2>1. job.step \in LaunchSteps
    BY <1>10 DEF RefuseLaunch, ReadyToMaterialize, LaunchSteps
  <2>2. QED BY <1>2, <1>10, <2>1 DEF RefuseLaunch, TickFails, TickStep, Abort
<1>11. CASE AdvanceTick \/ LaunchAgent
  BY <1>9, <1>10, <1>11 DEF AdvanceTick, LaunchAgent, WithinTick
<1>12. QED BY <1>3, <1>4, <1>5, <1>6, <1>7, <1>8, <1>11 DEF Next

-----------------------------------------------------------------------------
(* Rows, reviews and merges agree.                                         *)

(* Nothing is reviewed or merged at first. *)
LEMMA IntegratedInit == Init => Integrated
<1> SUFFICES ASSUME Init PROVE Integrated
  OBVIOUS
<1>1. /\ RequiresApproval \in BOOLEAN /\ mainline = <<>> /\ job = Idle
      /\ story = [s \in Story |-> NewStory(
                    IF RequiresApproval THEN "awaiting-approval" ELSE "ready",
                    None)]
  BY ApprovalAssumption DEF Init
<1>2. RowsDelivered(story, approvals, mainline)
  BY <1>1 DEF RowsDelivered, NewStory
<1>3. job.step \notin TickSteps
  BY <1>1, PlainJobs DEF TickSteps, LaunchSteps
<1>4. MergesReviewed
  BY <1>1 DEF MergesReviewed, IntegrationHead
<1>5. QED BY <1>2, <1>3, <1>4
          DEF Integrated, CopyFollows, TodoDue, StagedOnHead, TickSteps

(* More reviews and more merges leave the rows delivered. *)
LEMMA DeliveredGrows ==
  ASSUME NEW rows, NEW reviews, NEW more, NEW merges \in Seq(Merge),
         NEW after, NEW x \in Merge,
         reviews \subseteq more, after = merges \/ after = Append(merges, x),
         RowsDelivered(rows, reviews, merges)
  PROVE  RowsDelivered(rows, more, after)
<1>1. /\ Len(after) >= Len(merges) /\ Len(merges) \in Nat /\ Len(after) \in Nat
      /\ \A i \in 1 .. Len(merges) : after[i] = merges[i]
  OBVIOUS
<1>2. QED BY <1>1 DEF RowsDelivered

(* Outside a tick nothing is merged and a verdict is on the candidate. *)
LEMMA IntegratedOutside ==
  ASSUME Typed, Integrated, OutsideTick
  PROVE  Integrated'
<1>1. /\ job'.step \notin TickSteps /\ mainline' = mainline
      /\ approvals \subseteq approvals'
      /\ \A s \in Story : RowKept(s)
      /\ RowsDelivered(story, approvals, mainline) /\ MergesReviewed
      /\ mainline \in Seq(Merge)
  BY DEF OutsideTick, ApprovalsKept, Integrated, Typed, TypeOK
<1>2. RowsDelivered(story', approvals', mainline')
  <2> SUFFICES ASSUME NEW s \in Story
               PROVE  /\ story'[s].status = "approved" =>
                           Candidate(s, story'[s]) \in approvals'
                      /\ story'[s].status = "merged" =>
                           /\ story'[s].merge \in 1 .. Len(mainline')
                           /\ mainline'[story'[s].merge]
                                = Candidate(s, story'[s])
                      /\ story'[s].cleaned => story'[s].status = "merged"
    BY DEF RowsDelivered
  <2>1. RowKept(s)
    BY <1>1
  <2>2. CASE story'[s] = story[s]
    BY <1>1, <2>2 DEF RowsDelivered
  <2>3. CASE story'[s] # story[s]
    <3>1. ~story[s].cleaned /\ ~story'[s].cleaned
      BY <1>1, <2>1, <2>3 DEF RowKept, RowsDelivered, Fresh, Work
    <3>2. QED BY <2>1, <2>3, <3>1 DEF RowKept, Fresh, Work
  <2>4. QED BY <2>2, <2>3
<1>3. MergesReviewed'
  <2> SUFFICES ASSUME NEW i \in 1 .. IntegrationHead
               PROVE  LET s == mainline[i].story IN
                      /\ mainline[i] \in approvals'
                      /\ mainline[i].base = i - 1
                      /\ story'[s].status \in {"approved", "merged"}
                      /\ mainline[i] = Candidate(s, story'[s])
    BY <1>1 DEF MergesReviewed, IntegrationHead
  <2> DEFINE s == mainline[i].story
  <2>1. /\ mainline[i] \in approvals /\ mainline[i].base = i - 1
        /\ story[s].status \in {"approved", "merged"}
        /\ mainline[i] = Candidate(s, story[s])
    BY <1>1 DEF MergesReviewed
  <2>2. mainline[i] \in Merge
    BY <1>1 DEF IntegrationHead
  <2>3. s \in Story
    BY <2>2 DEF Merge
  <2> HIDE DEF s
  <2>4. story'[s] = story[s]
    BY <1>1, <2>1, <2>3 DEF RowKept, Fresh, Work
  <2> USE DEF s
  <2>5. QED BY <1>1, <2>1, <2>4
<1>4. RowsDelivered(story, approvals, mainline)'
  BY <1>2 DEF RowsDelivered
<1>5. QED BY <1>1, <1>3, <1>4
          DEF Integrated, CopyFollows, TodoDue, StagedOnHead, TickSteps

(* Beside a tick rows, reviews and merges stay as they are. *)
LEMMA IntegratedBeside ==
  ASSUME Typed, Integrated, BesideTick
  PROVE  Integrated'
<1>1. /\ UNCHANGED <<story, mainline, approvals>> /\ job'.step = job.step
      /\ job'.story = job.story /\ job'.todo = job.todo
  BY DEF BesideTick
<1>2. QED BY <1>1 DEF Integrated, RowsDelivered, MergesReviewed, CopyFollows,
     TodoDue, Due, StagedOnHead, IntegrationHead

(* What an effect does to its own copy of a row, when it does nothing else *)
(* or also merges the candidate of that row.                               *)
LEMMA IntegratedEffect ==
  ASSUME Typed, Integrated, job.step \in {"act", "staged", "launching"},
         job.todo # <<>>, NEW s \in Story, NEW row \in StoryRow,
         NEW rows, rows = [job.story EXCEPT ![s] = row],
         job'.step = "act", job'.story = rows, job'.todo = Tail(job.todo),
         UNCHANGED <<story, approvals>>,
         \/ mainline' = mainline
         \/ /\ mainline' = Append(mainline, Candidate(s, story[s]))
            /\ story[s].status = "approved"
            /\ story[s].reviewed = IntegrationHead,
         row.status = "approved" => Candidate(s, row) \in approvals,
         row.status = "merged" => /\ row.merge \in 1 .. Len(mainline')
                                  /\ mainline'[row.merge] = Candidate(s, row),
         row.cleaned => row.status = "merged",
         story[s].status = "merged" =>
           row = [story[s] EXCEPT !.cleaned = row.cleaned],
         story[s].status = "approved" =>
           /\ row.status \in {"approved", "merged"}
           /\ Candidate(s, row) = Candidate(s, story[s]),
         story[s].status \notin {"approved", "merged"} =>
           row.status \notin {"approved", "merged"}
  PROVE  Integrated'
<1>1. /\ job.step \in TickSteps /\ job'.step \in TickSteps
      /\ job'.step # "staged"
  BY DEF TickSteps, LaunchSteps
<1>2. /\ RowsDelivered(story, approvals, mainline) /\ MergesReviewed
      /\ RowsDelivered(job.story, approvals, mainline)
      /\ CopyFollows /\ TodoDue
      /\ mainline \in Seq(Merge) /\ story \in [Story -> StoryRow]
      /\ job.story \in [Story -> StoryRow] /\ job.todo \in Seq(Action)
  BY <1>1 DEF Integrated, Typed, TypeOK, JobTyped, RowsTyped
<1>3. Candidate(s, story[s]) \in Merge
  BY <1>2 DEF Candidate, Merge, StoryRow
<1>4. /\ RowsDelivered(story, approvals, mainline')
      /\ RowsDelivered(job.story, approvals, mainline')
  <2>1. mainline' = mainline \/ mainline' = Append(mainline, Candidate(s, story[s]))
    OBVIOUS
  <2>2. QED BY <1>2, <1>3, <2>1, DeliveredGrows
<1>5. RowsDelivered(rows, approvals, mainline')
  BY <1>2, <1>4 DEF RowsDelivered
<1>6. MergesReviewed'
  <2> SUFFICES ASSUME NEW i \in 1 .. Len(mainline')
               PROVE  LET x == mainline'[i].story IN
                      /\ mainline'[i] \in approvals
                      /\ mainline'[i].base = i - 1
                      /\ story[x].status \in {"approved", "merged"}
                      /\ mainline'[i] = Candidate(x, story[x])
    BY DEF MergesReviewed, IntegrationHead
  <2>1. CASE i \in 1 .. Len(mainline)
    <3>1. mainline'[i] = mainline[i]
      BY <1>2, <1>3, <2>1
    <3>2. QED BY <1>2, <2>1, <3>1 DEF MergesReviewed, IntegrationHead
  <2>2. CASE i \notin 1 .. Len(mainline)
    <3>1. /\ i = Len(mainline) + 1 /\ mainline'[i] = Candidate(s, story[s])
          /\ story[s].status = "approved"
          /\ story[s].reviewed = IntegrationHead
      BY <1>2, <1>3, <2>2
    <3>2. Candidate(s, story[s]) \in approvals
      BY <1>2, <3>1 DEF RowsDelivered
    <3>3. /\ Candidate(s, story[s]).story = s
          /\ Candidate(s, story[s]).base = story[s].reviewed
      BY DEF Candidate
    <3>4. Len(mainline) \in Nat
      BY <1>2
    <3>5. QED BY <3>1, <3>2, <3>3, <3>4 DEF IntegrationHead
  <2>3. QED BY <2>1, <2>2
<1>7. CopyFollows'
  BY <1>1, <1>2 DEF CopyFollows
<1>8. TodoDue'
  <2>1. \A j \in 1 .. Len(job.todo) : Due(job.todo[j])
    BY <1>1, <1>2 DEF TodoDue
  <2>2. \A j \in 1 .. Len(job'.todo) : Due(job'.todo[j])
    <3>1. \A j \in 1 .. Len(Tail(job.todo)) :
            /\ Tail(job.todo)[j] = job.todo[j + 1]
            /\ j + 1 \in 1 .. Len(job.todo)
      BY <1>2, RestTyped
    <3>2. \A j \in 1 .. Len(Tail(job.todo)) : Due(Tail(job.todo)[j])
      BY <2>1, <3>1
    <3>3. QED BY <3>2
  <2>3. QED BY <2>2 DEF TodoDue, Due
<1>9. QED BY <1>1, <1>4, <1>5, <1>6, <1>7, <1>8
          DEF Integrated, RowsDelivered, StagedOnHead

(* What the steps within a tick do, in the terms the layers are stated in. *)

\* The action at the head of the tick is done; its copy of a row changes.
Effect(row) ==
  LET s == job.todo[1].story IN
  /\ job.step \in {"act", "staged", "launching"} /\ job.todo # <<>>
  /\ s \in Story /\ row \in StoryRow
  /\ job'.step = "act" /\ job'.todo = Tail(job.todo)
  /\ job'.story = [job.story EXCEPT ![s] = row]
  /\ UNCHANGED <<story, approvals, agent, lease>>

\* A launch goes on: what the tick knows stays as it is.
LaunchGoesOn ==
  /\ job.step \in TickSteps /\ job.todo # <<>>
  /\ job.todo[1].story \in Story
  /\ job'.step \in LaunchSteps /\ job'.todo = job.todo
  /\ job'.story = job.story
  /\ UNCHANGED <<mainline, approvals, confirmed>>

(* What the operation holds while a tick is in progress. *)
LEMMA TickKnows ==
  ASSUME Typed, job.step \in TickSteps
  PROVE  /\ RowsTyped(job.story) /\ job.story \in [Story -> StoryRow]
         /\ job \in JobType /\ job.todo \in Seq(Action)
         /\ job.todo # <<>> => /\ job.todo[1] \in Action
                               /\ job.todo[1].story \in Story
                               /\ 1 \in 1 .. Len(job.todo)
<1>1. /\ RowsTyped(job.story) /\ job.story \in [Story -> StoryRow]
      /\ job \in JobType /\ job.todo \in Seq(Action)
  BY DEF Typed, TypeOK, JobTyped, RowsTyped, JobType
<1>2. job.todo # <<>> => job.todo[1] \in Action /\ 1 \in 1 .. Len(job.todo)
  BY <1>1, RestTyped
<1>3. \A x \in Action : x.story \in Story
  BY DEF Action
<1>4. QED BY <1>1, <1>2, <1>3

(* A tick starts from the rows it loads and what is admitted. *)
LEMMA LoadFacts ==
  ASSUME Typed, NEW managed, LoadTick(managed)
  PROVE  /\ job.step \notin TickSteps
         /\ job'.step = "act" /\ job'.story = story /\ job'.todo = Admitted
         /\ UNCHANGED <<story, agent, confirmed, lease, tree, mainline,
                        approvals>>
<1>1. job' = [Idle EXCEPT !.step = "act", !.todo = Admitted,
                !.run = "active", !.story = story,
                !.acted = (Admitted # <<>>), !.managed = managed]
  BY DEF LoadTick
<1>2. job'.step = "act" /\ job'.story = story /\ job'.todo = Admitted
  BY <1>1 DEF Idle
<1>3. QED BY <1>2 DEF LoadTick, TickDue, TickStep, TickSteps, LaunchSteps,
     launchVars, gitVars

(* A merge is staged on the head that was reviewed. *)
LEMMA StageFacts ==
  ASSUME Typed, StageMerge
  PROVE  /\ job.step = "act" /\ job.todo # <<>>
         /\ job.story[job.todo[1].story].reviewed = IntegrationHead
         /\ job'.step = "staged" /\ job'.story = job.story
         /\ job'.todo = job.todo
         /\ UNCHANGED <<story, agent, confirmed, lease, tree, mainline,
                        approvals>>
BY DEF StageMerge, Acting, MergeReady, TickStep, launchVars, Typed, TypeOK

(* Completion of the run changes the tick's copy of the run only. *)
LEMMA CompleteFacts ==
  ASSUME Typed, CompleteRun
  PROVE  /\ job.step = "act" /\ job.todo # <<>>
         /\ job'.step = "act" /\ job'.story = job.story
         /\ job'.todo = Tail(job.todo)
         /\ UNCHANGED <<story, agent, confirmed, lease, tree, mainline,
                        approvals>>
BY DEF CompleteRun, Acting, TickStep, launchVars, gitVars, Typed, TypeOK

(* The commit of a tick writes the tick's copy of the stories. *)
LEMMA CommitFacts ==
  ASSUME Typed, CommitTick
  PROVE  /\ job.step = "act" /\ job.step \in TickSteps
         /\ job'.step \notin TickSteps /\ story' = job.story
         /\ \/ Consistent(story', agent')
            \/ story' = story
         /\ UNCHANGED <<agent, confirmed, lease, tree, mainline, approvals>>
<1>1. job' = NextDrainJob
  BY DEF CommitTick
<1>2. job' = Idle \/ job' = [TickJob EXCEPT !.managed = job.managed]
  BY <1>1 DEF NextDrainJob
<1>3. job'.step \in {"idle", "tick"}
  BY <1>2, PlainJobs, JobsTyped DEF JobType
<1>4. QED BY <1>3 DEF CommitTick, TickStep, TickSteps, LaunchSteps, Consistent,
     ConsistentWith, launchVars, gitVars

(* A merge extends the mainline by the reviewed candidate. *)
LEMMA MergeFacts ==
  ASSUME Typed, CommitMerge
  PROVE  LET s == job.todo[1].story copy == job.story[s] IN
         /\ Effect(StoryMerged(copy, IntegrationHead + 1))
         /\ job.step = "staged" /\ job.todo[1].type = "request-merge"
         /\ mainline' = Append(mainline, Candidate(s, copy))
         /\ UNCHANGED <<confirmed, tree>>
<1> DEFINE s == job.todo[1].story
           rows == [job.story EXCEPT ![s] = StoryMerged(@, IntegrationHead + 1)]
<1>1. /\ job.step = "staged" /\ job.step \in TickSteps
      /\ Acted(rows) /\ TickStep
      /\ UNCHANGED <<story, agent, confirmed, lease, tree>>
      /\ mainline' = Append(mainline, Candidate(s, job.story[s]))
  BY DEF CommitMerge, TickSteps, Candidate, launchVars
<1>2. job.todo # <<>> /\ job.todo[1].type = "request-merge"
  BY <1>1 DEF Typed, JobTyped
<1>3. /\ s \in Story /\ job.story[s] \in StoryRow /\ job \in JobType
      /\ IntegrationHead \in Nat
  BY <1>1, <1>2, TickKnows DEF Typed, TypeOK, IntegrationHead
<1>4. StoryMerged(job.story[s], IntegrationHead + 1) \in StoryRow
  <2>1. IntegrationHead + 1 \in Nat
    BY <1>3
  <2>2. QED BY <1>3, <2>1 DEF StoryMerged, StoryRow, StoryStatus
<1> HIDE DEF rows
<1>5. job'.step = "act" /\ job'.todo = Tail(job.todo) /\ job'.story = rows
  BY <1>1, <1>3 DEF Acted, JobType
<1> HIDE DEF s
<1>6. Effect(StoryMerged(job.story[s], IntegrationHead + 1))
  BY <1>1, <1>2, <1>3, <1>4, <1>5 DEF Effect, TickStep, rows, s
<1>7. QED BY <1>1, <1>2, <1>6 DEF s

(* A merge that was committed before is found at the head of the mainline. *)
LEMMA RecoverFacts ==
  ASSUME Typed, RecoverMerge
  PROVE  LET s == job.todo[1].story copy == job.story[s] IN
         /\ Effect(StoryMerged(copy, IntegrationHead))
         /\ job.step = "act" /\ job.todo[1].type = "request-merge"
         /\ IntegrationHead > 0
         /\ mainline[IntegrationHead] = Candidate(s, copy)
         /\ UNCHANGED <<confirmed, tree, mainline>>
<1> DEFINE s == job.todo[1].story
           rows == [job.story EXCEPT ![s] = StoryMerged(@, IntegrationHead)]
<1>1. /\ job.step = "act" /\ job.step \in TickSteps /\ job.todo # <<>>
      /\ job.todo[1].type = "request-merge"
      /\ Acted(rows) /\ TickStep
      /\ UNCHANGED <<story, agent, confirmed, lease, tree, mainline>>
      /\ IntegrationHead > 0
      /\ mainline[IntegrationHead] = Candidate(s, job.story[s])
  BY DEF RecoverMerge, Acting, MergeRecovers, TickSteps, Candidate, launchVars,
         gitVars
<1>2. /\ s \in Story /\ job.story[s] \in StoryRow /\ job \in JobType
      /\ IntegrationHead \in Nat
  BY <1>1, TickKnows DEF Typed, TypeOK, IntegrationHead
<1>3. StoryMerged(job.story[s], IntegrationHead) \in StoryRow
  BY <1>2 DEF StoryMerged, StoryRow, StoryStatus
<1> HIDE DEF rows
<1>4. job'.step = "act" /\ job'.todo = Tail(job.todo) /\ job'.story = rows
  BY <1>1, <1>2 DEF Acted, JobType
<1> HIDE DEF s
<1>5. Effect(StoryMerged(job.story[s], IntegrationHead))
  BY <1>1, <1>2, <1>3, <1>4 DEF Effect, TickStep, rows, s
<1>6. QED BY <1>1, <1>5 DEF s

(* Cleanup marks a merged row and takes its worktree away. *)
LEMMA CleanFacts ==
  ASSUME Typed, CleanUp
  PROVE  LET s == job.todo[1].story IN
         /\ Effect([job.story[s] EXCEPT !.cleaned = TRUE])
         /\ job.step = "act" /\ job.todo[1].type = "request-cleanup"
         /\ tree' = [tree EXCEPT ![s] = NoTree]
         /\ UNCHANGED <<confirmed, mainline>>
<1> DEFINE s == job.todo[1].story
           row == [job.story[s] EXCEPT !.cleaned = TRUE]
           rows == [job.story EXCEPT ![s] = row]
<1>1. /\ job.step = "act" /\ job.step \in TickSteps /\ job.todo # <<>>
      /\ job.todo[1].type = "request-cleanup"
      /\ Acted([job.story EXCEPT ![s].cleaned = TRUE]) /\ TickStep
      /\ UNCHANGED <<story, agent, confirmed, lease, mainline>>
      /\ tree' = [tree EXCEPT ![s] = NoTree]
  BY DEF CleanUp, Acting, TickSteps, launchVars
<1>2. s \in Story /\ job.story[s] \in StoryRow /\ job \in JobType
  BY <1>1, TickKnows
<1>3. row \in StoryRow
  BY <1>2 DEF StoryRow
<1>4. Acted(rows)
  BY <1>1
<1> HIDE DEF rows, row
<1>5. job'.step = "act" /\ job'.todo = Tail(job.todo) /\ job'.story = rows
  BY <1>2, <1>4 DEF Acted, JobType
<1> HIDE DEF s
<1>6. Effect(row)
  BY <1>1, <1>2, <1>3, <1>5 DEF Effect, TickStep, rows, s
<1>7. QED BY <1>1, <1>6 DEF row, s

(* A confirmed launch assigns the story to the agent that was launched. *)
LEMMA ConfirmFacts ==
  ASSUME Typed, ConfirmLaunch
  PROVE  /\ Effect(Assigned(job.story[job.todo[1].story], job.agent))
         /\ job.step = "launching" /\ job.step \in LaunchSteps
         /\ job.agent \in AgentId /\ job.agent.story = job.todo[1].story
         /\ job.agent.kind = job.todo[1].type
         /\ agent[job.agent] # "absent"
         /\ confirmed' = confirmed \cup {job.agent}
         /\ UNCHANGED <<tree, mainline>>
<1> DEFINE a == job.agent
           s == job.todo[1].story
           row == Assigned(job.story[s], a)
           rows == [job.story EXCEPT ![s] = row]
<1>1. /\ job.step = "launching" /\ job.step \in LaunchSteps
      /\ job.step \in TickSteps
      /\ Acted([job.story EXCEPT ![a.story] = Assigned(@, a)]) /\ TickStep
      /\ confirmed' = confirmed \cup {a}
      /\ UNCHANGED <<story, agent, lease, tree, mainline>>
  BY DEF ConfirmLaunch, TickSteps, LaunchSteps, gitVars
<1>2. /\ a \in AgentId /\ a.story = s /\ s \in Story
      /\ a.kind = job.todo[1].type /\ job.todo # <<>>
  BY <1>1, LaunchTyped
<1>3. /\ job.story[s] \in StoryRow /\ job \in JobType
      /\ job.story[s].status \in LiveStatus
      /\ job.story[s].status = "awaiting-review" => job.story[s].candidate > 0
  BY <1>1, <1>2, TickKnows DEF RowsTyped
<1>4. row \in StoryRow
  BY <1>2, <1>3, AssignedTyped
<1>5. agent[a] # "absent"
  BY <1>1 DEF Typed, JobTyped
<1>6. Acted(rows)
  BY <1>1, <1>2
<1> HIDE DEF rows, row
<1>7. job'.step = "act" /\ job'.todo = Tail(job.todo) /\ job'.story = rows
  BY <1>3, <1>6 DEF Acted, JobType
<1> HIDE DEF s, a
<1>8. Effect(row)
  BY <1>1, <1>2, <1>3, <1>4, <1>7 DEF Effect, TickStep, rows, s
<1>9. QED BY <1>1, <1>2, <1>5, <1>8 DEF row, s, a

(* Provisioning creates at most the worktree of the action's story. *)
LEMMA ProvisionFacts ==
  ASSUME Typed, ProvisionGit
  PROVE  LET s == job.todo[1].story IN
         /\ LaunchGoesOn /\ job'.step = "provisioned"
         /\ job.todo[1].type \in LaunchAction
         /\ \/ tree' = tree
            \/ /\ job.todo[1].type # "assign-project-manager"
               /\ ~tree[s].present
               /\ tree' = [tree EXCEPT ![s] =
                             [NoTree EXCEPT !.present = TRUE,
                                            !.base = IntegrationHead]]
         /\ UNCHANGED <<story, agent, lease>>
<1> DEFINE b == AgentFor(job.todo[1].type, job.todo[1].story)
<1>1. b.kind = job.todo[1].type /\ b.story = job.todo[1].story
  BY AgentForRole
<1>2. /\ job.step = "act" /\ job.step \in TickSteps
      /\ job.todo # <<>> /\ job.todo[1].type \in LaunchAction
      /\ job' = [job EXCEPT !.step = "provisioned", !.agent = b]
      /\ TickStep
      /\ tree' = IF OwnsTree(b) /\ ~tree[b.story].present
                   THEN [tree EXCEPT ![b.story] =
                           [NoTree EXCEPT !.present = TRUE,
                                          !.base = IntegrationHead]]
                   ELSE tree
      /\ UNCHANGED <<story, agent, confirmed, lease, mainline>>
  BY DEF ProvisionGit, IsLaunch, TickSteps, launchVars
<1> HIDE DEF b
<1>3. job.todo[1].story \in Story /\ job \in JobType
  BY <1>2, TickKnows
<1>4. /\ job'.step = "provisioned" /\ job'.step \in LaunchSteps
      /\ job'.todo = job.todo /\ job'.story = job.story
  BY <1>2, <1>3 DEF JobType, LaunchSteps
<1>5. LaunchGoesOn
  BY <1>2, <1>3, <1>4 DEF LaunchGoesOn, TickStep
<1>6. QED BY <1>1, <1>2, <1>4, <1>5 DEF OwnsTree

(* The lease of a story goes to the writer that is launched for it. *)
LEMMA LeaseFacts ==
  ASSUME Typed, AcquireLease
  PROVE  LET a == job.agent s == job.todo[1].story IN
         /\ LaunchGoesOn /\ a \in Writers /\ a.story = s
         /\ job'.step = "leased" /\ job'.agent = a
         /\ job.todo[1].type = "assign-story"
         /\ LeaseGranted(a)
         /\ lease' = [lease EXCEPT ![s] = a]
         /\ story' = [story EXCEPT ![s].writer = a]
         /\ agent' = [agent EXCEPT ![a] = IF @ = "absent" THEN "planned" ELSE @]
         /\ UNCHANGED tree
<1> DEFINE a == job.agent
           s == job.todo[1].story
<1>1. /\ job.step = "provisioned" /\ job.step \in LaunchSteps
      /\ a \in Writers /\ LeaseGranted(a) /\ TickStep
      /\ lease' = [lease EXCEPT ![a.story] = a]
      /\ story' = [story EXCEPT ![a.story].writer = a]
      /\ agent' = [agent EXCEPT ![a] = IF @ = "absent" THEN "planned" ELSE @]
      /\ job' = [job EXCEPT !.step = "leased"]
      /\ UNCHANGED <<confirmed, tree, mainline>>
  BY DEF AcquireLease, LaunchSteps, launchVars, gitVars
<1>2. /\ a.story = s /\ s \in Story /\ job.todo # <<>>
      /\ job.todo[1].type = "assign-story" /\ job.step \in TickSteps
  BY <1>1, LaunchTyped
<1>3. /\ job'.step = "leased" /\ job'.step \in LaunchSteps /\ job'.agent = a
      /\ job'.todo = job.todo /\ job'.story = job.story
  BY <1>1 DEF Typed, TypeOK, LaunchSteps
<1>4. LaunchGoesOn
  BY <1>1, <1>2, <1>3 DEF LaunchGoesOn, TickStep
<1> HIDE DEF a, s
<1>5. /\ lease' = [lease EXCEPT ![s] = a]
      /\ story' = [story EXCEPT ![s].writer = a]
  BY <1>1, <1>2
<1>6. QED BY <1>1, <1>2, <1>3, <1>4, <1>5 DEF a, s

(* Materialization makes the launched agent exist and changes no row. *)
LEMMA MaterializeFacts ==
  ASSUME Typed, Materialize
  PROVE  LET a == job.agent IN
         /\ LaunchGoesOn /\ job.step \in LaunchSteps
         /\ a \in AgentId /\ a.story = job.todo[1].story
         /\ a.kind = job.todo[1].type
         /\ job'.step = "launching" /\ job'.agent = a
         /\ job.step = "leased" \/ a \notin Writers
         /\ Materializable(a)
         /\ agent' = [agent EXCEPT ![a] = "launching"]
         /\ UNCHANGED <<story, lease, tree>>
<1> DEFINE a == job.agent
<1>1. /\ job.step \in LaunchSteps
      /\ job.step = "leased" \/ a \notin Writers
      /\ Materializable(a) /\ TickStep
      /\ agent' = [agent EXCEPT ![a] = "launching"]
      /\ job' = [job EXCEPT !.step = "launching"]
      /\ UNCHANGED <<story, confirmed, lease, tree, mainline>>
  BY DEF Materialize, ReadyToMaterialize, LaunchSteps, gitVars
<1>2. /\ a \in AgentId /\ a.story = job.todo[1].story
      /\ job.todo[1].story \in Story
      /\ a.kind = job.todo[1].type
      /\ job.todo # <<>> /\ job.step \in TickSteps
  BY <1>1, LaunchTyped
<1>3. /\ job'.step = "launching" /\ job'.step \in LaunchSteps
      /\ job'.agent = a
      /\ job'.todo = job.todo /\ job'.story = job.story
  BY <1>1 DEF Typed, TypeOK, LaunchSteps
<1>4. LaunchGoesOn
  BY <1>1, <1>2, <1>3 DEF LaunchGoesOn, TickStep
<1>5. QED BY <1>1, <1>2, <1>3, <1>4

(* A tick that goes on and leaves its copy, the reviews and the merges. *)
LEMMA IntegratedKept ==
  ASSUME Typed, Integrated, job.step \in TickSteps, job'.step \in TickSteps,
         job'.story = job.story, UNCHANGED <<mainline, approvals>>,
         \/ job'.todo = job.todo
         \/ job.todo # <<>> /\ job'.todo = Tail(job.todo),
         job'.step = "staged" => StagedOnHead',
         \A s \in Story :
           /\ story'[s].status = story[s].status
           /\ story'[s].cleaned = story[s].cleaned
           /\ story[s].status \in {"approved", "merged"} => story'[s] = story[s]
  PROVE  Integrated'
<1>1. /\ RowsDelivered(story, approvals, mainline) /\ MergesReviewed
      /\ RowsDelivered(job.story, approvals, mainline)
      /\ CopyFollows /\ \A j \in 1 .. Len(job.todo) : Due(job.todo[j])
      /\ mainline \in Seq(Merge) /\ job.todo \in Seq(Action)
  BY TickKnows DEF Integrated, TodoDue, Typed, TypeOK
<1>2. RowsDelivered(story, approvals, mainline)'
  BY <1>1 DEF RowsDelivered
<1>3. RowsDelivered(job.story, approvals, mainline)'
  BY <1>1 DEF RowsDelivered
<1>4. MergesReviewed'
  <2> SUFFICES ASSUME NEW i \in 1 .. IntegrationHead
               PROVE  LET x == mainline[i].story IN
                      /\ mainline[i] \in approvals
                      /\ mainline[i].base = i - 1
                      /\ story'[x].status \in {"approved", "merged"}
                      /\ mainline[i] = Candidate(x, story'[x])
    BY DEF MergesReviewed, IntegrationHead
  <2>1. mainline[i] \in Merge
    BY <1>1 DEF IntegrationHead
  <2>2. mainline[i].story \in Story
    BY <2>1 DEF Merge
  <2>3. QED BY <1>1, <2>2 DEF MergesReviewed
<1>5. CopyFollows'
  <2> SUFFICES ASSUME NEW s \in Story
               PROVE  LET row == story'[s] copy == job.story[s] IN
                      /\ row.status = "merged" =>
                           copy = [row EXCEPT !.cleaned = copy.cleaned]
                      /\ row.status = "approved" =>
                           /\ copy.status \in {"approved", "merged"}
                           /\ Candidate(s, copy) = Candidate(s, row)
                      /\ row.status \notin {"approved", "merged"} =>
                           copy.status \notin {"approved", "merged"}
    BY DEF CopyFollows
  <2>1. LET row == story[s] copy == job.story[s] IN
        /\ row.status = "merged" =>
             copy = [row EXCEPT !.cleaned = copy.cleaned]
        /\ row.status = "approved" =>
             /\ copy.status \in {"approved", "merged"}
             /\ Candidate(s, copy) = Candidate(s, row)
        /\ row.status \notin {"approved", "merged"} =>
             copy.status \notin {"approved", "merged"}
    BY <1>1 DEF CopyFollows
  <2>2. QED BY <2>1
<1>6. TodoDue'
  <2>1. \A j \in 1 .. Len(job'.todo) : Due(job'.todo[j])
    <3>1. CASE job'.todo = job.todo
      BY <1>1, <3>1
    <3>2. CASE job.todo # <<>> /\ job'.todo = Tail(job.todo)
      <4>1. \A j \in 1 .. Len(Tail(job.todo)) :
              /\ Tail(job.todo)[j] = job.todo[j + 1]
              /\ j + 1 \in 1 .. Len(job.todo)
        BY <1>1, <3>2, RestTyped
      <4>2. \A j \in 1 .. Len(Tail(job.todo)) : Due(Tail(job.todo)[j])
        BY <1>1, <4>1
      <4>3. QED BY <3>2, <4>2
    <3>3. QED BY <3>1, <3>2
  <2>2. ASSUME NEW x \in Action, Due(x)
        PROVE  Due(x)'
    <3>1. x.story \in Story /\ Dependencies[x.story] \subseteq Story
      BY DependencyAssumption DEF Action
    <3>2. /\ story'[x.story].status = story[x.story].status
          /\ \A d \in Dependencies[x.story] : story'[d].status = story[d].status
      BY <3>1
    <3>3. QED BY <2>2, <3>2 DEF Due
  <2>3. job'.todo \in Seq(Action)
    BY <1>1, RestTyped
  <2>4. \A j \in 1 .. Len(job'.todo) : job'.todo[j] \in Action
    BY <2>3
  <2>5. QED BY <2>1, <2>2, <2>4 DEF TodoDue, Due
<1>7. StagedOnHead'
  BY DEF StagedOnHead
<1>8. QED BY <1>2, <1>3, <1>4, <1>5, <1>6, <1>7 DEF Integrated

(* What is due at the head of a tick. *)
LEMMA HeadDue ==
  ASSUME Typed, Integrated, job.step \in TickSteps, job.todo # <<>>
  PROVE  /\ Due(job.todo[1]) /\ job.todo[1].story \in Story
         /\ \A j \in 1 .. Len(job.todo) : Due(job.todo[j])
BY TickKnows DEF Integrated, TodoDue

(* The invariant through the load of a tick ... *)
LEMMA IntegratedLoad ==
  ASSUME Typed, Integrated, NEW managed \in BOOLEAN, LoadTick(managed)
  PROVE  Integrated'
<1>1. /\ job'.step = "act" /\ job'.story = story /\ job'.todo = Admitted
      /\ UNCHANGED <<story, mainline, approvals>>
  BY LoadFacts
<1>2. /\ RowsDelivered(story, approvals, mainline) /\ MergesReviewed
      /\ story \in [Story -> StoryRow]
      /\ \A j \in 1 .. Len(Admitted) : Due(Admitted[j])
  BY AdmittedDue DEF Integrated, Typed, TypeOK
<1>3. /\ RowsDelivered(story, approvals, mainline)'
      /\ RowsDelivered(job.story, approvals, mainline)'
  BY <1>1, <1>2 DEF RowsDelivered
<1>4. MergesReviewed'
  BY <1>1, <1>2 DEF MergesReviewed, IntegrationHead
<1>5. CopyFollows'
  <2>1. \A s \in Story : story[s] = [story[s] EXCEPT !.cleaned = story[s].cleaned]
    BY <1>2 DEF StoryRow
  <2>2. QED BY <1>1, <2>1 DEF CopyFollows
<1>6. TodoDue'
  BY <1>1, <1>2 DEF TodoDue, Due
<1>7. QED BY <1>1, <1>3, <1>4, <1>5, <1>6 DEF Integrated, StagedOnHead

(* ... its commit ... *)
LEMMA IntegratedCommit ==
  ASSUME Typed, Integrated, CommitTick
  PROVE  Integrated'
<1>1. /\ job.step \in TickSteps /\ job'.step \notin TickSteps
      /\ story' = job.story /\ UNCHANGED <<mainline, approvals>>
  BY CommitFacts
<1>2. /\ RowsDelivered(job.story, approvals, mainline) /\ MergesReviewed
      /\ CopyFollows
      /\ story \in [Story -> StoryRow] /\ job.story \in [Story -> StoryRow]
      /\ mainline \in Seq(Merge)
  BY <1>1, TickKnows DEF Integrated, Typed, TypeOK
<1>3. RowsDelivered(story, approvals, mainline)'
  BY <1>1, <1>2 DEF RowsDelivered
<1>4. MergesReviewed'
  <2> SUFFICES ASSUME NEW i \in 1 .. IntegrationHead
               PROVE  LET x == mainline[i].story IN
                      /\ mainline[i] \in approvals
                      /\ mainline[i].base = i - 1
                      /\ job.story[x].status \in {"approved", "merged"}
                      /\ mainline[i] = Candidate(x, job.story[x])
    BY <1>1 DEF MergesReviewed, IntegrationHead
  <2> DEFINE x == mainline[i].story
  <2>1. mainline[i] \in Merge
    BY <1>2 DEF IntegrationHead
  <2>2. x \in Story
    BY <2>1 DEF Merge
  <2>3. /\ mainline[i] \in approvals /\ mainline[i].base = i - 1
        /\ story[x].status \in {"approved", "merged"}
        /\ mainline[i] = Candidate(x, story[x])
    BY <1>2 DEF MergesReviewed
  <2>4. /\ story[x].status = "merged" =>
             job.story[x] = [story[x] EXCEPT !.cleaned = job.story[x].cleaned]
        /\ story[x].status = "approved" =>
             /\ job.story[x].status \in {"approved", "merged"}
             /\ Candidate(x, job.story[x]) = Candidate(x, story[x])
    BY <1>1, <1>2, <2>2 DEF CopyFollows
  <2>5. story[x] \in StoryRow
    BY <1>2, <2>2
  <2> HIDE DEF x
  <2>6. CASE story[x].status = "merged"
    <3>1. /\ job.story[x].status = "merged"
          /\ Candidate(x, job.story[x]) = Candidate(x, story[x])
      BY <2>4, <2>5, <2>6 DEF Candidate, StoryRow
    <3>2. QED BY <2>3, <3>1 DEF x
  <2>7. CASE story[x].status = "approved"
    BY <2>3, <2>4, <2>7 DEF x
  <2>8. QED BY <2>3, <2>6, <2>7
<1>5. QED BY <1>1, <1>3, <1>4
          DEF Integrated, CopyFollows, TodoDue, StagedOnHead, TickSteps

(* ... a merge, committed now or found again ... *)
LEMMA IntegratedMerge ==
  ASSUME Typed, Integrated, CommitMerge \/ RecoverMerge
  PROVE  Integrated'
<1> DEFINE s == job.todo[1].story
           copy == job.story[s]
<1>1. PICK head \in Nat :
        /\ Effect(StoryMerged(copy, head))
        /\ job.todo[1].type = "request-merge"
        /\ \/ /\ job.step = "staged" /\ head = IntegrationHead + 1
              /\ mainline' = Append(mainline, Candidate(s, copy))
           \/ /\ head = IntegrationHead /\ head > 0
              /\ mainline[head] = Candidate(s, copy)
              /\ mainline' = mainline
  <2>1. IntegrationHead \in Nat
    BY DEF Typed, TypeOK, IntegrationHead
  <2>2. CASE CommitMerge
    BY <2>1, <2>2, MergeFacts
  <2>3. CASE RecoverMerge
    BY <2>1, <2>3, RecoverFacts
  <2>4. QED BY <2>2, <2>3
<1>2. /\ job.step \in {"act", "staged", "launching"} /\ job.step \in TickSteps
      /\ job.todo # <<>> /\ s \in Story
  BY <1>1 DEF Effect, TickSteps, LaunchSteps
<1>3. Due(job.todo[1]) /\ story[s].status = "approved"
  BY <1>1, <1>2, HeadDue DEF Due
<1>4. /\ story[s] \in StoryRow /\ copy \in StoryRow /\ mainline \in Seq(Merge)
  BY <1>2, TickKnows DEF Typed, TypeOK
<1>5. Candidate(s, copy) = Candidate(s, story[s])
  BY <1>2, <1>3 DEF Integrated, CopyFollows
<1>6. job.step = "staged" => story[s].reviewed = IntegrationHead
  <2>1. copy.reviewed = story[s].reviewed
    BY <1>5 DEF Candidate
  <2>2. QED BY <2>1 DEF Integrated, StagedOnHead
<1> DEFINE row == StoryMerged(copy, head)
<1>7. /\ row \in StoryRow /\ row.status = "merged" /\ row.merge = head
      /\ Candidate(s, row) = Candidate(s, story[s])
  BY <1>4, <1>5 DEF StoryMerged, StoryRow, StoryStatus, Candidate
<1>8. /\ job'.step = "act" /\ job'.todo = Tail(job.todo)
      /\ job'.story = [job.story EXCEPT ![s] = row]
      /\ UNCHANGED <<story, approvals>>
  BY <1>1 DEF Effect
<1>9. Candidate(s, story[s]) \in Merge
  BY <1>2, <1>4 DEF Candidate, Merge, StoryRow
<1>10. /\ head \in 1 .. Len(mainline')
       /\ mainline'[head] = Candidate(s, story[s])
  <2>1. CASE mainline' = Append(mainline, Candidate(s, copy))
               /\ head = IntegrationHead + 1
    BY <1>4, <1>5, <1>9, <2>1 DEF IntegrationHead
  <2>2. CASE /\ head = IntegrationHead /\ head > 0 /\ mainline' = mainline
             /\ mainline[head] = Candidate(s, copy)
    BY <1>4, <1>5, <2>2 DEF IntegrationHead
  <2>3. QED BY <1>1, <2>1, <2>2
<1>11. \/ mainline' = mainline
       \/ /\ mainline' = Append(mainline, Candidate(s, story[s]))
          /\ story[s].reviewed = IntegrationHead
  BY <1>1, <1>5, <1>6
<1> HIDE DEF row, copy, s
<1>12. QED BY <1>2, <1>3, <1>7, <1>8, <1>10, <1>11, IntegratedEffect

(* ... a cleanup ... *)
LEMMA IntegratedClean ==
  ASSUME Typed, Integrated, CleanUp
  PROVE  Integrated'
<1> DEFINE s == job.todo[1].story
           copy == job.story[s]
           row == [copy EXCEPT !.cleaned = TRUE]
<1>1. /\ Effect(row) /\ job.todo[1].type = "request-cleanup"
      /\ UNCHANGED mainline
  BY CleanFacts
<1>2. /\ job.step \in {"act", "staged", "launching"} /\ job.step \in TickSteps
      /\ job.todo # <<>> /\ s \in Story /\ row \in StoryRow
      /\ job'.step = "act" /\ job'.todo = Tail(job.todo)
      /\ job'.story = [job.story EXCEPT ![s] = row]
      /\ UNCHANGED <<story, approvals>>
  BY <1>1 DEF Effect, TickSteps, LaunchSteps
<1>3. story[s].status = "merged"
  BY <1>1, <1>2, HeadDue DEF Due
<1>4. story[s] \in StoryRow /\ copy \in StoryRow
  BY <1>2, TickKnows DEF Typed, TypeOK
<1>5. copy = [story[s] EXCEPT !.cleaned = copy.cleaned]
  BY <1>2, <1>3 DEF Integrated, CopyFollows
<1>6. /\ row = [story[s] EXCEPT !.cleaned = row.cleaned]
      /\ row.status = "merged" /\ copy.status = "merged"
      /\ row.merge = copy.merge /\ Candidate(s, row) = Candidate(s, copy)
  BY <1>3, <1>4, <1>5 DEF StoryRow, Candidate
<1>7. /\ copy.merge \in 1 .. Len(mainline)
      /\ mainline[copy.merge] = Candidate(s, copy)
  BY <1>2, <1>6 DEF Integrated, RowsDelivered
<1> HIDE DEF row, copy, s
<1>8. QED BY <1>1, <1>2, <1>3, <1>6, <1>7, IntegratedEffect

(* ... a confirmed launch ... *)
LEMMA IntegratedConfirm ==
  ASSUME Typed, Integrated, ConfirmLaunch
  PROVE  Integrated'
<1> DEFINE s == job.todo[1].story
           copy == job.story[s]
           a == job.agent
           row == Assigned(copy, a)
<1>1. /\ Effect(row) /\ a \in AgentId /\ a.kind = job.todo[1].type
      /\ UNCHANGED mainline
  BY ConfirmFacts
<1>2. /\ job.step \in {"act", "staged", "launching"} /\ job.step \in TickSteps
      /\ job.todo # <<>> /\ s \in Story /\ row \in StoryRow
      /\ job'.step = "act" /\ job'.todo = Tail(job.todo)
      /\ job'.story = [job.story EXCEPT ![s] = row]
      /\ UNCHANGED <<story, approvals>>
  BY <1>1 DEF Effect, TickSteps, LaunchSteps
<1>3. /\ story[s] \in StoryRow /\ copy \in StoryRow
      /\ copy.status \in LiveStatus
      /\ copy.status = "awaiting-review" => copy.candidate > 0
  BY <1>2, TickKnows DEF Typed, TypeOK, RowsTyped
<1>4. /\ copy.status = "approved" => Candidate(s, copy) \in approvals
      /\ copy.status = "merged" => /\ copy.merge \in 1 .. Len(mainline)
                                   /\ mainline[copy.merge] = Candidate(s, copy)
      /\ copy.cleaned => copy.status = "merged"
  BY <1>2 DEF Integrated, RowsDelivered
<1>5. /\ story[s].status = "merged" =>
           copy = [story[s] EXCEPT !.cleaned = copy.cleaned]
      /\ story[s].status = "approved" =>
           /\ copy.status \in {"approved", "merged"}
           /\ Candidate(s, copy) = Candidate(s, story[s])
      /\ story[s].status \notin {"approved", "merged"} =>
           copy.status \notin {"approved", "merged"}
  BY <1>2 DEF Integrated, CopyFollows
<1>6. Due(job.todo[1])
  BY <1>2, HeadDue
<1> HIDE DEF copy, row, s, a
<1>7. CASE a \in Writers \/ a \in Reviewers
  <2>1. job.todo[1].type \in {"assign-story", "assign-reviewer"}
    BY <1>1, <1>7 DEF Writers, Reviewers
  <2>2. story[s].status \notin {"approved", "merged"}
    BY <1>6, <2>1 DEF Due, s
  <2>3. /\ row.status = IF a \in Writers THEN "assigned" ELSE copy.status
        /\ row.cleaned => copy.cleaned
    BY <1>1, <1>3, AssignedTyped DEF row
  <2>4. row.status \notin {"approved", "merged"} /\ ~row.cleaned
    BY <1>4, <1>5, <2>2, <2>3
  <2>5. QED BY <1>1, <1>2, <2>2, <2>4, IntegratedEffect
<1>8. CASE a \notin Writers /\ a \notin Reviewers
  <2>1. row = copy
    BY <1>8 DEF Assigned, row
  <2>2. QED BY <1>1, <1>2, <1>4, <1>5, <2>1, IntegratedEffect
<1>9. QED BY <1>7, <1>8

(* ... and the steps of a launch before that. *)
LEMMA IntegratedLaunch ==
  ASSUME Typed, Integrated, ProvisionGit \/ AcquireLease \/ Materialize
  PROVE  Integrated'
<1>1. CASE ProvisionGit \/ Materialize
  <2>1. LaunchGoesOn /\ UNCHANGED story
    BY <1>1, ProvisionFacts, MaterializeFacts
  <2>2. /\ job.step \in TickSteps /\ job'.step \in TickSteps
        /\ job'.step # "staged" /\ job'.story = job.story
        /\ job'.todo = job.todo /\ UNCHANGED <<mainline, approvals>>
    BY <2>1 DEF LaunchGoesOn, LaunchSteps, TickSteps
  <2>3. QED BY <2>1, <2>2, IntegratedKept
<1>2. CASE AcquireLease
  <2> DEFINE a == job.agent
             s == job.todo[1].story
  <2>1. /\ LaunchGoesOn /\ a \in Writers /\ job.todo[1].type = "assign-story"
        /\ story' = [story EXCEPT ![s].writer = a]
    BY <1>2, LeaseFacts
  <2>2. /\ job.step \in TickSteps /\ job'.step \in TickSteps
        /\ job'.step # "staged" /\ job'.story = job.story
        /\ job'.todo = job.todo /\ UNCHANGED <<mainline, approvals>>
        /\ job.todo # <<>> /\ s \in Story
    BY <2>1 DEF LaunchGoesOn, LaunchSteps, TickSteps
  <2>3. story[s].status \notin {"approved", "merged"}
    BY <2>1, <2>2, HeadDue DEF Due
  <2>4. story \in [Story -> StoryRow]
    BY DEF Typed, TypeOK
  <2> HIDE DEF a, s
  <2>5. \A x \in Story :
          /\ story'[x].status = story[x].status
          /\ story'[x].cleaned = story[x].cleaned
          /\ story[x].status \in {"approved", "merged"} => story'[x] = story[x]
    BY <2>1, <2>2, <2>3, <2>4 DEF StoryRow
  <2>6. QED BY <2>2, <2>5, IntegratedKept
<1>3. QED BY <1>1, <1>2

(* The invariant holds through every step of a tick. *)
LEMMA IntegratedWithin ==
  ASSUME Typed, Integrated, WithinTick
  PROVE  Integrated'
<1>1. CASE StageMerge
  <2>1. /\ job.step = "act" /\ job.todo # <<>>
        /\ job.story[job.todo[1].story].reviewed = IntegrationHead
        /\ job'.step = "staged" /\ job'.story = job.story
        /\ job'.todo = job.todo /\ UNCHANGED <<story, mainline, approvals>>
    BY <1>1, StageFacts
  <2>2. StagedOnHead' /\ job.step \in TickSteps /\ job'.step \in TickSteps
    BY <2>1 DEF StagedOnHead, IntegrationHead, TickSteps
  <2>3. QED BY <2>1, <2>2, IntegratedKept
<1>2. CASE CompleteRun
  <2>1. /\ job.step = "act" /\ job'.step = "act" /\ job.todo # <<>>
        /\ job'.story = job.story /\ job'.todo = Tail(job.todo)
        /\ UNCHANGED <<story, mainline, approvals>>
    BY <1>2, CompleteFacts
  <2>2. job.step \in TickSteps /\ job'.step \in TickSteps
    BY <2>1 DEF TickSteps
  <2>3. QED BY <2>1, <2>2, IntegratedKept
<1>3. QED BY <1>1, <1>2, IntegratedLoad, IntegratedMerge, IntegratedClean,
             IntegratedConfirm, IntegratedLaunch, IntegratedCommit DEF WithinTick

(* How rows, reviews, merges and the copies of a tick agree. *)
THEOREM IntegratedStep == Typed /\ Integrated /\ [Next]_vars => Integrated'
BY StepKinds, IntegratedOutside, IntegratedBeside, IntegratedWithin

(* What is approved was reviewed as it is, what is merged was approved, and a*)
(* tick's copy never lags behind what was merged.                          *)
THEOREM AlwaysIntegrated == Spec => [](Typed /\ Integrated)
<1>1. Init => Typed /\ Integrated
  BY TypedInit, IntegratedInit
<1>2. Typed /\ Integrated /\ [Next]_vars => (Typed /\ Integrated)'
  BY TypedStep, IntegratedStep
<1>3. QED BY <1>1, <1>2, PTL DEF Spec

-----------------------------------------------------------------------------
(* What is on the integration branch was approved by a review of exactly   *)
(* that candidate on exactly the head it was merged onto, once per story.  *)
THEOREM ReviewedMerges == Spec => []MergedAsReviewed
<1>1. Typed /\ Integrated => MergedAsReviewed
  <2> SUFFICES ASSUME Typed, Integrated PROVE MergedAsReviewed
    OBVIOUS
  <2>1. MergesReviewed /\ IntegrationHead \in Nat
    BY DEF Integrated, Typed, TypeOK, IntegrationHead
  <2>2. ASSUME NEW i \in 1 .. IntegrationHead, NEW j \in 1 .. IntegrationHead,
               mainline[i].story = mainline[j].story
        PROVE  i = j
    <3>1. mainline[i] = mainline[j]
      BY <2>1, <2>2 DEF MergesReviewed
    <3>2. mainline[i].base = i - 1 /\ mainline[j].base = j - 1
      BY <2>1 DEF MergesReviewed
    <3>3. QED BY <2>1, <3>1, <3>2
  <2>3. QED BY <2>1, <2>2 DEF MergesReviewed, MergedAsReviewed
<1>2. QED BY <1>1, AlwaysIntegrated, PTL

(* Within a tick, the rows of the database are written only by the lease   *)
(* that is granted to their writer and by the commit of the tick.          *)
LEMMA RowsWithin ==
  ASSUME Typed, Integrated, WithinTick
  PROVE  \/ story' = story
         \/ \E s \in Story, a \in Writers :
              /\ story[s].status \in {"ready", "changes-requested"}
              /\ story' = [story EXCEPT ![s].writer = a]
         \/ /\ CommitTick /\ story' = job.story
            /\ job.step \in TickSteps /\ CopyFollows
<1>1. CASE CommitTick
  BY <1>1, CommitFacts DEF Integrated
<1>2. CASE AcquireLease
  <2>1. /\ job.agent \in Writers /\ LaunchGoesOn
        /\ job.todo[1].type = "assign-story"
        /\ story' = [story EXCEPT ![job.todo[1].story].writer = job.agent]
    BY <1>2, LeaseFacts
  <2>2. job.step \in TickSteps /\ job.todo # <<>>
    BY <2>1 DEF LaunchGoesOn
  <2>3. /\ job.todo[1].story \in Story
        /\ story[job.todo[1].story].status \in {"ready", "changes-requested"}
    BY <2>1, <2>2, HeadDue DEF Due
  <2>4. QED BY <2>1, <2>3
<1>3. CASE \E managed \in BOOLEAN : LoadTick(managed)
  BY <1>3, LoadFacts
<1>4. CASE StageMerge \/ CompleteRun \/ ProvisionGit \/ Materialize
  BY <1>4, StageFacts, CompleteFacts, ProvisionFacts, MaterializeFacts
<1>5. CASE CommitMerge \/ RecoverMerge \/ CleanUp \/ ConfirmLaunch
  BY <1>5, MergeFacts, RecoverFacts, CleanFacts, ConfirmFacts DEF Effect
<1>6. QED BY <1>1, <1>2, <1>3, <1>4, <1>5 DEF WithinTick

(* No step changes a merged story but for its cleanup. *)
LEMMA MergedKept ==
  ASSUME Typed, Integrated, [Next]_vars,
         NEW s \in Story, story[s].status = "merged"
  PROVE  /\ story'[s] = [story[s] EXCEPT !.cleaned = story'[s].cleaned]
         /\ story'[s].status = "merged" /\ story'[s].merge = story[s].merge
<1>1. story \in [Story -> StoryRow] /\ story[s] \in StoryRow
  BY DEF Typed, TypeOK
<1>2. story[s] = [story[s] EXCEPT !.cleaned = story[s].cleaned]
  BY <1>1 DEF StoryRow
<1>3. story'[s] = [story[s] EXCEPT !.cleaned = story'[s].cleaned]
  <2>1. CASE OutsideTick
    <3>1. RowKept(s)
      BY <2>1 DEF OutsideTick
    <3>2. story'[s] = story[s]
      BY <3>1 DEF RowKept, Fresh, Work
    <3>3. QED BY <1>2, <3>2
  <2>2. CASE BesideTick
    BY <1>2, <2>2 DEF BesideTick
  <2>3. CASE WithinTick
    <3>1. CASE story' = story
      BY <1>2, <3>1
    <3>2. CASE \E x \in Story, a \in Writers :
                 /\ story[x].status \in {"ready", "changes-requested"}
                 /\ story' = [story EXCEPT ![x].writer = a]
      BY <1>1, <1>2, <3>2
    <3>3. CASE /\ story' = job.story /\ job.step \in TickSteps /\ CopyFollows
      BY <3>3 DEF CopyFollows
    <3>4. QED BY <2>3, <3>1, <3>2, <3>3, RowsWithin
  <2>4. QED BY <2>1, <2>2, <2>3, StepKinds
<1>4. QED BY <1>1, <1>3 DEF StoryRow

(* No commit takes a merge back: neither a stale tick that overwrites the  *)
(* stories nor a lifecycle commit changes the record of a merged story.    *)
THEOREM MergesAreFinal == Spec => MergedIsFinal
<1> DEFINE Final == \A s \in Story : story[s].status = "merged" =>
             story'[s] = [story[s] EXCEPT !.cleaned = story'[s].cleaned]
<1>1. Typed /\ Integrated /\ [Next]_vars => [Final]_vars
  BY MergedKept
<1>2. QED BY <1>1, AlwaysIntegrated, PTL DEF MergedIsFinal, Spec

(* The merge a tick commits is that of an approved review of this head,    *)
(* and of a story that is not on the branch yet.                           *)
LEMMA MergeOfReview ==
  ASSUME Typed, Integrated, CommitMerge
  PROVE  \E r \in approvals :
           /\ r.base = IntegrationHead
           /\ \A i \in 1 .. IntegrationHead : mainline[i].story # r.story
           /\ mainline' = Append(mainline, r)
           /\ UNCHANGED approvals
<1> DEFINE s == job.todo[1].story
           copy == job.story[s]
           r == Candidate(s, story[s])
<1>1. /\ Effect(StoryMerged(copy, IntegrationHead + 1))
      /\ job.step = "staged" /\ job.todo[1].type = "request-merge"
      /\ mainline' = Append(mainline, Candidate(s, copy))
  BY MergeFacts
<1>2. /\ job.step \in TickSteps /\ job.todo # <<>> /\ s \in Story
      /\ UNCHANGED approvals
  BY <1>1 DEF Effect, TickSteps
<1>3. story[s].status = "approved"
  BY <1>1, <1>2, HeadDue DEF Due
<1>4. Candidate(s, copy) = r
  BY <1>2, <1>3 DEF Integrated, CopyFollows
<1>5. r \in approvals
  BY <1>2, <1>3 DEF Integrated, RowsDelivered
<1>6. r.base = IntegrationHead /\ r.story = s
  BY <1>1, <1>4 DEF Integrated, StagedOnHead, Candidate
<1>7. ASSUME NEW i \in 1 .. IntegrationHead, mainline[i].story = s
      PROVE  FALSE
  <2>1. mainline[i].base = i - 1 /\ mainline[i] = r
    BY <1>7 DEF Integrated, MergesReviewed
  <2>2. IntegrationHead \in Nat
    BY DEF Typed, TypeOK, IntegrationHead
  <2>3. QED BY <1>6, <2>1, <2>2
<1>8. mainline' = Append(mainline, r)
  BY <1>1, <1>4
<1> HIDE DEF r, s, copy
<1>9. QED BY <1>2, <1>5, <1>6, <1>7, <1>8

(* Delivery implements the abstract integration branch: a review approves  *)
(* a candidate on the current head, a merge appends an approved one to the *)
(* head it was reviewed on, and nothing else touches either.               *)
THEOREM DeliveryRefines == Spec => ImplementsIntegration
<1>1. Init => Delivery!Init
  BY DEF Init, Delivery!Init
<1>2. ASSUME Typed, Integrated, [Next]_vars
      PROVE  Delivery!Next \/ UNCHANGED <<approvals, mainline>>
  <2>1. CASE OutsideTick
    <3>1. mainline' = mainline /\ ApprovalsKept
      BY <2>1 DEF OutsideTick
    <3>2. CASE approvals' = approvals
      BY <3>1, <3>2
    <3>3. ASSUME NEW r \in Merge, r.candidate > 0, r.base = IntegrationHead,
                 approvals' = approvals \cup {r}
          PROVE  Delivery!Next
      <4>1. Delivery!Approve(r) /\ r \in approvals'
        BY <3>1, <3>3 DEF Delivery!Approve, Delivery!Review,
           Delivery!IntegrationHead, IntegrationHead, Merge
      <4>2. QED BY <4>1 DEF Delivery!Next
    <3>4. QED BY <3>1, <3>2, <3>3 DEF ApprovalsKept
  <2>2. CASE BesideTick
    BY <2>2 DEF BesideTick
  <2>3. CASE CommitMerge
    <3>1. PICK r \in approvals :
            /\ r.base = IntegrationHead
            /\ \A i \in 1 .. IntegrationHead : mainline[i].story # r.story
            /\ mainline' = Append(mainline, r)
            /\ UNCHANGED approvals
      BY <1>2, <2>3, MergeOfReview
    <3>2. Delivery!Merge(r)
      BY <3>1 DEF Delivery!Merge, Delivery!IntegrationHead, IntegrationHead
    <3>3. QED BY <3>2 DEF Delivery!Next
  <2>4. CASE WithinTick /\ ~CommitMerge
    <3>1. CASE \E managed \in BOOLEAN : LoadTick(managed)
      BY <1>2, <3>1, LoadFacts
    <3>2. CASE StageMerge \/ CompleteRun \/ CommitTick
      BY <1>2, <3>2, StageFacts, CompleteFacts, CommitFacts
    <3>3. CASE ProvisionGit \/ AcquireLease \/ Materialize
      BY <1>2, <3>3, ProvisionFacts, LeaseFacts, MaterializeFacts
         DEF LaunchGoesOn
    <3>4. CASE RecoverMerge \/ CleanUp \/ ConfirmLaunch
      BY <1>2, <3>4, RecoverFacts, CleanFacts, ConfirmFacts DEF Effect
    <3>5. QED BY <2>4, <3>1, <3>2, <3>3, <3>4 DEF WithinTick
  <2>5. QED BY <1>2, <2>1, <2>2, <2>3, <2>4, StepKinds
<1>3. QED BY <1>1, <1>2, AlwaysIntegrated, PTL
          DEF Spec, ImplementsIntegration, Delivery!Spec

-----------------------------------------------------------------------------
(* The team comes first.                                                   *)

(* The team is neither writer nor reviewer. *)
LEMMA TeamKinds ==
  /\ Elements(Team) \subseteq TeamAction
  /\ \A a \in AgentId : a.kind \in TeamAction =>
       a \notin Writers /\ a \notin Reviewers
  /\ {"assign-story", "assign-reviewer"} \cap TeamAction = {}
<1>1. Elements(Team) \subseteq TeamAction
  BY TeamAssumption, ElementsTyped
<1>2. QED BY <1>1 DEF TeamAction, Writers, Reviewers

(* A member of the team that counts as launched is never launched again. *)
LEMMA LaunchedKept ==
  ASSUME Typed, Integrated, [Next]_vars, NEW kind \in Elements(Team),
         Launched(kind)
  PROVE  Launched(kind)'
<1>1. PICK a \in AgentId : /\ a.kind = kind /\ agent[a] # "absent"
                           /\ agent[a] = "launching" => a \in confirmed
  BY DEF Launched
<1>2. a \notin Writers
  BY <1>1, TeamKinds
<1>3. /\ agent \in [AgentId -> AgentStatus \cup {"absent"}]
      /\ agent[a] # "planned"
  BY <1>2 DEF Typed, TypeOK, AgentsTyped
<1>4. ASSUME agent'[a] # "absent",
             agent'[a] = "launching" => a \in confirmed'
      PROVE  Launched(kind)'
  BY <1>1, <1>4 DEF Launched
<1>5. CASE UNCHANGED <<agent, confirmed>>
  BY <1>1, <1>4, <1>5
<1>6. CASE OutsideTick
  <2>1. AgentKept(a) /\ confirmed' = confirmed
    BY <1>6 DEF OutsideTick
  <2>2. QED BY <1>1, <1>4, <2>1 DEF AgentKept
<1>7. CASE BesideTick
  BY <1>5, <1>7 DEF BesideTick
<1>8. CASE WithinTick
  <2>1. CASE \/ \E managed \in BOOLEAN : LoadTick(managed)
             \/ StageMerge \/ CompleteRun \/ CommitTick
    BY <1>5, <2>1, LoadFacts, StageFacts, CompleteFacts, CommitFacts
  <2>2. CASE CommitMerge \/ RecoverMerge \/ CleanUp \/ ProvisionGit
    BY <1>5, <2>2, MergeFacts, RecoverFacts, CleanFacts, ProvisionFacts
       DEF Effect, LaunchGoesOn
  <2>3. CASE ConfirmLaunch
    <3>1. agent' = agent /\ confirmed \subseteq confirmed'
      BY <2>3, ConfirmFacts DEF Effect
    <3>2. QED BY <1>1, <1>4, <3>1
  <2>4. CASE AcquireLease
    <3>1. /\ job.agent \in Writers
          /\ agent' = [agent EXCEPT ![job.agent] =
                         IF @ = "absent" THEN "planned" ELSE @]
          /\ confirmed' = confirmed
      BY <2>4, LeaseFacts DEF LaunchGoesOn
    <3>2. QED BY <1>1, <1>2, <1>3, <1>4, <3>1
  <2>5. CASE Materialize
    <3>1. /\ Materializable(job.agent) /\ confirmed' = confirmed
          /\ agent' = [agent EXCEPT ![job.agent] = "launching"]
      BY <2>5, MaterializeFacts DEF LaunchGoesOn
    <3>2. agent[job.agent] \in {"absent", "planned", "launching"}
      BY <3>1 DEF Materializable
    <3>3. QED BY <1>1, <1>3, <1>4, <3>1, <3>2
  <2>6. QED BY <1>8, <2>1, <2>2, <2>3, <2>4, <2>5 DEF WithinTick
<1>9. QED BY <1>6, <1>7, <1>8, StepKinds

(* A team that was launched once stays launched. *)
LEMMA AllLaunchedKept ==
  ASSUME Typed, Integrated, [Next]_vars, AllLaunched
  PROVE  AllLaunched'
<1>1. \A kind \in Elements(Team) : Launched(kind)'
  BY LaunchedKept DEF AllLaunched
<1>2. QED BY <1>1 DEF AllLaunched

(* What is left to be done is still in order once its head is done. *)
LEMMA OrderKept ==
  ASSUME Typed, Integrated, [Next]_vars, job.step \in TickSteps, TodoInOrder,
         \A s \in Story : story'[s].status = story[s].status,
         \/ job'.todo = job.todo
         \/ /\ job.todo # <<>> /\ job'.todo = Tail(job.todo)
            /\ \A kind \in Elements(Team) :
                 job.todo[1].type = kind => Launched(kind)'
  PROVE  TodoInOrder'
<1>1. job.todo \in Seq(Action)
  BY TickKnows
<1>2. ASSUME NEW j \in 1 .. Len(job'.todo)
      PROVE  /\ job'.todo[j].type \in TeamAction =>
                  \A s \in Story : story'[s].status \in Fresh
             /\ job'.todo[j].type \in {"assign-story", "assign-reviewer"} =>
                  \A kind \in Elements(Team) :
                    \/ Launched(kind)'
                    \/ \E i \in 1 .. j - 1 : job'.todo[i].type = kind
  <2>1. CASE job'.todo = job.todo
    BY <1>2, <2>1, LaunchedKept DEF TodoInOrder
  <2>2. CASE /\ job.todo # <<>> /\ job'.todo = Tail(job.todo)
             /\ \A kind \in Elements(Team) :
                  job.todo[1].type = kind => Launched(kind)'
    <3>1. /\ \A i \in 1 .. Len(Tail(job.todo)) : Tail(job.todo)[i] = job.todo[i + 1]
          /\ j + 1 \in 1 .. Len(job.todo) /\ Len(Tail(job.todo)) \in Nat
          /\ j \in 1 .. Len(Tail(job.todo))
      BY <1>1, <1>2, <2>2, RestTyped
    <3>2. job'.todo[j] = job.todo[j + 1]
      BY <2>2, <3>1
    <3>3. ASSUME job.todo[j + 1].type \in {"assign-story", "assign-reviewer"},
                 NEW kind \in Elements(Team), ~Launched(kind)'
          PROVE  \E i \in 1 .. j - 1 : job'.todo[i].type = kind
      <4>0. (j + 1) - 1 = j /\ ~Launched(kind)
        BY <3>1, <3>3, LaunchedKept
      <4>1. PICK i \in 1 .. j : job.todo[i].type = kind
        BY <3>1, <3>3, <4>0 DEF TodoInOrder
      <4>2. i # 1
        BY <2>2, <3>3, <4>1
      <4>3. i - 1 \in 1 .. j - 1 /\ i - 1 \in 1 .. Len(Tail(job.todo))
        BY <3>1, <4>1, <4>2
      <4>4. job'.todo[i - 1] = job.todo[i]
        BY <2>2, <3>1, <4>1, <4>3
      <4>5. QED BY <4>1, <4>3, <4>4
    <3>4. QED BY <3>1, <3>2, <3>3 DEF TodoInOrder
  <2>3. QED BY <2>1, <2>2
<1>3. QED BY <1>2 DEF TodoInOrder

(* Nothing is begun at first. *)
LEMMA TeamFirstInit == Init => TeamFirst
<1> SUFFICES ASSUME Init PROVE TeamFirst
  OBVIOUS
<1>1. /\ RequiresApproval \in BOOLEAN /\ job = Idle
      /\ story = [s \in Story |-> NewStory(
                    IF RequiresApproval THEN "awaiting-approval" ELSE "ready",
                    None)]
  BY ApprovalAssumption DEF Init
<1>2. \A s \in Story : story[s].status \in Fresh
  BY <1>1 DEF NewStory, Fresh
<1>3. job.step \notin TickSteps
  BY <1>1, PlainJobs DEF TickSteps, LaunchSteps
<1>4. QED BY <1>2, <1>3 DEF TeamFirst, TeamBefore

(* An effect on a row that is no longer fresh shows that the team is there. *)
LEMMA TeamFirstEffect ==
  ASSUME Typed, Integrated, TeamFirst, [Next]_vars, NEW row, Effect(row),
         \/ row.status \in Fresh
         \/ row.status = job.story[job.todo[1].story].status
         \/ AllLaunched,
         \A kind \in Elements(Team) :
           job.todo[1].type = kind => Launched(kind)'
  PROVE  TeamFirst'
<1> DEFINE s == job.todo[1].story
<1>1. /\ job.step \in TickSteps /\ job'.step = "act" /\ story' = story
      /\ job.todo # <<>> /\ job'.todo = Tail(job.todo)
      /\ job'.story = [job.story EXCEPT ![s] = row] /\ s \in Story
      /\ job.story \in [Story -> StoryRow]
  BY TickKnows DEF Effect, TickSteps, LaunchSteps
<1>2. TeamBefore(story) /\ TeamBefore(job.story) /\ TodoInOrder
  BY <1>1 DEF TeamFirst
<1>3. TodoInOrder'
  BY <1>1, <1>2, OrderKept
<1>4. TeamBefore(story)'
  BY <1>1, <1>2, AllLaunchedKept DEF TeamBefore
<1> HIDE DEF s
<1>5. TeamBefore(job.story)'
  <2> SUFFICES ASSUME NEW x \in Story, job'.story[x].status \notin Fresh
               PROVE  AllLaunched'
    BY DEF TeamBefore
  <2>1. CASE x = s
    <3>1. row.status \notin Fresh
      BY <1>1, <2>1
    <3>2. AllLaunched
      BY <1>1, <1>2, <3>1 DEF TeamBefore, s
    <3>3. QED BY <3>2, AllLaunchedKept
  <2>2. CASE x # s
    <3>1. AllLaunched
      BY <1>1, <1>2, <2>2 DEF TeamBefore
    <3>2. QED BY <3>1, AllLaunchedKept
  <2>3. QED BY <2>1, <2>2
<1>6. QED BY <1>3, <1>4, <1>5 DEF TeamFirst

(* A tick that goes on and leaves its copy and every status. *)
LEMMA TeamFirstKept ==
  ASSUME Typed, Integrated, TeamFirst, [Next]_vars,
         job.step \in TickSteps, job'.story = job.story,
         \A s \in Story : story'[s].status = story[s].status,
         \/ job'.todo = job.todo
         \/ /\ job.todo # <<>> /\ job'.todo = Tail(job.todo)
            /\ job.todo[1].type \notin Elements(Team)
  PROVE  TeamFirst'
<1>1. TeamBefore(story) /\ TeamBefore(job.story) /\ TodoInOrder
  BY DEF TeamFirst
<1>2. TodoInOrder'
  BY <1>1, OrderKept
<1>3. TeamBefore(story)' /\ TeamBefore(job.story)'
  BY <1>1, AllLaunchedKept DEF TeamBefore
<1>4. QED BY <1>2, <1>3 DEF TeamFirst

(* A tick admits stories only once the team is launched or ahead of them. *)
LEMMA TeamFirstWithin ==
  ASSUME Typed, Integrated, TeamFirst, [Next]_vars, WithinTick
  PROVE  TeamFirst'
<1>1. /\ TeamBefore(story)
      /\ job.step \in TickSteps => TeamBefore(job.story) /\ TodoInOrder
  BY DEF TeamFirst
<1>2. {"request-merge", "request-cleanup", "complete-run", "assign-story",
       "assign-reviewer"} \cap Elements(Team) = {}
  BY TeamKinds DEF TeamAction
<1>3. story \in [Story -> StoryRow]
  BY DEF Typed, TypeOK
<1>4. CASE \E managed \in BOOLEAN : LoadTick(managed)
  <2>1. /\ job'.story = story /\ job'.todo = Admitted
        /\ UNCHANGED <<story, agent, confirmed>>
    BY <1>4, LoadFacts
  <2>2. \A kind : Launched(kind)' <=> Launched(kind)
    BY <2>1 DEF Launched
  <2>3. AllLaunched' <=> AllLaunched
    BY <2>2 DEF AllLaunched
  <2>4. TeamBefore(story)' /\ TeamBefore(job.story)'
    BY <1>1, <2>1, <2>3 DEF TeamBefore
  <2>5. TodoInOrder'
    <3>1. ASSUME NEW j \in 1 .. Len(Admitted)
          PROVE  /\ Admitted[j].type \in TeamAction =>
                      \A s \in Story : story[s].status \in Fresh
                 /\ Admitted[j].type \in {"assign-story", "assign-reviewer"} =>
                      \A kind \in Elements(Team) :
                        \/ Launched(kind)
                        \/ \E i \in 1 .. j - 1 : Admitted[i].type = kind
      BY <1>1, <3>1, AdmittedDue DEF TeamBefore
    <3>2. QED BY <2>1, <2>2, <3>1 DEF TodoInOrder
  <2>6. QED BY <2>4, <2>5 DEF TeamFirst
<1>5. CASE StageMerge \/ CompleteRun
  <2>1. /\ job.step = "act" /\ job.todo # <<>>
        /\ job.todo[1].type \in {"request-merge", "complete-run"}
    BY <1>5 DEF StageMerge, CompleteRun, Acting
  <2>2. /\ job'.story = job.story /\ story' = story
        /\ job'.todo \in {job.todo, Tail(job.todo)}
    BY <1>5, StageFacts, CompleteFacts
  <2>3. job.step \in TickSteps /\ job.todo[1].type \notin Elements(Team)
    BY <1>2, <2>1 DEF TickSteps
  <2>4. QED BY <2>1, <2>2, <2>3, TeamFirstKept
<1>6. CASE ProvisionGit \/ Materialize \/ AcquireLease
  <2>1. LaunchGoesOn
    BY <1>6, ProvisionFacts, MaterializeFacts, LeaseFacts
  <2>2. job.step \in TickSteps /\ job'.story = job.story /\ job'.todo = job.todo
    BY <2>1 DEF LaunchGoesOn
  <2>3. \A s \in Story : story'[s].status = story[s].status
    <3>1. CASE ProvisionGit \/ Materialize
      BY <3>1, ProvisionFacts, MaterializeFacts
    <3>2. CASE AcquireLease
      <4>1. story' = [story EXCEPT ![job.todo[1].story].writer = job.agent]
        BY <3>2, LeaseFacts
      <4>2. QED BY <1>3, <4>1 DEF StoryRow
    <3>3. QED BY <1>6, <3>1, <3>2
  <2>4. QED BY <2>2, <2>3, TeamFirstKept
<1>7. CASE CommitMerge \/ RecoverMerge \/ CleanUp
  <2>1. PICK row : /\ Effect(row)
                   /\ job.todo[1].type \in {"request-merge", "request-cleanup"}
    BY <1>7, MergeFacts, RecoverFacts, CleanFacts
  <2>2. job.step \in TickSteps /\ job.todo # <<>> /\ job.todo[1].story \in Story
    BY <2>1 DEF Effect, TickSteps, LaunchSteps
  <2>3. story[job.todo[1].story].status \in {"merged", "approved"}
    BY <2>1, <2>2, HeadDue DEF Due
  <2>4. AllLaunched
    BY <1>1, <2>2, <2>3 DEF TeamBefore, Fresh
  <2>5. job.todo[1].type \notin Elements(Team)
    BY <1>2, <2>1
  <2>6. QED BY <2>1, <2>4, <2>5, TeamFirstEffect
<1>8. CASE ConfirmLaunch
  <2> DEFINE a == job.agent
             s == job.todo[1].story
             row == Assigned(job.story[s], a)
  <2>1. /\ Effect(row) /\ a \in AgentId /\ a.kind = job.todo[1].type
        /\ agent[a] # "absent" /\ confirmed' = confirmed \cup {a}
    BY <1>8, ConfirmFacts
  <2>2. /\ job.step \in TickSteps /\ job.todo # <<>> /\ s \in Story
        /\ agent' = agent /\ job.todo \in Seq(Action)
        /\ Len(job.todo) \in Nat /\ 1 \in 1 .. Len(job.todo)
    BY <2>1, TickKnows, RestTyped DEF Effect, TickSteps, LaunchSteps
  <2>3. /\ job.story[s] \in StoryRow /\ job.story[s].status \in LiveStatus
        /\ job.story[s].status = "awaiting-review" =>
             job.story[s].candidate > 0
    BY <2>2, TickKnows DEF RowsTyped
  <2> HIDE DEF a, s, row
  <2>4. \A kind \in Elements(Team) : job.todo[1].type = kind => Launched(kind)'
    BY <2>1, <2>2 DEF Launched
  <2>5. CASE a \in Writers
    <3>1. job.todo[1].type = "assign-story"
      BY <2>1, <2>5 DEF Writers
    <3>2. \A kind \in Elements(Team) :
            Launched(kind) \/ \E i \in 1 .. 1 - 1 : job.todo[i].type = kind
      BY <1>1, <2>2, <3>1 DEF TodoInOrder
    <3>3. AllLaunched
      BY <3>2 DEF AllLaunched
    <3>4. QED BY <2>1, <2>4, <3>3, TeamFirstEffect
  <2>6. CASE a \notin Writers
    <3>1. row.status = job.story[s].status
      BY <2>1, <2>3, <2>6, AssignedTyped DEF row
    <3>2. QED BY <2>1, <2>4, <3>1, TeamFirstEffect DEF s
  <2>7. QED BY <2>5, <2>6
<1>9. CASE CommitTick
  <2>1. /\ job.step \in TickSteps /\ job'.step \notin TickSteps
        /\ story' = job.story
    BY <1>9, CommitFacts
  <2>2. TeamBefore(story)'
    BY <1>1, <2>1, AllLaunchedKept DEF TeamBefore
  <2>3. QED BY <2>1, <2>2 DEF TeamFirst
<1>10. QED BY <1>4, <1>5, <1>6, <1>7, <1>8, <1>9 DEF WithinTick

(* No step lets a story be begun before the team was launched. *)
THEOREM TeamFirstStep ==
  Typed /\ Integrated /\ TeamFirst /\ [Next]_vars => TeamFirst'
<1> SUFFICES ASSUME Typed, Integrated, TeamFirst, [Next]_vars
             PROVE  TeamFirst'
  OBVIOUS
<1>1. TeamBefore(story)
  BY DEF TeamFirst
<1>2. CASE OutsideTick
  <2>1. job'.step \notin TickSteps
    BY <1>2 DEF OutsideTick
  <2>2. \A s \in Story : story'[s].status \notin Fresh => story[s].status \notin Fresh
    <3>1. \A s \in Story : RowKept(s)
      BY <1>2 DEF OutsideTick
    <3>2. QED BY <3>1 DEF RowKept, Fresh, Work
  <2>3. TeamBefore(story)'
    BY <1>1, <2>2, AllLaunchedKept DEF TeamBefore
  <2>4. QED BY <2>1, <2>3 DEF TeamFirst
<1>3. CASE BesideTick
  <2>1. /\ job.step \in TickSteps /\ job'.story = job.story
        /\ job'.todo = job.todo /\ story' = story
    BY <1>3 DEF BesideTick
  <2>2. QED BY <2>1, TeamFirstKept
<1>4. QED BY <1>2, <1>3, TeamFirstWithin, StepKinds

(* A story is begun only once the whole team was launched, and a tick's    *)
(* actions for the team come before those for stories.                     *)
THEOREM AlwaysTeamFirst == Spec => [](Typed /\ Integrated /\ TeamFirst)
<1>1. Init => TeamFirst
  BY TeamFirstInit
<1>2. Typed /\ Integrated /\ TeamFirst /\ [Next]_vars => TeamFirst'
  BY TeamFirstStep
<1>3. QED BY <1>1, <1>2, AlwaysIntegrated, PTL DEF Spec

-----------------------------------------------------------------------------
(* What is cleaned up stays away.                                          *)

(* A launch is never made for a story that is merged. *)
LEMMA LaunchOfUnmerged ==
  ASSUME Typed, Integrated, TeamFirst, job.step \in TickSteps,
         job.todo # <<>>, job.todo[1].type \in LaunchAction
  PROVE  LET s == job.todo[1].story IN
         /\ story[s].status \notin {"approved", "merged"}
         /\ ~story[s].cleaned /\ ~job.story[s].cleaned
<1> DEFINE s == job.todo[1].story
<1>1. Due(job.todo[1]) /\ s \in Story /\ 1 \in 1 .. Len(job.todo)
  BY HeadDue, TickKnows
<1>2. story[s].status \notin {"approved", "merged"}
  <2>1. CASE job.todo[1].type \in TeamAction
    <3>1. story[s].status \in Fresh
      BY <1>1, <2>1 DEF TeamFirst, TodoInOrder
    <3>2. QED BY <3>1 DEF Fresh
  <2>2. CASE job.todo[1].type \notin TeamAction
    BY <1>1, <2>2 DEF Due, LaunchAction
  <2>3. QED BY <2>1, <2>2
<1>3. job.story[s].status \notin {"approved", "merged"}
  BY <1>1, <1>2 DEF Integrated, CopyFollows
<1>4. ~story[s].cleaned /\ ~job.story[s].cleaned
  BY <1>1, <1>2, <1>3 DEF Integrated, RowsDelivered
<1>5. QED BY <1>2, <1>4

(* A story that was cleaned up gets no worktree again. *)
LEMMA CleanedGoneStep ==
  ASSUME Typed, Integrated, TeamFirst, CleanedGone, [Next]_vars
  PROVE  CleanedGone'
<1> SUFFICES ASSUME NEW s \in Story,
                    \/ story'[s].cleaned
                    \/ job'.step \in TickSteps /\ job'.story[s].cleaned
             PROVE  ~tree'[s].present
  BY DEF CleanedGone
<1>1. /\ story \in [Story -> StoryRow] /\ tree \in [Story -> TreeRow]
      /\ job.step \in TickSteps => job.story \in [Story -> StoryRow]
  BY TreesTyped, TickKnows DEF Typed, TypeOK
<1>2. ASSUME TreeKept(s),
             \/ story[s].cleaned
             \/ job.step \in TickSteps /\ job.story[s].cleaned
      PROVE  ~tree'[s].present
  BY <1>2 DEF CleanedGone, TreeKept
<1>3. CASE OutsideTick
  BY <1>2, <1>3 DEF OutsideTick, RowKept
<1>4. CASE BesideTick
  BY <1>2, <1>4 DEF BesideTick
<1>5. CASE WithinTick
  <2>1. CASE \E managed \in BOOLEAN : LoadTick(managed)
    BY <1>2, <2>1, LoadFacts DEF TreeKept
  <2>2. CASE StageMerge \/ CompleteRun
    <3>1. job.step \in TickSteps
      BY <2>2, StageFacts, CompleteFacts DEF TickSteps
    <3>2. QED BY <1>2, <2>2, <3>1, StageFacts, CompleteFacts DEF TreeKept
  <2>3. CASE CommitMerge \/ RecoverMerge \/ ConfirmLaunch
    <3> DEFINE x == job.todo[1].story
    <3>1. PICK row \in StoryRow :
            /\ Effect(row) /\ UNCHANGED tree
            /\ row.cleaned => job.story[x].cleaned
      <4>1. job.step \in TickSteps
        BY <2>3, MergeFacts, RecoverFacts, ConfirmFacts
           DEF Effect, TickSteps, LaunchSteps
      <4>2. CASE CommitMerge \/ RecoverMerge
        <5>1. PICK head : Effect(StoryMerged(job.story[x], head))
                            /\ UNCHANGED tree
          BY <4>2, MergeFacts, RecoverFacts
        <5>2. StoryMerged(job.story[x], head) \in StoryRow /\ x \in Story
          BY <5>1 DEF Effect
        <5>3. StoryMerged(job.story[x], head).cleaned = job.story[x].cleaned
          BY <1>1, <4>1, <5>2 DEF StoryMerged, StoryRow
        <5>4. QED BY <5>1, <5>2, <5>3
      <4>3. CASE ConfirmLaunch
        <5>1. /\ Effect(Assigned(job.story[x], job.agent)) /\ UNCHANGED tree
              /\ job.agent \in AgentId
          BY <4>3, ConfirmFacts
        <5>2. Assigned(job.story[x], job.agent) \in StoryRow /\ x \in Story
          BY <5>1 DEF Effect
        <5>3. /\ job.story[x] \in StoryRow
              /\ job.story[x].status \in LiveStatus
              /\ job.story[x].status = "awaiting-review" =>
                   job.story[x].candidate > 0
          BY <4>1, <5>2, TickKnows DEF RowsTyped
        <5>4. Assigned(job.story[x], job.agent).cleaned => job.story[x].cleaned
          BY <5>1, <5>3, AssignedTyped
        <5>5. QED BY <5>1, <5>2, <5>4
      <4>4. QED BY <2>3, <4>2, <4>3
    <3>2. /\ job.step \in TickSteps /\ x \in Story /\ story' = story
          /\ job'.story = [job.story EXCEPT ![x] = row]
      BY <3>1 DEF Effect, TickSteps, LaunchSteps
    <3> HIDE DEF x
    <3>3. story[s].cleaned \/ job.story[s].cleaned
      BY <1>1, <3>1, <3>2
    <3>4. QED BY <1>2, <3>1, <3>2, <3>3 DEF TreeKept
  <2>4. CASE CleanUp
    <3> DEFINE x == job.todo[1].story
               row == [job.story[x] EXCEPT !.cleaned = TRUE]
    <3>1. Effect(row) /\ tree' = [tree EXCEPT ![x] = NoTree]
      BY <2>4, CleanFacts
    <3>2. /\ job.step \in TickSteps /\ x \in Story /\ story' = story
          /\ job'.story = [job.story EXCEPT ![x] = row]
      BY <3>1 DEF Effect, TickSteps, LaunchSteps
    <3>3. NoTree.present = FALSE
      BY DEF NoTree
    <3> HIDE DEF x, row
    <3>4. CASE s = x
      BY <1>1, <3>1, <3>2, <3>3, <3>4
    <3>5. CASE s # x
      <4>1. story[s].cleaned \/ job.story[s].cleaned
        BY <1>1, <3>2, <3>5
      <4>2. TreeKept(s)
        BY <1>1, <3>1, <3>5 DEF TreeKept
      <4>3. QED BY <1>2, <3>2, <4>1, <4>2
    <3>6. QED BY <3>4, <3>5
  <2>5. CASE ProvisionGit
    <3> DEFINE x == job.todo[1].story
    <3>1. /\ LaunchGoesOn /\ job.todo[1].type \in LaunchAction
          /\ story' = story
          /\ \/ tree' = tree
             \/ tree' = [tree EXCEPT ![x] = [NoTree EXCEPT !.present = TRUE,
                                               !.base = IntegrationHead]]
      BY <2>5, ProvisionFacts
    <3>2. /\ job.step \in TickSteps /\ job.todo # <<>> /\ x \in Story
          /\ job'.story = job.story
      BY <3>1 DEF LaunchGoesOn
    <3>3. ~story[x].cleaned /\ ~job.story[x].cleaned
      BY <3>1, <3>2, LaunchOfUnmerged
    <3> HIDE DEF x
    <3>4. s # x
      BY <3>1, <3>2, <3>3
    <3>5. TreeKept(s)
      BY <1>1, <3>1, <3>4 DEF TreeKept
    <3>6. QED BY <1>2, <3>1, <3>2, <3>5
  <2>6. CASE Materialize
    <3>1. /\ job.step \in TickSteps /\ job'.story = job.story
          /\ story' = story /\ tree' = tree
      BY <2>6, MaterializeFacts DEF LaunchGoesOn
    <3>2. QED BY <1>2, <3>1 DEF TreeKept
  <2>7. CASE AcquireLease
    <3>1. /\ job.step \in TickSteps /\ job'.story = job.story
          /\ story' = [story EXCEPT ![job.todo[1].story].writer = job.agent]
          /\ tree' = tree
      BY <2>7, LeaseFacts DEF LaunchGoesOn
    <3>2. story'[s].cleaned = story[s].cleaned
      BY <1>1, <3>1 DEF StoryRow
    <3>3. QED BY <1>2, <3>1, <3>2 DEF TreeKept
  <2>8. CASE CommitTick
    <3>1. /\ job.step \in TickSteps /\ job'.step \notin TickSteps
          /\ story' = job.story /\ tree' = tree
      BY <2>8, CommitFacts
    <3>2. QED BY <1>2, <3>1 DEF TreeKept
  <2>9. QED BY <1>5, <2>1, <2>2, <2>3, <2>4, <2>5, <2>6, <2>7, <2>8
            DEF WithinTick
<1>6. QED BY <1>3, <1>4, <1>5, StepKinds

(* A story recorded as merged really is on the integration branch, with    *)
(* the candidate and the head of its review, and only such a story is      *)
(* cleaned up: no later launch brings its worktree back.                   *)
THEOREM MergedStories == Spec => []MergedIsOnMainline
<1>1. Init => CleanedGone
  <2> SUFFICES ASSUME Init PROVE CleanedGone
    OBVIOUS
  <2>1. tree = [s \in Story |-> NoTree] /\ NoTree.present = FALSE
    BY DEF Init, NoTree
  <2>2. QED BY <2>1 DEF CleanedGone
<1>2. Typed /\ Integrated /\ TeamFirst /\ CleanedGone /\ [Next]_vars
        => CleanedGone'
  BY CleanedGoneStep
<1>3. Typed /\ Integrated /\ CleanedGone => MergedIsOnMainline
  <2> SUFFICES ASSUME Typed, Integrated, CleanedGone, NEW s \in Story
               PROVE  /\ story[s].status = "merged" =>
                           /\ story[s].merge \in 1 .. IntegrationHead
                           /\ mainline[story[s].merge] =
                                [story |-> s, candidate |-> story[s].candidate,
                                 base |-> story[s].reviewed]
                      /\ story[s].cleaned =>
                           story[s].status = "merged" /\ ~tree[s].present
    BY DEF MergedIsOnMainline
  <2>1. RowsDelivered(story, approvals, mainline)
    BY DEF Integrated
  <2>2. QED BY <2>1 DEF RowsDelivered, CleanedGone, IntegrationHead, Candidate
<1>4. QED BY <1>1, <1>2, <1>3, AlwaysTeamFirst, PTL DEF Spec

-----------------------------------------------------------------------------
(* What is depended on.                                                    *)

\* The writer of a story is being launched, so all it depends on is merged.
WriterDue(s) ==
  /\ story[s].status \in {"ready", "changes-requested"}
  /\ \A d \in Dependencies[s] : story[d].status = "merged"

(* A story begins only when its writer is due. *)
LEMMA BeginsDue ==
  ASSUME Typed, Integrated, [Next]_vars, NEW s \in Story, Begun(s)'
  PROVE  Begun(s) \/ WriterDue(s)
<1>1. /\ story \in [Story -> StoryRow]
      /\ agent \in [AgentId -> AgentStatus \cup {"absent"}]
      /\ job.step \in TickSteps => job.story \in [Story -> StoryRow]
  BY TickKnows DEF Typed, TypeOK
<1>2. Writers \subseteq AgentId
  BY DEF Writers
<1>3. ASSUME story'[s].status \notin Fresh => story[s].status \notin Fresh,
             job'.step \in TickSteps =>
               \/ job'.story[s].status \in Fresh
               \/ job'.story[s].status = story[s].status
               \/ job.step \in TickSteps /\ job.story[s].status \notin Fresh,
             \A a \in Writers :
               agent'[a] # "absent" => agent[a] # "absent" \/ a.story # s
      PROVE  Begun(s)
  BY <1>3 DEF Begun
<1>4. CASE OutsideTick
  <2>1. RowKept(s) /\ \A a \in AgentId : AgentKept(a)
    BY <1>4 DEF OutsideTick
  <2>2. /\ job'.step \notin TickSteps
        /\ story'[s].status \notin Fresh => story[s].status \notin Fresh
    BY <1>4, <2>1 DEF OutsideTick, RowKept, Fresh, Work
  <2>3. \A a \in Writers : agent'[a] # "absent" => agent[a] # "absent"
    BY <1>2, <2>1 DEF AgentKept
  <2>4. QED BY <1>3, <2>2, <2>3
<1>5. CASE BesideTick
  BY <1>3, <1>5 DEF BesideTick
<1>6. CASE WithinTick
  <2>1. CASE \E managed \in BOOLEAN : LoadTick(managed)
    BY <1>3, <2>1, LoadFacts
  <2>2. CASE StageMerge \/ CompleteRun
    <3>1. /\ job.step \in TickSteps /\ job'.story = job.story
          /\ story' = story /\ agent' = agent
      BY <2>2, StageFacts, CompleteFacts DEF TickSteps
    <3>2. QED BY <1>3, <3>1
  <2>3. CASE CommitTick
    <3>1. /\ job.step \in TickSteps /\ job'.step \notin TickSteps
          /\ story' = job.story /\ agent' = agent
      BY <2>3, CommitFacts
    <3>2. QED BY <3>1 DEF Begun
  <2>4. CASE CommitMerge \/ RecoverMerge \/ CleanUp
    <3>1. PICK row : /\ Effect(row)
                     /\ job.todo[1].type \in {"request-merge", "request-cleanup"}
      BY <2>4, MergeFacts, RecoverFacts, CleanFacts
    <3>2. /\ job.step \in TickSteps /\ job.todo # <<>>
          /\ job.todo[1].story \in Story
          /\ job'.story = [job.story EXCEPT ![job.todo[1].story] = row]
          /\ story' = story /\ agent' = agent
      BY <3>1 DEF Effect, TickSteps, LaunchSteps
    <3>3. story[job.todo[1].story].status \notin Fresh
      BY <3>1, <3>2, HeadDue DEF Due, Fresh
    <3>4. CASE s = job.todo[1].story
      BY <3>3, <3>4 DEF Begun
    <3>5. CASE s # job.todo[1].story
      BY <1>1, <1>3, <3>2, <3>5
    <3>6. QED BY <3>4, <3>5
  <2>5. CASE ConfirmLaunch
    <3> DEFINE x == job.todo[1].story
               a == job.agent
               row == Assigned(job.story[x], a)
    <3>1. /\ Effect(row) /\ a \in AgentId /\ a.kind = job.todo[1].type
          /\ a.story = x /\ agent[a] # "absent"
      BY <2>5, ConfirmFacts
    <3>2. /\ job.step \in TickSteps /\ x \in Story
          /\ job'.story = [job.story EXCEPT ![x] = row]
          /\ story' = story /\ agent' = agent
      BY <3>1 DEF Effect, TickSteps, LaunchSteps
    <3>3. /\ job.story[x] \in StoryRow /\ job.story[x].status \in LiveStatus
          /\ job.story[x].status = "awaiting-review" =>
               job.story[x].candidate > 0
      BY <3>2, TickKnows DEF RowsTyped
    <3>4. a \notin Writers => row.status = job.story[x].status
      BY <3>1, <3>3, AssignedTyped
    <3> HIDE DEF x, a, row
    <3>5. CASE a \in Writers /\ s = x
      BY <3>1, <3>5 DEF Begun
    <3>6. CASE a \notin Writers \/ s # x
      <4>1. job'.story[s].status = job.story[s].status
        BY <1>1, <3>2, <3>4, <3>6
      <4>2. QED BY <1>3, <3>2, <4>1
    <3>7. QED BY <3>5, <3>6
  <2>6. CASE ProvisionGit
    <3>1. /\ job.step \in TickSteps /\ job'.story = job.story
          /\ story' = story /\ agent' = agent
      BY <2>6, ProvisionFacts DEF LaunchGoesOn
    <3>2. QED BY <1>3, <3>1
  <2>7. CASE AcquireLease
    <3> DEFINE x == job.todo[1].story
    <3>1. /\ LaunchGoesOn /\ job.agent \in Writers /\ job.agent.story = x
          /\ job.todo[1].type = "assign-story"
          /\ story' = [story EXCEPT ![x].writer = job.agent]
          /\ agent' = [agent EXCEPT ![job.agent] =
                         IF @ = "absent" THEN "planned" ELSE @]
      BY <2>7, LeaseFacts
    <3>2. /\ job.step \in TickSteps /\ job.todo # <<>> /\ x \in Story
          /\ job'.story = job.story
      BY <3>1 DEF LaunchGoesOn
    <3>3. WriterDue(x)
      BY <3>1, <3>2, HeadDue DEF Due, WriterDue
    <3> HIDE DEF x
    <3>4. CASE s = x
      BY <3>3, <3>4
    <3>5. CASE s # x
      <4>1. story'[s] = story[s]
        BY <1>1, <3>1, <3>5
      <4>2. \A a \in Writers :
              agent'[a] # "absent" => agent[a] # "absent" \/ a.story # s
        BY <1>1, <1>2, <3>1, <3>5
      <4>3. QED BY <1>3, <3>2, <4>1, <4>2
    <3>6. QED BY <3>4, <3>5
  <2>8. CASE Materialize
    <3>1. LaunchGoesOn /\ story' = story
      BY <2>8, MaterializeFacts
    <3>2. job.step \in TickSteps /\ job'.story = job.story
      BY <3>1 DEF LaunchGoesOn
    <3>3. job.agent \in Writers => agent[job.agent] # "absent"
      BY <2>8, MaterializeFacts DEF Typed, JobTyped
    <3>4. \A a \in Writers : agent'[a] # "absent" => agent[a] # "absent"
      BY <1>1, <1>2, <2>8, <3>3, MaterializeFacts
    <3>5. QED BY <1>3, <3>1, <3>2, <3>4
  <2>9. QED BY <1>6, <2>1, <2>2, <2>3, <2>4, <2>5, <2>6, <2>7, <2>8
            DEF WithinTick
<1>7. QED BY <1>4, <1>5, <1>6, StepKinds

(* No step begins a story before all it depends on is merged. *)
LEMMA DependenciesMergedStep ==
  ASSUME Typed, Integrated, DependenciesMerged, [Next]_vars
  PROVE  DependenciesMerged'
<1>1. ASSUME NEW s \in Story, Begun(s)', NEW d \in Dependencies[s]
      PROVE  story'[d].status = "merged"
  <2>1. d \in Story
    BY DependencyAssumption
  <2>2. story[d].status = "merged"
    BY <1>1, BeginsDue DEF DependenciesMerged, WriterDue
  <2>3. QED BY <2>1, <2>2, MergedKept
<1>2. QED BY <1>1 DEF DependenciesMerged

(* A worktree is made only when an agent that owns one is launched. *)
LEMMA TreeMade ==
  ASSUME Typed, [Next]_vars, NEW s \in Story, ~TreeKept(s)
  PROVE  /\ job.step \in TickSteps /\ job.todo # <<>>
         /\ job.todo[1].story = s
         /\ job.todo[1].type \in LaunchAction \ {"assign-project-manager"}
         /\ tree'[s].base = IntegrationHead
<1>1. tree \in [Story -> TreeRow]
  BY TreesTyped
<1>2. WithinTick /\ tree'[s] # tree[s]
  BY StepKinds DEF OutsideTick, BesideTick, TreeKept
<1>3. CASE ProvisionGit
  <2> DEFINE x == job.todo[1].story
             made == [NoTree EXCEPT !.present = TRUE, !.base = IntegrationHead]
  <2>1. /\ LaunchGoesOn /\ job.todo[1].type \in LaunchAction
        /\ \/ tree' = tree
           \/ /\ job.todo[1].type # "assign-project-manager"
              /\ tree' = [tree EXCEPT ![x] = made]
    BY <1>3, ProvisionFacts
  <2>2. job.step \in TickSteps /\ job.todo # <<>>
    BY <2>1 DEF LaunchGoesOn
  <2>3. made.base = IntegrationHead
    BY DEF NoTree
  <2> HIDE DEF x, made
  <2>4. s = x /\ tree'[s] = made
    BY <1>1, <1>2, <2>1
  <2>5. QED BY <1>2, <2>1, <2>2, <2>3, <2>4 DEF x
<1>4. CASE CleanUp
  <2>1. tree' = [tree EXCEPT ![job.todo[1].story] = NoTree]
    BY <1>4, CleanFacts
  <2>2. NoTree.present = FALSE
    BY DEF NoTree
  <2>3. TreeKept(s)
    BY <1>1, <2>1, <2>2 DEF TreeKept
  <2>4. QED BY <2>3
<1>5. CASE \/ \E managed \in BOOLEAN : LoadTick(managed)
           \/ StageMerge \/ CompleteRun \/ CommitTick
  BY <1>2, <1>5, LoadFacts, StageFacts, CompleteFacts, CommitFacts
<1>6. CASE CommitMerge \/ RecoverMerge \/ ConfirmLaunch
  BY <1>2, <1>6, MergeFacts, RecoverFacts, ConfirmFacts
<1>7. CASE AcquireLease \/ Materialize
  BY <1>2, <1>7, LeaseFacts, MaterializeFacts
<1>8. QED BY <1>2, <1>3, <1>4, <1>5, <1>6, <1>7 DEF WithinTick

(* A branch starts from a head that contains what its story depends on. *)
LEMMA BranchesFollowStep ==
  ASSUME Typed, Integrated, DependenciesMerged, BranchesFollow, [Next]_vars
  PROVE  BranchesFollow'
<1> SUFFICES ASSUME AdvisorUnbound, NEW s \in Story, tree'[s].present,
                    NEW d \in Dependencies[s]
             PROVE  story'[d].status = "merged" /\ story'[d].merge <= tree'[s].base
  BY DEF BranchesFollow, AdvisorUnbound
<1>1. d \in Story
  BY DependencyAssumption
<1>2. CASE TreeKept(s)
  <2>1. /\ story[d].status = "merged" /\ story[d].merge <= tree[s].base
        /\ tree'[s].base = tree[s].base
    BY <1>2 DEF BranchesFollow, TreeKept
  <2>2. QED BY <1>1, <2>1, MergedKept
<1>3. CASE ~TreeKept(s)
  <2>1. /\ job.step \in TickSteps /\ job.todo # <<>>
        /\ job.todo[1].story = s
        /\ job.todo[1].type \in LaunchAction \ {"assign-project-manager"}
        /\ tree'[s].base = IntegrationHead
    BY <1>3, TreeMade
  <2>2. Due(job.todo[1])
    BY <2>1, HeadDue
  <2>3. story[d].status = "merged"
    <3>1. CASE job.todo[1].type = "assign-story"
      BY <2>1, <2>2, <3>1 DEF Due
    <3>2. CASE job.todo[1].type = "assign-reviewer"
      <4>1. story[s].status = "awaiting-review"
        BY <2>1, <2>2, <3>2 DEF Due
      <4>2. Begun(s)
        BY <4>1 DEF Begun, Fresh
      <4>3. QED BY <4>2 DEF DependenciesMerged
    <3>3. CASE job.todo[1].type = "assign-advisor"
      <4>1. s = PrimaryStory /\ "assign-advisor" \in Elements(Team)
        BY <2>1, <2>2, <3>3 DEF Due, TeamAction
      <4>2. QED BY <4>1 DEF AdvisorUnbound
    <3>4. QED BY <2>1, <3>1, <3>2, <3>3 DEF LaunchAction, TeamAction
  <2>4. story[d].merge <= IntegrationHead
    <3>1. story[d].merge \in 1 .. Len(mainline) /\ Len(mainline) \in Nat
      BY <1>1, <2>3 DEF Integrated, RowsDelivered, Typed, TypeOK
    <3>2. QED BY <3>1 DEF IntegrationHead
  <2>5. QED BY <1>1, <2>1, <2>3, <2>4, MergedKept
<1>4. QED BY <1>2, <1>3

(* Nobody writes a story before all it depends on is recorded as merged,   *)
(* and its branch starts from a head that contains those merges: however   *)
(* ticks are lost, repeated or overtaken by controls.                      *)
THEOREM DependenciesInOrder ==
  ASSUME AdvisorUnbound
  PROVE  Spec => []DependenciesKept
<1>1. Init => DependenciesMerged /\ BranchesFollow
  <2> SUFFICES ASSUME Init PROVE DependenciesMerged /\ BranchesFollow
    OBVIOUS
  <2>1. /\ RequiresApproval \in BOOLEAN /\ job = Idle
        /\ story = [s \in Story |-> NewStory(
                      IF RequiresApproval THEN "awaiting-approval" ELSE "ready",
                      None)]
        /\ agent = [a \in AgentId |-> "absent"]
        /\ tree = [s \in Story |-> NoTree]
    BY ApprovalAssumption DEF Init
  <2>2. \A s \in Story : story[s].status \in Fresh
    BY <2>1 DEF NewStory, Fresh
  <2>3. job.step \notin TickSteps
    BY <2>1, PlainJobs DEF TickSteps, LaunchSteps
  <2>4. \A a \in Writers : agent[a] = "absent"
    BY <2>1 DEF Writers
  <2>5. \A s \in Story : ~tree[s].present
    BY <2>1 DEF NoTree
  <2>6. QED BY <2>2, <2>3, <2>4, <2>5
            DEF DependenciesMerged, Begun, BranchesFollow
<1>2. /\ Typed /\ Integrated /\ DependenciesMerged /\ BranchesFollow
      /\ [Next]_vars
      => DependenciesMerged' /\ BranchesFollow'
  BY DependenciesMergedStep, BranchesFollowStep
<1>3. DependenciesMerged /\ BranchesFollow => DependenciesKept
  <2> SUFFICES ASSUME DependenciesMerged, BranchesFollow,
                      NEW s \in Story, NEW d \in Story,
                      \E a \in Writers : a.story = s /\ agent[a] # "absent",
                      d \in Dependencies[s]
               PROVE  /\ story[d].status = "merged"
                      /\ tree[s].present => story[d].merge <= tree[s].base
    BY DEF DependenciesKept
  <2>1. Begun(s)
    BY DEF Begun
  <2>2. QED BY <2>1 DEF DependenciesMerged, BranchesFollow
<1>4. QED BY <1>1, <1>2, <1>3, AlwaysIntegrated, PTL DEF Spec

-----------------------------------------------------------------------------
(* Capacity.                                                               *)

(* Only a lease or a launch may take a slot, and only a free one. *)
LEMMA SlotTaken ==
  ASSUME Typed, [Next]_vars
  PROVE  \/ Occupied' \subseteq Occupied
         \/ \E a \in AgentId : /\ Occupied' \subseteq Occupied \cup {a}
                               /\ Cardinality(Occupied) < MaxAgents
<1>1. agent \in [AgentId -> AgentStatus \cup {"absent"}]
  BY DEF Typed, TypeOK
<1>2. CASE OutsideTick
  <2>1. \A a \in AgentId : AgentKept(a)
    BY <1>2 DEF OutsideTick
  <2>2. Occupied' \subseteq Occupied
    BY <2>1 DEF Occupied, AgentKept
  <2>3. QED BY <2>2
<1>3. CASE agent' = agent
  BY <1>3 DEF Occupied
<1>4. CASE BesideTick
  BY <1>3, <1>4 DEF BesideTick
<1>5. CASE WithinTick
  <2> DEFINE a == job.agent
  <2>1. ASSUME a \in AgentId, SlotAvailable(a),
               agent[a] = "absent" \/ a \in Occupied \/ agent'[a] = agent[a],
               \A b \in AgentId \ {a} : agent'[b] = agent[b]
        PROVE  \/ Occupied' \subseteq Occupied
               \/ \E b \in AgentId : /\ Occupied' \subseteq Occupied \cup {b}
                                     /\ Cardinality(Occupied) < MaxAgents
    <3> HIDE DEF a
    <3>1. Occupied' \subseteq Occupied \cup {a}
      BY <2>1 DEF Occupied
    <3>2. CASE agent[a] = "absent"
      <4>1. Cardinality(Occupied) < MaxAgents
        BY <2>1, <3>2 DEF SlotAvailable
      <4>2. QED BY <2>1, <3>1, <4>1
    <3>3. CASE a \in Occupied
      BY <3>1, <3>3
    <3>4. CASE agent'[a] = agent[a]
      <4>1. Occupied' \subseteq Occupied
        BY <2>1, <3>4 DEF Occupied
      <4>2. QED BY <4>1
    <3>5. QED BY <2>1, <3>2, <3>3, <3>4
  <2>2. CASE AcquireLease
    <3>1. /\ a \in Writers /\ LeaseGranted(a)
          /\ agent' = [agent EXCEPT ![a] = IF @ = "absent" THEN "planned" ELSE @]
      BY <2>2, LeaseFacts
    <3>2. a \in AgentId /\ SlotAvailable(a)
      BY <3>1 DEF Writers, LeaseGranted
    <3> HIDE DEF a
    <3>3. /\ agent[a] = "absent" \/ agent'[a] = agent[a]
          /\ \A b \in AgentId \ {a} : agent'[b] = agent[b]
      BY <1>1, <3>1, <3>2
    <3>4. QED BY <2>1, <3>2, <3>3
  <2>3. CASE Materialize
    <3>1. /\ a \in AgentId /\ Materializable(a)
          /\ agent' = [agent EXCEPT ![a] = "launching"]
      BY <2>3, MaterializeFacts
    <3> HIDE DEF a
    <3>2. SlotAvailable(a) /\ (agent[a] = "absent" \/ a \in Occupied)
      BY <3>1 DEF Materializable, Occupied
    <3>3. \A b \in AgentId \ {a} : agent'[b] = agent[b]
      BY <1>1, <3>1
    <3>4. QED BY <2>1, <3>1, <3>2, <3>3
  <2>4. CASE \/ \E managed \in BOOLEAN : LoadTick(managed)
             \/ StageMerge \/ CompleteRun \/ CommitTick \/ ProvisionGit
    BY <1>3, <2>4, LoadFacts, StageFacts, CompleteFacts, CommitFacts,
       ProvisionFacts
  <2>5. CASE CommitMerge \/ RecoverMerge \/ CleanUp \/ ConfirmLaunch
    BY <1>3, <2>5, MergeFacts, RecoverFacts, CleanFacts, ConfirmFacts DEF Effect
  <2>6. QED BY <1>5, <2>2, <2>3, <2>4, <2>5 DEF WithinTick
<1>6. QED BY <1>2, <1>4, <1>5, StepKinds

(* The run never holds more unclosed agents than its mode allows, counting *)
(* launches that were lost half way and retries of agents that failed.     *)
THEOREM CapacityIsKept == Spec => []CapacityKept
<1>1. Occupied \subseteq AgentId /\ Occupied' \subseteq AgentId
  BY DEF Occupied
<1>2. IsFiniteSet(Occupied) /\ Cardinality(Occupied) \in Nat
  BY <1>1, AgentsFinite
<1>3. CapacityKept <=> Cardinality(Occupied) <= MaxAgents
  BY DEF CapacityKept, Occupied
<1>4. Init => CapacityKept
  <2> SUFFICES ASSUME Init PROVE CapacityKept
    OBVIOUS
  <2>1. Occupied = {}
    BY DEF Init, Occupied
  <2>2. Cardinality(Occupied) = 0
    BY <2>1, FS_EmptySet
  <2>3. QED BY <1>3, <2>2, MaxAgentsAssumption
<1>5. ASSUME Typed, CapacityKept, [Next]_vars
      PROVE  Cardinality(Occupied') <= MaxAgents
  <2>1. Cardinality(Occupied) <= MaxAgents /\ MaxAgents \in Nat
    BY <1>3, <1>5, MaxAgentsAssumption
  <2>2. Cardinality(Occupied') \in Nat
    BY <1>1, AgentsFinite
  <2>3. CASE Occupied' \subseteq Occupied
    <3>1. Cardinality(Occupied') <= Cardinality(Occupied)
      BY <1>2, <2>3, FS_Subset
    <3>2. QED BY <1>2, <2>1, <2>2, <3>1
  <2>4. ASSUME NEW a \in AgentId, Occupied' \subseteq Occupied \cup {a},
               Cardinality(Occupied) < MaxAgents
        PROVE  Cardinality(Occupied') <= MaxAgents
    <3>1. /\ IsFiniteSet(Occupied \cup {a})
          /\ Cardinality(Occupied \cup {a}) \in
               {Cardinality(Occupied), Cardinality(Occupied) + 1}
      BY <1>2, FS_AddElement
    <3>2. Cardinality(Occupied') <= Cardinality(Occupied \cup {a})
      BY <2>4, <3>1, FS_Subset
    <3>3. Cardinality(Occupied \cup {a}) \in Nat
      BY <3>1, FS_CardinalityType
    <3>4. QED BY <1>2, <2>1, <2>2, <2>4, <3>1, <3>2, <3>3
  <2>5. QED BY <1>5, <2>3, <2>4, SlotTaken
<1>6. Typed /\ CapacityKept /\ [Next]_vars => CapacityKept'
  BY <1>5 DEF CapacityKept, Occupied
<1>7. QED BY <1>4, <1>6, AlwaysTyped, PTL DEF Spec

-----------------------------------------------------------------------------
(* The writer lease.                                                       *)

(* A step that writes rows or agents checks them against the leases; any   *)
(* other at most releases a lease, unless it grants one or launches.       *)
LEMMA LeaseKinds ==
  ASSUME Typed, [Next]_vars
  PROVE  \/ ConsistentWith(lease', story', agent')
         \/ /\ UNCHANGED <<story, agent>>
            /\ \A s \in Story : lease'[s] \in {lease[s], None}
         \/ AcquireLease \/ Materialize
<1>1. lease \in [Story -> AgentId \cup {None}]
  BY DEF Typed, TypeOK
<1>2. CASE HandleMessage
  <2>1. CASE \/ StartWriterWork \/ CompleteWriterWork \/ ReportFailure
             \/ CloseSettledAgent
    <3>1. PICK rows, agents, next : Lifecycle(rows, agents, next)
      BY <2>1 DEF StartWriterWork, CompleteWriterWork, ReportFailure,
                  CloseSettledAgent
    <3>2. QED BY <3>1 DEF Lifecycle, Consistent
  <2>2. CASE ReleaseForCandidate
    BY <1>1, <2>2 DEF ReleaseForCandidate, EvidenceStep
  <2>3. CASE KeepCandidate \/ CommitCandidate
    BY <2>3 DEF KeepCandidate, CommitCandidate, EvidenceStep
  <2>4. CASE RecordCandidate
    BY <2>4 DEF RecordCandidate, EvidenceStep, Consistent
  <2>5. ASSUME NEW verdict \in Verdicts, NEW exact \in BOOLEAN,
               RecordReview(verdict, exact)
        PROVE  \/ ConsistentWith(lease', story', agent')
               \/ UNCHANGED <<story, agent, lease>>
    BY <2>5 DEF RecordReview, EvidenceStep, Consistent
  <2>6. QED BY <1>2, <2>1, <2>2, <2>3, <2>4, <2>5 DEF HandleMessage
<1>3. CASE Children
  <2>1. ASSUME NEW a \in AgentId, WriteFiles(a)
        PROVE  UNCHANGED <<story, agent, lease>>
    BY <2>1 DEF WriteFiles
  <2>2. ASSUME NEW a \in AgentId, NEW m \in MessageType, ReceiveMessage(a, m)
        PROVE  ConsistentWith(lease', story', agent')
    BY <2>2 DEF ReceiveMessage, Consistent
  <2>3. ASSUME NEW a \in AgentId, NEW m \in MessageType, ReceiveEvidence(a, m)
        PROVE  UNCHANGED <<story, agent, lease>>
    BY <2>3 DEF ReceiveEvidence
  <2>4. QED BY <1>3, <2>1, <2>2, <2>3 DEF Children
<1>4. CASE ParentControl
  <2>1. PICK next, rows : CommitControl(next, rows)
    BY <1>4, ControlMoves
  <2>2. QED BY <2>1 DEF CommitControl, Consistent
<1>5. CASE Failures \/ Restart
  BY <1>5 DEF Failures, FailProvision, FailLaunch, Crash, Restart
<1>6. CASE QuietTick \/ FailEffect \/ FailTick
  BY <1>6 DEF QuietTick, FailEffect, FailTick
<1>7. CASE RefuseLaunch
  BY <1>1, <1>7 DEF RefuseLaunch
<1>8. CASE CommitTick
  BY <1>8, CommitFacts DEF Consistent
<1>9. CASE \/ \E managed \in BOOLEAN : LoadTick(managed)
           \/ StageMerge \/ CompleteRun \/ ProvisionGit
  BY <1>9, LoadFacts, StageFacts, CompleteFacts, ProvisionFacts
<1>10. CASE CommitMerge \/ RecoverMerge \/ CleanUp \/ ConfirmLaunch
  BY <1>10, MergeFacts, RecoverFacts, CleanFacts, ConfirmFacts DEF Effect
<1>11. CASE AdvanceTick
  BY <1>6, <1>7, <1>8, <1>9, <1>10, <1>11 DEF AdvanceTick, LaunchAgent
<1>12. CASE UNCHANGED vars
  BY <1>12 DEF vars
<1>13. QED BY <1>2, <1>3, <1>4, <1>5, <1>11, <1>12 DEF Next

(* No step parts a lease from the assignment it was taken for. *)
LEMMA LeaseStep ==
  ASSUME Typed, Integrated, LeaseFollowsAssignment, [Next]_vars
  PROVE  LeaseFollowsAssignment'
<1>1. /\ story \in [Story -> StoryRow]
      /\ lease \in [Story -> AgentId \cup {None}]
      /\ agent \in [AgentId -> AgentStatus \cup {"absent"}]
  BY DEF Typed, TypeOK
<1>2. /\ lease' \in [Story -> AgentId \cup {None}]
      /\ \A s \in Story : story'[s].status \in LiveStatus
      /\ \A a \in AgentId : agent'[a] # "completed"
  BY TypedStep DEF Typed, TypeOK, RowsTyped, AgentsTyped
<1> SUFFICES ASSUME NEW s \in Story, lease'[s] # None
             PROVE  /\ story'[s].writer = lease'[s]
                    /\ agent'[lease'[s]] \notin {"absent", "completed", "closed"}
                    /\ story'[s].status \in {"ready", "assigned", "working",
                                             "work-complete",
                                             "changes-requested"}
  BY DEF LeaseFollowsAssignment
<1>3. lease'[s] \in AgentId
  BY <1>2
<1>4. lease[s] # None =>
        /\ lease[s] \in AgentId /\ story[s].writer = lease[s]
        /\ agent[lease[s]] \notin {"absent", "completed", "closed"}
        /\ story[s].status \in {"ready", "assigned", "working",
                                "work-complete", "changes-requested"}
  BY <1>1 DEF LeaseFollowsAssignment
<1>5. CASE ConsistentWith(lease', story', agent')
  <2>1. /\ story'[s].writer = lease'[s]
        /\ agent'[lease'[s]] \notin {"absent", "closed"}
        /\ story'[s].status \in {"assigned", "working", "work-complete",
                                 "changes-requested", "blocked"}
    BY <1>5 DEF ConsistentWith
  <2>2. story'[s].status # "blocked"
    BY <1>2 DEF LiveStatus, Fresh, Work
  <2>3. QED BY <1>2, <1>3, <2>1, <2>2
<1>6. CASE /\ UNCHANGED <<story, agent>>
           /\ \A x \in Story : lease'[x] \in {lease[x], None}
  BY <1>4, <1>6
<1>7. CASE AcquireLease
  <2> DEFINE a == job.agent
             x == job.todo[1].story
  <2>1. /\ LaunchGoesOn /\ a \in Writers /\ LeaseGranted(a)
        /\ job.todo[1].type = "assign-story"
        /\ lease' = [lease EXCEPT ![x] = a]
        /\ story' = [story EXCEPT ![x].writer = a]
        /\ agent' = [agent EXCEPT ![a] = IF @ = "absent" THEN "planned" ELSE @]
    BY <1>7, LeaseFacts
  <2>2. job.step \in TickSteps /\ job.todo # <<>> /\ x \in Story /\ a \in AgentId
    BY <2>1 DEF LaunchGoesOn, Writers
  <2>3. story[x].status \in {"ready", "changes-requested"}
    BY <2>1, <2>2, HeadDue DEF Due
  <2>4. agent[a] \notin {"completed", "closed"}
    BY <2>1 DEF LeaseGranted
  <2> HIDE DEF a, x
  <2>5. \A b \in AgentId : agent[b] \notin {"absent", "completed", "closed"} =>
          agent'[b] \notin {"absent", "completed", "closed"}
    BY <1>1, <2>1, <2>2
  <2>6. CASE s = x
    <3>1. lease'[s] = a /\ story'[s].writer = a
            /\ story'[s].status = story[s].status
      BY <1>1, <2>1, <2>2, <2>6 DEF StoryRow
    <3>2. agent'[a] \notin {"absent", "completed", "closed"}
      BY <1>1, <2>1, <2>2, <2>4
    <3>3. QED BY <2>3, <2>6, <3>1, <3>2
  <2>7. CASE s # x
    <3>1. lease'[s] = lease[s] /\ story'[s] = story[s]
      BY <1>1, <2>1, <2>2, <2>7
    <3>2. QED BY <1>4, <2>5, <3>1
  <2>8. QED BY <2>6, <2>7
<1>8. CASE Materialize
  <2>1. /\ job.agent \in AgentId /\ UNCHANGED <<story, lease>>
        /\ agent' = [agent EXCEPT ![job.agent] = "launching"]
    BY <1>8, MaterializeFacts
  <2>2. \A b \in AgentId : agent'[b] \in {agent[b], "launching"}
    BY <1>1, <2>1
  <2>3. QED BY <1>4, <2>1, <2>2
<1>9. QED BY <1>5, <1>6, <1>7, <1>8, LeaseKinds

(* A writer lease is never stray: its holder is the agent its story        *)
(* records as writer, exists and is not closed, and the story still is to  *)
(* be written, although the lease moves while ticks run that are lost.     *)
THEOREM LeaseIsAssigned == Spec => []LeaseFollowsAssignment
<1>1. Init => LeaseFollowsAssignment
  BY DEF Init, LeaseFollowsAssignment
<1>2. Typed /\ Integrated /\ LeaseFollowsAssignment /\ [Next]_vars
        => LeaseFollowsAssignment'
  BY LeaseStep
<1>3. QED BY <1>1, <1>2, AlwaysIntegrated, PTL DEF Spec
==============================================================================
