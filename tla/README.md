# Agentworks: a TLA+ model of the controller

Agentworks runs a team of coding agents for one *run*: an authoritative
controller process per run, kept in SQLite, launches Pi agents into Herdr panes
and Git worktrees, receives their messages over a Unix socket, and merges what
reviewers approved onto an integration branch. This directory models the parts
of it in which order, failure and concurrency decide whether the result is
right. All paths below are relative to `src/src/` unless they start with `docs/`.

Contents: [Inventory](#inventory) · [Modules](#modules) · [Runs](#runs) ·
[Fairness](#fairness) · [Proofs](#proofs) · [Findings](#findings) ·
[Abstractions](#abstractions-and-what-is-not-modelled) · [Plan](#plan)

## Inventory

| part | state | operations | talks to |
|---|---|---|---|
| Repository (`infrastructure/controller/sqlite-controller-repository.ts`) | `controller_lease`, `runs`, `stories`, `agents`, `controller_events`, `processed_commands`, `agent_launches`, `writer_leases`, restorations | acquire/renew/release controller lease, `initializeRun`, `commitSnapshot`, writer leases, materialize/confirm launch, `assertIntegrity` | called by everything below, in one process, synchronously |
| Runtime (`infrastructure/controller/controller-runtime.ts`) | process state, held lease, startup assessment | `start`, `renewLeaseNow`, `shutdown`, rollback of a failed start | repository, socket server |
| Controller process (`controller/process-entry.ts`) | per-executor promise queue, in-flight requests | parent controls, `run.initialize`, `orchestration.*`, child messages | runtime, loop, lifecycle |
| Scheduling (`domain/scheduling.ts`, `domain/orchestration.ts`, `domain/complexity.ts`) | none | plan of a tick, slot reservation | loop |
| State machines (`domain/controller-state.ts`, `domain/agent-message-state.ts`) | run, story, agent records | transitions, message reducer | all writers |
| Orchestration loop and effects (`application/orchestration/`) | none of its own between ticks | tick, drain, assign, merge, clean up, complete | repository, launch, Git |
| Child lifecycle (`application/orchestration/controller-agent-lifecycle.ts`, `application/controller/agent-message-controller.ts`) | none | commit a message; start/complete work, candidate, review, close | repository, Git |
| Agent launch (`application/launch/`) | coalesced launches, `agent_launches` | identity, worktree, pane, session, lease, materialize, start, confirm, roll back | repository, Git, Herdr |
| Git workspaces (`infrastructure/git/`) | worktrees, branches, merge index | create, candidate, merge, recover, roll back, clean up | `git` |
| Pane restoration (`application/recovery/agent-pane-restoration.ts`) | restoration rows | reserve, replace, confirm | repository, Herdr |
| Idle supervision (`application/orchestration/idle-agent-supervisor.ts`) | nudge counters on agents | nudge, escalate, record a lost pane | repository, Herdr |
| Panes and tabs (`application/herdr/`, `domain/pane-grid.ts`) | Herdr's panes with their tags and tokens | list, split, tag, check the grid; the management pane | Herdr |
| Supervisor, quarantine (`infrastructure/controller/detached-controller-supervisor.ts`, `controller-database-quarantine.ts`) | database file, marker, socket, descriptor | spawn, wait for the lease, clear the socket, quarantine | runtime |
| Protocol and transport (`application/protocol/`, `unix-controller-transport.ts`) | per connection: handshake, pending requests | hello, request, response, idle close | extensions, process |
| Parent extension and gateway (`extension/index.ts`, `parent-management-gateway.ts`) | Pi session entries, request keys | launch, status, pause, resume; initialize/bind/execute/resume-initial | supervisor, transport, Herdr |
| Child extension (`extension/child-mode.ts`) | authenticated flag, client, message queue, flags of the turn | hooks and report tools, one reconnect, lockout, shutdown | transport |
| Notifications, role and plan domain, sandbox, dashboard | mostly none | validation, rendering, command lines | — |

How they interact. Child messages and orchestration requests pass through one
promise queue per executor, so two of *them* never overlap. Parent controls do
not: they load and commit in a single turn of the event loop, at any await of
the operation at the queue's head. A commit replaces the whole aggregate and is
guarded by fence, idempotency key and expected revision; a tick that loses that
race reloads once and commits its own run and stories over the newer revision.
The writer lease, the planned agent, the launch reservation, worktrees and
merges are changed by the *effects* of a tick, in transactions and Git commands
of their own, long before the tick commits the stories they belong to.

What is hard, and so what the properties are about:

- **Repository.** Writes computed before an await, retried commands, two
  controllers around an expiring lease, the retry of a tick whose revision has
  become stale. Correct if an update is lost to nothing but such a retry, within
  one reign, a command counts once, and the history is a sequence of reigns with growing tokens.
- **Launch.** Seven steps, each of which may fail or be cut off by a crash, over
  four stores. Correct if what is left behind is retryable and a lease never
  strays from its assignment, and if the slots of a mode are never exceeded.
- **Review and merge.** Both heads may move between candidate, verdict and
  merge; merge and record are two steps. Correct if exactly what was approved is
  merged, onto exactly what it was approved against, once and for good.
- **Panes.** The user may close any pane, a process may die and the controller
  may crash between any two steps of a launch or a restoration. Correct if each
  pane stands for one agent and one slot, an agent's session runs in one place,
  and a lost pane is made good in its exact slot.
- **Processes of one run.** Several parents may start controllers, each start and
  stop touches lease, socket, descriptor, marker and database in turn, and looks at
  a file before it acts on it. Correct if clients find the controller that serves
  as long as no start outlives its lease, a quarantined database never loses its
  marker, and a first launch that was put off happens once.
- **A child's reports.** Connections are closed by an idle timeout, also while a
  request is handled, and a report is then sent again. Correct if reports keep
  their order, none is lost while the child counts as authenticated, a turn that
  ended is seen to have ended unless its end could not be committed, and a closed agent gets no new session.
- **Progress.** Ticks are driven only by some child messages. Correct if a run
  without failures is delivered without the parent asking again.

`PROJECT.json` lists every hazard at its line with the properties that cover it.

## Modules

| module | role |
|---|---|
| `RunLedger` | abstract: a run is a ledger of commands, appended by the controller in authority: computed from all before, or a tick written over what its own reign appended |
| `ControllerRepository` | lease, fence, runtime and `commitSnapshot` as several controller processes use them; implements `RunLedger` |
| `ControllerRepository_proofs` | TLAPS proofs about it |
| `Scheduling` | the pure functions of a tick |
| `Scheduling_proofs` | TLAPS proofs about them, and about sequences |
| `ControllerState` | the run, story and agent state machines and the message reducer |
| `Integration` | abstract: the integration branch and the reviews it is built from |
| `Orchestration` | one controller process: queue, ticks, launches, child lifecycle, parent controls, crashes; EXTENDS the two above, implements `Integration` |
| `Orchestration_proofs` | TLAPS proofs about it, the refinement included |
| `PaneGrid` | the plan of a grid of 1 to 16 panes as a pure algorithm, `GridSound` its reference definition |
| `AgentSession` | abstract: an agent's Pi session runs in its home pane, which moves only when nothing runs |
| `AgentPanes` | launch, loss and restoration of the panes; implements `AgentSession` for each agent |
| `AgentPanes_proofs` | TLAPS proofs about it, the refinement included |
| `ControllerHost` | the runtime directory of a run and the processes spawned into it |
| `ControllerHost_proofs` | TLAPS proofs about it |
| `ParentSession` | the parents' requests and the controllers that serve them; EXTENDS `ControllerHost`, which it implements |
| `ParentSession_proofs` | TLAPS proofs about it, the refinement included |
| `ChildSession` | child bridge, connection and the controller's handling of a message; EXTENDS `ControllerState` |
| `ChildSession_proofs` | TLAPS proofs about it |
| `MC_*` | instances for TLC |

### ControllerRepository

An aggregate is the *set of commands whose effect it holds* (`applied`): since a
commit replaces all of it, whatever its writer did not see is erased, and a lost
update shows as a missing command. `ledger` is the event history, `commands` the
`processed_commands` rows. Each controller process has its runtime state and
the operation in flight (`work`): `CaptureWrite` (`currentWrite`), `LoadSnapshot`,
then `CommitWork`, `ReplayWork` or `FailWork`, the drain going on with the same
captured write (`NextTick`). `ParentCommand` loads and commits in one step.

Keys in `TickKey` are those of the loop, `orchestrate-r<revision>`. A tick whose
revision is stale (`Overtaken`) is not refused: in the same turn the loop reads the
newer revision and commits its own run and stories over it, under the key of that
revision, and takes of each agent the newer state
(`application/orchestration/orchestration-loop.ts:51-69` and `298-303`). So of what was
committed meanwhile any part survives, `kept` in `RetryTick`; if nothing is left to
be changed it commits nothing (`SkipRetry`), and it fails like any other commit
(`FailWork`). Nobody else retries: messages, lifecycles, supervision and controls pass
the error on. The agents' part of that merge and its consequences for run and
stories are in `Orchestration`.

`Start` reads the clock and `AcquireLease` uses that reading, as `start()` does.
A controller may go on with work in flight while it stops, which the code allows
until the database is closed. The clock is shared and monotone.

### Scheduling and ControllerState

`PlanOrchestration`, `Startable` and `ReserveAgentLaunchCapacity` follow the code
function by function; actions are records `[type, story]`. `Selected` is the
`filter` of the code, as a recursive function so that it can be reasoned about.
The order of the stories is the snapshot's, which is by id. In `ControllerState`,
`RunFrom`/`AgentFrom` are the statuses a transition accepts and `RunTo`/`AgentTo`
what it leads to, and each story transition is an operator on the story record.
Candidate heads and integration heads are numbers.

### Orchestration

`job` is the operation at the head of the executor queue; its `step` says where
it stands. Every action is what happens between two points at which something
else can interleave:

| code | actions |
|---|---|
| `executeCommittedAgentMessage` | `ReceiveMessage`, `ReceiveEvidence` (commit), then the lifecycle |
| lifecycle handlers | `StartWriterWork`, `CompleteWriterWork`, `ReportFailure`, `CloseSettledAgent`, `RecordReview` |
| `#createCandidate` | `ReleaseForCandidate`, `CommitCandidate`, `RecordCandidate`, or `KeepCandidate` |
| tick | `LoadTick`, the effects in order, `CommitTick` / `FailTick`, `QuietTick` |
| merge, cleanup, completion | `StageMerge`, `CommitMerge`, `RecoverMerge`, `CleanUp`, `CompleteRun`, `FailEffect` |
| launch | `ProvisionGit`, `AcquireLease`, `Materialize`, `ConfirmLaunch`; `FailProvision`, `RefuseLaunch`, `FailLaunch` |
| parent and management controls | `ParentControl` |
| process | `Crash`, `Restart` (integrity check, recovery gate) |

A control is enabled only where the operation is suspended (`Suspended`): at the
awaits of authority lookup and of a launch, and between operations. Steps that
run in one turn of the event loop (releasing the lease, committing the
candidate, recording it; staging and committing a merge) can be separated by a
crash only. `job.stale` says that a control committed since the operation
loaded. `Consistent` is the check every commit and every start makes of writer
leases against stories and agents: where it fails the operation throws.

An error ends the operation; if a management client asked for the tick, the run
is blocked by a commit of its own (`TickFails`).

`Faults`, `Messages`, `Verdicts` and `Controls` are constants, so a run can say
what may go wrong in it. They are inputs of the environment only: no action of
the controller depends on them.

### PaneGrid and AgentPanes

`job` is the launch or the restoration at the head of the executor queue. Each of
its steps ends at an await; between two steps panes are closed (`ClosePane`),
processes start, exit or outlive their pane (`PiStarts`, `PiExits`,
`OrphanDies`), the parent restarts an agent, the supervisor records a lost pane,
and the controller crashes and is started again.

| code | actions |
|---|---|
| allocator and `ensure` (`agents-tab-lifecycle.ts`) | `BeginLaunch`, `ListGrid`, `GrowGrid` per split, `TagPanes` |
| `materializeAgentLaunch`, secure launcher, `confirmAgentLaunch` | `Materialize`, `StartPi`, `ConfirmLaunch` |
| `restorePanes` | `BeginRestore`, `Reserve`, `ListGrid`, `GrowGrid`, `TagPanes`, `Bind` per agent, `StartPi`, `ConfirmRestoration` |
| any check that is not passed | `Refuse`; a command that fails: `Fail` |
| `#recordPaneLoss`, parent restart | `RecordPaneLoss`, `RestartControl` |

A pane number that nothing refers to is given again, as Herdr does. What the
coordinator may do is decided on the listing it read first (`job.seen`), however
old. `Recoverable` names the losses the coordinator can make good; `Tagged` the
one interrupted attempt that it refuses.

### ControllerHost and ParentSession

A process goes through the phases below, and between any two of them another process
acts, a crash falls or the lease lapses. Whatever the code looks at before it acts on
it is looked at in a step of its own.

| code | actions |
|---|---|
| `start`: marker, open, verification | `CheckMarker`, `Open` (which creates a missing file), `Verify` |
| the lease | `Acquire`; given back by `RollBack` |
| `removeStaleSocket` | `Look` (does the path exist?), `Probe` (a connection is awaited), `Unlink` (whatever is there by then) |
| `UnixControllerServer.listen`, descriptor | `Listen` (bound), `Serve` (mode set, descriptor written: running) |
| renewal | `Renew`, `FailRenewal` |
| `UnixControllerServer.close` | `Close` in `Stop` and `FailRenewal`: libuv unlinks the path, whoever bound what is there |
| end of `shutdown`, `removeOwnedDescriptor` | `EndStop` (lease, a look at the descriptor), `RemoveDescriptor` (whatever is there by then) |
| `quarantineControllerDatabase` | `Quarantine`, `Mark`, `MoveAside`; not gated by the lease |

A file that is created after the quarantine has moved the database is `recreated`,
and `astray` has the processes that work on it: their lease is that file's and keeps
them apart from nobody. `unfenced` remembers that some start went on though its
lease had lapsed, or in such a file. The start does not look at its lease again
after it acquired it, so nothing but time keeps a slow start from unlinking the
socket of the controller that followed it; `RunningIsReachable` therefore holds while
`~unfenced`. A running controller may stall and lose its lease there too, and any
number of processes start and stop around it. See [Findings](#findings) for what happens otherwise.

`ParentSession` adds the requests of several Pi sessions, each with its step. A
launch is `inspect`, `ensure` (supervisor), `initialize`, `bind`, the management
pane (`ListPanes`, `SplitPane`, `CheckPane`), `record`, `execute`; a status trusts
what it reads in lease, descriptor and socket (`Trusted`), may restart the
controller, restores panes and asks for the first launch if that was put off. `TimeOut` is the end of the
supervisor's patience; where the process it waits for never answers
(`Unanswering`) that is no fault and not bounded. The
executor's operations wait in `queue` and are answered when they are done, unless
the connection is gone by then.

### ChildSession

`outbox` is the promise chain of `reportMessage`, `call` the request under way and
how far it has come, `work` the executor's chain in the controller, `log` the
reports in the order in which they were applied, refused or failed. `Commit` has the
three outcomes of `application/controller/agent-message-controller.ts`: `accepted`; `refused`
by the message's own rules, which revokes the child; and `failed`, when `commitSnapshot`
throws (a lapsed or superseded lease, contradictory writer leases), which is
answered `lifecycle-failed`, records nothing and leaves the child authenticated.
`unrecorded` remembers that this befell the end of an operation. Reports carry a
number (`made`), which is what the properties count by; no action depends on it.

| code | actions |
|---|---|
| `session_start`, lockdown | `Open`, `Connect`, `Hello`, `Take`, `Finish`; `Lockdown` |
| hooks of a turn | `Prompt`, `Progress`, `ToolEnds`, `Settle` |
| the three report tools | `Tool`; their result: `Resolved` |
| `reportMessage` | `Reports`, `Send`, `Lost`, then `Connect` again, or `LockedOut` |
| `session_shutdown` | `Quit`, `Goodbye` |
| server and message controller | `Take`, `Commit`, `Lifecycle` in `Finish`, `Drop` |
| crash of the controller, of the child | `Crash`, `Restart`, `Kill` |

## Runs

| run | instance | distinct states | shows |
|---|---|---|---|
| `repository` | 2 controllers, 3 commands of which 1 a tick, 2 bodies, TTL 2, 4 instants, owners symmetric | 1.2 million | `TypeOK`, `ExactlyOnce`, `FencedHistory`, `LostToTicksOnly`, `NoPreemption`, implements `RunLedger` |
| `faults` | 1 story, advisor, 4 slots, 1 retry, all faults, messages, verdicts, controls | 1.2 million | `TypeOK`, `LeaseFollowsAssignment`, `MergedAsReviewed`, `MergedIsFinal` |
| `pair` | 2 independent stories, whole team, 4 slots, crash and failing launch | 220 thousand | `MergedAsReviewed`, `MergedIsOnMainline`, `CapacityKept`, implements `Integration` |
| `delivery` | 2 dependent stories, no failures, fair | 240 | `DependenciesKept`, `RunDelivered` |
| `panes` | 2 agents, 5 panes, 3 faults, fair | 147 thousand | `TypeOK`, `SlotsUnique`, `RestoredInPlace`, implements `AgentSession`, `RestorationFinishes` |
| `parent` | 2 parents, 3 processes, 4 events, fair | 581 thousand | `TypeOK`, `RunningIsReachable`, `QuarantineHolds`, `FirstLaunchOnce`, `DeferredLaunchHappens` |
| `child` | 4 reports, 2 sessions, 1 closed connection, 1 crash, failing commits, fair | 405 thousand | `TypeOK`, `ReportsInOrder`, `NoReportLost`, `ClosedIsOver`, `RestIsSeen`, `ReportsSettle`, `ClosingEnds` |
| `reopened`, `lost_candidate`, `independent`, `replayed_control`, `revoked` | minimal | — | the [findings](#findings), one property each |

The bounds, and why they are enough:

- `MaxTime`, `LeaseTtl` (ControllerRepository): with a lease of two units and four
  instants a lease is acquired, renewed, expires, and is taken over while its
  old holder's captured write is still in flight. Two controllers suffice for
  every property about a pair of commits; the theorems cover any number.
- Three keys and two bodies: initialization, a command under retry and a tick that
  races it; two bodies make a conflicting retry. The owners are interchangeable,
  which is sound as that run checks no liveness; the only run that does so.
- One story with every fault covers each launch step failing in every state of
  writer and reviewer; two stories cover the race for the integration head. The
  largest instance keeps the real slot count of the LOW mode (4), which the pair
  with a whole team exhausts.
- `MaxRetry = 1` gives a second attempt of each role. A third differs only in its
  number. When all attempts are used up `ProvisionGit` is disabled, which leaves
  that tick waiting; no liveness is claimed with retries.
- Heads are bounded by the behaviour: a story branch gets one commit per
  candidate, the mainline one merge per story.
- Panes: with two agents one pane is the root of the grid and one is split off,
  which is every kind of place; `AgentPanes` assumes
  `GridSound`, which TLC evaluates for all sixteen grids before it starts.
  Three faults lose both panes and crash the restoration. `Finishing` bounds who
  completes, so that a full roster is restored too.
- Parents: three process numbers are a dead controller and two that compete to
  replace it. One session launches the run, the other one asks for its status and
  controls it. Four events are a launch and three faults, controls or launches more,
  where a fault may be a stall that lets the lease of a live process lapse, a crash, a
  failing pane or a failing disk. Requests for the status, renewals and starts are not
  bounded. Beyond the run, TLC checked the same properties with two sessions that ask
  for the status and three events (867 thousand states), and the safety properties of
  `ControllerHost` alone, with three processes and no bound on what befalls them (71
  thousand states).
- Child: four reports are a session's start, a turn's start and two reports of the
  turn, or two sessions; its end and its shutdown come on top. One closed connection and one crash
  make a report fail twice, which is all it may. `MaxReports` stops prompts, tools
  and progress only, never a start, an end of a turn or a shutdown. TLC checked five
  reports as well (1.5 million states). The theorems hold for every bound.

Deadlock is not checked: a run that is completed, cancelled or quarantined, and a
set of controllers that have all stopped, rightly do nothing more.

Each property of a passing run has a mutant in `PROJECT.json`: a one-line bug in
the model (`…Unfenced`, `…AnyHead`, …, defined just before the operator they
mutate) under which that property fails.

## Fairness

`FairSpec` of `Orchestration` (runs `delivery` and `independent`) assumes:

- weak fairness of the operation in progress: promises settle, and the event
  loop carries each to its end when nothing fails;
- weak fairness of the first `orchestration.execute`, which the parent sends once
  it has initialized the run. Later requests are *not* assumed, since the point
  is that child messages drive the run;
- weak fairness of a writer writing;
- strong fairness, per child, of the report that is due (`DueReport`): session
  started, work started, candidate, verdict, shutdown once settled. Strong,
  because other children's operations keep occupying the queue; justified, since
  the queue is first-in first-out and a request in it is never overtaken forever.

Messages beyond those may still be sent, and repeated, at any time.

`AgentPanes`: the job at the head of the queue goes on; a status request, which a
parent repeats, is served in the end (strong, as the queue is first-in first-out);
a process whose start was typed starts, and one whose pane was closed dies. Nobody
is obliged to close panes, finish work or restart an agent.

`ParentSession`: parents and processes go on with what they began, parents keep
asking for the status, and the lease of a dead process expires. Crashes, stalls
and failing panes are bounded, as is every fault: `DeferredLaunchHappens` says
what comes once they end. It names what may stand in the way for good: a second
management pane, a replacement that died between lease and descriptor
(`DiedStarting`), and a controller that serves while no socket leads to it (`CutOff`).

`ChildSession`: a connection delivers or is closed, the executor's chain moves on,
and Pi ends a turn and shuts down when asked. Nothing obliges a crashed controller
to come back, which is why a report may be given up (`ReportsSettle`).

## Proofs

`ControllerRepository_proofs` proves, for every set of controllers, keys and
requests, every TTL and any clock bound, from the assumptions named in
`ControllerRepository` (the absent owner is no owner, the absent request no
request, the initial key is a key, TTL and bound are numbers):

| theorem | statement |
|---|---|
| `TypeCorrect` | `Spec => []TypeOK` |
| `LossesBounded` | `Spec => []LostToTicksOnly` |
| `CommittedOnce` | `Spec => []ExactlyOnce` |
| `ReignsInOrder` | `Spec => []FencedHistory` |
| `LeaseIsSafe` | `Spec => NoPreemption` |
| `RepositoryImplementsLedger` | `Spec => ImplementsRunLedger` |

None of the safety properties is inductive. `IInv` adds what a commit relies on:
revision and ledger grow together, so equal revisions mean an unchanged
aggregate; the work a process loaded is the aggregate of its revision, and while
the process holds the newest token all that was committed since carries that token
too (`WorkSound`); a key is recorded iff it is in the ledger, with its request; a token
that a process holds, or that is in the ledger, is not above the lease's token,
equal tokens mean the same owner, and the row's owner holds the row's token. The
fence then makes the committing process the owner of the newest token, and each
write is sound (`SoundWrite`, `CommitIsSound`): the revision check makes its view the
whole aggregate, or it is a tick over what its own reign has committed since it
loaded. One lemma per group of actions shows `IInv` preserved; the refinement step
uses the same lemma to map each commit to `RunLedger!Commit` or `RunLedger!Overwrite`
and each acquisition to `PassAuthority` or a stutter.

`ControllerHost_proofs`, for every set of processes:

| theorem | statement |
|---|---|
| `HostReachable` | `HostSpec => []RunningIsReachable` |
| `HostQuarantineHolds` | `HostSpec => []QuarantineHolds` |
| `HostInvariance` | `HostSpec => []HostInv`, from which both follow |

`RunningIsReachable` is not inductive. `Apart`, which holds while `~unfenced`, says what
the lease keeps apart: a start between its lease and its service holds the lease
unexpired, so there is one at most; a process that is bound or running is the one at the
path; and while a process has found the socket stale and has yet to unlink it, nobody
is bound or running. The last is what the awaited probe needs: the one process
that could come between must itself be a start with the lease. Nor does anybody's
`Close` hit another: it takes a running process, and a running process is at the
path. `QuarantineHolds` needs that the marker is there before the file is moved
(`Quarantined`), and nothing of the lease.

`ParentSession_proofs`, for every set of parents, processes and requests:

| theorem | statement |
|---|---|
| `SessionTypeCorrect` | `Spec => []TypeOK` |
| `SessionUsesHost` | `Spec => HostSpec` |
| `SessionReachable`, `SessionQuarantineHolds` | the properties of the host, through `SessionUsesHost` |
| `LaunchedOnce` | `Spec => []FirstLaunchOnce` |

`SessionUsesHost` is the refinement: each step of a request or an executor is a step
of the host or leaves the directory alone. `FirstLaunchOnce` follows from
`LaunchesCounted`, a launch has begun exactly if there are agents, and from what
is known of the operation that is under way in each executor (`Executors`).

`ChildSession_proofs`, for every number of reports, sessions and faults:

| theorem | statement |
|---|---|
| `ChildTypeCorrect` | `Spec => []TypeOK` |
| `ReportsStayInOrder` | `Spec => []ReportsInOrder` |
| `NoneIsLost` | `Spec => []NoReportLost` |
| `ClosedStaysOver` | `Spec => []ClosedIsOver` |
| `EndIsSeen` | `Spec => []RestIsSeen` |

The order of `log` alone is not inductive. `Line` puts what was handled, what is in
the controller's chain, the request under way, the queue and the number of reports
made on one ascending line, along which a report only moves forward; `Requests`
says that only the last request in the chain can still be answered and that it is
the one under way; `Phases` when a session is authenticated; `Accounted` that each
report of an authenticated session has its place on the line. The lemmas of the
first two sections (`LineMade`, `LineSent`, `LineTaken`, `LineHandled`, …) say what a
move does, the rest has one lemma per action. `ClosedIsOver` adds `OverInv`: while a
last message waits in the chain no session is open, and a start that was accepted
found an agent that is not closed.

`RestIsSeen` speaks of a child at rest, and says nothing of the turn that leads there.
`RestInv`, which TLC checked in a larger instance than the run's (6 reports, 2 closed
connections), adds three things to the two invariants above. `QueueInv`: a tool's
report is never followed by the start of a turn, since a turn ends only after its
tools have returned. `ChainInv`: the chain holds nothing of an authenticated child but
the request under way, once or twice, and once the end of an operation was handled
the agent is not working, or that end is `unrecorded`. `TurnInv`: of a child that is not in a turn each start in
the queue has an end behind it (`AtRest`); where a tool has reported the end itself,
neither a start waits nor is the agent held to be working, but for an `unrecorded` end,
so that the turn may end without a word (`EndReported`). The exception is the hazard,
not a convenience: the report was made and answered, so nothing repeats it, and
no reconciliation tells the controller later.

`Scheduling_proofs` and `Orchestration_proofs`, for every set of stories, order of
them, acyclic or cyclic dependencies, team, capacity, number of retries, fault,
message, verdict and control:

| theorem | statement |
|---|---|
| `PlanIsDue` | whatever `PlanOrchestration` plans may be planned by the rows it was given |
| `AdmittedDue` | what a tick admits is due, and the team comes first |
| `Typing` | `Spec => []TypeOK` |
| `ReviewedMerges` | `Spec => []MergedAsReviewed` |
| `MergesAreFinal` | `Spec => MergedIsFinal` |
| `DeliveryRefines` | `Spec => ImplementsIntegration` |
| `MergedStories` | `Spec => []MergedIsOnMainline` |
| `DependenciesInOrder` | `Spec => []DependenciesKept`, if `AdvisorUnbound` |
| `CapacityIsKept` | `Spec => []CapacityKept` |
| `LeaseIsAssigned` | `Spec => []LeaseFollowsAssignment` |

The inductive invariant comes in layers, each of which TLC checked on the runs
before it was proved:

- `Typed` says what a row holds in each status, that no agent is left completed, and
  what each step of the operation in progress knows. A type alone does not carry
  over a tick, which writes back rows it loaded long before.
- `Integrated` relates rows, reviews and mainline (`RowsDelivered`), of the database and
  of the copy a tick works on, and the two to each other (`CopyFollows`): the copy
  may be older than the database by what messages committed, but never by a merge,
  since only ticks merge. `TodoDue` says that what is still to be done in the tick is
  due by the copy and, where it counts, by the database. `StagedOnHead` ties the
  staged merge to the head that was reviewed. Reviews, merges and their
  finality follow from this layer alone, and so does the refinement.
- `TeamFirst`: a story is begun only once the whole team was launched, and no action
  for the team comes after one for a story. `MergedIsOnMainline` needs it: cleanup is
  refused by nothing but the order, and an advisor launched later would make the
  worktree of a cleaned up primary story again.
- `CleanedGone`, `DependenciesMerged` and `BranchesFollow` carry the last two of the
  properties about worktrees. `LeaseFollowsAssignment` and `CapacityKept` are
  inductive on top of these layers.

Most of the thirty-odd actions do not matter to most layers. `StepKinds` sorts
every step once: outside a tick (rows stay in their phase or a review approves its
candidate, nobody appears, no worktree is made), beside a suspended tick (which
keeps all it decides by), or within it. The `...Facts` lemmas say what each action
within a tick does, in the terms of the invariant; a layer then has one lemma per
action within a tick and two for all the others.

`DependenciesInOrder` has a hypothesis on the constants: no advisor is in the team, or
the primary story waits for nothing. Without it the property does not hold of
the code; see [Findings](#findings). The runs have a primary story without
dependencies.

`AgentPanes_proofs`, for every number of agents, panes and faults:

| theorem | statement |
|---|---|
| `PanesTyped` | `Spec => []TypeOK` |
| `SlotsAreUnique` | `Spec => []SlotsUnique` |
| `RestoredAreInPlace` | `Spec => []RestoredInPlace` |
| `SessionRefines` | `Spec => ImplementsAgentSession` |

Neither of the two safety properties is inductive, nor is the type of a bound pane.
`IInv` adds three groups, which TLC checked with two agents and with three:

- `Rows` and `Owners`: a launch row is there from the launch on; an agent that waits
  for a replacement has neither an open launch pane nor a process, and a
  command was typed only into the pane of a launch row.
- `Wanted` and `JobKnows`: what the job in progress found out and still relies on after
  its awaits. A listing holds all panes that are open later, since panes are only
  closed meanwhile; a restoration's targets stay on the roster in the slots of
  their rows (`Restores`); each pane of the grid that is still open is in its place
  (`GridOwned`), and while the grid grows no other pane is open.
- That no agent is wanted in two slots, so that the grid has no more places than there
  are agents (`WantFits`).

Most steps only take away: panes are closed or tagged, processes come and go in the
panes of launches, rows record it. `Fades` says so once, and `FadingStep` covers
all of them; the six actions that reserve, list, split, bind, confirm and materialize
have a lemma each. That a missing slot always has a split (`SplitFacts`) follows
from `GridSound`, which is an assumption about the plans, without parameters, that TLC
evaluates: no proof relies on a plan that was not computed. The refinement maps
`Materialize` to `Settle`, `Bind` to `Move`, for which the reservation's evidence
shows that no process is left, `PiStarts` to `Start`, and whatever ends a process to
`Stop` or a stutter.

Every safety and action property that the passing runs check is proved. Liveness
under fairness (`RunDelivered`, `RestorationFinishes`, `DeferredLaunchHappens`,
`ReportsSettle`, `ClosingEnds`) is outside what the prover can do and stays with TLC. So does `GridSound`: it is about all sixteen sizes of
a grid, which TLC evaluates. What a recursive definition computes is proved by
induction in the form of sets (`UpwardInduction`: a set of numbers that holds 0 and
the successor of each of its members holds all), since the library's theorems
take an operator, which the provers cannot instantiate.

## Findings

Each is a passing counterexample of a `violation` run; `PROJECT.json` quotes the
documents.

- **A cancelled run comes back** (`reopened`). `mergeAfterConcurrentChildMessage`
  keeps newer *agents* but writes the tick's own run and stories over what a
  parent control committed during a launch. A pause is lost the same way.
- **A failed reviewer launch deletes the candidate** (`lost_candidate`). The
  rollback of a launch removes the story's worktree and branch although the
  writer's launch created them.
- **Only one of two independent stories is delivered** (`independent`). Both
  branches start at the same integration head. Once the first is merged, the
  candidate of the second is refused, since the new head is no ancestor of its
  branch (and its writer lease is gone already); a candidate made before is
  approved for a head that has moved, and its merge is refused at every tick. No
  code rebases a branch or asks for a new candidate. Dependent stories, which
  start after the merge, are all delivered (`delivery`).
- **A second pause does nothing** (`replayed_control`). The gateway's idempotency key
  is a hash of action, run, agent and message, so the key of a second pause, or
  resume, with the same text is in `processed_commands` already. The recorded result
  comes back and the parent is told that the control was accepted. After pause,
  resume and pause the run is not blocked; after a further real block the resume
  does not work either.
- **A refused repetition locks a child out** (`revoked`). The first attempt of a
  report distinguishes an answer from a lost connection; the second does not. When
  the idle timeout closes a connection during a long tick, the report has been
  committed, its repetition is refused, and the child loses its tools for good.

Further behaviour the models have that a reader should know. No run is spent on
these; each is a hazard in `PROJECT.json`.

- *A slow start removes the socket of a controller that serves.* The start probes the
  socket, awaits the answer and unlinks the path (`controller-runtime.ts:452`, `460`)
  without looking at its lease again. If it stalls there beyond the lease, another
  controller has started meanwhile, and no client finds it: it is alive and
  unhealthy for every status until it is killed. In the same way `server.close()`
  unlinks the path before the inode is compared
  (`unix-controller-transport.ts:270`), although `docs/architecture.md:128` says that
  "cleanup removes only the exact socket inode created by the server": a controller whose
  socket was replaced takes the other's with it when it stops. Both need a lease
  that lapsed during a start (`unfenced`).
- *A start that fails between listen and descriptor stays.* If its socket disappears
  there, the start rolls back, but `close` returns without closing the server, which
  is not marked as listening, and the process lives on (`stranded`).
- *A quarantined database may be replaced by an empty one.* A start looks for the marker
  (`controller-runtime.ts:637`) and then opens the path with an open that creates it
  (`641`); another process may write the marker and move the database in between. The
  docs say of the marker that it prevents "accidental empty-state recreation on retry"
  (`docs/security-model.md:118`). It is `recreated` in `ControllerHost`; what holds is that
  the marker stays, so that later starts refuse both files (`QuarantineHolds`).
- *The end of an operation may never be known.* If the commit of the message fails, the
  child is told `lifecycle-failed` and goes to rest; the agent stays working
  (`unrecorded` in `ChildSession`).
- *A half-launched writer makes the database unreadable.* Lease and assignment are
  persisted while the story is still `ready`; until the tick commits,
  `#assertWriterLeaseSnapshotConsistency` refuses every commit, and after a crash
  `assertIntegrity` reports corruption: the database is quarantined
  (`docs/architecture.md:191` promises otherwise). It is `quarantined` in
  `Orchestration` and the integrity `half` in `ControllerHost`.
- *The primary story is the first by its id*, not by its dependencies: `loadSnapshot` has
  `ORDER BY story_id`, while `domain/scheduling.ts:89` relies on callers that "pass
  them in dependency order". When the team has an advisor and that story waits
  for another one, the advisor's launch makes the story's worktree at head 0. By the time
  its writer starts the branch lacks the merge of the dependency, and the
  candidate is refused for good. `DependenciesKept` and `RunDelivered` both fail on
  such an instance; `DependenciesInOrder` names the condition.
- *Requested changes are never made.* Whichever identity the factory picks, lease or
  materialization refuses it (`docs/next-steps.md:115`).
- *Approvals outlive their heads.* Nothing requests `review-invalidated`.
  `MergeReady` still prevents a wrong merge (run `pair`), at the price of a tick that
  is aborted each time.
- *A pane that was split and never tagged stops the restoration.* The tags in the
  shell's environment are there for that (`docs/architecture.md:113`), but
  `#strictOwnedPanes` asks for tokens, which are written after the last split.
- *Two parents split two management panes*, and each then finds the other's in its
  way (`docs/next-steps.md:20`): the deferred launch waits until one is closed.
- *A replacement that died between lease and descriptor* is never replaced by a
  status (`docs/architecture.md:185`), only by a launch that names the run.
- *A run that was initialized and not bound* has no composition; its status is
  refused for good (`docs/next-steps.md:32`).
- *The recovery gate is never lifted*: after a restart with a working agent the
  process refuses lifecycles and ticks as long as it lives.
- *A tool says "recorded" of a report that was dropped*, when it was queued behind
  the one that locked the child out. A child locked out while it works is neither
  nudged nor does it say that it ends, so its agent stays working.
- *A pause can be lost in a launch's answer*: it says "created and started" although
  another parent paused the run before the first tick.

## Abstractions and what is not modelled

- The contents of aggregates, files, plans and messages; times of records;
  events other than as the ledger.
- In `Orchestration`: the controller lease and its expiry (module
  `ControllerRepository`; here one process at a time), the token and the expiry
  of *writer* leases, panes beyond present or lost (module `AgentPanes`),
  heartbeats, the statuses `waiting`, `reviewing` and `disconnected`, the limit of 32
  ticks of a drain, conflicts of content between merges. A child process is its
  messages (module `ChildSession` has the child); a child whose pane was released
  may still have messages under way, so the model lets it send them.
- Further checks of provisioning (the integration worktree on its branch and at
  the expected head, no unattached story branch elsewhere) are taken to hold:
  nobody else writes these worktrees here. A merge that fails for reasons of
  content is not distinguished from one that is refused: both abort the tick.
- In `AgentPanes`: the statuses of a running agent are one (`live`); labels, ratios
  and geometry are the slot; the evidence of a process is whether it is known and
  alive; the loop's captured write and revision are taken to be current. Writer
  leases and Git are `Orchestration`'s.
- In `ControllerHost`: a process takes the lease at most once, so its number is the
  token (`ControllerRepository` has tokens); a number is used again when nothing
  refers to it. Of a recreated file neither lease nor integrity is kept: what a process
  finds in it is any outcome. The files of the quarantine are moved in one step.
- In `ParentSession`: runs of HIGH complexity, which wait for no approval; a control
  connects and is answered in one step; the lease that a status read is judged when
  it is read; restoring panes succeeds (`AgentPanes` models it); after a restart a
  launched roster counts as interrupted, as one with a working agent does.
- In `ChildSession`: Pi is external and runs a turn's tools concurrently; a heartbeat
  stands for `operation-progress` too; authentication, framing, order numbers and the
  limit of 32 connections are left out, since one client has one request under way;
  a tool's result and its end are one step, as are an answer and its arrival;
  lifecycle, tick and commit may fail for any message; a restored session has the session
  path of the first.
- Not modelled: nudges and escalation of idle agents (times and counters of one
  agent, written by one process), the expiry of writer leases, notifications, the
  prompting of models, role packs and plans, sandbox command lines, rendering.
  `PROJECT.json` gives the reason for each.

## Plan

1. *Done:* `RunLedger` and `ControllerRepository`; `Scheduling`, `ControllerState`,
   `Integration` and `Orchestration`; `PaneGrid`, `AgentSession` and `AgentPanes`;
   `ControllerHost` and `ParentSession`; `ChildSession`.
2. *Done:* proofs of all that the runs check but for liveness.
3. Models next: `WriterLease` (tokens, expiry and renewal against launches and
   candidates) and the clock of idle supervision.
