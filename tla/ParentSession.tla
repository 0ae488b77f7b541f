----------------------------- MODULE ParentSession -----------------------------
(***************************************************************************)
(* What parents ask of one HIGH run, from several Pi sessions at a time:   *)
(* to launch it, its status, which also restarts a dead controller and     *)
(* makes up for a first launch that was deferred, and to pause and resume  *)
(* it; and the controller processes that serve these requests.             *)
(*                                                                         *)
(* A request goes through its steps in a parent's process; between them    *)
(* other parents and the controllers act.  What a controller does in one   *)
(* turn of its event loop (initialize, bind, a control) is one step; the   *)
(* operations of its executor wait in a queue and are answered later.  A   *)
(* request that is refused ends: the parent is told so, and may ask again. *)
(*                                                                         *)
(* The first orchestration tick is followed only until its team is         *)
(* launched; module Orchestration goes on from there.                      *)
(***************************************************************************)
EXTENDS ControllerHost, Sequences

CONSTANTS Parents,    \* the Pi sessions
          Asks,       \* bound: what each of them may ask
          MaxEvents   \* bound: launches and controls asked for, crashes,
                      \* stops, stalls, corruption, failing launches, failing
                      \* or closed management panes

ASSUME NumberedAssumption == Processes \subseteq Nat
ASSUME ParentAssumption   == None \notin Parents
ASSUME AsksAssumption ==
  Asks \in [Parents -> SUBSET {"launch", "status", "pause", "resume"}]
ASSUME BoundAssumption    == MaxEvents \in Nat

VARIABLES
  run,       \* runs.status
  bound,     \* controller_launch_compositions has a row for the run
  roster,    \* of its agents: "none", some "launching", all "launched"
  launches,  \* history: launches that began without an agent
  keys,      \* processed_commands: the controls that were committed
  panes,     \* Herdr: the management panes to the right of the parent pane,
             \* the nearest first, each named after the parent that split it
  gated,     \* the process found a launch to be reconciled when it started
  queue,     \* the executor's operations of each process, in order
  step,      \* of each parent: its request and how far it is
  events     \* how many of what MaxEvents bounds

sessionVars == <<run, bound, roster, launches, keys, panes, gated, queue, step,
                 events>>
vars == <<hostVars, sessionVars>>

At == {"idle", "inspect", "ensure", "starting", "initialize", "bind", "restore",
       "pane", "split", "check", "execute", "resume", "waiting", "record",
       "accepted"}

\* `on`: the process that the request spawned or is connected to; `seen` and
\* `ready`: the lease and the assessment it read in the database; `pane`: the
\* management pane it relies on.
Idle == [at |-> "idle", ask |-> None, on |-> None, seen |-> NoLease,
         ready |-> FALSE, pane |-> None]

Request == [at : At, ask : {"launch", "status", "pause", "resume", None},
            on : Processes \cup {None},
            seen : Lease, ready : BOOLEAN, pane : Parents \cup {None}]

Operation == [kind : {"execute", "restore", "resume"}, by : SUBSET Parents,
              phase : {"queued", "launching", "relaunching", "materialized",
                       "leased"}]

TypeOK ==
  /\ HostTypeOK
  /\ run \in {"none", "ready", "active", "blocked"}
  /\ bound \in BOOLEAN
  /\ roster \in {"none", "launching", "launched"}
  /\ launches \in Nat
  /\ keys \subseteq {"pause", "resume"}
  /\ panes \in Seq(Parents)
  /\ gated \in [Processes -> BOOLEAN]
  /\ queue \in [Processes -> Seq(Operation)]
  /\ step \in [Parents -> Request]
  /\ events \in 0 .. MaxEvents

Init ==
  /\ HostInit
  /\ run = "none" /\ bound = FALSE /\ roster = "none" /\ launches = 0
  /\ keys = {} /\ panes = <<>>
  /\ gated = [p \in Processes |-> FALSE]
  /\ queue = [p \in Processes |-> <<>>]
  /\ step = [r \in Parents |-> Idle]
  /\ events = 0

-----------------------------------------------------------------------------
(* Steps of a request.                                                     *)

\* What is behind element i moves up.
Without(s, i) == [j \in 1 .. Len(s) - 1 |-> s[IF j < i THEN j ELSE j + 1]]

Go(r, at)  == step' = [step EXCEPT ![r].at = at]
End(r)     == step' = [step EXCEPT ![r] = Idle]
Pass(r, ok, at) == IF ok THEN Go(r, at) ELSE End(r)

RunVars     == <<run, bound, roster, launches, keys>>
ProcessVars == <<gated, queue>>

\* What a step of a request that only looks leaves alone.
LooksOnly == UNCHANGED <<hostVars, RunVars, panes, ProcessVars, events>>

Event == events < MaxEvents /\ events' = events + 1

\* What a process that is gone kept in memory.
Forget(p) == /\ gated' = [gated EXCEPT ![p] = FALSE]
             /\ queue' = [queue EXCEPT ![p] = <<>>]

\* Discovery and connection: the descriptor is read unless the database is
\* quarantined, and the path answers.
Server == IF ~marker /\ descriptor # None /\ Accepting(socket) THEN socket
          ELSE None

Connected(r) == step[r].on # None /\ Accepting(step[r].on)

\* currentWrite with an unexpired lease: what a commit needs.
Fenced(p) == lease.owner = p /\ lease.live

\* assessStartupRecovery: an agent whose launch or work was interrupted.
Interrupted == roster # "none"

-----------------------------------------------------------------------------
(* The detached controller supervisor.                                     *)

\* ping: the answer names the descriptor's owner.
Healthy == descriptor # None /\ Server = descriptor

Inspection ==
  CASE descriptor = None  -> "absent"
    [] Healthy            -> "healthy"
    [] Alive(descriptor)  -> "alive-unhealthy"
    [] OTHER              -> "stale"

\* Mutant: the lease of a dead controller is waited for until it is released.
MustWaitForRelease == Inspection = "stale" /\ lease.owner = descriptor

\* The lease that the stale descriptor records has not expired.
MustWait == Inspection = "stale" /\ lease = [owner |-> descriptor, live |-> TRUE]

\* Process numbers are used again once no request refers to them.
Spawnable == {p \in Fresh : \A r \in Parents : /\ step[r].on # p
                                               /\ step[r].seen.owner # p}

\* ensureRunning up to the spawn.
EnsureRunning(r) ==
  /\ step[r].at = "ensure"
  /\ \/ /\ marker \/ Inspection = "alive-unhealthy"
        /\ End(r)
        /\ LooksOnly
     \/ /\ ~marker /\ Inspection = "healthy"
        /\ IF step[r].ask = "launch"
             THEN step' = [step EXCEPT ![r].at = "initialize",
                                       ![r].on = Server]
             ELSE End(r)   \* a competing controller appeared
        /\ LooksOnly
     \/ /\ ~marker /\ Inspection \in {"absent", "stale"} /\ ~MustWait
        /\ \E p \in Spawnable :
             /\ \A q \in Spawnable : p <= q
             /\ Spawn(p)
             /\ step' = [step EXCEPT ![r].at = "starting", ![r].on = p]
        /\ UNCHANGED <<RunVars, panes, ProcessVars, events>>

\* ensureRunning after the spawn: the process answers or has exited.  A status
\* goes on only with a controller that is not gated.
AwaitStart(r) ==
  LET p == step[r].on IN
  /\ step[r].at = "starting"
  /\ (Healthy /\ descriptor = p) \/ ~Alive(p)
  /\ IF step[r].ask = "launch" THEN Pass(r, Alive(p), "initialize")
                               ELSE Pass(r, Alive(p) /\ ~gated[p], "restore")
  /\ LooksOnly

\* A process that does neither, however long the request waits.
Unanswering(p) ==
  \/ marker \/ proc[p] = "stranded"
  \/ proc[p] = "running" /\ ~(Healthy /\ descriptor = p)

\* It does neither in time: SIGTERM, which stops it or, before its handler
\* is installed, kills it.
TimeOut(r) ==
  LET p == step[r].on IN
  /\ step[r].at = "starting" /\ Alive(p)
  /\ IF Unanswering(p) THEN UNCHANGED events ELSE Event
  /\ IF proc[p] = "running" THEN Stop(p) /\ UNCHANGED ProcessVars
                            ELSE Crash(p) /\ Forget(p)
  /\ End(r)
  /\ UNCHANGED <<RunVars, panes>>

-----------------------------------------------------------------------------
(* A launch: the run is saved, its composition bound, the management pane  *)
(* opened, the first tick executed.                                        *)

AskLaunch(r) ==
  /\ step[r].at = "idle" /\ "launch" \in Asks[r]
  /\ Event
  /\ step' = [step EXCEPT ![r].at = "ensure", ![r].ask = "launch"]
  /\ UNCHANGED <<hostVars, RunVars, panes, ProcessVars>>

\* The request carries new event ids and times: a run that exists conflicts.
Initialize(r) ==
  LET ok == Connected(r) /\ Fenced(step[r].on) /\ run = "none" IN
  /\ step[r].at = "initialize"
  /\ run' = IF ok THEN "ready" ELSE run
  /\ Pass(r, ok, "bind")
  /\ UNCHANGED <<hostVars, bound, roster, launches, keys, panes, ProcessVars, events>>

Bind(r) ==
  LET ok == Connected(r) /\ Fenced(step[r].on) IN
  /\ step[r].at = "bind"
  /\ bound' = (bound \/ ok)
  /\ Pass(r, ok, "pane")
  /\ UNCHANGED <<hostVars, run, roster, launches, keys, panes, ProcessVars, events>>

\* The tick of a new run failed: the run is paused, with the reason.
Record(r) ==
  LET ok == Connected(r) /\ Fenced(step[r].on) /\ run \in {"ready", "active"}
  IN
  /\ step[r].at = "record"
  /\ run' = IF ok THEN "blocked" ELSE run
  /\ End(r)
  /\ UNCHANGED <<hostVars, bound, roster, launches, keys, panes, ProcessVars, events>>

-----------------------------------------------------------------------------
(* The management pane, in the parent's process.                           *)

\* A status reads the origin of the pane from the controller first.  One live
\* pane is adopted, several are refused.
ListPanes(r) ==
  /\ step[r].at = "pane"
  /\ IF (step[r].ask = "status" /\ Server = None) \/ Len(panes) > 1
       THEN End(r)
       ELSE IF panes = <<>>
         THEN Go(r, "split")
         ELSE step' = [step EXCEPT ![r].at = "check", ![r].pane = Head(panes)]
  /\ LooksOnly

SplitPane(r) ==
  /\ step[r].at = "split"
  /\ panes' = <<r>> \o panes
  /\ step' = [step EXCEPT ![r].at = "check", ![r].pane = r]
  /\ UNCHANGED <<hostVars, RunVars, ProcessVars, events>>

\* The pane has to be the right sibling of the parent pane when the dashboard
\* is started.
CheckPane(r) ==
  /\ step[r].at = "check"
  /\ Pass(r, panes # <<>> /\ Head(panes) = step[r].pane,
          IF step[r].ask = "launch" THEN "execute" ELSE "resume")
  /\ LooksOnly

\* Herdr fails, or the dashboard does not authenticate in time: no agent is
\* started.
FailPane(r) ==
  /\ step[r].at \in {"pane", "split", "check"}
  /\ Event
  /\ End(r)
  /\ UNCHANGED <<hostVars, RunVars, panes, ProcessVars>>

ClosePane(r) ==
  /\ \E i \in DOMAIN panes : panes[i] = r /\ panes' = Without(panes, i)
  /\ Event
  /\ UNCHANGED <<hostVars, RunVars, ProcessVars, step>>

-----------------------------------------------------------------------------
(* A status: the controller is trusted or restarted, panes are restored,   *)
(* a deferred first tick is resumed.                                       *)

\* What must be in the database, which is verified, for a status to go on.
StatusEvidence ==
  ~marker /\ database = "kept" /\ integrity = "sound" /\ bound

AskStatus(r) ==
  /\ step[r].at = "idle" /\ "status" \in Asks[r]
  /\ StatusEvidence
  /\ step' = [step EXCEPT ![r].at = "inspect", ![r].ask = "status",
                          ![r].seen = lease, ![r].ready = ~Interrupted]
  /\ LooksOnly

\* A live controller is the one of the lease that was read; a dead one may be
\* replaced once nothing speaks for it any more.
Trusted(r, active) ==
  LET seen == step[r].seen IN
  CASE marker -> FALSE
    [] Inspection = "healthy" -> seen = [owner |-> descriptor, live |-> TRUE]
    [] Inspection = "alive-unhealthy" -> FALSE
    [] OTHER -> /\ step[r].ready /\ ~seen.live
                /\ ~active
                /\ descriptor = None \/ seen.owner \in {None, descriptor}

InspectController(r) ==
  LET at == IF Inspection = "healthy" THEN "restore" ELSE "ensure" IN
  /\ step[r].at = "inspect"
  /\ \E active \in Answers(socket) :
       step' = [step EXCEPT ![r] = IF Trusted(r, active)
                                   THEN [Idle EXCEPT !.at = at, !.ask = "status"]
                                   ELSE Idle]
  /\ LooksOnly

Enqueued(p, op) == queue' = [queue EXCEPT ![p] = Append(@, op)]

Waiting(r, p) == step' = [step EXCEPT ![r].at = "waiting", ![r].on = p]

\* A request for an operation of the executor, over a connection of its own.
AskExecutor(r, at, kind) ==
  /\ step[r].at = at
  /\ IF Server = None
       THEN End(r) /\ UNCHANGED queue
       ELSE /\ Waiting(r, Server)
            /\ Enqueued(Server, [kind |-> kind, by |-> {r}, phase |-> "queued"])
  /\ UNCHANGED <<hostVars, RunVars, panes, gated, events>>

RestorePanes(r) == AskExecutor(r, "restore", "restore")

Resumes(p) == \E i \in DOMAIN queue[p] : queue[p][i].kind = "resume"

Shared(ops, r) ==
  [i \in DOMAIN ops |-> IF ops[i].kind = "resume"
                          THEN [ops[i] EXCEPT !.by = @ \cup {r}] ELSE ops[i]]

\* Parents that ask while one resume is in flight share its outcome.
ResumeInitial(r) ==
  IF Server # None /\ Resumes(Server)
    THEN /\ step[r].at = "resume"
         /\ Waiting(r, Server)
         /\ queue' = [queue EXCEPT ![Server] = Shared(@, r)]
         /\ UNCHANGED <<hostVars, RunVars, panes, gated, events>>
    ELSE AskExecutor(r, "resume", "resume")

-----------------------------------------------------------------------------
(* Controls: pause, and resume followed by an execution.                   *)

\* The key of a control is made of its action, run, agent and message: one
\* that was committed before is answered with what was committed then.
Controlled(control) ==
  IF control \in keys THEN run
  ELSE IF control = "pause" THEN "blocked" ELSE "ready"

\* The run the control is for; another status is refused, and the one that
\* the control leads to is acknowledged without a commit.
Applies(control) ==
  IF control = "pause" THEN run \in {"ready", "active"} ELSE run = "blocked"

\* Over a connection of its own, answered in one turn of the controller.
Control(r, control) ==
  LET ok == run # "none" /\ (Applies(control) => Fenced(Server)) IN
  /\ step[r].at = "idle" /\ control \in Asks[r]
  /\ Server # None
  /\ Event
  /\ run'  = IF ok /\ Applies(control) THEN Controlled(control) ELSE run
  /\ keys' = IF ok /\ Applies(control) THEN keys \cup {control} ELSE keys
  /\ step' = IF ok THEN [step EXCEPT ![r].at = "accepted", ![r].ask = control,
                                     ![r].on = Server]
                   ELSE step
  /\ UNCHANGED <<hostVars, bound, roster, launches, panes, ProcessVars>>

\* A pause is done; after a resume the run is executed.
Accepted(r) ==
  /\ step[r].at = "accepted" /\ step[r].ask = "pause"
  /\ End(r)
  /\ LooksOnly

\* Over the connection of the launch or of the resume.
Execute(r) ==
  /\ \/ step[r].at = "execute"
     \/ step[r].at = "accepted" /\ step[r].ask = "resume"
  /\ IF Connected(r)
       THEN /\ Go(r, "waiting")
            /\ Enqueued(step[r].on, [kind |-> "execute", by |-> {r},
                                     phase |-> "queued"])
       ELSE End(r) /\ UNCHANGED queue
  /\ UNCHANGED <<hostVars, RunVars, panes, gated, events>>

LoseConnection(r) ==
  /\ step[r].at = "waiting" /\ ~Connected(r)
  /\ End(r)
  /\ LooksOnly

-----------------------------------------------------------------------------
(* The executor of process p: operation i of its queue.                    *)

\* Mutant: a resume is assessed without waiting for the tick in flight.
TurnOfResumeAtOnce(p, i) == i = 1 \/ queue[p][i].kind = "resume"

\* An operation waits for the one before it.
Turn(p, i) == i = 1

\* The repository is open until the process is gone.
RepositoryOpen(p) == proc[p] \in {"running", "stopping", "failing"}

OperationAt(p, i, phase) == RepositoryOpen(p) /\ queue[p][i].phase = phase

\* The executor writes with the token of its process; the time in it is old.
Writable(p) == lease.owner = p

Advance(p, i, phase) == queue' = [queue EXCEPT ![p][i].phase = phase]

\* What the parent does with the answer.
Answer(r, kind, ok) ==
  CASE kind = "restore" /\ ok ->
         [step[r] EXCEPT !.at = "pane", !.on = None]
    [] kind = "execute" /\ ~ok /\ step[r].ask = "launch" ->
         [step[r] EXCEPT !.at = "record"]
    [] OTHER -> Idle

Answered(p, i, ok) ==
  LET op == queue[p][i] IN
  step' = [r \in Parents |->
             IF r \in op.by /\ step[r].at = "waiting" /\ step[r].on = p
                /\ Accepting(p)
               THEN Answer(r, op.kind, ok) ELSE step[r]]

Leaves(p, i) == queue' = [queue EXCEPT ![p] = Without(@, i)]

Settle(p, i, ok) == Answered(p, i, ok) /\ Leaves(p, i)

OperationOnly ==
  UNCHANGED <<proc, lease, database, astray, marker, socket, descriptor,
              unfenced, bound, keys, panes, gated>>

\* A resume needs a controller that is not gated and whose lease is current.
Authorized(p) == proc[p] = "running" /\ ~gated[p] /\ Fenced(p)

\* assessDeferredInitialResume
Eligible == run = "ready" /\ roster = "none"

\* What the operation finds when its turn has come: nothing to do, a refusal,
\* or a team to launch.
Begin(p, i) ==
  LET op == queue[p][i] IN
  /\ OperationAt(p, i, "queued") /\ Turn(p, i)
  /\ CASE op.kind = "restore" -> Settle(p, i, TRUE)
       [] op.kind = "resume"  ->
            IF Authorized(p) /\ Eligible
              THEN Advance(p, i, "launching") /\ UNCHANGED step
              ELSE Settle(p, i, Authorized(p))
       [] op.kind = "execute" ->
            IF run \in {"ready", "active"} /\ roster # "launched"
              THEN /\ Advance(p, i, IF roster = "none" THEN "launching"
                                                       ELSE "relaunching")
                   /\ UNCHANGED step
              ELSE Settle(p, i, TRUE)
  /\ OperationOnly
  /\ UNCHANGED <<integrity, run, roster, launches, events>>

\* The first agent is persisted.
Materialize(p, i) ==
  /\ OperationAt(p, i, "launching") \/ OperationAt(p, i, "relaunching")
  /\ Writable(p)
  /\ roster' = "launching"
  /\ launches' = launches + (IF queue[p][i].phase = "launching" THEN 1 ELSE 0)
  /\ Advance(p, i, "materialized")
  /\ OperationOnly
  /\ UNCHANGED <<integrity, run, step, events>>

\* A writer has the lease of its story, and the story is not yet its own.
LeaseWriter(p, i) ==
  /\ OperationAt(p, i, "materialized")
  /\ Writable(p)
  /\ integrity' = IF integrity = "sound" THEN "half" ELSE integrity
  /\ Advance(p, i, "leased")
  /\ OperationOnly
  /\ UNCHANGED <<run, roster, launches, step, events>>

\* The tick commits its own copy of the run, over a pause too.
CommitTick(p, i) ==
  /\ OperationAt(p, i, "leased")
  /\ Writable(p)
  /\ integrity' = IF integrity = "half" THEN "sound" ELSE integrity
  /\ run' = "active"
  /\ roster' = "launched"
  /\ Settle(p, i, TRUE)
  /\ OperationOnly
  /\ UNCHANGED <<launches, events>>

\* A provision or a process fails, or the token has been superseded.  What
\* was persisted stays.
FailTick(p, i) ==
  /\ \E phase \in {"launching", "relaunching", "materialized", "leased"} :
       OperationAt(p, i, phase)
  /\ IF Writable(p) THEN Event ELSE UNCHANGED events
  /\ Settle(p, i, FALSE)
  /\ OperationOnly
  /\ UNCHANGED <<integrity, run, roster, launches>>

-----------------------------------------------------------------------------
(* Processes.                                                              *)

\* A start of the controller; before it has the lease it assesses the run,
\* of which a recreated database knows nothing.
StartStep(p) ==
  /\ Starts(p)
  /\ gated' = [gated EXCEPT ![p] =
                 IF proc'[p] = "verified" THEN Interrupted /\ p \notin astray
                                          ELSE @ /\ proc'[p] # "gone"]
  /\ UNCHANGED <<RunVars, panes, queue, step, events>>

\* A renewal that another process's cleanup or descriptor has made visible.
RenewStep(p) ==
  /\ descriptor # p
  /\ Renew(p)
  /\ UNCHANGED <<RunVars, panes, ProcessVars, step, events>>

\* The executor's operations go on until the repository is closed.
StopStep(p) ==
  /\ \/ (FailRenewal(p) \/ RemoveDescriptor(p)) /\ UNCHANGED ProcessVars
     \/ EndStop(p) /\ Forget(p)
  /\ UNCHANGED <<RunVars, panes, step, events>>

StopController(p) ==
  /\ Stop(p)
  /\ Event
  /\ UNCHANGED <<RunVars, panes, ProcessVars, step>>

CrashController(p) ==
  /\ Crash(p) /\ Forget(p)
  /\ Event
  /\ UNCHANGED <<RunVars, panes, step>>

\* The lease of a dead process expires; that of a live one if it stalls.
LapseStep ==
  /\ Lapse
  /\ IF Alive(lease.owner) THEN Event ELSE UNCHANGED events
  /\ UNCHANGED <<RunVars, panes, ProcessVars, step>>

CorruptDisk ==
  /\ database = "kept" /\ integrity # "corrupt"
  /\ Event
  /\ integrity' = "corrupt"
  /\ ChangeIntegrity
  /\ UNCHANGED <<RunVars, panes, ProcessVars, step>>

-----------------------------------------------------------------------------
\* What a parent does without a fault once it has asked.
ParentStep(r) ==
  \/ EnsureRunning(r) \/ AwaitStart(r)
  \/ Initialize(r) \/ Bind(r) \/ Record(r)
  \/ ListPanes(r) \/ SplitPane(r) \/ CheckPane(r)
  \/ InspectController(r) \/ RestorePanes(r) \/ ResumeInitial(r)
  \/ Accepted(r) \/ Execute(r) \/ LoseConnection(r)
  \/ TimeOut(r) /\ UNCHANGED events

Work(p) ==
  \E i \in DOMAIN queue[p] :
    \/ Begin(p, i) \/ Materialize(p, i) \/ LeaseWriter(p, i)
    \/ CommitTick(p, i)
    \/ FailTick(p, i)

\* What a process does without a fault.
ProcessStep(p) ==
  \/ StartStep(p) \/ RenewStep(p) \/ StopStep(p)
  \/ Work(p) /\ UNCHANGED events

Next ==
  \/ \E r \in Parents :
       \/ AskLaunch(r) \/ AskStatus(r)
       \/ \E control \in {"pause", "resume"} : Control(r, control)
       \/ ParentStep(r)
       \/ TimeOut(r) \/ FailPane(r) \/ ClosePane(r)
  \/ \E p \in Processes :
       StartStep(p) \/ RenewStep(p) \/ StopStep(p) \/ Work(p)
       \/ StopController(p) \/ CrashController(p)
  \/ LapseStep \/ CorruptDisk

\* Parents and processes go on, the lease of a dead process expires, and
\* parents keep asking for the status.
Fairness ==
  /\ \A r \in Parents : WF_vars(ParentStep(r) \/ AskStatus(r))
  /\ \A p \in Processes : WF_vars(ProcessStep(p))
  /\ WF_vars(LapseStep /\ UNCHANGED events)

Spec == Init /\ [][Next]_vars /\ Fairness

-----------------------------------------------------------------------------
(* However many parents launch, ask for the status or resume at a time,    *)
(* and whatever becomes of the controllers in between, only one tick ever  *)
(* begins to launch the team of a run that has none.                       *)
FirstLaunchOnce == launches <= 1

\* A controller died after it took the lease and before it wrote the descriptor,
\* which is still that of a controller before it: no status trusts the two.
DiedStarting ==
  /\ descriptor # None /\ lease.owner \notin {None, descriptor}
  /\ ~Alive(lease.owner)

\* Two starts met after the lease of one had lapsed: a controller serves that
\* no socket leads to, and while it lives it is not replaced.
CutOff == \E p \in Processes : proc[p] = "running" /\ socket # p

(* A run that is saved, bound to its composition and ready is launched if  *)
(* a parent keeps asking for its status: the launch was cut off, the pane  *)
(* failed or the controller died, again and again, but not for ever.  It   *)
(* may be blocked instead, its database may have become unreadable, two    *)
(* parents that split the management pane at the same time are in each     *)
(* other's way until one of the panes is closed, a controller that died    *)
(* while it restarted another is replaced by a launch only, and one that   *)
(* lost its socket to another start by none while it lives.                *)
DeferredLaunchHappens ==
  (run = "ready" /\ bound)
    ~> \/ roster # "none"
       \/ run = "blocked"
       \/ marker \/ integrity # "sound"
       \/ Len(panes) > 1
       \/ DiedStarting \/ CutOff

(* A control that is accepted has taken effect.                            *)
ControlTakesEffect ==
  [][\A r \in Parents :
       step[r].at = "idle" /\ step'[r].at = "accepted" =>
         IF step'[r].ask = "pause" THEN run' = "blocked"
                                  ELSE run' \in {"ready", "active"}]_vars
=============================================================================
