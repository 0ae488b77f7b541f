------------------------------ MODULE AgentPanes ------------------------------
(***************************************************************************)
(* The Herdr panes of a run's agents and the Pi processes in them: the     *)
(* launch of an agent in the next slot of the grid, the restoration of     *)
(* lost panes in their exact slots, and what happens to panes in between.  *)
(*                                                                         *)
(* Launches and restorations go through the executor's queue one at a      *)
(* time: `job` is the one in progress.  Every step of it is followed by an *)
(* await, during which the user may close a pane, a process may exit or    *)
(* the parent may restart an agent, except between a binding and the next  *)
(* and between the two confirmations of a restored agent, where only a     *)
(* crash can fall.  A job that meets a check it does not pass gives up     *)
(* where it is (Refuse): what it did stays done.                           *)
(*                                                                         *)
(* Herdr and the processes are external: a closed pane is gone once its Pi *)
(* process is, and a number that nothing refers to is used again.          *)
(***************************************************************************)
EXTENDS PaneGrid, FiniteSets, SequencesExt

CONSTANTS Agents,     \* the agents, in the order of their first launch
          Finishing,  \* bound: the agents that complete their work
          MaxPanes,   \* bound: panes that exist or are referred to at a time
          MaxFaults,  \* bound: crashes, closed panes, dead processes,
                      \* failures and restarts by the parent
          None

ASSUME AgentsAssumption == /\ IsFiniteSet(Agents) /\ Agents # {}
                           /\ Agents = 1 .. Cardinality(Agents)
ASSUME BoundAssumption  == /\ Finishing \subseteq Agents
                           /\ MaxPanes \in Nat /\ MaxFaults \in Nat

PaneIds == 1 .. MaxPanes
Slots   == 0 .. Cardinality(Agents) - 1

LaunchRow == [slot : Slots, pane : PaneIds, proc : {"none", "alive", "dead"}]

RestorationRow == [phase : {"reserved", "bound", "confirmed"},
                   replacement : PaneIds \cup {None}]

PaneRow == [agent : Agents \cup {None}, slot : Slots, nonce : BOOLEAN,
            tagged : BOOLEAN, open : BOOLEAN,
            pi : {"none", "typed", "running"}]

ASSUME NoneAssumption   == None \notin Nat \cup LaunchRow \cup RestorationRow

\* All sixteen plans are sound, also those that an instance does not use.
ASSUME PlansAssumption  == GridSound

VARIABLES
  controller,   \* the process: "up", "down", or "gated": a status request of
                \* the parent refuses to start it again
  status,       \* agents.status; "live": idle, working, waiting, blocked
  launch,       \* agent_launches: None, or the slot, the pane and the
                \* recorded processes: "none" until confirmed, then "alive"
                \* while they exist, then "dead"
  restoration,  \* agent_pane_restorations: None, or phase and replacement
  pane,         \* Herdr's panes
  job,          \* the executor operation in progress
  faults        \* faults so far

vars == <<controller, status, launch, restoration, pane, job, faults>>

Status == {"planned", "launching", "live", "disconnected", "completed",
           "closed"}

\* ACTIVE_AGENT_STATUSES: the controller roster.
Active == {a \in Agents : status[a] \in {"launching", "live", "disconnected"}}

\* The agent's pane_id: a lost or closed pane is forgotten.
PaneOf(a) ==
  IF status[a] \in {"launching", "live", "completed"} THEN launch[a].pane
  ELSE None

Steps == {"listed", "decided", "growing", "bind", "provisioned", "start",
          "await", "confirm"}

Idle == [step |-> "idle", agent |-> None, seen |-> {}, want |-> <<>>,
         grid |-> <<>>, todo |-> {}, stale |-> FALSE]

Restoring == job.step # "idle" /\ job.agent = None

-----------------------------------------------------------------------------
(* Herdr.  `nonce`: the pane carries the restoration id of its agent.      *)

Created(a, slot) ==
  [agent |-> a, slot |-> slot, nonce |-> restoration[a] # None,
   tagged |-> FALSE, open |-> TRUE, pi |-> "none"]

Gone == [agent |-> None, slot |-> 0, nonce |-> FALSE, tagged |-> FALSE,
         open |-> FALSE, pi |-> "none"]

Open == {p \in PaneIds : pane[p].open}

\* The number of the next pane that Herdr creates.
FreshIds == {p \in PaneIds :
               /\ pane[p] = Gone
               /\ \A a \in Agents : launch[a] # None => launch[a].pane # p
               /\ p \notin job.seen \cup ToSet(job.grid)}

\* The pane leaves the grid at once, a process in it a little later.
Closed(p) ==
  IF pane[p].pi = "running" THEN [pane[p] EXCEPT !.open = FALSE] ELSE Gone

\* Whether the processes that agent a's launch records are among those of p.
Recorded(a, p) == launch[a] # None /\ launch[a].pane = p

-----------------------------------------------------------------------------
TypeOK ==
  /\ controller \in {"up", "down", "gated"}
  /\ status \in [Agents -> Status]
  /\ launch \in [Agents -> LaunchRow \cup {None}]
  /\ restoration \in [Agents -> RestorationRow \cup {None}]
  /\ pane \in [PaneIds -> PaneRow]
  /\ job \in [step : Steps \cup {"idle"}, agent : Agents \cup {None},
             seen : SUBSET PaneIds, want : Seq(Agents),
             grid : Seq(PaneIds \cup {None}), todo : SUBSET Agents,
             stale : BOOLEAN]
  /\ faults \in 0 .. MaxFaults

Init ==
  /\ controller = "up"
  /\ status = [a \in Agents |-> "planned"]
  /\ launch = [a \in Agents |-> None]
  /\ restoration = [a \in Agents |-> None]
  /\ pane = [p \in PaneIds |-> Gone]
  /\ job = Idle
  /\ faults = 0

-----------------------------------------------------------------------------
(* Restoration: what the durable rows and the listed panes must prove.     *)

Pending == {a \in Active :
              restoration[a] # None /\ restoration[a].phase # "confirmed"}

Reserved(a) == restoration[a] # None /\ restoration[a].phase = "reserved"

\* #roster, and the slots of the roster are 0 .. n - 1.
RosterComplete ==
  /\ \A a \in Active : status[a] = "disconnected" /\ restoration[a] = None
                         => launch[a].proc # "none"
  /\ {launch[a].slot : a \in Active} = 0 .. Cardinality(Active) - 1

\* Mutant: only the launch pane counts, so a replacement whose binding was
\* lost in a crash is a foreign pane.
StrictLaunchPanes(panes) ==
  \A p \in panes :
    /\ pane[p].tagged
    /\ pane[p].agent \in Active
    /\ p = launch[pane[p].agent].pane

\* #strictOwnedPanes: every pane of the run is its agent's launch pane, or a
\* replacement already created for a reservation.
Strict(panes) ==
  /\ \A p \in panes :
       LET a == pane[p].agent IN
       /\ pane[p].tagged
       /\ a \in Active
       /\ pane[p].slot = launch[a].slot
       /\ p # launch[a].pane => Reserved(a) /\ pane[p].nonce
  /\ \A p, q \in panes : pane[p].agent = pane[q].agent => p = q

Owned(a, panes) == \E p \in panes : pane[p].agent = a

\* A reservation set is taken up where it was left.
Resumable(panes) ==
  /\ \A a \in Active \ Pending : launch[a].pane \in panes
  /\ \A a \in Pending :
       IF Reserved(a) THEN launch[a].proc = "dead"
       ELSE launch[a].pane \in panes

Missing(panes) == {a \in Active : ~Owned(a, panes)}

\* Mutant: the prior process is not asked for.
RestorableAnyway(panes) ==
  \A a \in Missing(panes) :
    restoration[a] = None /\ launch[a].proc # "none"

\* A first loss, of a confirmed launch whose processes no longer exist.
Restorable(panes) ==
  \A a \in Missing(panes) :
    restoration[a] = None /\ launch[a].proc = "dead"

Decidable(panes) ==
  /\ RosterComplete
  /\ Strict(panes)
  /\ IF Pending # {} THEN Resumable(panes) ELSE Restorable(panes)

\* The slots of a complete roster are consecutive.
BySlot == [i \in 1 .. Cardinality(Active) |->
             CHOOSE a \in Active : launch[a].slot = i - 1]

NeedsRestore == \E a \in Active : a \in Pending \/ launch[a].pane \notin Open

-----------------------------------------------------------------------------
(* restoreMissingPane.                                                     *)

\* The snapshot is loaded and Herdr lists its panes.
BeginRestore ==
  /\ controller = "up" /\ job = Idle
  /\ NeedsRestore
  /\ job' = [Idle EXCEPT !.step = "listed", !.seen = Open]
  /\ UNCHANGED <<controller, status, launch, restoration, pane, faults>>

\* reserveAgentPaneRestorations: one row for each missing agent, all in one
\* transaction on the revision that was loaded, or the pending rows as found.
Reserve ==
  /\ Restoring /\ job.step = "listed" /\ ~job.stale
  /\ Decidable(job.seen)
  /\ LET targets == IF Pending # {} THEN Pending ELSE Missing(job.seen) IN
       /\ restoration' =
            [a \in Agents |->
               IF a \in targets \ Pending
               THEN [phase |-> "reserved", replacement |-> None]
               ELSE restoration[a]]
       /\ job' = IF targets = {} THEN Idle
                 ELSE [job EXCEPT !.step = "decided", !.todo = targets,
                                  !.want = BySlot]
  /\ UNCHANGED <<controller, status, launch, pane, faults>>

\* The pane that the rows know for a slot; a reserved slot has none yet.
Expected(slot) ==
  IF Restoring
  THEN LET a == job.want[slot + 1]
       IN  IF Reserved(a) THEN None ELSE launch[a].pane
  ELSE LET found == {p \in job.seen \cap Open : pane[p].slot = slot}
       IN  IF found = {} THEN None ELSE CHOOSE p \in found : TRUE

-----------------------------------------------------------------------------
(* AgentsTabLifecycle.ensure.                                              *)

SlotsOf(want) == 0 .. Len(want) - 1

Found(slot) == {p \in Open : pane[p].slot = slot}

\* Panes are owned by the environment of their shell, tagged or not.
GridAcceptable ==
  /\ Len(job.want) \in 1 .. MaxGridPanes
  /\ \A p \in Open : /\ pane[p].slot \in SlotsOf(job.want)
                     /\ job.want[pane[p].slot + 1] = pane[p].agent
  /\ \A slot \in SlotsOf(job.want) :
       /\ Cardinality(Found(slot)) <= 1
       /\ Expected(slot) # None => Found(slot) \subseteq {Expected(slot)}
  /\ Open # {} => Found(0) # {}

\* Mutant: panes are told by what the rows expect, not by their ownership.
ListGridExpected ==
  /\ job.step = "decided"
  /\ job' = [job EXCEPT !.step = "growing",
                        !.grid = [i \in 1 .. Len(job.want) |->
                                    Expected(i - 1)]]
  /\ UNCHANGED <<controller, status, launch, restoration, pane, faults>>

\* A restoration first sees that no control was committed in the meantime.
ListGrid ==
  /\ job.step = "decided" /\ ~(Restoring /\ job.stale)
  /\ GridAcceptable
  /\ job' = [job EXCEPT
               !.step = "growing",
               !.grid = [i \in 1 .. Len(job.want) |->
                           IF Found(i - 1) = {} THEN None
                           ELSE CHOOSE p \in Found(i - 1) : TRUE]]
  /\ UNCHANGED <<controller, status, launch, restoration, pane, faults>>

Full == \A i \in DOMAIN job.grid : job.grid[i] # None

\* The next missing slot in the order of the plan, and the slot it is split
\* off: the tab itself brings the pane of slot 0.
NextSplit ==
  IF job.grid[1] = None THEN <<0, 0>>
  ELSE NextSplitOf(Len(job.grid),
                   {i - 1 : i \in {k \in DOMAIN job.grid : job.grid[k] # None}})

Splittable ==
  NextSplit[2] = 0 \/ job.grid[NextSplit[1] + 1] \in Open

GrowGrid ==
  /\ job.step = "growing" /\ ~Full
  /\ Splittable
  /\ FreshIds # {}
  /\ LET slot == NextSplit[2]
         p    == CHOOSE p \in FreshIds : \A q \in FreshIds : p <= q
     IN  /\ pane' = [pane EXCEPT ![p] = Created(job.want[slot + 1], slot)]
         /\ job' = [job EXCEPT !.grid[slot + 1] = p]
  /\ UNCHANGED <<controller, status, launch, restoration, faults>>

\* The tab must hold these panes and no other when they are tagged.
Exact == Full /\ Open = ToSet(job.grid)

\* Only then does a restoration look whether a survivor was moved.
TagPanes ==
  /\ job.step = "growing" /\ Exact
  /\ pane' = [p \in PaneIds |->
                IF p \in Open THEN [pane[p] EXCEPT !.tagged = TRUE]
                ELSE pane[p]]
  /\ job' = IF ~Restoring THEN [job EXCEPT !.step = "provisioned"]
            ELSE IF \A p \in job.seen : p \in ToSet(job.grid)
            THEN [job EXCEPT !.step = "bind"]
            ELSE Idle
  /\ UNCHANGED <<controller, status, launch, restoration, faults>>

-----------------------------------------------------------------------------
(* The targets of a restoration are bound in slot order, then restarted.   *)

NextIn(agents) ==
  CHOOSE a \in agents :
    \A b \in agents : launch[a].slot <= launch[b].slot

Unbound == {a \in job.todo : Reserved(a)}

\* bindAgentPaneRestoration: reservation, launch row and agent in one
\* transaction.
BindTo(a, p) ==
  /\ restoration' = [restoration EXCEPT
                       ![a] = [phase |-> "bound", replacement |-> p]]
  /\ launch' = [launch EXCEPT ![a].pane = p, ![a].proc = "none"]
  /\ status' = [status EXCEPT ![a] = "launching"]
  /\ job' = IF Unbound = {a} THEN [job EXCEPT !.step = "start"] ELSE job
  /\ UNCHANGED <<controller, pane, faults>>

\* Mutant: the pane is the one that was expected in the slot.
BindExpected ==
  /\ job.step = "bind" /\ Unbound # {}
  /\ LET a == NextIn(Unbound) IN BindTo(a, Expected(launch[a].slot))

\* Mutant: the pane is taken by the agent's place among the targets.
BindByPlace ==
  /\ job.step = "bind" /\ Unbound # {}
  /\ LET a == NextIn(Unbound) IN
       BindTo(a, job.grid[Cardinality({b \in job.todo :
                                        launch[b].slot <= launch[a].slot})])

Bind ==
  /\ job.step = "bind" /\ Unbound # {}
  /\ LET a == NextIn(Unbound) IN BindTo(a, job.grid[launch[a].slot + 1])

\* Every target was bound before a crash.
BoundBefore ==
  /\ job.step = "bind" /\ Unbound = {}
  /\ job' = [job EXCEPT !.step = "start"]
  /\ UNCHANGED <<controller, status, launch, restoration, pane, faults>>

Target == NextIn(job.todo)

\* The pane still is the agent's when its command is to be typed.
Startable == LET p == launch[Target].pane
             IN  p \in Open /\ pane[p].tagged /\ pane[p].agent = Target

\* A process of the very command is adopted, else the command is typed.
StartPi ==
  /\ job.step = "start" /\ Startable
  /\ LET p == launch[Target].pane IN
       pane' = IF pane[p].pi = "running" THEN pane
               ELSE [pane EXCEPT ![p].pi = "typed"]
  /\ job' = [job EXCEPT !.step = "await"]
  /\ UNCHANGED <<controller, status, launch, restoration, faults>>

Visible == LET p == launch[Target].pane
           IN  p \in Open /\ pane[p].pi = "running"

\* confirmAgentLaunch refuses other processes than those it has recorded.
ConfirmLaunch ==
  /\ job.step = "await" /\ Visible
  /\ launch[Target].proc # "dead"
  /\ launch' = [launch EXCEPT ![Target].proc = "alive"]
  /\ job' = IF Restoring THEN [job EXCEPT !.step = "confirm"] ELSE Idle
  /\ UNCHANGED <<controller, status, restoration, pane, faults>>

\* confirmAgentPaneRestoration, a transaction of its own.
ConfirmRestoration ==
  /\ job.step = "confirm"
  /\ restoration' = [restoration EXCEPT ![Target].phase = "confirmed"]
  /\ job' = IF job.todo = {Target} THEN Idle
            ELSE [job EXCEPT !.step = "start", !.todo = @ \ {Target}]
  /\ UNCHANGED <<controller, status, launch, pane, faults>>

-----------------------------------------------------------------------------
(* The launch of an agent.                                                 *)

\* The panes that the allocator discovers by their tokens.
Discovered == {p \in Open : pane[p].tagged}

Expecting == {b \in Agents : PaneOf(b) # None}

\* allocate: the discovered panes are exactly those of the roster and of the
\* agent itself, in the first slots of the grid.
Allocatable(a) ==
  /\ \A p \in Discovered : pane[p].agent \in Expecting \cup {a}
  /\ \A b \in Expecting :
       {p \in Discovered : pane[p].agent = b} = {PaneOf(b)}
  /\ \A p, q \in Discovered : pane[p].agent = pane[q].agent => p = q
  /\ {pane[p].slot : p \in Discovered} = 0 .. Cardinality(Discovered) - 1

\* A tick asks for an agent it does not have, or for one whose launch a
\* failure left half done.
BeginLaunch(a) ==
  /\ controller = "up" /\ job = Idle
  /\ \/ status[a] = "launching" /\ restoration[a] = None
     \/ status[a] = "planned" /\ \A b \in 1 .. a - 1 : status[b] # "planned"
  /\ Allocatable(a)
  /\ LET At(slot) == CHOOSE p \in Discovered : pane[p].slot = slot
         agents   == [i \in 1 .. Cardinality(Discovered) |->
                        pane[At(i - 1)].agent]
     IN  job' = [Idle EXCEPT
                   !.step = "decided", !.agent = a, !.seen = Discovered,
                   !.todo = {a},
                   !.want = IF a \in ToSet(agents) THEN agents
                            ELSE Append(agents, a)]
  /\ UNCHANGED <<controller, status, launch, restoration, pane, faults>>

Place       == CHOOSE i \in DOMAIN job.want : job.want[i] = job.agent
Provisioned == job.grid[Place]

\* #assertAgentPaneSlotAvailable.
SlotFree ==
  \A b \in Agents \ {job.agent} :
    launch[b] # None /\ status[b] # "closed"
      => launch[b].slot # Place - 1

Materializable ==
  /\ SlotFree
  /\ status[job.agent] = "launching" => launch[job.agent].pane = Provisioned
  /\ status[job.agent] \in {"planned", "launching"}

\* materializeAgentLaunch: the agent and its launch row in one transaction.
Materialized ==
  /\ status' = [status EXCEPT ![job.agent] = "launching"]
  /\ launch' = IF launch[job.agent] # None THEN launch
               ELSE [launch EXCEPT
                       ![job.agent] = [slot |-> Place - 1,
                                       pane |-> Provisioned,
                                       proc |-> "none"]]
  /\ job' = [job EXCEPT !.step = "start"]
  /\ UNCHANGED <<controller, restoration, pane, faults>>

Materialize == job.step = "provisioned" /\ Materializable /\ Materialized

-----------------------------------------------------------------------------
(* A job that gives up: at a check it does not pass, or because Herdr or   *)
(* the creation of the private session fails.                              *)

CanGoOn ==
  CASE job.step = "listed"      -> ~job.stale /\ Decidable(job.seen)
    [] job.step = "decided"     -> ~(Restoring /\ job.stale) /\ GridAcceptable
    [] job.step = "growing"     -> IF Full THEN Exact ELSE Splittable
    [] job.step = "provisioned" -> Materializable
    [] job.step = "start"       -> Startable
    [] job.step = "await"       -> Visible /\ launch[Target].proc # "dead"
    [] OTHER                    -> TRUE

\* Only the pane of an agent that is not materialized is released, whether
\* this job created it or found it.
GiveUp ==
  /\ job' = Idle
  /\ pane' = IF job.step = "provisioned" /\ Provisioned \in Open
             THEN [pane EXCEPT ![Provisioned] = Closed(Provisioned)]
             ELSE pane
  /\ UNCHANGED <<controller, status, launch, restoration>>

Refuse == job # Idle /\ ~CanGoOn /\ GiveUp /\ UNCHANGED faults

Fault == faults < MaxFaults /\ faults' = faults + 1

Fail == job.step \notin {"idle", "bind", "confirm"} /\ GiveUp /\ Fault

-----------------------------------------------------------------------------
(* The agents, their processes, the parent and the controller process.     *)

Running(a) == \E p \in PaneIds : pane[p].agent = a /\ pane[p].pi = "running"

\* A child message passes through the executor's queue too.
Handled(a, from, to) ==
  /\ controller = "up" /\ job = Idle
  /\ status[a] = from /\ Running(a)
  /\ status' = [status EXCEPT ![a] = to]
  /\ UNCHANGED <<controller, launch, restoration, pane, job, faults>>

SessionStarted(a) == Handled(a, "launching", "live")
Complete(a)       == a \in Finishing /\ Handled(a, "live", "completed")
ShutDown(a)       == Handled(a, "completed", "closed")

PiStarts(p) ==
  /\ p \in Open /\ pane[p].pi = "typed"
  /\ pane' = [pane EXCEPT ![p].pi = "running"]
  /\ UNCHANGED <<controller, status, launch, restoration, job, faults>>

Exited(p) ==
  launch' = [a \in Agents |->
               IF Recorded(a, p) /\ launch[a].proc = "alive"
               THEN [launch[a] EXCEPT !.proc = "dead"] ELSE launch[a]]

\* The session ends itself once its agent is done, else it fails.
PiExits(p) ==
  /\ p \in Open /\ pane[p].pi = "running"
  /\ IF status[pane[p].agent] \in {"completed", "closed"}
     THEN UNCHANGED faults ELSE Fault
  /\ pane' = [pane EXCEPT ![p].pi = "none"]
  /\ Exited(p)
  /\ UNCHANGED <<controller, status, restoration, job>>

ClosePane(p) ==
  /\ p \in Open /\ Fault
  /\ pane' = [pane EXCEPT ![p] = Closed(p)]
  /\ UNCHANGED <<controller, status, launch, restoration, job>>

OrphanDies(p) ==
  /\ p \in PaneIds \ Open /\ pane[p].pi = "running"
  /\ pane' = [pane EXCEPT ![p] = Gone]
  /\ Exited(p)
  /\ UNCHANGED <<controller, status, restoration, job, faults>>

\* The supervisor finds the pane of an idle agent it wants to nudge gone.
RecordPaneLoss(a) ==
  /\ controller = "up" /\ job = Idle
  /\ status[a] = "live" /\ launch[a].pane \notin Open
  /\ status' = [status EXCEPT ![a] = "disconnected"]
  /\ UNCHANGED <<controller, launch, restoration, pane, job, faults>>

\* The parent's restart commits pane-lost at any await of the job.  The pane
\* itself stays: the parent looks for it in the row that has just lost it.
RestartControl(a) ==
  /\ controller = "up" /\ job.step \notin {"bind", "confirm"}
  /\ status[a] \in {"launching", "live"} /\ Fault
  /\ status' = [status EXCEPT ![a] = "disconnected"]
  /\ job' = [job EXCEPT !.stale = job.step \in {"listed", "decided"}]
  /\ UNCHANGED <<controller, launch, restoration, pane>>

\* A launching agent closes the recovery gate, and so does one at work.
Crash ==
  /\ controller = "up" /\ Fault
  /\ job' = Idle
  /\ controller' \in
       IF \E a \in Agents : status[a] = "launching" THEN {"gated"}
       ELSE IF \E a \in Agents : status[a] = "live" THEN {"down", "gated"}
       ELSE {"down"}
  /\ UNCHANGED <<status, launch, restoration, pane>>

\* A status request of the parent.
StartAgain ==
  /\ controller = "down" /\ controller' = "up"
  /\ UNCHANGED <<status, launch, restoration, pane, job, faults>>

\* A launch request that names the run starts the process unasked.
StartByLaunch ==
  /\ controller = "gated" /\ controller' = "up"
  /\ UNCHANGED <<status, launch, restoration, pane, job, faults>>

-----------------------------------------------------------------------------
JobStep == Reserve \/ ListGrid \/ GrowGrid \/ TagPanes \/ Bind \/ BoundBefore
             \/ StartPi \/ ConfirmLaunch \/ ConfirmRestoration
             \/ Materialize \/ Refuse

Child(a) == SessionStarted(a) \/ Complete(a) \/ ShutDown(a)

Herdr(p) == PiStarts(p) \/ PiExits(p) \/ ClosePane(p) \/ OrphanDies(p)

Next ==
  \/ JobStep \/ Fail
  \/ BeginRestore
  \/ \E a \in Agents : BeginLaunch(a) \/ Child(a) \/ RecordPaneLoss(a)
                         \/ RestartControl(a)
  \/ \E p \in PaneIds : Herdr(p)
  \/ Crash \/ StartAgain \/ StartByLaunch

\* A job at the head of the queue goes on, a status request is repeated until
\* it is served (the queue is first in, first out), and processes start and
\* die in finite time.
Fairness ==
  /\ WF_vars(JobStep)
  /\ SF_vars(BeginRestore)
  /\ WF_vars(StartAgain)
  /\ WF_vars(\E p \in PaneIds : PiStarts(p))
  /\ WF_vars(\E p \in PaneIds : OrphanDies(p))

Spec == Init /\ [][Next]_vars /\ Fairness

-----------------------------------------------------------------------------
\* No two open panes stand for one agent or one slot of the grid, and no two
\* agents that are not closed are promised one slot (ensure adopts what a
\* crashed attempt created, materializeAgentLaunch checks the slot).
SlotsUnique ==
  /\ \A p, q \in Open :
       pane[p].agent = pane[q].agent \/ pane[p].slot = pane[q].slot => p = q
  /\ \A a, b \in Agents :
       /\ launch[a] # None /\ launch[b] # None
       /\ "closed" \notin {status[a], status[b]}
       /\ launch[a].slot = launch[b].slot
       => a = b

\* An agent's launch row points at a pane of that agent in the agent's slot,
\* also when the restoration that bound it was taken up after a crash; a
\* bound replacement carries the restoration's nonce.
RestoredInPlace ==
  \A a \in Agents :
    launch[a] # None /\ launch[a].pane \in Open
      => LET p == pane[launch[a].pane] IN
         /\ p.agent = a /\ p.slot = launch[a].slot
         /\ restoration[a] # None /\ restoration[a].phase # "reserved"
              => p.nonce /\ restoration[a].replacement = launch[a].pane

\* The Pi processes of an agent that somebody can know of: a process that
\* was typed by a failed attempt and dies with its closed pane is recorded
\* nowhere and leaves no trace.
Known(a) == {p \in PaneIds : /\ pane[p].agent = a /\ pane[p].pi = "running"
                             /\ \/ p \in Open
                                \/ Recorded(a, p) /\ launch[a].proc = "alive"}

\* They run nowhere but in the pane of the launch row, and that pane is
\* replaced only when none is left (the process evidence asked for before a
\* reservation and again when it is taken up).
Session == INSTANCE AgentSession
             WITH Panes <- PaneIds, live <- [a \in Agents |-> Known(a)],
                  home <- [a \in Agents |-> IF launch[a] = None THEN None
                                            ELSE launch[a].pane]

ImplementsAgentSession == Session!Spec

\* The losses that the restoration is made for: of agents whose launch was
\* confirmed and who were not restored before, with the root pane in place
\* or no pane at all, no pane of another agent, the slots complete, and a
\* controller that a status request may start.
Recoverable ==
  /\ controller # "gated"
  /\ RosterComplete
  /\ Open # {} => \E p \in Open : pane[p].slot = 0
  /\ \A p \in Open :
       LET a == pane[p].agent IN
       /\ a \in Active
       /\ p # launch[a].pane => Reserved(a) /\ pane[p].nonce
  /\ \A a \in Active :
       IF a \in Pending
       THEN \/ Reserved(a)
            \/ launch[a].pane \in Open /\ launch[a].proc # "dead"
       ELSE \/ launch[a].pane \in Open
            \/ /\ Pending = {} /\ restoration[a] = None
               /\ launch[a].proc # "none"

\* No attempt stopped between the creation of a pane and its tokens.
Tagged == \A p \in Open : pane[p].tagged \/ job.step = "growing"

\* Such a loss is made good, through crashes of the controller and after
\* attempts that gave up, unless a further loss is not of this kind.
RestorationFinishes ==
  NeedsRestore ~> ~NeedsRestore \/ ~(Recoverable /\ Tagged)
=============================================================================
